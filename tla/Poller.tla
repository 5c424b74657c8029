------------------------------- MODULE Poller -------------------------------
(***************************************************************************)
(* EPollPoller and Channel, above the kernel's epoll instance.             *)
(*                                                                         *)
(* The owner of the loop polls ("poll"), calls handleEvent() of the active *)
(* channels ("events") and runs the pending functors ("pending"). In the   *)
(* last two, callbacks create channels, change their events, remove and    *)
(* destroy them. The classes above Channel keep two rules, which are       *)
(* guards here: two channels of one descriptor are never registered        *)
(* together (Connector removes its channel before the TcpConnection makes  *)
(* one), and a channel is destroyed only after remove(). UdpSocket keeps   *)
(* the first, and its destructor closes the descriptor instead. Of a       *)
(* Connector destroyed during an attempt, which breaks the second, see     *)
(* Connector (useAfterFree).                                               *)
(*                                                                         *)
(* Functors destroy channels (resetChannel(), connectDestroyed()), and so  *)
(* do handlers, in ~TcpServer(), ~Acceptor() and ~UdpSocket(): loop() may  *)
(* then call a channel that is gone, which ends the behaviour ("dead").    *)
(***************************************************************************)
EXTENDS Naturals, FiniteSets

CONSTANTS
  Chans,       \* Channel objects; an address may be used again
  UdpChans,    \* those a UdpSocket may create
  Fds,
  NoChan,      \* no channel
  Interests,   \* kReadEvent and kWriteEvent
  kInitEventListSize

ASSUME NoChanAssumption == NoChan \notin Chans
ASSUME UdpAssumption == UdpChans \subseteq Chans
ASSUME FdsAssumption == Fds # {}
ASSUME InterestsAssumption == Interests # {}
ASSUME HupAssumption == "hup" \notin Interests
ASSUME SizeAssumption == kInitEventListSize \in Nat \ {0}

\* What the kernel reports: EPOLLHUP and EPOLLERR need no interest.
Conditions == Interests \cup {"hup"}

VARIABLES
  lpc,
  alive,         \* the Channel objects that exist
  freed,         \* history: destroyed since poll(), by handlers, and not made again
  udp,           \* those that belong to a UdpSocket
  fd_, events_, index_,
  channels_,     \* Poller's map from descriptors to channels
  open,          \* open descriptors
  registered,    \* descriptors in the epoll set
  interest,      \* events given to epoll_ctl()
  ptr,           \* event.data.ptr
  io,            \* what has happened on each descriptor (level-triggered)
  activeChannels_,
  eventsSize,    \* size of the poller's array of epoll_events
  ctlFailed      \* an epoll_ctl() has failed, which ends the program

chanVars == <<alive, udp, fd_, events_, index_, channels_>>
epollVars == <<registered, interest, ptr>>
vars == <<lpc, freed, chanVars, open, epollVars, io, activeChannels_, eventsSize, ctlFailed>>

TypeOK ==
  /\ lpc \in {"poll", "events", "pending", "dead"}
  /\ alive \subseteq Chans /\ udp \subseteq alive /\ freed \subseteq Chans
  /\ fd_ \in [Chans -> Fds]
  /\ events_ \in [Chans -> SUBSET Interests]
  /\ index_ \in [Chans -> {"kNew", "kAdded", "kDeleted"}]
  /\ channels_ \in [Fds -> Chans \cup {NoChan}]
  /\ open \subseteq Fds /\ registered \subseteq Fds
  /\ interest \in [Fds -> SUBSET Interests]
  /\ ptr \in [Fds -> Chans \cup {NoChan}]
  /\ io \in [Fds -> SUBSET Conditions]
  /\ activeChannels_ \subseteq Chans
  /\ eventsSize \in Nat \ {0}
  /\ ctlFailed \in BOOLEAN

AnyFd == CHOOSE f \in Fds : TRUE

Init ==
  /\ lpc = "pending" /\ activeChannels_ = {}
  /\ alive = {} /\ udp = {} /\ freed = {}
  /\ fd_ = [c \in Chans |-> AnyFd]
  /\ events_ = [c \in Chans |-> {}]
  /\ index_ = [c \in Chans |-> "kNew"]
  /\ channels_ = [f \in Fds |-> NoChan]
  /\ open = {} /\ registered = {}
  /\ interest = [f \in Fds |-> {}]
  /\ ptr = [f \in Fds |-> NoChan]
  /\ io = [f \in Fds |-> {}]
  /\ eventsSize = kInitEventListSize /\ ctlFailed = FALSE

-----------------------------------------------------------------------------
(***************************************************************************)
(* The kernel: epoll_ctl(), which fails on a second ADD and on a MOD or    *)
(* DEL of a descriptor that is not in the set, and close().                *)
(***************************************************************************)
Forget(f) ==
  /\ registered' = registered \ {f}
  /\ interest' = [interest EXCEPT ![f] = {}]
  /\ ptr' = [ptr EXCEPT ![f] = NoChan]

Store(f, c, evs) ==
  /\ registered' = registered \cup {f}
  /\ interest' = [interest EXCEPT ![f] = evs]
  /\ ptr' = [ptr EXCEPT ![f] = c]

CloseFd(f) ==
  /\ open' = open \ {f}
  /\ Forget(f)
  /\ io' = [io EXCEPT ![f] = {}]

EpollAdd(f, c, evs) ==
  /\ Store(f, c, evs)
  /\ ctlFailed' = (ctlFailed \/ f \in registered \/ f \notin open)

EpollMod(f, c, evs) ==
  /\ interest' = [interest EXCEPT ![f] = evs]
  /\ ptr' = [ptr EXCEPT ![f] = c]
  /\ ctlFailed' = (ctlFailed \/ f \notin registered)
  /\ UNCHANGED registered

EpollDel(f) ==
  /\ Forget(f)
  /\ ctlFailed' = (ctlFailed \/ f \notin registered)

-----------------------------------------------------------------------------
(***************************************************************************)
(* Channel's operations, called from callbacks.                            *)
(***************************************************************************)
InCallback == ~ctlFailed /\ lpc \in {"events", "pending"}

\* The other channels of c's descriptor are not registered.
SoleUser(c, f) == \A d \in alive \ {c} : fd_[d] = f => index_[d] = "kNew"

NewChannel(c, f) ==
  /\ InCallback
  /\ c \notin alive
  /\ SoleUser(c, f)
  /\ alive' = alive \cup {c} /\ freed' = freed \ {c}
  /\ fd_' = [fd_ EXCEPT ![c] = f]
  /\ events_' = [events_ EXCEPT ![c] = {}]
  /\ index_' = [index_ EXCEPT ![c] = "kNew"]
  /\ open' = open \cup {f}
  /\ UNCHANGED <<lpc, udp, channels_, epollVars, io, activeChannels_, eventsSize, ctlFailed>>

\* EPollPoller::updateChannel(), after one of the setters of events_.
UpdateChannel(c, evs) ==
  LET f == fd_[c]
      SetIndex(i) == index_' = [index_ EXCEPT ![c] = i]
  IN /\ events_' = [events_ EXCEPT ![c] = evs]
     /\ channels_' = IF index_[c] = "kNew" THEN [channels_ EXCEPT ![f] = c] ELSE channels_
     /\ \/ index_[c] # "kAdded" /\ SetIndex("kAdded") /\ EpollAdd(f, c, evs)
        \/ index_[c] = "kAdded" /\ evs = {} /\ SetIndex("kDeleted") /\ EpollDel(f)
        \/ index_[c] = "kAdded" /\ evs # {} /\ UNCHANGED index_ /\ EpollMod(f, c, evs)

\* enableReading(), disableReading(), enableWriting(), disableWriting() and
\* disableAll().
SetEvents(c) ==
  /\ InCallback
  /\ c \in alive \ udp
  /\ fd_[c] \in open
  /\ SoleUser(c, fd_[c])
  /\ \E evs \in {events_[c] \cup {e} : e \in Interests}
                  \cup {events_[c] \ {e} : e \in Interests} \cup {{}} :
       UpdateChannel(c, evs)
  /\ UNCHANGED <<lpc, freed, alive, udp, fd_, open, io, activeChannels_, eventsSize>>

\* Mutant of RemoveFromEpoll: never.
RemoveFromEpollNever(c) == UNCHANGED <<epollVars, ctlFailed>>

RemoveFromEpoll(c) ==
  IF index_[c] = "kAdded" THEN EpollDel(fd_[c])
                          ELSE UNCHANGED <<epollVars, ctlFailed>>

\* Channel::remove(), EPollPoller::removeChannel().
Remove(c) ==
  /\ InCallback
  /\ c \in alive \ udp
  /\ SoleUser(c, fd_[c])
  /\ channels_' = [channels_ EXCEPT ![fd_[c]] = NoChan]
  /\ RemoveFromEpoll(c)
  /\ index_' = [index_ EXCEPT ![c] = "kNew"]
  /\ UNCHANGED <<lpc, freed, alive, udp, fd_, events_, open, io, activeChannels_, eventsSize>>

\* ~Channel(), in a handler or in a functor: what its members held is forgotten.
Freed(c) ==
  /\ alive' = alive \ {c} /\ udp' = udp \ {c}
  /\ freed' = IF lpc = "events" THEN freed \cup {c} ELSE freed
  /\ fd_' = [fd_ EXCEPT ![c] = AnyFd]
  /\ events_' = [events_ EXCEPT ![c] = {}]
  /\ index_' = [index_ EXCEPT ![c] = "kNew"]

\* The Channel's owner destroys it.
Destroy(c) ==
  /\ InCallback
  /\ c \in alive
  /\ index_[c] = "kNew"
  /\ Freed(c)
  /\ UNCHANGED <<lpc, channels_, open, epollVars, io, activeChannels_, eventsSize, ctlFailed>>

\* UdpSocket::start() creates a channel and enables reading.
UdpStart(c, f) ==
  /\ InCallback
  /\ c \in UdpChans \ alive
  /\ f \notin open /\ SoleUser(c, f)
  /\ alive' = alive \cup {c} /\ udp' = udp \cup {c} /\ freed' = freed \ {c}
  /\ fd_' = [fd_ EXCEPT ![c] = f]
  /\ open' = open \cup {f}
  /\ events_' = [events_ EXCEPT ![c] = {CHOOSE e \in Interests : TRUE}]
  /\ index_' = [index_ EXCEPT ![c] = "kAdded"]
  /\ channels_' = [channels_ EXCEPT ![f] = c]
  /\ Store(f, c, events_'[c])
  /\ ctlFailed' = (f \in registered)
  /\ UNCHANGED <<lpc, io, activeChannels_, eventsSize>>

\* Mutant of UdpDestroy: the descriptor is left open.
UdpDestroyOpen(c) ==
  /\ InCallback
  /\ c \in udp
  /\ Freed(c)
  /\ UNCHANGED <<lpc, channels_, open, epollVars, io, activeChannels_, eventsSize, ctlFailed>>

\* ~UdpSocket() closes the descriptor and destroys the channel, which stays in
\* channels_.
UdpDestroy(c) ==
  /\ InCallback
  /\ c \in udp
  /\ CloseFd(fd_[c])
  /\ Freed(c)
  /\ UNCHANGED <<lpc, channels_, activeChannels_, eventsSize, ctlFailed>>

\* The owner of a descriptor closes it when no channel of it is registered.
Close(f) ==
  /\ InCallback
  /\ f \in open
  /\ \A c \in alive : fd_[c] = f => index_[c] = "kNew"
  /\ CloseFd(f)
  /\ UNCHANGED <<lpc, freed, chanVars, activeChannels_, eventsSize, ctlFailed>>

-----------------------------------------------------------------------------
(***************************************************************************)
(* The loop.                                                               *)
(***************************************************************************)

\* What epoll_wait() would report for a descriptor.
Revents(f) == IF f \in registered THEN io[f] \cap (interest[f] \cup {"hup"}) ELSE {}

Ready == {f \in Fds : Revents(f) # {}}

\* Mutant of GrownSize: the array is never resized.
GrownSizeFixed(n) == eventsSize

\* The size of events_ after n events.
GrownSize(n) == IF n = eventsSize THEN 2 * eventsSize ELSE eventsSize

fillActiveChannels(reported) == activeChannels_' = {ptr[f] : f \in reported}

\* epoll_wait() reports as many ready descriptors as fit.
Poll ==
  /\ ~ctlFailed /\ lpc = "poll"
  /\ \E reported \in SUBSET Ready :
       /\ Cardinality(reported) <= eventsSize
       /\ reported = Ready \/ Cardinality(reported) = eventsSize
       /\ fillActiveChannels(reported)
       /\ eventsSize' = GrownSize(Cardinality(reported))
  /\ lpc' = "events"
  /\ UNCHANGED <<freed, chanVars, open, epollVars, io, ctlFailed>>

\* epoll_wait() fails with EINTR: nothing is reported.
PollInterrupted ==
  /\ ~ctlFailed /\ lpc = "poll"
  /\ activeChannels_' = {}
  /\ lpc' = "events"
  /\ UNCHANGED <<freed, chanVars, open, epollVars, io, eventsSize, ctlFailed>>

\* handleEvent() of c has returned: c is on the list until then. An object
\* made meanwhile at the address of a destroyed one has revents_ 0 and does
\* nothing.
HandleEvent(c) ==
  /\ ~ctlFailed /\ lpc = "events"
  /\ c \in activeChannels_ \cap alive
  /\ activeChannels_' = activeChannels_ \ {c}
  /\ UNCHANGED <<lpc, freed, chanVars, open, epollVars, io, eventsSize, ctlFailed>>

\* A channel that its own handler, or an earlier one, has destroyed.
HandleDead(c) ==
  /\ ~ctlFailed /\ lpc = "events"
  /\ c \in activeChannels_ \ alive
  /\ lpc' = "dead"
  /\ UNCHANGED <<freed, chanVars, open, epollVars, io, activeChannels_, eventsSize, ctlFailed>>

EventsHandled ==
  /\ ~ctlFailed /\ lpc = "events"
  /\ activeChannels_ = {}
  /\ lpc' = "pending" /\ freed' = {}
  /\ UNCHANGED <<chanVars, open, epollVars, io, activeChannels_, eventsSize, ctlFailed>>

PendingDone ==
  /\ ~ctlFailed /\ lpc = "pending"
  /\ lpc' = "poll"
  /\ UNCHANGED <<freed, chanVars, open, epollVars, io, activeChannels_, eventsSize, ctlFailed>>

\* The peers and the callbacks change what a descriptor is ready for: at any
\* time, but only poll() looks.
IoChanges(f) ==
  /\ ~ctlFailed /\ lpc = "poll"
  /\ f \in open
  /\ \E e \in Conditions :
       io' = [io EXCEPT ![f] = IF e \in io[f] THEN @ \ {e} ELSE @ \cup {e}]
  /\ UNCHANGED <<lpc, freed, chanVars, open, epollVars, activeChannels_, eventsSize, ctlFailed>>

-----------------------------------------------------------------------------
LoopStep ==
  \/ Poll \/ PollInterrupted \/ EventsHandled \/ PendingDone
  \/ \E c \in Chans : HandleEvent(c) \/ HandleDead(c)

Next ==
  \/ LoopStep
  \/ \E c \in Chans : SetEvents(c) \/ Remove(c) \/ Destroy(c) \/ UdpDestroy(c)
  \/ \E c \in Chans, f \in Fds : NewChannel(c, f) \/ UdpStart(c, f)
  \/ \E f \in Fds : Close(f) \/ IoChanges(f)

Spec == Init /\ [][Next]_vars

\* The loop keeps going round: callbacks return, although they may be called
\* again and again for other channels, and signals do not interrupt every
\* epoll_wait().
FairSpec ==
  /\ Spec
  /\ SF_vars(Poll) /\ WF_vars(EventsHandled) /\ WF_vars(PendingDone)
  /\ \A c \in Chans : WF_vars(HandleEvent(c) \/ HandleDead(c))

-----------------------------------------------------------------------------
(***************************************************************************)
(* Properties.                                                             *)
(***************************************************************************)

\* A channel's index_ says exactly what the kernel and channels_ know of it:
\* kAdded channels, and only they, are in the epoll set, with their own
\* address and their current events. So no epoll_ctl() ever fails, for any order
\* of enabling, disabling, removing and reusing descriptors: a failure is
\* LOG_ERROR, which ends the program.
IndexMirrorsKernel ==
  /\ TypeOK /\ ~ctlFailed
  /\ \A c \in alive : index_[c] = "kAdded" =>
       /\ fd_[c] \in registered
       /\ ptr[fd_[c]] = c
       /\ interest[fd_[c]] = events_[c]
  /\ \A f \in registered : ptr[f] \in alive /\ index_[ptr[f]] = "kAdded" /\ fd_[ptr[f]] = f
  /\ \A c \in alive : index_[c] # "kNew" => channels_[fd_[c]] = c

\* The channels that loop() is about to call are those the kernel had a live
\* pointer to: whatever handlers and functors have destroyed or closed in earlier
\* rounds, poll() reports living channels only, a functor never destroys a
\* channel that is still to be called, and a dead one on the list can only be
\* the work of a handler of this very round. (But for a Connector destroyed
\* during an attempt, which leaves a registered channel: see the head.)
DeadByHandlersOnly == activeChannels_ \ alive \subseteq freed

\* A channel that stays ready is reported again and again, however many
\* others are ready and whichever the kernel prefers: events_ grows until
\* all of them fit; unless the program calls a dead channel.
ReadyChannelsReported ==
  \A f \in Fds :
    <>[](f \in Ready) =>
      \/ []<>(lpc = "events" /\ ptr[f] \in activeChannels_)
      \/ <>(lpc = "dead")
=============================================================================
