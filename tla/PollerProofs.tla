---------------------------- MODULE PollerProofs ----------------------------
(***************************************************************************)
(* Proofs about Poller, for any number of channels and descriptors and any *)
(* initial size of the event array: index_ mirrors the kernel's epoll set, *)
(* epoll_ctl() never fails, and a destroyed channel is called only when a  *)
(* handler of the same round has destroyed it.                             *)
(***************************************************************************)
EXTENDS Poller, TLAPS

\* What the kernel knows of a kAdded channel.
AddedInv ==
  \A c \in alive : index_[c] = "kAdded" =>
    fd_[c] \in registered /\ ptr[fd_[c]] = c /\ interest[fd_[c]] = events_[c]

\* Whose the registered descriptors are.
KernelInv ==
  \A f \in registered : ptr[f] \in alive /\ index_[ptr[f]] = "kAdded" /\ fd_[ptr[f]] = f

\* A channel that is not new is in channels_, at its own descriptor.
MapInv == \A c \in alive : index_[c] # "kNew" => channels_[fd_[c]] = c

\* Only open descriptors are in the epoll set, and the channel of a UdpSocket,
\* which is destroyed without remove(), is in it all its life.
OpenInv ==
  /\ registered \subseteq open
  /\ \A c \in udp : index_[c] = "kAdded"

\* The list of active channels is walked through before the functors run.
ListInv == lpc \in {"poll", "pending"} => activeChannels_ = {}

IInv ==
  /\ TypeOK /\ ~ctlFailed
  /\ AddedInv /\ KernelInv /\ MapInv /\ OpenInv /\ ListInv /\ DeadByHandlersOnly

-----------------------------------------------------------------------------
\* The invariant contains both properties.
LEMMA IInvImplies == IInv => IndexMirrorsKernel /\ DeadByHandlersOnly
BY DEF IInv, IndexMirrorsKernel, AddedInv, KernelInv, MapInv

\* A descriptor of an unregistered channel's owner is not in the epoll set.
LEMMA NotRegistered ==
  ASSUME IInv, NEW c \in alive, SoleUser(c, fd_[c]), index_[c] # "kAdded"
  PROVE  fd_[c] \notin registered
BY DEF IInv, KernelInv, SoleUser

\* A poller without channels satisfies the invariant.
LEMMA InitInv == Init => IInv
<1> SUFFICES ASSUME Init PROVE IInv
  OBVIOUS
<1>1. AnyFd \in Fds
  BY FdsAssumption DEF AnyFd
<1>2. TypeOK
  BY <1>1, SizeAssumption DEF Init, TypeOK
<1>3. ~ctlFailed
  BY DEF Init
<1>4. AddedInv /\ KernelInv /\ MapInv
  BY DEF Init, AddedInv, KernelInv, MapInv
<1>5. OpenInv /\ ListInv /\ DeadByHandlersOnly
  BY DEF Init, OpenInv, ListInv, DeadByHandlersOnly
<1> QED BY <1>2, <1>3, <1>4, <1>5 DEF IInv

\* A new channel is not registered, whatever its descriptor is.
LEMMA NewChannelInv ==
  ASSUME IInv, NEW c \in Chans, NEW f \in Fds, NewChannel(c, f)
  PROVE  IInv'
<1> USE DEF NewChannel, InCallback, epollVars
<1>1. TypeOK'
  BY DEF IInv, TypeOK
<1>2. ~ctlFailed'
  BY DEF IInv
<1>3. AddedInv' /\ KernelInv' /\ MapInv'
  BY DEF IInv, TypeOK, AddedInv, KernelInv, MapInv
<1>4. OpenInv' /\ ListInv' /\ DeadByHandlersOnly'
  BY DEF IInv, TypeOK, OpenInv, ListInv, DeadByHandlersOnly
<1> QED BY <1>1, <1>2, <1>3, <1>4 DEF IInv

\* updateChannel() keeps the epoll set in step in each of its three cases.
LEMMA SetEventsInv ==
  ASSUME IInv, NEW c \in Chans, SetEvents(c)
  PROVE  IInv'
<1> DEFINE f == fd_[c]
<1>1. PICK evs \in SUBSET Interests : UpdateChannel(c, evs)
  BY DEF SetEvents, IInv, TypeOK
<1>2. /\ c \in alive /\ c \notin udp /\ f \in open /\ f \in Fds
      /\ SoleUser(c, f)
      /\ UNCHANGED <<lpc, freed, alive, udp, fd_, open, io, activeChannels_, eventsSize>>
  BY DEF SetEvents, IInv, TypeOK
<1>3. events_' = [events_ EXCEPT ![c] = evs]
  BY <1>1 DEF UpdateChannel
<1>4. ListInv' /\ DeadByHandlersOnly'
  BY <1>2 DEF IInv, ListInv, DeadByHandlersOnly
<1>5. channels_' = [channels_ EXCEPT ![f] = c]
  <2>1. CASE index_[c] = "kNew"
    BY <1>1, <2>1 DEF UpdateChannel
  <2>2. CASE index_[c] # "kNew"
    BY <1>1, <1>2, <2>2 DEF UpdateChannel, IInv, TypeOK, MapInv
  <2> QED BY <2>1, <2>2
<1>6. CASE index_[c] # "kAdded"
  <2>1. /\ index_' = [index_ EXCEPT ![c] = "kAdded"]
        /\ registered' = registered \cup {f}
        /\ interest' = [interest EXCEPT ![f] = evs]
        /\ ptr' = [ptr EXCEPT ![f] = c]
        /\ ctlFailed' = (ctlFailed \/ f \in registered \/ f \notin open)
    BY <1>1, <1>6 DEF UpdateChannel, EpollAdd, Store
  <2>2. f \notin registered
    BY <1>2, <1>6, NotRegistered
  <2>3. ~ctlFailed'
    BY <1>2, <2>1, <2>2 DEF IInv
  <2>4. TypeOK'
    BY <1>2, <1>3, <1>5, <2>1, <2>3 DEF IInv, TypeOK
  <2>5. AddedInv'
    BY <1>2, <1>3, <2>1, <2>2 DEF IInv, TypeOK, AddedInv
  <2>6. KernelInv'
    BY <1>2, <2>1, <2>2 DEF IInv, TypeOK, KernelInv
  <2>7. MapInv'
    BY <1>2, <1>5, <2>1 DEF IInv, TypeOK, MapInv, SoleUser
  <2>8. OpenInv'
    BY <1>2, <2>1 DEF IInv, TypeOK, OpenInv
  <2> QED BY <1>4, <2>3, <2>4, <2>5, <2>6, <2>7, <2>8 DEF IInv
<1>7. CASE index_[c] = "kAdded" /\ evs = {}
  <2>1. /\ index_' = [index_ EXCEPT ![c] = "kDeleted"]
        /\ registered' = registered \ {f}
        /\ interest' = [interest EXCEPT ![f] = {}]
        /\ ptr' = [ptr EXCEPT ![f] = NoChan]
        /\ ctlFailed' = (ctlFailed \/ f \notin registered)
    BY <1>1, <1>7 DEF UpdateChannel, EpollDel, Forget
  <2>2. f \in registered /\ ptr[f] = c
    BY <1>2, <1>7 DEF IInv, AddedInv
  <2>3. ~ctlFailed'
    BY <2>1, <2>2 DEF IInv
  <2>4. TypeOK'
    BY <1>2, <1>3, <1>5, <2>1, <2>3 DEF IInv, TypeOK
  <2>5. AddedInv'
    BY <1>2, <1>3, <2>1, <2>2 DEF IInv, TypeOK, AddedInv
  <2>6. KernelInv'
    BY <1>2, <2>1, <2>2 DEF IInv, TypeOK, KernelInv
  <2>7. MapInv'
    BY <1>2, <1>5, <2>1 DEF IInv, TypeOK, MapInv, SoleUser
  <2>8. OpenInv'
    BY <1>2, <2>1 DEF IInv, TypeOK, OpenInv
  <2> QED BY <1>4, <2>3, <2>4, <2>5, <2>6, <2>7, <2>8 DEF IInv
<1>8. CASE index_[c] = "kAdded" /\ evs # {}
  <2>1. /\ UNCHANGED <<index_, registered>>
        /\ interest' = [interest EXCEPT ![f] = evs]
        /\ ptr' = [ptr EXCEPT ![f] = c]
        /\ ctlFailed' = (ctlFailed \/ f \notin registered)
    BY <1>1, <1>8 DEF UpdateChannel, EpollMod
  <2>2. f \in registered /\ ptr[f] = c
    BY <1>2, <1>8 DEF IInv, AddedInv
  <2>3. ~ctlFailed'
    BY <2>1, <2>2 DEF IInv
  <2>4. TypeOK'
    BY <1>2, <1>3, <1>5, <2>1, <2>3 DEF IInv, TypeOK
  <2>5. AddedInv'
    BY <1>2, <1>3, <2>1, <2>2 DEF IInv, TypeOK, AddedInv
  <2>6. KernelInv'
    BY <1>2, <2>1, <2>2 DEF IInv, TypeOK, KernelInv
  <2>7. MapInv'
    BY <1>2, <1>5, <2>1 DEF IInv, TypeOK, MapInv, SoleUser
  <2>8. OpenInv'
    BY <1>2, <2>1 DEF IInv, TypeOK, OpenInv
  <2> QED BY <1>4, <2>3, <2>4, <2>5, <2>6, <2>7, <2>8 DEF IInv
<1> QED BY <1>6, <1>7, <1>8

\* removeChannel() takes the channel out of the map and out of the epoll set.
LEMMA RemoveInv ==
  ASSUME IInv, NEW c \in Chans, Remove(c)
  PROVE  IInv'
<1> DEFINE f == fd_[c]
<1>1. /\ c \in alive /\ c \notin udp /\ f \in Fds
      /\ SoleUser(c, f)
      /\ channels_' = [channels_ EXCEPT ![f] = NoChan]
      /\ index_' = [index_ EXCEPT ![c] = "kNew"]
      /\ UNCHANGED <<lpc, freed, alive, udp, fd_, events_, open, io, activeChannels_, eventsSize>>
  BY DEF Remove, IInv, TypeOK
<1>2. ListInv' /\ DeadByHandlersOnly'
  BY <1>1 DEF IInv, ListInv, DeadByHandlersOnly
<1>3. MapInv'
  BY <1>1 DEF IInv, TypeOK, MapInv, SoleUser
<1>4. CASE index_[c] = "kAdded"
  <2>1. /\ registered' = registered \ {f}
        /\ interest' = [interest EXCEPT ![f] = {}]
        /\ ptr' = [ptr EXCEPT ![f] = NoChan]
        /\ ctlFailed' = (ctlFailed \/ f \notin registered)
    BY <1>4 DEF Remove, RemoveFromEpoll, EpollDel, Forget
  <2>2. f \in registered /\ ptr[f] = c
    BY <1>1, <1>4 DEF IInv, AddedInv
  <2>3. ~ctlFailed'
    BY <2>1, <2>2 DEF IInv
  <2>4. TypeOK'
    BY <1>1, <2>1, <2>3 DEF IInv, TypeOK
  <2>5. AddedInv' /\ KernelInv'
    BY <1>1, <2>1, <2>2 DEF IInv, TypeOK, AddedInv, KernelInv
  <2>6. OpenInv'
    BY <1>1, <2>1 DEF IInv, TypeOK, OpenInv
  <2> QED BY <1>2, <1>3, <2>3, <2>4, <2>5, <2>6 DEF IInv
<1>5. CASE index_[c] # "kAdded"
  <2>1. UNCHANGED <<registered, interest, ptr, ctlFailed>>
    BY <1>5 DEF Remove, RemoveFromEpoll, epollVars
  <2>2. ~ctlFailed' /\ TypeOK'
    BY <1>1, <2>1 DEF IInv, TypeOK
  <2>3. AddedInv' /\ KernelInv'
    BY <1>1, <1>5, <2>1 DEF IInv, TypeOK, AddedInv, KernelInv
  <2>4. OpenInv'
    BY <1>1, <2>1 DEF IInv, TypeOK, OpenInv
  <2> QED BY <1>2, <1>3, <2>2, <2>3, <2>4 DEF IInv
<1> QED BY <1>4, <1>5

\* A handler or a functor destroys a channel that is not registered.
LEMMA DestroyInv ==
  ASSUME IInv, NEW c \in Chans, Destroy(c)
  PROVE  IInv'
<1> USE DEF Destroy, InCallback, Freed, epollVars
<1>0. AnyFd \in Fds
  BY FdsAssumption DEF AnyFd
<1>1. TypeOK' /\ ~ctlFailed'
  BY <1>0 DEF IInv, TypeOK
<1>2. AddedInv' /\ KernelInv' /\ MapInv'
  BY DEF IInv, TypeOK, AddedInv, KernelInv, MapInv
<1>3. OpenInv' /\ ListInv' /\ DeadByHandlersOnly'
  BY DEF IInv, TypeOK, OpenInv, ListInv, DeadByHandlersOnly
<1> QED BY <1>1, <1>2, <1>3 DEF IInv

\* The new descriptor of a UdpSocket is not in the epoll set, whatever entry an
\* earlier UdpSocket has left in channels_.
LEMMA UdpStartInv ==
  ASSUME IInv, NEW c \in Chans, NEW f \in Fds, UdpStart(c, f)
  PROVE  IInv'
<1>1. f \notin registered
  BY DEF UdpStart, IInv, OpenInv
<1>2. PICK e \in Interests : events_' = [events_ EXCEPT ![c] = {e}]
  BY InterestsAssumption DEF UdpStart
<1>3. events_'[c] = {e}
  BY <1>2 DEF IInv, TypeOK
<1>4. /\ lpc' = lpc /\ c \notin alive /\ SoleUser(c, f)
      /\ alive' = alive \cup {c} /\ udp' = udp \cup {c} /\ freed' = freed \ {c}
      /\ fd_' = [fd_ EXCEPT ![c] = f]
      /\ open' = open \cup {f}
      /\ index_' = [index_ EXCEPT ![c] = "kAdded"]
      /\ channels_' = [channels_ EXCEPT ![f] = c]
      /\ registered' = registered \cup {f}
      /\ interest' = [interest EXCEPT ![f] = {e}]
      /\ ptr' = [ptr EXCEPT ![f] = c]
      /\ ctlFailed' = (f \in registered)
      /\ UNCHANGED <<io, activeChannels_, eventsSize>>
  BY <1>1, <1>3 DEF UdpStart, Store
<1>5. TypeOK' /\ ~ctlFailed'
  BY <1>1, <1>2, <1>4 DEF IInv, TypeOK
<1>6. AddedInv'
  BY <1>1, <1>2, <1>4 DEF IInv, TypeOK, AddedInv
<1>7. KernelInv' /\ MapInv'
  BY <1>1, <1>4 DEF IInv, TypeOK, KernelInv, MapInv, SoleUser
<1>8. OpenInv' /\ ListInv' /\ DeadByHandlersOnly'
  BY <1>4 DEF IInv, TypeOK, OpenInv, ListInv, DeadByHandlersOnly
<1> QED BY <1>5, <1>6, <1>7, <1>8 DEF IInv

\* ~UdpSocket() closes its descriptor, which takes it out of the epoll set.
LEMMA UdpDestroyInv ==
  ASSUME IInv, NEW c \in Chans, UdpDestroy(c)
  PROVE  IInv'
<1> USE DEF UdpDestroy, InCallback, Freed, CloseFd, Forget
<1>0. AnyFd \in Fds
  BY FdsAssumption DEF AnyFd
<1>1. c \in alive /\ fd_[c] \in registered /\ ptr[fd_[c]] = c
  BY DEF IInv, TypeOK, OpenInv, AddedInv
<1>2. TypeOK' /\ ~ctlFailed'
  BY <1>0 DEF IInv, TypeOK
<1>3. AddedInv'
  BY <1>1 DEF IInv, TypeOK, AddedInv
<1>4. KernelInv'
  BY <1>1 DEF IInv, TypeOK, KernelInv
<1>5. MapInv'
  BY DEF IInv, TypeOK, MapInv
<1>6. OpenInv' /\ ListInv' /\ DeadByHandlersOnly'
  BY DEF IInv, TypeOK, OpenInv, ListInv, DeadByHandlersOnly
<1> QED BY <1>2, <1>3, <1>4, <1>5, <1>6 DEF IInv

\* A descriptor is closed when no channel of it is registered.
LEMMA CloseInv ==
  ASSUME IInv, NEW f \in Fds, Close(f)
  PROVE  IInv'
<1> USE DEF Close, InCallback, CloseFd, Forget, chanVars
<1>1. TypeOK' /\ ~ctlFailed'
  BY DEF IInv, TypeOK
<1>2. AddedInv' /\ KernelInv' /\ MapInv'
  BY DEF IInv, TypeOK, AddedInv, KernelInv, MapInv
<1>3. OpenInv' /\ ListInv' /\ DeadByHandlersOnly'
  BY DEF IInv, TypeOK, OpenInv, ListInv, DeadByHandlersOnly
<1> QED BY <1>1, <1>2, <1>3 DEF IInv

\* poll() reports channels that are alive: those the kernel has a pointer to.
LEMMA PollInv == IInv /\ Poll => IInv'
<1> SUFFICES ASSUME IInv, Poll PROVE IInv'
  OBVIOUS
<1>1. PICK reported \in SUBSET Ready :
        activeChannels_' = {ptr[f] : f \in reported}
        /\ eventsSize' = GrownSize(Cardinality(reported))
  BY DEF Poll, fillActiveChannels
<1>2. /\ lpc' = "events"
      /\ UNCHANGED <<freed, alive, udp, fd_, events_, index_, channels_, open,
                     registered, interest, ptr, io, ctlFailed>>
  BY DEF Poll, chanVars, epollVars
<1>3. eventsSize' \in Nat \ {0}
  BY <1>1 DEF GrownSize, IInv, TypeOK
<1>4. reported \subseteq registered
  BY <1>1 DEF Ready, Revents
<1>a. activeChannels_' \subseteq alive
  BY <1>1, <1>4 DEF IInv, KernelInv
<1>5. DeadByHandlersOnly'
  BY <1>a, <1>2 DEF DeadByHandlersOnly
<1>6. TypeOK' /\ ~ctlFailed'
  <2>1. activeChannels_' \subseteq Chans
    BY <1>a DEF IInv, TypeOK
  <2> QED BY <1>2, <1>3, <2>1 DEF IInv, TypeOK
<1>7. AddedInv' /\ KernelInv' /\ MapInv' /\ OpenInv'
  BY <1>2 DEF IInv, AddedInv, KernelInv, MapInv, OpenInv
<1>8. ListInv'
  BY <1>2 DEF ListInv
<1> QED BY <1>5, <1>6, <1>7, <1>8 DEF IInv

\* The other steps of the loop, and the peers, leave the channels as they are.
LEMMA LoopInv ==
  ASSUME IInv,
         \/ PollInterrupted \/ EventsHandled \/ PendingDone
         \/ \E c \in Chans : HandleEvent(c) \/ HandleDead(c)
         \/ \E f \in Fds : IoChanges(f)
  PROVE  IInv'
<1> USE DEF PollInterrupted, EventsHandled, PendingDone, HandleEvent, HandleDead, IoChanges
<1>1. /\ UNCHANGED <<alive, udp, fd_, events_, index_, channels_, open,
                     registered, interest, ptr, eventsSize, ctlFailed>>
      /\ lpc' \in {"poll", "events", "pending", "dead"}
      /\ activeChannels_' \subseteq activeChannels_
      /\ freed' \subseteq Chans
  BY DEF chanVars, epollVars, IInv, TypeOK
<1>2. ListInv'
  BY DEF IInv, ListInv
<1>3. io' \in [Fds -> SUBSET Conditions]
  BY DEF IInv, TypeOK
<1>4. TypeOK' /\ ~ctlFailed'
  BY <1>1, <1>3 DEF IInv, TypeOK
<1>5. AddedInv' /\ KernelInv' /\ MapInv' /\ OpenInv'
  BY <1>1 DEF IInv, AddedInv, KernelInv, MapInv, OpenInv
<1>6. DeadByHandlersOnly'
  BY <1>1 DEF IInv, DeadByHandlersOnly
<1> QED BY <1>2, <1>4, <1>5, <1>6 DEF IInv

\* Every step keeps the invariant.
LEMMA NextInv == IInv /\ [Next]_vars => IInv'
<1> SUFFICES ASSUME IInv, [Next]_vars PROVE IInv'
  OBVIOUS
<1>1. CASE LoopStep
  BY <1>1, PollInv, LoopInv DEF LoopStep
<1>2. CASE \E c \in Chans : SetEvents(c) \/ Remove(c) \/ Destroy(c) \/ UdpDestroy(c)
  BY <1>2, SetEventsInv, RemoveInv, DestroyInv, UdpDestroyInv
<1>3. CASE \E c \in Chans, f \in Fds : NewChannel(c, f) \/ UdpStart(c, f)
  BY <1>3, NewChannelInv, UdpStartInv
<1>4. CASE \E f \in Fds : Close(f) \/ IoChanges(f)
  BY <1>4, CloseInv, LoopInv
<1>5. CASE UNCHANGED vars
  <2>1. UNCHANGED <<lpc, freed, alive, udp, fd_, events_, index_, channels_, open, registered,
                    interest, ptr, io, activeChannels_, eventsSize, ctlFailed>>
    BY <1>5 DEF vars, chanVars, epollVars
  <2> QED BY <2>1 DEF IInv, TypeOK, AddedInv, KernelInv, MapInv, OpenInv, ListInv,
                      DeadByHandlersOnly
<1> QED BY <1>1, <1>2, <1>3, <1>4, <1>5 DEF Next

\* Every reachable state satisfies the invariant.
LEMMA Inductive == Spec => []IInv
BY InitInv, NextInv, PTL DEF Spec

-----------------------------------------------------------------------------
\* A channel's index_ says what the kernel and channels_ know of it, so that no
\* epoll_ctl() of updateChannel() or removeChannel() fails.
THEOREM PollerIndexMirrorsKernel == Spec => []IndexMirrorsKernel
BY Inductive, IInvImplies, PTL

\* poll() reports live channels only, whatever handlers and functors have
\* destroyed before, and one on the list dies only in a handler of the same round.
THEOREM PollerDeadByHandlersOnly == Spec => []DeadByHandlersOnly
BY Inductive, IInvImplies, PTL
=============================================================================
