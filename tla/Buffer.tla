------------------------------- MODULE Buffer -------------------------------
(***************************************************************************)
(* Buffer.h and Buffer.cpp: the buffer of a connection,                    *)
(*                                                                         *)
(*   | prependable bytes | readable bytes | writable bytes |               *)
(*   0          readerIndex_      writerIndex_      buffer_.size()         *)
(*                                                                         *)
(* and its implementation of ByteQueue. The byte at index i of the vector  *)
(* is buffer_[i + 1].                                                      *)
(***************************************************************************)
EXTENDS Integers, Sequences

CONSTANTS
  Byte,            \* char, with the 0 that resize() fills in
  kCheapPrepend,
  kInitialSize,
  ExtraSize,       \* sizeof(extrabuf) in readFd()
  MaxContent       \* bound on the number of readable bytes

ASSUME ByteAssumption == 0 \in Byte
ASSUME SizeAssumption ==
  /\ kCheapPrepend \in Nat
  /\ kInitialSize \in Nat
  /\ ExtraSize \in Nat
  /\ MaxContent \in Nat

VARIABLES
  buffer_, readerIndex_, writerIndex_,
  given,   \* the bytes the last operation received
  taken    \* the bytes it returned

vars == <<buffer_, readerIndex_, writerIndex_, given, taken>>

readableBytes    == writerIndex_ - readerIndex_
writableBytes    == Len(buffer_) - writerIndex_
prependableBytes == readerIndex_

TypeOK ==
  /\ buffer_ \in Seq(Byte)
  /\ readerIndex_ \in Nat
  /\ writerIndex_ \in Nat
  /\ readerIndex_ <= writerIndex_
  /\ writerIndex_ <= Len(buffer_)
  /\ given \in Seq(Byte)
  /\ taken \in Seq(Byte)

Zeros(n) == [i \in 1 .. n |-> 0]

Init ==
  /\ buffer_ = Zeros(kCheapPrepend + kInitialSize)
  /\ readerIndex_ = kCheapPrepend
  /\ writerIndex_ = kCheapPrepend
  /\ given = <<>>
  /\ taken = <<>>

-----------------------------------------------------------------------------
\* std::copy of data to index pos.
Copied(buf, pos, data) ==
  [i \in 1 .. Len(buf) |->
     IF pos < i /\ i <= pos + Len(data) THEN data[i - pos] ELSE buf[i]]

\* Bytes [from, to) of the vector.
Bytes(buf, from, to) == SubSeq(buf, from + 1, to)

\* The state of the three members, so that operations can call each other.
Layout(buf, r, w) == [buf |-> buf, r |-> r, w |-> w]
Current == Layout(buffer_, readerIndex_, writerIndex_)

\* Mutant of makeSPace: never moves the readable bytes.
makeSPaceResize(s, len) ==
  Layout(s.buf \o Zeros(s.w + len - Len(s.buf)), s.r, s.w)

\* resize() to writerIndex_ + len, or move the readable bytes to the front.
makeSPace(s, len) ==
  IF (Len(s.buf) - s.w) + s.r < len + kCheapPrepend
    THEN Layout(s.buf \o Zeros(s.w + len - Len(s.buf)), s.r, s.w)
    ELSE Layout(Copied(s.buf, kCheapPrepend, Bytes(s.buf, s.r, s.w)),
                kCheapPrepend, kCheapPrepend + (s.w - s.r))

ensureWritableBytes(s, len) ==
  IF Len(s.buf) - s.w < len THEN makeSPace(s, len) ELSE s

appended(s, data) ==
  LET e == ensureWritableBytes(s, Len(data))
  IN Layout(Copied(e.buf, e.w, data), e.r, e.w + Len(data))

\* retrieve(len): part of the readable bytes, or retrieveAll().
retrieved(s, len) ==
  IF len < s.w - s.r THEN Layout(s.buf, s.r + len, s.w)
                     ELSE Layout(s.buf, kCheapPrepend, kCheapPrepend)

Receives(data) == given' = data /\ taken' = <<>>
Returns(data)  == given' = <<>> /\ taken' = data

Become(s) == buffer_' = s.buf /\ readerIndex_' = s.r /\ writerIndex_' = s.w

-----------------------------------------------------------------------------
(***************************************************************************)
(* The operations.                                                         *)
(***************************************************************************)
append(data) ==
  /\ readableBytes + Len(data) <= MaxContent
  /\ Become(appended(Current, data))
  /\ Receives(data)

\* Its caller must keep assert(len <= prependableBytes()) true.
prepend(data) ==
  /\ readableBytes + Len(data) <= MaxContent
  /\ Len(data) <= prependableBytes
  /\ readerIndex_' = readerIndex_ - Len(data)
  /\ buffer_' = Copied(buffer_, readerIndex_', data)
  /\ Receives(data)
  /\ UNCHANGED writerIndex_

retrieve(len) ==
  /\ Become(retrieved(Current, len))
  /\ Returns(<<>>)

\* Copies len bytes whatever readableBytes() is: its caller must not ask for
\* more. retrieveAllAsString() asks for all of them.
retrieveAsString(len) ==
  /\ len <= readableBytes
  /\ Returns(Bytes(buffer_, readerIndex_, readerIndex_ + len))
  /\ Become(retrieved(Current, len))

\* Mutant of readFd: appends extrabuf behind the old writerIndex_.
readFdUnadvanced(data) ==
  /\ readableBytes + Len(data) <= MaxContent
  /\ Len(data) <= writableBytes + (IF writableBytes < ExtraSize THEN ExtraSize ELSE 0)
  /\ LET n == Len(data)
         direct == Copied(buffer_, writerIndex_, SubSeq(data, 1, writableBytes))
     IN IF n <= writableBytes
          THEN Become(Layout(Copied(buffer_, writerIndex_, data),
                             readerIndex_, writerIndex_ + n))
          ELSE Become(appended(Layout(direct, readerIndex_, writerIndex_),
                               SubSeq(data, writableBytes + 1, n)))
  /\ Receives(data)

\* readFd(): readv() fills the writable bytes and, if there are fewer than
\* ExtraSize of them, continues in extrabuf, which is then appended.
readFd(data) ==
  /\ readableBytes + Len(data) <= MaxContent
  /\ Len(data) <= writableBytes + (IF writableBytes < ExtraSize THEN ExtraSize ELSE 0)
  /\ LET n == Len(data)
         direct == Copied(buffer_, writerIndex_, SubSeq(data, 1, writableBytes))
     IN IF n <= writableBytes
          THEN Become(Layout(Copied(buffer_, writerIndex_, data),
                             readerIndex_, writerIndex_ + n))
          ELSE Become(appended(Layout(direct, readerIndex_, Len(buffer_)),
                               SubSeq(data, writableBytes + 1, n)))
  /\ Receives(data)

Data == UNION {[1 .. n -> Byte] : n \in 0 .. MaxContent}

Next ==
  \/ \E data \in Data : append(data) \/ prepend(data) \/ readFd(data)
  \/ \E len \in 0 .. MaxContent + 1 : retrieve(len) \/ retrieveAsString(len)

Spec == Init /\ [][Next]_vars

-----------------------------------------------------------------------------
Content == Bytes(buffer_, readerIndex_, writerIndex_)

Queue == INSTANCE ByteQueue WITH content <- Content

\* A Buffer is a byte queue: whatever the order of operations, growing,
\* moving the readable bytes to the front, reusing prepended space and
\* splitting a read between the vector and extrabuf never lose, duplicate,
\* reorder or overwrite a byte that has not been retrieved.
BufferIsByteQueue == Queue!Spec

\* The vector grows only when it must and never to more than twice what it
\* then holds, plus the cheap prepend space: the test in makeSPace() moves
\* the bytes instead whenever they fit.
GrowthIsBounded ==
  [][Len(buffer_') > Len(buffer_) =>
       Len(buffer_') < 2 * Len(Content') + kCheapPrepend]_vars
=============================================================================
