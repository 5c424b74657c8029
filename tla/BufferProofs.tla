---------------------------- MODULE BufferProofs ----------------------------
(***************************************************************************)
(* Proofs about Buffer, for every size of the vector, the prepend space    *)
(* and the stack buffer, and every byte.                                   *)
(***************************************************************************)
EXTENDS Buffer, SequenceTheorems, TLAPS

\* A layout with its indexes in order.
Layouts == [buf : Seq(Byte), r : Nat, w : Nat]
Good(s) ==
  /\ s \in Layouts
  /\ s.r <= s.w /\ s.w <= Len(s.buf)
  /\ kCheapPrepend <= Len(s.buf)
ContentOf(s) == Bytes(s.buf, s.r, s.w)

-----------------------------------------------------------------------------
(***************************************************************************)
(* The helpers.                                                            *)
(***************************************************************************)

\* std::copy changes exactly the bytes it covers.
LEMMA CopiedProperties ==
  ASSUME NEW buf \in Seq(Byte), NEW data \in Seq(Byte), NEW pos \in Nat
  PROVE  /\ Copied(buf, pos, data) \in Seq(Byte)
         /\ Len(Copied(buf, pos, data)) = Len(buf)
         /\ \A i \in 1 .. Len(buf) : Copied(buf, pos, data)[i] =
              IF pos < i /\ i <= pos + Len(data) THEN data[i - pos] ELSE buf[i]
<1> DEFINE c(i) == IF pos < i /\ i <= pos + Len(data) THEN data[i - pos] ELSE buf[i]
<1>1. Len(buf) \in Nat /\ Len(data) \in Nat
  BY LenProperties
<1>2. \A i \in 1 .. Len(buf) : c(i) \in Byte
  BY <1>1, ElementOfSeq
<1>3. Copied(buf, pos, data) = [i \in 1 .. Len(buf) |-> c(i)]
  BY DEF Copied
<1>4. [i \in 1 .. Len(buf) |-> c(i)] \in Seq(Byte)
  BY <1>1, <1>2, IsASeq
<1> QED
  BY <1>1, <1>3, <1>4

\* The readable bytes are a sequence of bytes of the length that readableBytes()
\* says, and each is the byte of buffer_ at its index.
LEMMA BytesProperties ==
  ASSUME NEW buf \in Seq(Byte), NEW from \in Nat, NEW to \in Nat,
         from <= to, to <= Len(buf)
  PROVE  /\ Bytes(buf, from, to) \in Seq(Byte)
         /\ Len(Bytes(buf, from, to)) = to - from
         /\ \A i \in 1 .. (to - from) : Bytes(buf, from, to)[i] = buf[from + i]
<1>1. \A i \in (from + 1) .. to : buf[i] \in Byte
  BY ElementOfSeq, LenProperties
<1>2. /\ SubSeq(buf, from + 1, to) \in Seq(Byte)
      /\ Len(SubSeq(buf, from + 1, to)) = to - from
      /\ \A i \in 1 .. (to - from) : SubSeq(buf, from + 1, to)[i] = buf[from + i]
  BY <1>1, SubSeqProperties
<1> QED
  BY <1>2 DEF Bytes

\* What resize() appends is a sequence of bytes.
LEMMA ZerosType ==
  ASSUME NEW n \in Nat
  PROVE  Zeros(n) \in Seq(Byte) /\ Len(Zeros(n)) = n
<1>1. Zeros(n) \in Seq(Byte)
  BY ByteAssumption, IsASeq DEF Zeros
<1> QED
  BY <1>1 DEF Zeros

\* The bytes [q, v) of y are the bytes [r, w) of x.
Same(y, q, v, x, r, w) ==
  /\ x \in Seq(Byte) /\ r \in Nat /\ w \in Nat /\ r <= w /\ w <= Len(x)
  /\ y \in Seq(Byte) /\ q \in Nat /\ v \in Nat /\ v <= Len(y) /\ v - q = w - r
  /\ \A i \in 1 .. (w - r) : y[q + i] = x[r + i]

\* Then they are the same sequence.
LEMMA SameBytes ==
  ASSUME NEW x, NEW r, NEW w, NEW y, NEW q, NEW v, Same(y, q, v, x, r, w)
  PROVE  Bytes(y, q, v) = Bytes(x, r, w)
<1> USE DEF Same
<1>1. /\ Bytes(x, r, w) \in Seq(Byte) /\ Len(Bytes(x, r, w)) = w - r
      /\ \A i \in 1 .. (w - r) : Bytes(x, r, w)[i] = x[r + i]
  BY BytesProperties
<1>2. /\ Bytes(y, q, v) \in Seq(Byte) /\ Len(Bytes(y, q, v)) = v - q
      /\ \A i \in 1 .. (v - q) : Bytes(y, q, v)[i] = y[q + i]
  <2>1. q <= v
    OBVIOUS
  <2> QED
    BY <2>1, BytesProperties
<1>3. Len(Bytes(y, q, v)) = Len(Bytes(x, r, w))
  BY <1>1, <1>2
<1>4. \A i \in 1 .. Len(Bytes(y, q, v)) : Bytes(y, q, v)[i] = Bytes(x, r, w)[i]
  BY <1>1, <1>2
<1> QED
  BY <1>1, <1>2, <1>3, <1>4, SeqEqual

\* resize() keeps the bytes that were there.
LEMMA ResizeProperties ==
  ASSUME NEW buf \in Seq(Byte), NEW k \in Nat
  PROVE  /\ buf \o Zeros(k) \in Seq(Byte)
         /\ Len(buf \o Zeros(k)) = Len(buf) + k
         /\ \A i \in 1 .. Len(buf) : (buf \o Zeros(k))[i] = buf[i]
<1>1. Zeros(k) \in Seq(Byte) /\ Len(Zeros(k)) = k /\ Len(buf) \in Nat
  BY ZerosType, LenProperties
<1>2. /\ buf \o Zeros(k) \in Seq(Byte)
      /\ Len(buf \o Zeros(k)) = Len(buf) + Len(Zeros(k))
      /\ \A i \in 1 .. Len(buf) + Len(Zeros(k)) : (buf \o Zeros(k))[i] =
            IF i <= Len(buf) THEN buf[i] ELSE Zeros(k)[i - Len(buf)]
  BY <1>1, ConcatProperties
<1>3. \A i \in 1 .. Len(buf) : i \in 1 .. (Len(buf) + k) /\ i <= Len(buf)
  BY <1>1
<1> QED
  BY <1>1, <1>2, <1>3

\* Every good layout is given by its three parts.
LEMMA GoodParts ==
  ASSUME NEW s, Good(s)
  PROVE  \E buf \in Seq(Byte), r \in Nat, w \in Nat :
           /\ s = Layout(buf, r, w) /\ s.buf = buf /\ s.r = r /\ s.w = w
           /\ r <= w /\ w <= Len(buf) /\ kCheapPrepend <= Len(buf) /\ Len(buf) \in Nat
<1>1. s.buf \in Seq(Byte) /\ s.r \in Nat /\ s.w \in Nat /\ s = Layout(s.buf, s.r, s.w)
  BY DEF Good, Layouts, Layout
<1>2. s.r <= s.w /\ s.w <= Len(s.buf) /\ kCheapPrepend <= Len(s.buf) /\ Len(s.buf) \in Nat
  BY <1>1, LenProperties DEF Good
<1> QED
  BY <1>1, <1>2

\* makeSPace() keeps the readable bytes and makes room for len more.
LEMMA MakeSpaceProperties ==
  ASSUME NEW s, Good(s), NEW len \in Nat, Len(s.buf) - s.w < len,
         NEW m, m = makeSPace(s, len)
  PROVE  Good(m) /\ len <= Len(m.buf) - m.w /\ ContentOf(m) = ContentOf(s)
<1> USE SizeAssumption
<1>0. PICK buf \in Seq(Byte), r \in Nat, w \in Nat :
        /\ s = Layout(buf, r, w) /\ s.buf = buf /\ s.r = r /\ s.w = w
        /\ r <= w /\ w <= Len(buf) /\ kCheapPrepend <= Len(buf) /\ Len(buf) \in Nat
  BY GoodParts
<1>1. /\ Len(buf) \in Nat /\ r <= w /\ w <= Len(buf) /\ kCheapPrepend <= Len(buf)
      /\ Len(buf) - w < len /\ m = makeSPace(Layout(buf, r, w), len)
  BY <1>0
<1>4. ContentOf(s) = Bytes(buf, r, w)
  BY <1>0 DEF ContentOf
<1>2. CASE (Len(buf) - w) + r < len + kCheapPrepend
  <2>1. w + len - Len(buf) \in Nat
    BY <1>1
  <2>2. PICK k \in Nat : k = w + len - Len(buf)
    BY <2>1
  <2> DEFINE z == buf \o Zeros(k)
  <2>3. /\ z \in Seq(Byte) /\ Len(z) = Len(buf) + k
        /\ \A i \in 1 .. Len(buf) : z[i] = buf[i]
    BY ResizeProperties, Zenon
  <2>4. m = Layout(z, r, w)
    BY <1>1, <1>2, <2>2 DEF makeSPace, Layout
  <2> HIDE DEF z
  <2>5. Len(z) = w + len /\ w <= Len(z) /\ kCheapPrepend <= Len(z)
    BY <1>1, <2>2, <2>3
  <2>6. m.buf = z /\ m.r = r /\ m.w = w /\ m \in Layouts
    BY <2>3, <2>4 DEF Layout, Layouts
  <2>7. Same(z, r, w, buf, r, w)
    BY <1>1, <2>3, <2>5 DEF Same
  <2>8. Bytes(z, r, w) = Bytes(buf, r, w)
    BY <2>7, SameBytes
  <2> QED
    BY <1>1, <1>4, <2>5, <2>6, <2>8 DEF Good, ContentOf
<1>3. CASE ~((Len(buf) - w) + r < len + kCheapPrepend)
  <2> DEFINE b == Bytes(buf, r, w)
             c == Copied(buf, kCheapPrepend, b)
             e == kCheapPrepend + (w - r)
  <2>1. /\ b \in Seq(Byte) /\ Len(b) = w - r
        /\ \A i \in 1 .. (w - r) : b[i] = buf[r + i]
    BY <1>1, BytesProperties
  <2>2. e \in Nat /\ kCheapPrepend <= e /\ e + len <= Len(buf) /\ e - kCheapPrepend = w - r
    BY <1>1, <1>3
  <2>3. m = Layout(c, kCheapPrepend, e)
    BY <1>1, <1>3 DEF makeSPace, Layout
  <2> HIDE DEF b
  <2>4. /\ c \in Seq(Byte) /\ Len(c) = Len(buf)
        /\ \A i \in 1 .. Len(buf) : c[i] =
             IF kCheapPrepend < i /\ i <= kCheapPrepend + Len(b)
               THEN b[i - kCheapPrepend] ELSE buf[i]
    BY <2>1, CopiedProperties
  <2> HIDE DEF c
  <2>5. \A i \in 1 .. (w - r) : c[kCheapPrepend + i] = buf[r + i]
    <3> SUFFICES ASSUME NEW i \in 1 .. (w - r) PROVE c[kCheapPrepend + i] = b[i]
      BY <2>1
    <3>1. /\ kCheapPrepend + i \in 1 .. Len(buf) /\ (kCheapPrepend + i) - kCheapPrepend = i
          /\ kCheapPrepend < kCheapPrepend + i /\ kCheapPrepend + i <= kCheapPrepend + Len(b)
      BY <1>1, <2>1, <2>2
    <3> QED
      BY <2>4, <3>1
  <2> HIDE DEF e
  <2>6. Same(c, kCheapPrepend, e, buf, r, w)
    BY <1>1, <2>2, <2>4, <2>5 DEF Same
  <2>7. Bytes(c, kCheapPrepend, e) = Bytes(buf, r, w)
    BY <2>6, SameBytes
  <2>8. m.buf = c /\ m.r = kCheapPrepend /\ m.w = e /\ m \in Layouts
    BY <2>2, <2>3, <2>4 DEF Layout, Layouts
  <2> QED
    BY <1>1, <1>4, <2>2, <2>4, <2>7, <2>8 DEF Good, ContentOf
<1> QED
  BY <1>2, <1>3

\* After ensureWritableBytes(len) there is room for len bytes.
LEMMA EnsureWritableProperties ==
  ASSUME NEW s, Good(s), NEW len \in Nat,
         NEW e, e = ensureWritableBytes(s, len)
  PROVE  Good(e) /\ len <= Len(e.buf) - e.w /\ ContentOf(e) = ContentOf(s)
<1>1. CASE Len(s.buf) - s.w < len
  <2>1. e = makeSPace(s, len)
    BY <1>1 DEF ensureWritableBytes
  <2> QED
    BY <1>1, <2>1, MakeSpaceProperties
<1>2. CASE ~(Len(s.buf) - s.w < len)
  <2>1. e = s
    BY <1>2 DEF ensureWritableBytes
  <2>2. Len(s.buf) \in Nat /\ s.w \in Nat
    BY LenProperties DEF Good, Layouts
  <2> QED
    BY <1>2, <2>1, <2>2
<1> QED
  BY <1>1, <1>2

\* Writing data at the write index, where there is room, appends it.
LEMMA WriteProperties ==
  ASSUME NEW s, Good(s), NEW data \in Seq(Byte), Len(data) <= Len(s.buf) - s.w,
         NEW t, t = Layout(Copied(s.buf, s.w, data), s.r, s.w + Len(data))
  PROVE  Good(t) /\ ContentOf(t) = ContentOf(s) \o data
<1>0. PICK buf \in Seq(Byte), r \in Nat, w \in Nat :
        /\ s = Layout(buf, r, w) /\ s.buf = buf /\ s.r = r /\ s.w = w
        /\ r <= w /\ w <= Len(buf) /\ kCheapPrepend <= Len(buf) /\ Len(buf) \in Nat
  BY GoodParts
<1> DEFINE c == Copied(buf, w, data)
           e == w + Len(data)
           b == Bytes(buf, r, w)
<1>1. /\ Len(buf) \in Nat /\ Len(data) \in Nat /\ r <= w /\ w <= Len(buf)
      /\ Len(data) <= Len(buf) - w /\ kCheapPrepend <= Len(buf)
  BY <1>0, LenProperties
<1>2. /\ c \in Seq(Byte) /\ Len(c) = Len(buf)
      /\ \A i \in 1 .. Len(buf) : c[i] =
           IF w < i /\ i <= w + Len(data) THEN data[i - w] ELSE buf[i]
  BY CopiedProperties
<1>3. e \in Nat /\ r <= e /\ e <= Len(buf)
  BY <1>1
<1>4. t = Layout(c, r, e) /\ ContentOf(s) = b
  BY <1>0 DEF ContentOf
<1> HIDE DEF c
<1>5. t.buf = c /\ t.r = r /\ t.w = e /\ t \in Layouts
  BY <1>2, <1>3, <1>4 DEF Layout, Layouts
<1>6. /\ Bytes(c, r, e) \in Seq(Byte) /\ Len(Bytes(c, r, e)) = e - r
      /\ \A i \in 1 .. (e - r) : Bytes(c, r, e)[i] = c[r + i]
  <2>1. e <= Len(c)
    BY <1>2, <1>3
  <2> QED
    BY <1>2, <1>3, <2>1, BytesProperties, ZenonT(40)
<1>7. /\ b \in Seq(Byte) /\ Len(b) = w - r
      /\ \A i \in 1 .. (w - r) : b[i] = buf[r + i]
  BY <1>1, BytesProperties
<1> HIDE DEF b
<1>8. /\ b \o data \in Seq(Byte) /\ Len(b \o data) = e - r
      /\ \A i \in 1 .. (e - r) : (b \o data)[i] =
           IF i <= w - r THEN b[i] ELSE data[i - (w - r)]
  <2>1. Len(b) + Len(data) = e - r
    BY <1>1, <1>7
  <2>2. /\ b \o data \in Seq(Byte) /\ Len(b \o data) = Len(b) + Len(data)
        /\ \A i \in 1 .. Len(b) + Len(data) : (b \o data)[i] =
             IF i <= Len(b) THEN b[i] ELSE data[i - Len(b)]
    BY <1>7, ConcatProperties, Zenon
  <2> QED
    BY <1>7, <2>1, <2>2
<1>9. \A i \in 1 .. (e - r) : c[r + i] = (b \o data)[i]
  <2> SUFFICES ASSUME NEW i \in 1 .. (e - r) PROVE c[r + i] = (b \o data)[i]
    OBVIOUS
  <2>1. r + i \in 1 .. Len(buf) /\ r + i <= w + Len(data)
    BY <1>1, <1>3
  <2>2. CASE i <= w - r
    <3>1. ~(w < r + i) /\ i \in 1 .. (w - r)
      BY <2>2
    <3> QED
      BY <1>2, <1>7, <1>8, <2>1, <2>2, <3>1
  <2>3. CASE ~(i <= w - r)
    <3>1. w < r + i /\ (r + i) - w = i - (w - r)
      BY <2>3
    <3>2. c[r + i] = data[(r + i) - w]
      BY <1>2, <2>1, <3>1
    <3> QED
      BY <1>8, <2>3, <3>1, <3>2
  <2> QED
    BY <2>2, <2>3
<1>10. Bytes(c, r, e) = b \o data
  <2> DEFINE x == Bytes(c, r, e)
             y == b \o data
  <2>1. x \in Seq(Byte) /\ y \in Seq(Byte) /\ Len(x) = Len(y) /\ Len(x) = e - r
    BY <1>6, <1>8
  <2>2. \A i \in 1 .. Len(x) : x[i] = y[i]
    BY <1>6, <1>9, <2>1
  <2> HIDE DEF x, y
  <2>3. x = y
    BY <2>1, <2>2, SeqEqual
  <2> QED
    BY <2>3 DEF x, y
<1> QED
  BY <1>1, <1>2, <1>3, <1>4, <1>5, <1>10 DEF Good, ContentOf

\* append() appends.
LEMMA AppendedProperties ==
  ASSUME NEW s, Good(s), NEW data \in Seq(Byte)
  PROVE  Good(appended(s, data)) /\ ContentOf(appended(s, data)) = ContentOf(s) \o data
<1> DEFINE e == ensureWritableBytes(s, Len(data))
<1>1. Len(data) \in Nat
  BY LenProperties
<1>2. Good(e) /\ Len(data) <= Len(e.buf) - e.w /\ ContentOf(e) = ContentOf(s)
  BY <1>1, EnsureWritableProperties
<1>3. appended(s, data) = Layout(Copied(e.buf, e.w, data), e.r, e.w + Len(data))
  BY DEF appended
<1> HIDE DEF e
<1> QED
  BY <1>2, <1>3, WriteProperties

\* q is n bytes into the bytes [r, w) of buf.
Within(buf, r, q, w, n) ==
  /\ buf \in Seq(Byte) /\ r \in Nat /\ w \in Nat /\ r <= w /\ w <= Len(buf)
  /\ n \in Nat /\ q \in Nat /\ q = r + n /\ q <= w

\* What remains when the first n bytes of [r, w) have left.
LEMMA Suffix ==
  ASSUME NEW buf, NEW r, NEW q, NEW w, NEW n, Within(buf, r, q, w, n)
  PROVE  Bytes(buf, q, w) = SubSeq(Bytes(buf, r, w), n + 1, Len(Bytes(buf, r, w)))
<1> USE DEF Within
<1> DEFINE b == Bytes(buf, r, w)
<1>1. /\ b \in Seq(Byte) /\ Len(b) = w - r
      /\ \A i \in 1 .. (w - r) : b[i] = buf[r + i]
  BY BytesProperties
<1> HIDE DEF b
<1>2. PICK l \in Nat : l = w - r /\ n <= l
  OBVIOUS
<1>3. Len(b) = l /\ Bytes(b, n, l) = SubSeq(b, n + 1, Len(b))
  BY <1>1, <1>2 DEF Bytes
<1>4. \A i \in 1 .. (w - q) : b[n + i] = buf[q + i]
  <2> SUFFICES ASSUME NEW i \in 1 .. (w - q) PROVE b[n + i] = buf[q + i]
    OBVIOUS
  <2>1. n + i \in 1 .. (w - r) /\ r + (n + i) = q + i
    OBVIOUS
  <2> QED
    BY <1>1, <2>1
<1>5. Same(b, n, l, buf, q, w)
  BY <1>1, <1>2, <1>3, <1>4 DEF Same
<1>6. Bytes(b, n, l) = Bytes(buf, q, w)
  BY <1>5, SameBytes
<1> QED
  BY <1>3, <1>6 DEF b

\* retrieve() drops a prefix of the readable bytes.
LEMMA RetrievedProperties ==
  ASSUME NEW s, Good(s), NEW len \in Nat,
         NEW n, n = IF len < s.w - s.r THEN len ELSE s.w - s.r
  PROVE  /\ Good(retrieved(s, len))
         /\ n \in 0 .. Len(ContentOf(s))
         /\ ContentOf(retrieved(s, len)) = SubSeq(ContentOf(s), n + 1, Len(ContentOf(s)))
<1> USE SizeAssumption
<1>0. PICK buf \in Seq(Byte), r \in Nat, w \in Nat :
        /\ s = Layout(buf, r, w) /\ s.buf = buf /\ s.r = r /\ s.w = w
        /\ r <= w /\ w <= Len(buf) /\ kCheapPrepend <= Len(buf) /\ Len(buf) \in Nat
  BY GoodParts
<1> DEFINE b == Bytes(buf, r, w)
<1>1. /\ Len(buf) \in Nat /\ r <= w /\ w <= Len(buf) /\ kCheapPrepend <= Len(buf)
      /\ n = IF len < w - r THEN len ELSE w - r
      /\ ContentOf(s) = b
  BY <1>0 DEF ContentOf
<1>2. b \in Seq(Byte) /\ Len(b) = w - r
  BY <1>1, BytesProperties
<1> HIDE DEF b
<1>3. n \in 0 .. Len(b)
  BY <1>1, <1>2
<1>4. CASE len < w - r
  <2>1. PICK q \in Nat : q = r + n /\ q <= w /\ n = len
    BY <1>1, <1>4, SMTT(40)
  <2> DEFINE t == Layout(buf, q, w)
  <2>2. retrieved(s, len) = t
    BY <1>0, <1>4, <2>1 DEF retrieved, Layout
  <2>3. t.buf = buf /\ t.r = q /\ t.w = w /\ t \in Layouts
    BY DEF Layout, Layouts
  <2> HIDE DEF t
  <2>4. Good(t)
    BY <1>1, <2>1, <2>3 DEF Good
  <2>5. n \in Nat
    BY <2>1
  <2>6. Bytes(buf, q, w) = SubSeq(b, n + 1, Len(b))
    <3>1. Within(buf, r, q, w, n)
      BY <1>1, <2>1, <2>5 DEF Within
    <3>2. Bytes(buf, q, w) = SubSeq(Bytes(buf, r, w), n + 1, Len(Bytes(buf, r, w)))
      BY ONLY <3>1, Suffix
    <3> QED
      BY ONLY <3>2 DEF b
  <2> QED
    BY <1>1, <1>3, <2>2, <2>3, <2>4, <2>6 DEF ContentOf
<1>5. CASE ~(len < w - r)
  <2> DEFINE t == Layout(buf, kCheapPrepend, kCheapPrepend)
  <2>1. retrieved(s, len) = t /\ n = Len(b)
    BY <1>0, <1>1, <1>2, <1>5 DEF retrieved
  <2>2. t.buf = buf /\ t.r = kCheapPrepend /\ t.w = kCheapPrepend /\ t \in Layouts
    BY DEF Layout, Layouts
  <2> HIDE DEF t
  <2>3. Good(t)
    BY <1>1, <2>2 DEF Good
  <2>8. Len(b) \in Int
    BY <1>1, <1>2
  <2>6. PICK l \in Int : l = Len(b)
    BY <2>8
  <2>7. SubSeq(b, l + 1, l) = <<>>
    BY SubSeqEmpty
  <2>4. SubSeq(b, Len(b) + 1, Len(b)) = <<>>
    BY <2>6, <2>7
  <2>5. SubSeq(buf, kCheapPrepend + 1, kCheapPrepend) = <<>>
    BY SubSeqEmpty
  <2> QED
    BY <1>1, <1>3, <2>1, <2>2, <2>3, <2>4, <2>5 DEF ContentOf, Bytes
<1> QED
  BY <1>4, <1>5

\* Copying data in front of the read index puts it in front of the content.
LEMMA PrependProperties ==
  ASSUME NEW s, Good(s), NEW data \in Seq(Byte), NEW q \in Nat, q + Len(data) = s.r,
         NEW t, t = Layout(Copied(s.buf, q, data), q, s.w)
  PROVE  Good(t) /\ ContentOf(t) = data \o ContentOf(s)
<1>0. PICK buf \in Seq(Byte), r \in Nat, w \in Nat :
        /\ s = Layout(buf, r, w) /\ s.buf = buf /\ s.r = r /\ s.w = w
        /\ r <= w /\ w <= Len(buf) /\ kCheapPrepend <= Len(buf) /\ Len(buf) \in Nat
  BY GoodParts
<1> DEFINE c == Copied(buf, q, data)
           b == Bytes(buf, r, w)
<1>1. /\ Len(buf) \in Nat /\ Len(data) \in Nat /\ r <= w /\ w <= Len(buf)
      /\ q + Len(data) = r /\ kCheapPrepend <= Len(buf) /\ q <= w
  BY <1>0, LenProperties
<1>2. /\ c \in Seq(Byte) /\ Len(c) = Len(buf)
      /\ \A i \in 1 .. Len(buf) : c[i] =
           IF q < i /\ i <= q + Len(data) THEN data[i - q] ELSE buf[i]
  BY CopiedProperties
<1>3. t = Layout(c, q, w) /\ ContentOf(s) = b
  BY <1>0 DEF ContentOf
<1> HIDE DEF c
<1>4. t.buf = c /\ t.r = q /\ t.w = w /\ t \in Layouts
  BY <1>2, <1>3 DEF Layout, Layouts
<1>5. /\ Bytes(c, q, w) \in Seq(Byte) /\ Len(Bytes(c, q, w)) = w - q
      /\ \A i \in 1 .. (w - q) : Bytes(c, q, w)[i] = c[q + i]
  <2>1. w <= Len(c)
    BY <1>1, <1>2
  <2> QED
    BY <1>1, <1>2, <2>1, BytesProperties, SMTT(40)
<1>6. /\ b \in Seq(Byte) /\ Len(b) = w - r
      /\ \A i \in 1 .. (w - r) : b[i] = buf[r + i]
  BY <1>1, BytesProperties, ZenonT(40)
<1> HIDE DEF b
<1>7. /\ data \o b \in Seq(Byte) /\ Len(data \o b) = w - q
      /\ \A i \in 1 .. (w - q) : (data \o b)[i] =
           IF i <= Len(data) THEN data[i] ELSE b[i - Len(data)]
  <2>5. PICK l \in Nat : l = Len(data) /\ q + l = r
    BY <1>1
  <2>6. l + (w - r) = w - q
    BY <1>1, <2>5
  <2>1. Len(data) + Len(b) = w - q
    BY <1>6, <2>5, <2>6
  <2> DEFINE y == data \o b
  <2>2. /\ y \in Seq(Byte) /\ Len(y) = Len(data) + Len(b)
        /\ \A i \in 1 .. Len(data) + Len(b) : y[i] =
             IF i <= Len(data) THEN data[i] ELSE b[i - Len(data)]
    BY <1>6, ConcatProperties, Zenon
  <2> HIDE DEF y
  <2>3. Len(y) = w - q
    BY <2>1, <2>2
  <2>4. \A i \in 1 .. (w - q) : y[i] = IF i <= Len(data) THEN data[i] ELSE b[i - Len(data)]
    BY <2>1, <2>2
  <2> QED
    BY <2>2, <2>3, <2>4 DEF y
<1>8. \A i \in 1 .. (w - q) : c[q + i] = (data \o b)[i]
  <2> SUFFICES ASSUME NEW i \in 1 .. (w - q) PROVE c[q + i] = (data \o b)[i]
    OBVIOUS
  <2>1. q + i \in 1 .. Len(buf) /\ q < q + i /\ (q + i) - q = i
    BY <1>1
  <2>2. CASE i <= Len(data)
    <3>1. q + i <= q + Len(data)
      BY <1>1, <2>2
    <3> QED
      BY <1>2, <1>7, <2>1, <2>2, <3>1
  <2>3. CASE ~(i <= Len(data))
    <3>1. ~(q + i <= q + Len(data)) /\ i - Len(data) \in 1 .. (w - r)
          /\ r + (i - Len(data)) = q + i
      BY <1>1, <2>3
    <3>2. c[q + i] = buf[q + i]
      BY <1>2, <2>1, <3>1
    <3>3. (data \o b)[i] = b[i - Len(data)]
      BY <1>7, <2>3
    <3> QED
      BY <1>6, <3>1, <3>2, <3>3
  <2> QED
    BY <2>2, <2>3
<1>9. Bytes(c, q, w) = data \o b
  <2> DEFINE x == Bytes(c, q, w)
             y == data \o b
  <2>1. x \in Seq(Byte) /\ y \in Seq(Byte) /\ Len(x) = Len(y) /\ Len(x) = w - q
    BY <1>5, <1>7
  <2>2. \A i \in 1 .. Len(x) : x[i] = y[i]
    BY <1>5, <1>8, <2>1
  <2> HIDE DEF x, y
  <2>3. x = y
    BY <2>1, <2>2, SeqEqual
  <2> QED
    BY <2>3 DEF x, y
<1> QED
  BY <1>1, <1>2, <1>3, <1>4, <1>9 DEF Good, ContentOf

\* The first n of the readable bytes.
LEMMA Prefix ==
  ASSUME NEW buf, NEW r, NEW q, NEW w, NEW n, Within(buf, r, q, w, n)
  PROVE  Bytes(buf, r, q) = SubSeq(Bytes(buf, r, w), 1, n)
<1> USE DEF Within
<1> DEFINE b == Bytes(buf, r, w)
<1>1. /\ b \in Seq(Byte) /\ Len(b) = w - r
      /\ \A i \in 1 .. (w - r) : b[i] = buf[r + i]
  BY BytesProperties
<1> HIDE DEF b
<1>2. Bytes(b, 0, n) = SubSeq(b, 1, n)
  BY DEF Bytes
<1>3. Len(buf) \in Nat
  BY LenProperties
<1>4. Same(b, 0, n, buf, r, q)
  BY <1>1, <1>3 DEF Same
<1> QED
  BY <1>2, <1>4, SameBytes DEF b

-----------------------------------------------------------------------------
(***************************************************************************)
(* The invariant and the refinement.                                       *)
(***************************************************************************)

\* TypeOK is not inductive: retrieveAll() needs the prepend space to exist.
IndexInv == Good(Current) /\ given \in Seq(Byte) /\ taken \in Seq(Byte)

\* The three members of the current state, as a record.
LEMMA CurrentParts ==
  /\ Current.buf = buffer_ /\ Current.r = readerIndex_ /\ Current.w = writerIndex_
  /\ Current = Layout(buffer_, readerIndex_, writerIndex_)
  /\ ContentOf(Current) = Content
BY DEF Current, Layout, ContentOf, Content

\* The invariant on the indexes implies the type invariant.
LEMMA IndexInvTypes ==
  ASSUME IndexInv
  PROVE  /\ TypeOK
         /\ Len(buffer_) \in Nat /\ kCheapPrepend <= Len(buffer_)
         /\ Content \in Seq(Byte) /\ Len(Content) = writerIndex_ - readerIndex_
<1>1. Good(Current) /\ Current.buf = buffer_ /\ Current.r = readerIndex_
      /\ Current.w = writerIndex_
  BY CurrentParts DEF IndexInv
<1>2. TypeOK /\ kCheapPrepend <= Len(buffer_)
  BY <1>1 DEF Good, Layouts, TypeOK, IndexInv
<1>3. Len(buffer_) \in Nat
  BY <1>2, LenProperties DEF TypeOK
<1>4. Content \in Seq(Byte) /\ Len(Content) = writerIndex_ - readerIndex_
  BY <1>2, BytesProperties DEF TypeOK, Content
<1> QED
  BY <1>2, <1>3, <1>4

\* What an operation's new state says of the three variables.
LEMMA BecomeProperties ==
  ASSUME NEW t, Good(t), Become(t)
  PROVE  Good(Current)' /\ Content' = ContentOf(t)
<1>1. Current' = t
  BY DEF Become, Current, Layout, Good, Layouts
<1>2. Good(Current)' = Good(Current')
  BY DEF Good, Layouts
<1> QED
  BY <1>1, <1>2 DEF Become, Content, ContentOf

\* The bounded sets of data hold sequences of bytes.
LEMMA DataType == Data \subseteq Seq(Byte)
BY DEF Data

\* The constructor establishes the invariant on the indexes.
LEMMA IndexInit == Init => IndexInv
<1> SUFFICES ASSUME Init PROVE IndexInv
  OBVIOUS
<1>1. PICK n \in Nat : n = kCheapPrepend + kInitialSize /\ kCheapPrepend <= n
  BY SizeAssumption
<1>2. buffer_ \in Seq(Byte) /\ Len(buffer_) = n
  BY <1>1, ZerosType DEF Init
<1>3. Current = Layout(buffer_, kCheapPrepend, kCheapPrepend)
  BY DEF Current, Init
<1>4. Good(Current)
  BY <1>1, <1>2, <1>3, SizeAssumption DEF Good, Layouts, Layout
<1> QED
  BY <1>4, EmptySeq DEF Init, IndexInv

\* Every operation keeps the indexes in order and does to the content what
\* the abstract queue does.
LEMMA StepRefines ==
  ASSUME IndexInv, [Next]_vars
  PROVE  IndexInv' /\ [Queue!Next]_(Queue!vars)
<1> USE IndexInvTypes
<1> DEFINE cur == Current
<1>0. Good(cur) /\ ContentOf(cur) = Content /\ cur.buf = buffer_ /\ cur.r = readerIndex_
      /\ cur.w = writerIndex_ /\ cur = Layout(buffer_, readerIndex_, writerIndex_)
  BY CurrentParts DEF IndexInv
<1>e. <<>> \in Seq(Byte)
  BY EmptySeq
<1> HIDE DEF cur
<1>1. ASSUME NEW data \in Data, append(data)
      PROVE  IndexInv' /\ Queue!Put
  <2>1. data \in Seq(Byte)
    BY DataType
  <2>2. Become(appended(cur, data)) /\ given' = data /\ taken' = <<>>
    BY <1>1 DEF append, Receives, cur
  <2>3. Good(appended(cur, data)) /\ ContentOf(appended(cur, data)) = Content \o data
    BY <1>0, <2>1, AppendedProperties
  <2>4. Good(Current)' /\ Content' = Content \o data
    BY <2>2, <2>3, BecomeProperties
  <2> QED
    BY <1>e, <2>1, <2>2, <2>4 DEF IndexInv, Queue!Put
<1>2. ASSUME NEW data \in Data, prepend(data)
      PROVE  IndexInv' /\ Queue!PutFront
  <2>1. data \in Seq(Byte) /\ Len(data) \in Nat
    BY DataType, LenProperties
  <2>2. PICK q \in Nat : q = readerIndex_ - Len(data) /\ q + Len(data) = readerIndex_
    <3>1. readerIndex_ \in Nat /\ Len(data) <= readerIndex_
      BY <1>2 DEF prepend, prependableBytes, TypeOK
    <3>2. readerIndex_ - Len(data) \in Nat
      BY <2>1, <3>1
    <3> QED
      BY <2>1, <3>1, <3>2
  <2> DEFINE t == Layout(Copied(buffer_, q, data), q, writerIndex_)
  <2>3. Good(t) /\ ContentOf(t) = data \o Content
    BY <1>0, <2>1, <2>2, PrependProperties, ZenonT(40)
  <2>4. Become(t) /\ given' = data /\ taken' = <<>>
    BY <1>2, <2>2 DEF prepend, Receives, Become, Layout
  <2> HIDE DEF t
  <2>5. Good(Current)' /\ Content' = data \o Content
    BY <2>3, <2>4, BecomeProperties
  <2> QED
    BY <1>e, <2>1, <2>4, <2>5 DEF IndexInv, Queue!PutFront
<1>3. ASSUME NEW len \in 0 .. MaxContent + 1, Become(retrieved(Current, len)), given' = <<>>,
             NEW n, n = IF len < writerIndex_ - readerIndex_
                          THEN len ELSE writerIndex_ - readerIndex_,
             taken' \in {<<>>, SubSeq(Content, 1, n)}, taken' \in Seq(Byte)
      PROVE  IndexInv' /\ \E k \in 0 .. Len(Content) : Queue!Leave(k)
  <2>1. len \in Nat
    BY SizeAssumption
  <2>2. /\ Good(retrieved(cur, len)) /\ n \in 0 .. Len(Content)
        /\ ContentOf(retrieved(cur, len)) = SubSeq(Content, n + 1, Len(Content))
    BY <1>0, <1>3, <2>1, RetrievedProperties
  <2>3. Good(Current)' /\ Content' = SubSeq(Content, n + 1, Len(Content))
    BY <1>3, <2>2, BecomeProperties DEF cur
  <2>4. Queue!Leave(n)
    BY <1>3, <2>3 DEF Queue!Leave
  <2> QED
    BY <1>3, <1>e, <2>2, <2>3, <2>4 DEF IndexInv
<1>4. ASSUME NEW len \in 0 .. MaxContent + 1, retrieve(len)
      PROVE  IndexInv' /\ \E k \in 0 .. Len(Content) : Queue!Leave(k)
  BY <1>3, <1>4, <1>e DEF retrieve, Returns
<1>5. ASSUME NEW len \in 0 .. MaxContent + 1, retrieveAsString(len)
      PROVE  IndexInv' /\ \E k \in 0 .. Len(Content) : Queue!Leave(k)
  <2>1. len \in Nat /\ len <= writerIndex_ - readerIndex_
    BY <1>5, SizeAssumption DEF retrieveAsString, readableBytes
  <2>2. readerIndex_ + len \in Nat /\ readerIndex_ + len <= writerIndex_
    BY <2>1 DEF TypeOK
  <2>3. PICK q \in Nat : q = readerIndex_ + len /\ q <= writerIndex_
    BY <2>2
  <2>4. Bytes(buffer_, readerIndex_, q) = SubSeq(Content, 1, len)
    <3>1. Within(buffer_, readerIndex_, q, writerIndex_, len)
      BY <2>1, <2>3 DEF Within, TypeOK
    <3> QED
      BY <3>1, Prefix DEF Content
  <2>5. Bytes(buffer_, readerIndex_, q) \in Seq(Byte)
    <3>1. /\ buffer_ \in Seq(Byte) /\ readerIndex_ \in Nat
          /\ readerIndex_ <= q /\ q <= Len(buffer_)
      BY <2>1, <2>3 DEF TypeOK
    <3> QED
      BY <3>1, <2>3, BytesProperties, Zenon
  <2>6. given' = <<>> /\ taken' = SubSeq(Content, 1, len) /\ taken' \in Seq(Byte)
        /\ Become(retrieved(Current, len))
    BY <1>5, <2>3, <2>4, <2>5 DEF retrieveAsString, Returns
  <2>7. len = IF len < writerIndex_ - readerIndex_
                THEN len ELSE writerIndex_ - readerIndex_
    BY <2>1 DEF TypeOK
  <2> QED
    BY <1>3, <2>6, <2>7
<1>6. ASSUME NEW data \in Data, readFd(data)
      PROVE  IndexInv' /\ Queue!Put
  <2>1. data \in Seq(Byte) /\ Len(data) \in Nat
    BY DataType, LenProperties
  <2>2. given' = data /\ taken' = <<>>
    BY <1>6 DEF readFd, Receives
  <2>3. SUFFICES \E t : Good(t) /\ ContentOf(t) = Content \o data /\ Become(t)
    <3>1. PICK t : Good(t) /\ ContentOf(t) = Content \o data /\ Become(t)
      BY <2>3
    <3>2. Good(Current)' /\ Content' = Content \o data
      BY <3>1, BecomeProperties
    <3> QED
      BY <1>e, <2>1, <2>2, <3>2 DEF IndexInv, Queue!Put
  <2>4. CASE Len(data) <= writableBytes
    <3> DEFINE t == Layout(Copied(buffer_, writerIndex_, data),
                           readerIndex_, writerIndex_ + Len(data))
    <3>1. Good(t) /\ ContentOf(t) = Content \o data
      BY <1>0, <2>1, <2>4, WriteProperties DEF writableBytes
    <3>2. Become(t)
      BY <1>6, <2>4 DEF readFd
    <3> QED
      BY <3>1, <3>2
  <2>5. CASE ~(Len(data) <= writableBytes)
    <3>1. PICK k \in Nat : k = writableBytes /\ k < Len(data)
                           /\ writerIndex_ + k = Len(buffer_)
      <4>1. writableBytes \in Nat /\ writerIndex_ + writableBytes = Len(buffer_)
        BY DEF writableBytes, TypeOK
      <4> QED
        BY <2>1, <2>5, <4>1
    <3> DEFINE first == SubSeq(data, 1, k)
               rest == SubSeq(data, k + 1, Len(data))
               d == Layout(Copied(buffer_, writerIndex_, first), readerIndex_, Len(buffer_))
    <3>2. \A i \in 1 .. Len(data) : data[i] \in Byte
      BY <2>1, ElementOfSeq
    <3>3. first \in Seq(Byte) /\ Len(first) = k
      BY <2>1, <3>1, <3>2, SubSeqProperties
    <3>4. rest \in Seq(Byte)
      BY <2>1, <3>1, <3>2, SubSeqProperties
    <3>5. first \o rest = data
      <4>1. /\ 1 \in 1 .. Len(data) + 1 /\ k \in 1 - 1 .. Len(data)
            /\ Len(data) \in k .. Len(data)
        BY <2>1, <3>1
      <4>2. first \o rest = SubSeq(data, 1, Len(data))
        BY <2>1, <4>1, ConcatAdjacentSubSeq, Zenon
      <4>3. SubSeq(data, 1, Len(data)) = data
        BY <2>1, SubSeqFull
      <4> QED
        BY <4>2, <4>3
    <3>6. Become(appended(d, rest))
      BY <1>6, <2>5, <3>1 DEF readFd
    <3> HIDE DEF first, rest
    <3>7. Good(d) /\ ContentOf(d) = Content \o first
      <4>1. Len(first) <= Len(cur.buf) - cur.w
        BY <1>0, <3>1, <3>3 DEF writableBytes
      <4>2. d = Layout(Copied(cur.buf, cur.w, first), cur.r, cur.w + Len(first))
        BY <1>0, <3>1, <3>3
      <4> QED
        BY <1>0, <3>3, <4>1, <4>2, WriteProperties
    <3> HIDE DEF d
    <3>8. Good(appended(d, rest)) /\ ContentOf(appended(d, rest)) = (Content \o first) \o rest
      BY <3>4, <3>7, AppendedProperties
    <3>9. (Content \o first) \o rest = Content \o data
      <4>1. Content \in Seq(Byte)
        OBVIOUS
      <4>3. first \in Seq(Byte) /\ rest \in Seq(Byte)
        BY <3>3, <3>4
      <4>2. (Content \o first) \o rest = Content \o (first \o rest)
        BY <4>1, <4>3, ConcatAssociative, SMTT(40)
      <4> QED
        BY <3>5, <4>2
    <3> QED
      BY <3>6, <3>8, <3>9
  <2> QED
    BY <2>4, <2>5
<1>7. CASE UNCHANGED vars
  BY <1>7 DEF vars, IndexInv, Good, Current, Content, Bytes, Queue!vars
<1> QED
  BY <1>1, <1>2, <1>4, <1>5, <1>6, <1>7 DEF Next, Queue!Next

\* The indexes never leave the vector and never cross, whatever the sequence
\* of operations and the sizes of the data.
THEOREM BufferTypes == Spec => []TypeOK
<1>1. IndexInv => TypeOK
  BY IndexInvTypes
<1>2. IndexInv /\ [Next]_vars => IndexInv'
  BY StepRefines
<1> QED
  BY IndexInit, <1>1, <1>2, PTL DEF Spec

\* A Buffer implements the byte queue, for every size of the vector, the
\* prepend space and the stack buffer.
THEOREM BufferRefines == Spec => BufferIsByteQueue
<1>1. Init => Queue!Init
  <2> SUFFICES ASSUME Init PROVE Queue!Init
    OBVIOUS
  <2>1. Content = <<>>
    BY SizeAssumption, SubSeqEmpty DEF Init, Content, Bytes
  <2> QED
    BY <2>1 DEF Init, Queue!Init
<1>2. IndexInv /\ [Next]_vars => IndexInv' /\ [Queue!Next]_(Queue!vars)
  BY StepRefines
<1> QED
  BY IndexInit, <1>1, <1>2, PTL DEF Spec, BufferIsByteQueue, Queue!Spec

\* makeSPace() resizes only when the readable bytes and len more would not
\* fit, so that the new vector holds less than twice as many as then are in it.
LEMMA MakeSpaceGrowth ==
  ASSUME NEW s, Good(s), NEW len \in Nat, Len(s.buf) - s.w < len,
         NEW m, m = makeSPace(s, len)
  PROVE  Len(m.buf) > Len(s.buf) =>
           Len(m.buf) < 2 * ((m.w - m.r) + len) + kCheapPrepend
<1> USE SizeAssumption
<1>0. PICK buf \in Seq(Byte), r \in Nat, w \in Nat :
        /\ s = Layout(buf, r, w) /\ s.buf = buf /\ s.r = r /\ s.w = w
        /\ r <= w /\ w <= Len(buf) /\ kCheapPrepend <= Len(buf) /\ Len(buf) \in Nat
  BY GoodParts
<1>1. CASE (Len(buf) - w) + r < len + kCheapPrepend
  <2>1. PICK k \in Nat : k = w + len - Len(buf)
    BY <1>0
  <2>2. m = Layout(buf \o Zeros(k), r, w)
    BY <1>0, <1>1, <2>1 DEF makeSPace
  <2>3. m.buf = buf \o Zeros(k) /\ m.r = r /\ m.w = w
    BY <2>2 DEF Layout
  <2>4. Len(m.buf) = Len(buf) + k
    BY <2>3, ResizeProperties
  <2> QED
    BY <1>0, <1>1, <2>1, <2>3, <2>4
<1>2. CASE ~((Len(buf) - w) + r < len + kCheapPrepend)
  <2>1. m.buf = Copied(buf, kCheapPrepend, Bytes(buf, r, w))
    BY <1>0, <1>2 DEF makeSPace, Layout
  <2>2. Bytes(buf, r, w) \in Seq(Byte)
    BY <1>0, BytesProperties
  <2>3. Len(m.buf) = Len(buf)
    BY <1>0, <2>1, <2>2, CopiedProperties
  <2> QED
    BY <1>0, <2>3
<1> QED
  BY <1>1, <1>2

\* So does append(), which calls it when there is too little room.
LEMMA AppendedGrowth ==
  ASSUME NEW s, Good(s), NEW data \in Seq(Byte), NEW t, t = appended(s, data)
  PROVE  Len(t.buf) > Len(s.buf) =>
           Len(t.buf) < 2 * (t.w - t.r) + kCheapPrepend
<1>1. PICK len \in Nat : len = Len(data)
  BY LenProperties
<1>2. PICK e : e = ensureWritableBytes(s, len)
  OBVIOUS
<1>3. Good(e)
  BY <1>2, EnsureWritableProperties
<1>4. PICK buf \in Seq(Byte), r \in Nat, w \in Nat :
        /\ e = Layout(buf, r, w) /\ e.buf = buf /\ e.r = r /\ e.w = w
        /\ r <= w /\ w <= Len(buf) /\ kCheapPrepend <= Len(buf) /\ Len(buf) \in Nat
  BY <1>3, GoodParts
<1>5. t = Layout(Copied(buf, w, data), r, w + len)
  BY <1>1, <1>2, <1>4 DEF appended
<1>6. t.buf = Copied(buf, w, data) /\ t.r = r /\ t.w = w + len
  BY <1>5 DEF Layout
<1>7. Len(t.buf) = Len(buf)
  BY <1>4, <1>6, CopiedProperties
<1>8. CASE Len(s.buf) - s.w < len
  <2>1. e = makeSPace(s, len)
    BY <1>2, <1>8 DEF ensureWritableBytes
  <2>2. Len(buf) > Len(s.buf) => Len(buf) < 2 * ((w - r) + len) + kCheapPrepend
    BY <1>4, <1>8, <2>1, MakeSpaceGrowth
  <2>3. (w - r) + len = t.w - t.r
    BY <1>4, <1>6
  <2> QED
    BY <1>7, <2>2, <2>3
<1>9. CASE ~(Len(s.buf) - s.w < len)
  <2>1. e = s
    BY <1>2, <1>9 DEF ensureWritableBytes
  <2> QED
    BY <1>4, <1>7, <2>1
<1> QED
  BY <1>8, <1>9

\* What a step that becomes such a layout means for the property.
LEMMA BecomeGrowth ==
  ASSUME NEW t, Good(t), Become(t),
         Len(t.buf) > Len(buffer_) => Len(t.buf) < 2 * (t.w - t.r) + kCheapPrepend
  PROVE  Len(buffer_') > Len(buffer_) =>
           Len(buffer_') < 2 * Len(Content') + kCheapPrepend
<1>1. Content' = ContentOf(t)
  BY BecomeProperties
<1>2. t.buf \in Seq(Byte) /\ t.r \in Nat /\ t.w \in Nat /\ t.r <= t.w /\ t.w <= Len(t.buf)
  BY DEF Good, Layouts
<1>3. Len(ContentOf(t)) = t.w - t.r
  BY <1>2, BytesProperties DEF ContentOf
<1> QED
  BY <1>1, <1>3 DEF Become

\* The other operations keep the length of the vector.
LEMMA StepGrowth ==
  ASSUME IndexInv, [Next]_vars
  PROVE  Len(buffer_') > Len(buffer_) =>
           Len(buffer_') < 2 * Len(Content') + kCheapPrepend
<1> USE IndexInvTypes
<1> DEFINE Bounded == Len(buffer_') > Len(buffer_) =>
                        Len(buffer_') < 2 * Len(Content') + kCheapPrepend
           cur == Current
<1>0. Good(cur) /\ cur.buf = buffer_ /\ cur.r = readerIndex_ /\ cur.w = writerIndex_
  BY CurrentParts DEF IndexInv
<1>k. ASSUME Len(buffer_') = Len(buffer_) PROVE Bounded
  BY <1>k
<1> HIDE DEF cur, Bounded
<1>1. ASSUME NEW data \in Data, append(data) PROVE Bounded
  <2>1. data \in Seq(Byte)
    BY DataType
  <2>2. PICK t : t = appended(cur, data)
    OBVIOUS
  <2>3. Become(t)
    BY <1>1, <2>2 DEF append, cur
  <2>4. Good(t) /\ (Len(t.buf) > Len(buffer_) => Len(t.buf) < 2 * (t.w - t.r) + kCheapPrepend)
    BY <1>0, <2>1, <2>2, AppendedProperties, AppendedGrowth
  <2> QED
    BY <2>3, <2>4, BecomeGrowth DEF Bounded
<1>2. ASSUME NEW data \in Data, prepend(data) PROVE Bounded
  <2>1. data \in Seq(Byte) /\ Len(data) \in Nat
    BY DataType, LenProperties
  <2>2. PICK q \in Nat : q = readerIndex_ - Len(data)
    <3>1. readerIndex_ \in Nat /\ Len(data) <= readerIndex_
      BY <1>2 DEF prepend, prependableBytes, TypeOK
    <3>2. readerIndex_ - Len(data) \in Nat
      BY <2>1, <3>1
    <3> QED
      BY <3>2
  <2>3. buffer_' = Copied(buffer_, q, data)
    BY <1>2, <2>2 DEF prepend
  <2>4. buffer_ \in Seq(Byte)
    BY DEF TypeOK
  <2>5. Len(buffer_') = Len(buffer_)
    BY <2>1, <2>3, <2>4, CopiedProperties, Zenon
  <2> QED
    BY <1>k, <2>5
<1>3. ASSUME NEW len \in 0 .. MaxContent + 1, retrieve(len) \/ retrieveAsString(len) PROVE Bounded
  <2>1. buffer_' = buffer_
    BY <1>3 DEF retrieve, retrieveAsString, Become, retrieved, Layout, Current
  <2> QED
    BY <1>k, <2>1
<1>4. ASSUME NEW data \in Data, readFd(data) PROVE Bounded
  <2>1. data \in Seq(Byte) /\ Len(data) \in Nat /\ \A i \in 1 .. Len(data) : data[i] \in Byte
    BY DataType, LenProperties, ElementOfSeq
  <2>2. buffer_ \in Seq(Byte) /\ readerIndex_ \in Nat /\ writerIndex_ \in Nat
        /\ readerIndex_ <= writerIndex_ /\ writerIndex_ <= Len(buffer_)
    BY DEF TypeOK
  <2>3. CASE Len(data) <= writableBytes
    <3>1. buffer_' = Copied(buffer_, writerIndex_, data)
      BY <1>4, <2>3 DEF readFd, Become, Layout
    <3>2. Len(buffer_') = Len(buffer_)
      BY <2>1, <2>2, <3>1, CopiedProperties
    <3> QED
      BY <1>k, <3>2
  <2>4. CASE ~(Len(data) <= writableBytes)
    <3>1. PICK k \in Nat : k = writableBytes /\ k < Len(data)
      <4>1. Len(buffer_) \in Nat
        BY <2>2, LenProperties
      <4>2. writableBytes \in Nat
        BY <2>2, <4>1 DEF writableBytes
      <4> QED
        BY <2>1, <2>4, <4>2
    <3> DEFINE first == SubSeq(data, 1, k)
               rest == SubSeq(data, k + 1, Len(data))
               d == Layout(Copied(buffer_, writerIndex_, first), readerIndex_, Len(buffer_))
    <3>2. first \in Seq(Byte) /\ rest \in Seq(Byte)
      BY <2>1, <3>1, SubSeqProperties
    <3>3. Become(appended(d, rest))
      BY <1>4, <2>4, <3>1 DEF readFd
    <3> HIDE DEF first, rest
    <3>4. /\ Copied(buffer_, writerIndex_, first) \in Seq(Byte)
          /\ Len(Copied(buffer_, writerIndex_, first)) = Len(buffer_)
      BY <2>2, <3>2, CopiedProperties
    <3>5. Good(d) /\ Len(d.buf) = Len(buffer_)
      BY <2>2, <3>4 DEF Good, Layouts, Layout
    <3> HIDE DEF d
    <3>6. PICK t : t = appended(d, rest)
      OBVIOUS
    <3>7. Good(t) /\ (Len(t.buf) > Len(buffer_) => Len(t.buf) < 2 * (t.w - t.r) + kCheapPrepend)
      BY <3>2, <3>5, <3>6, AppendedProperties, AppendedGrowth
    <3> QED
      BY <3>3, <3>6, <3>7, BecomeGrowth DEF Bounded
  <2> QED
    BY <2>3, <2>4
<1>5. CASE UNCHANGED vars
  BY <1>5, <1>k DEF vars
<1> QED
  BY <1>1, <1>2, <1>3, <1>4, <1>5 DEF Next, Bounded

\* The vector grows only when the readable bytes do not fit without it, and
\* never to twice what it then holds plus the cheap prepend space.
THEOREM BufferGrowth == Spec => GrowthIsBounded
<1>1. IndexInv /\ [Next]_vars => IndexInv'
  BY StepRefines
<1>2. IndexInv /\ [Next]_vars =>
        [Len(buffer_') > Len(buffer_) =>
           Len(buffer_') < 2 * Len(Content') + kCheapPrepend]_vars
  BY StepGrowth
<1> QED
  BY IndexInit, <1>1, <1>2, PTL DEF Spec, GrowthIsBounded
=============================================================================
