---------------------------- MODULE BufferProofs ----------------------------
(***************************************************************************)
(* Proofs about Buffer for buffers and writes of any size, as long as      *)
(* realloc does not fail and memcpy copies upwards, as in run fifo.        *)
(***************************************************************************)
EXTENDS Buffer, SequenceTheorems, TLAPS

(* What TypeOK says of the variables, said of a buffer. *)
BufferOK(b) ==
  /\ b.capacity \in Nat
  /\ b.data \in [0 .. b.capacity - 1 -> Byte]
  /\ b.readPos \in 0 .. b.writePos
  /\ b.writePos \in 0 .. b.capacity

Careful == ~ReallocFails /\ CopyOrders = {"up"}

(* The unread bytes are a sequence of as many bytes. *)
LEMMA UnreadType ==
  ASSUME NEW b, BufferOK(b)
  PROVE  /\ UnreadIn(b) \in Seq(Byte)
         /\ Len(UnreadIn(b)) = bufferReadableSize(b)
         /\ bufferReadableSize(b) \in Nat
         /\ \A k \in 1 .. bufferReadableSize(b) : UnreadIn(b)[k] = b.data[b.readPos + k - 1]
<1> DEFINE n == bufferReadableSize(b)
<1>1. n \in Nat /\ n = b.writePos - b.readPos
  BY DEF bufferReadableSize, BufferOK
<1>2. \A k \in 1 .. n : b.readPos + k - 1 \in 0 .. b.capacity - 1
  BY <1>1 DEF BufferOK
<1>3. \A k \in 1 .. n : b.data[b.readPos + k - 1] \in Byte
  BY <1>2 DEF BufferOK
<1>4. UnreadIn(b) = [k \in 1 .. n |-> b.data[b.readPos + k - 1]]
  BY <1>1 DEF UnreadIn
<1> HIDE DEF n
<1>5. UnreadIn(b) \in [1 .. n -> Byte]
  BY <1>3, <1>4
<1>6. UnreadIn(b) \in Seq(Byte)
  BY <1>1, <1>5, SeqDef
<1>7. Len(UnreadIn(b)) = n
  BY <1>1, <1>4, <1>6, LenProperties
<1> QED BY <1>1, <1>4, <1>6, <1>7 DEF n

(* Bytes past what is unread are free to be anything. *)
LEMMA SameUnread ==
  ASSUME NEW b, NEW e, BufferOK(b), BufferOK(e),
         bufferReadableSize(e) = bufferReadableSize(b),
         \A k \in 0 .. bufferReadableSize(b) - 1 : e.data[e.readPos + k] = b.data[b.readPos + k]
  PROVE  UnreadIn(e) = UnreadIn(b)
<1>1. \A k \in 1 .. bufferReadableSize(b) :
        e.data[e.readPos + k - 1] = b.data[b.readPos + k - 1]
  <2> TAKE k \in 1 .. bufferReadableSize(b)
  <2>1. k - 1 \in 0 .. bufferReadableSize(b) - 1
    BY DEF bufferReadableSize, BufferOK
  <2>2. e.data[e.readPos + (k - 1)] = b.data[b.readPos + (k - 1)]
    BY <2>1
  <2>3. e.readPos + (k - 1) = e.readPos + k - 1 /\ b.readPos + (k - 1) = b.readPos + k - 1
    BY DEF BufferOK
  <2> QED BY <2>2, <2>3
<1> QED BY <1>1 DEF UnreadIn, bufferReadableSize

LEMMA TidyLemma ==
  ASSUME NEW b, BufferOK(b), b.readPos > 0
  PROVE  /\ BufferOK(Tidy(b, "up"))
         /\ UnreadIn(Tidy(b, "up")) = UnreadIn(b)
         /\ bufferWriteableSize(Tidy(b, "up")) = b.readPos + bufferWriteableSize(b)
         /\ Tidy(b, "up").capacity = b.capacity
<1> DEFINE n == bufferReadableSize(b)
           d == memcpy(b.data, b.readPos, n, "up")
           e == Tidy(b, "up")
<1>1. n \in Nat /\ b.readPos + n = b.writePos /\ b.writePos <= b.capacity
  BY DEF bufferReadableSize, BufferOK
<1>2. d = [k \in 0 .. b.capacity - 1 |-> IF k < n THEN b.data[k + b.readPos] ELSE b.data[k]]
  BY DEF memcpy, Source, BufferOK
<1>3. d \in [0 .. b.capacity - 1 -> Byte]
  <2>1. \A k \in 0 .. b.capacity - 1 : k < n => k + b.readPos \in 0 .. b.capacity - 1
    BY <1>1 DEF BufferOK
  <2>2. \A k \in 0 .. b.capacity - 1 :
          (IF k < n THEN b.data[k + b.readPos] ELSE b.data[k]) \in Byte
    BY <2>1 DEF BufferOK
  <2> QED BY <1>2, <2>2
<1>4. e = [data |-> d, capacity |-> b.capacity, readPos |-> 0, writePos |-> n]
  BY DEF Tidy
<1> HIDE DEF d, e
<1>5. BufferOK(e)
  BY <1>1, <1>3, <1>4 DEF BufferOK
<1>6. bufferReadableSize(e) = n
  BY <1>1, <1>4 DEF bufferReadableSize
<1>7. \A k \in 0 .. n - 1 : e.data[e.readPos + k] = b.data[b.readPos + k]
  BY <1>1, <1>2, <1>4 DEF BufferOK
<1>8. UnreadIn(e) = UnreadIn(b)
  BY <1>5, <1>6, <1>7, SameUnread
<1>9. bufferWriteableSize(e) = b.readPos + bufferWriteableSize(b) /\ e.capacity = b.capacity
  BY <1>1, <1>4 DEF bufferWriteableSize, BufferOK
<1> QED BY <1>5, <1>8, <1>9 DEF e

LEMMA GrowLemma ==
  ASSUME NEW b, BufferOK(b), NEW size \in Nat
  PROVE  /\ BufferOK(Grow(b, size))
         /\ UnreadIn(Grow(b, size)) = UnreadIn(b)
         /\ bufferWriteableSize(Grow(b, size)) = bufferWriteableSize(b) + size
         /\ Grow(b, size).capacity = b.capacity + size
<1> DEFINE d == [k \in 0 .. b.capacity + size - 1 |-> IF k < b.capacity THEN b.data[k] ELSE Zero]
           e == Grow(b, size)
<1>1. d \in [0 .. b.capacity + size - 1 -> Byte]
  BY BufferAssumption DEF BufferOK
<1>2. e = [data |-> d, capacity |-> b.capacity + size, readPos |-> b.readPos, writePos |-> b.writePos]
  BY DEF Grow
<1>3. \A k \in 0 .. b.capacity - 1 : d[k] = b.data[k]
  BY DEF BufferOK
<1> HIDE DEF d, e
<1>3a. /\ e.data = d /\ e.capacity = b.capacity + size
      /\ e.readPos = b.readPos /\ e.writePos = b.writePos
  BY <1>2
<1>4. BufferOK(e)
  <2>1. e.capacity \in Nat /\ e.readPos \in 0 .. e.writePos /\ e.writePos \in 0 .. e.capacity
    BY <1>3a DEF BufferOK
  <2>2. e.data \in [0 .. e.capacity - 1 -> Byte]
    <3>1. 0 .. e.capacity - 1 = 0 .. b.capacity + size - 1
      BY <1>3a DEF BufferOK
    <3> QED BY <1>1, <1>3a, <3>1, Zenon
  <2> QED BY <2>1, <2>2 DEF BufferOK
<1>5. bufferReadableSize(e) = bufferReadableSize(b)
  BY <1>3a DEF bufferReadableSize
<1>6. \A k \in 0 .. bufferReadableSize(b) - 1 : e.data[e.readPos + k] = b.data[b.readPos + k]
  <2>1. \A k \in 0 .. bufferReadableSize(b) - 1 : b.readPos + k \in 0 .. b.capacity - 1
    BY DEF bufferReadableSize, BufferOK
  <2> QED BY <1>3, <1>3a, <2>1
<1>7. UnreadIn(e) = UnreadIn(b)
  BY <1>4, <1>5, <1>6, SameUnread
<1>8. bufferWriteableSize(e) = bufferWriteableSize(b) + size
  BY <1>3a DEF bufferWriteableSize, BufferOK
<1> QED BY <1>3a, <1>4, <1>7, <1>8 DEF e

(* bufferExtendRoom makes room, keeps what is unread, and takes new memory  *)
(* only when unread and new bytes do not fit (Buffer.c:37-65).              *)
LEMMA ExtendRoom ==
  ASSUME Careful, NEW b, BufferOK(b), NEW size \in Nat \ {0},
         NEW e \in bufferExtendRoom(b, size)
  PROVE  /\ BufferOK(e)
         /\ UnreadIn(e) = UnreadIn(b)
         /\ bufferWriteableSize(e) >= size
         /\ e.capacity > b.capacity => bufferReadableSize(b) + size > b.capacity
         /\ e.capacity >= b.capacity
<1>1. CASE bufferWriteableSize(b) >= size
  BY <1>1 DEF bufferExtendRoom, BufferOK
<1>2. CASE ~(bufferWriteableSize(b) >= size) /\ CanTidy(b, size)
  <2>1. e = Tidy(b, "up")
    BY <1>2 DEF bufferExtendRoom, Careful
  <2>2. b.readPos > 0 /\ b.readPos + bufferWriteableSize(b) >= size
    BY <1>2 DEF CanTidy, bufferWriteableSize, BufferOK
  <2> QED BY <2>1, <2>2, TidyLemma DEF BufferOK
<1>3. CASE ~(bufferWriteableSize(b) >= size) /\ ~CanTidy(b, size)
  <2>1. e = Grow(b, size)
    BY <1>3 DEF bufferExtendRoom, Careful
  <2>2. bufferReadableSize(b) + size > b.capacity
    BY <1>3 DEF CanTidy, bufferWriteableSize, bufferReadableSize, BufferOK
  <2>3. bufferWriteableSize(b) \in Nat
    BY DEF bufferWriteableSize, BufferOK
  <2>4. size \in Nat /\ b.capacity + size >= b.capacity /\ bufferWriteableSize(b) + size >= size
    BY <2>3 DEF BufferOK
  <2> QED BY <2>1, <2>2, <2>4, GrowLemma
<1> QED BY <1>1, <1>2, <1>3

(* Bytes that fit are put behind what is unread. *)
LEMMA WriteLemma ==
  ASSUME NEW b, BufferOK(b), NEW bytes \in Seq(Byte), Len(bytes) <= bufferWriteableSize(b)
  PROVE  /\ BufferOK(Write(b, bytes))
         /\ UnreadIn(Write(b, bytes)) = UnreadIn(b) \o bytes
         /\ Write(b, bytes).capacity = b.capacity
         /\ bufferWriteableSize(Write(b, bytes)) = bufferWriteableSize(b) - Len(bytes)
         /\ bufferReadableSize(Write(b, bytes)) = bufferReadableSize(b) + Len(bytes)
<1> DEFINE d == [k \in DOMAIN b.data |->
                   IF k - b.writePos + 1 \in DOMAIN bytes
                   THEN bytes[k - b.writePos + 1] ELSE b.data[k]]
           e == Write(b, bytes)
           l == Len(bytes)
<1>1. /\ b.capacity \in Nat /\ b.readPos \in Nat /\ b.writePos \in Nat /\ l \in Nat
      /\ b.readPos <= b.writePos /\ b.writePos + l <= b.capacity
      /\ DOMAIN b.data = 0 .. b.capacity - 1 /\ DOMAIN bytes = 1 .. l
  BY DEF bufferWriteableSize, BufferOK
<1>2. /\ e.data = d /\ e.capacity = b.capacity
      /\ e.readPos = b.readPos /\ e.writePos = b.writePos + l
  BY DEF Write
<1>3. d \in [0 .. b.capacity - 1 -> Byte]
  <2>1. \A k \in 0 .. b.capacity - 1 :
          (IF k - b.writePos + 1 \in DOMAIN bytes
           THEN bytes[k - b.writePos + 1] ELSE b.data[k]) \in Byte
    BY DEF BufferOK
  <2> QED BY <1>1, <2>1
<1>4. /\ \A k \in 0 .. b.writePos - 1 : d[k] = b.data[k]
      /\ \A j \in 1 .. l : d[b.writePos + j - 1] = bytes[j]
  <2>1. \A k \in 0 .. b.writePos - 1 : k \in DOMAIN b.data /\ k - b.writePos + 1 \notin DOMAIN bytes
    BY <1>1
  <2>2. \A j \in 1 .. l : /\ b.writePos + j - 1 \in DOMAIN b.data
                         /\ (b.writePos + j - 1) - b.writePos + 1 = j
    BY <1>1
  <2> QED BY <1>1, <2>1, <2>2
<1> HIDE DEF d, e
<1>5. BufferOK(e)
  <2>1. e.capacity \in Nat /\ e.readPos \in 0 .. e.writePos /\ e.writePos \in 0 .. e.capacity
    BY <1>1, <1>2
  <2>2. e.data \in [0 .. e.capacity - 1 -> Byte]
    BY <1>2, <1>3, Zenon
  <2> QED BY <2>1, <2>2 DEF BufferOK
<1>6. UnreadIn(e) = UnreadIn(b) \o bytes
  <2> DEFINE m == bufferReadableSize(b)
  <2>1. /\ UnreadIn(b) \in Seq(Byte) /\ Len(UnreadIn(b)) = m /\ m \in Nat
        /\ \A k \in 1 .. m : UnreadIn(b)[k] = b.data[b.readPos + k - 1]
    BY UnreadType
  <2>2. m = b.writePos - b.readPos
    BY DEF bufferReadableSize
  <2>3. bufferReadableSize(e) = m + l
    BY <1>1, <1>2, <2>2 DEF bufferReadableSize
  <2>4. /\ UnreadIn(e) \in Seq(Byte) /\ Len(UnreadIn(e)) = m + l
        /\ \A k \in 1 .. m + l : UnreadIn(e)[k] = d[b.readPos + k - 1]
    BY <1>2, <1>5, <2>3, UnreadType
  <2>5. /\ UnreadIn(b) \o bytes \in Seq(Byte) /\ Len(UnreadIn(b) \o bytes) = m + l
        /\ \A k \in 1 .. m + l : (UnreadIn(b) \o bytes)[k] =
                               IF k <= m THEN UnreadIn(b)[k] ELSE bytes[k - m]
    <3> HIDE DEF m
    <3>1. UnreadIn(b) \in Seq(Byte) /\ Len(UnreadIn(b)) = m /\ Len(bytes) = l
      BY <2>1
    <3> QED BY <3>1, ConcatProperties
  <2> HIDE DEF m, l
  <2>6. \A k \in 1 .. m + l : UnreadIn(e)[k] = (UnreadIn(b) \o bytes)[k]
    <3> TAKE k \in 1 .. m + l
    <3>1. CASE k <= m
      <4>1. k \in 1 .. m /\ b.readPos + k - 1 \in 0 .. b.writePos - 1
        BY <1>1, <2>1, <2>2, <3>1
      <4> QED BY <1>4, <2>1, <2>4, <2>5, <3>1, <4>1
    <3>2. CASE ~(k <= m)
      <4>1. m \in Nat /\ l \in Nat /\ b.readPos \in Nat /\ b.writePos \in Nat
        BY <1>1, <2>1
      <4>2. k - m \in 1 .. l
        BY <3>2, <4>1
      <4>3. b.readPos + k - 1 = b.writePos + (k - m) - 1
        <5>1. k \in Int /\ b.writePos = b.readPos + m
          BY <2>2, <4>1
        <5> QED BY <4>1, <5>1
      <4> QED BY <1>4, <2>4, <2>5, <3>2, <4>2, <4>3
    <3> QED BY <3>1, <3>2
  <2> QED BY <2>4, <2>5, <2>6, SeqEqual
<1>7. /\ bufferWriteableSize(e) = bufferWriteableSize(b) - l
      /\ bufferReadableSize(e) = bufferReadableSize(b) + l
  BY <1>1, <1>2 DEF bufferWriteableSize, bufferReadableSize
<1> QED BY <1>2, <1>5, <1>6, <1>7 DEF e
-----------------------------------------------------------------------------
(* What an append or a read from the socket makes of a buffer. *)
Gained(b, e, bytes) ==
  /\ BufferOK(e)
  /\ UnreadIn(e) = UnreadIn(b) \o bytes
  /\ e.capacity >= b.capacity
  /\ e.capacity > b.capacity => bufferReadableSize(e) > b.capacity

(* bufferAppendData (Buffer.c:80-93). *)
LEMMA AppendLemma ==
  ASSUME Careful, NEW b, BufferOK(b), NEW bytes \in Seq(Byte), bytes # <<>>,
         NEW e \in bufferAppendData(b, bytes)
  PROVE  Gained(b, e, bytes)
<1>1. Len(bytes) \in Nat \ {0}
  BY EmptySeq
<1>2. PICK r \in bufferExtendRoom(b, Len(bytes)) : e = Write(r, bytes)
  BY DEF bufferAppendData
<1>3. /\ BufferOK(r) /\ UnreadIn(r) = UnreadIn(b) /\ Len(bytes) <= bufferWriteableSize(r)
      /\ r.capacity > b.capacity => bufferReadableSize(b) + Len(bytes) > b.capacity
      /\ r.capacity >= b.capacity
  <2>1. bufferWriteableSize(r) >= Len(bytes)
    BY <1>1, <1>2, ExtendRoom
  <2>2. BufferOK(r)
    BY <1>1, <1>2, ExtendRoom
  <2>3. bufferWriteableSize(r) \in Nat
    BY <2>2 DEF BufferOK, bufferWriteableSize
  <2> QED BY <1>1, <1>2, <2>1, <2>2, <2>3, ExtendRoom
<1>4. /\ BufferOK(e) /\ UnreadIn(e) = UnreadIn(r) \o bytes /\ e.capacity = r.capacity
      /\ bufferReadableSize(e) = bufferReadableSize(r) + Len(bytes)
  BY <1>2, <1>3, WriteLemma
<1>5. bufferReadableSize(r) = bufferReadableSize(b)
  BY <1>3, UnreadType
<1> QED BY <1>3, <1>4, <1>5 DEF Gained

(* bufferSocketRead (Buffer.c:104-133). *)
LEMMA SocketReadLemma ==
  ASSUME Careful, NEW b, BufferOK(b), NEW bytes \in Seq(Byte),
         NEW e \in bufferSocketRead(b, bytes)
  PROVE  Gained(b, e, bytes)
<1> DEFINE room == bufferWriteableSize(b)
           l == Len(bytes)
           s1 == SubSeq(bytes, 1, room)
           s2 == SubSeq(bytes, room + 1, l)
<1>1. room \in Nat /\ l \in Nat
  BY DEF bufferWriteableSize, BufferOK
<1>2. CASE l <= room
  <2>1. e = Write(b, bytes)
    BY <1>2 DEF bufferSocketRead
  <2>2. b.capacity \in Nat
    BY DEF BufferOK
  <2> QED BY <1>2, <2>1, <2>2, WriteLemma DEF Gained
<1>3. CASE ~(l <= room)
  <2> DEFINE w == Write(b, s1)
  <2>1. e \in bufferAppendData(w, s2)
    BY <1>3 DEF bufferSocketRead
  <2>2. s1 \in Seq(Byte) /\ Len(s1) = room
    BY <1>1, <1>3, SubSeqProperties, ElementOfSeq
  <2>3. s2 \in Seq(Byte) /\ Len(s2) = l - room /\ s2 # <<>>
    <3>1. \A i \in room + 1 .. l : bytes[i] \in Byte
      BY <1>1, ElementOfSeq
    <3>2. s2 \in Seq(Byte) /\ Len(s2) = l - room
      BY <1>1, <1>3, <3>1, SubSeqProperties
    <3> HIDE DEF s2
    <3>3. l - room # 0
      BY <1>1, <1>3
    <3> QED BY <3>2, <3>3, EmptySeq
  <2>4. s1 \o s2 = bytes
    <3>1. s1 \o s2 = SubSeq(bytes, 1, l)
      BY <1>1, <1>3, ConcatAdjacentSubSeq
    <3> QED BY <3>1, SubSeqFull
  <2>5. /\ BufferOK(w) /\ UnreadIn(w) = UnreadIn(b) \o s1 /\ w.capacity = b.capacity
    <3> HIDE DEF s1
    <3>1. Len(s1) <= bufferWriteableSize(b)
      BY <1>1, <2>2
    <3> QED BY <2>2, <3>1, WriteLemma
  <2> HIDE DEF s1, s2, w
  <2>6. Gained(w, e, s2)
    BY <2>1, <2>3, <2>5, AppendLemma
  <2>7. UnreadIn(e) = UnreadIn(b) \o bytes
    <3>1. UnreadIn(e) = (UnreadIn(b) \o s1) \o s2
      BY <2>5, <2>6 DEF Gained
    <3>2. UnreadIn(b) \in Seq(Byte)
      BY UnreadType
    <3>3. (UnreadIn(b) \o s1) \o s2 = UnreadIn(b) \o (s1 \o s2)
      <4>1. s1 \in Seq(Byte) /\ s2 \in Seq(Byte)
        BY <2>2, <2>3
      <4> QED BY <3>2, <4>1, ConcatAssociative
    <3> QED BY <2>4, <3>1, <3>3
  <2> QED BY <2>5, <2>6, <2>7 DEF Gained
<1> QED BY <1>2, <1>3
-----------------------------------------------------------------------------
LEMMA BufOK == TypeOK <=> BufferOK(Buf)
BY DEF TypeOK, BufferOK, Buf

(* A buffer that becomes another takes its fields. *)
LEMMA BecomesLemma ==
  ASSUME TypeOK, NEW e, BufferOK(e), Becomes(e)
  PROVE  /\ TypeOK' /\ Unread' = UnreadIn(e) /\ capacity' = e.capacity
         /\ writePos' - readPos' = bufferReadableSize(e)
BY DEF Becomes, TypeOK, BufferOK, Unread, UnreadIn, Buf, bufferReadableSize

LEMMA InitTypes == Init => TypeOK
BY BufferAssumption DEF Init, TypeOK

(* Every step either gains bytes, or reads some, or changes nothing. *)
LEMMA StepLemma ==
  ASSUME Careful, TypeOK, [Next]_vars
  PROVE  /\ TypeOK'
         /\ capacity' > capacity => writePos' - readPos' > capacity
         /\ \/ \E n \in 1 .. MaxChunk : \E bytes \in [1 .. n -> Byte] : Unread' = Unread \o bytes
            \/ \E n \in 1 .. Len(Unread) : Unread' = SubSeq(Unread, n + 1, Len(Unread))
            \/ Unread' = Unread
<1>1. BufferOK(Buf) /\ Buf.capacity = capacity /\ Unread = UnreadIn(Buf)
  BY BufOK DEF Buf, Unread
<1>2. ASSUME NEW n \in 1 .. MaxChunk, NEW bytes \in [1 .. n -> Byte],
             AppendBytes(bytes) \/ SocketRead(bytes)
      PROVE  /\ TypeOK'
             /\ capacity' > capacity => writePos' - readPos' > capacity
             /\ Unread' = Unread \o bytes
  <2>1. bytes \in Seq(Byte) /\ bytes # <<>>
    <3>1. n \in Nat /\ n >= 1
      BY BufferAssumption
    <3>2. bytes \in Seq(Byte)
      BY <3>1, SeqDef
    <3>3. 1 \in DOMAIN bytes
      BY <3>1
    <3>4. DOMAIN <<>> = {}
      OBVIOUS
    <3> QED BY <3>2, <3>3, <3>4
  <2>2. PICK e \in bufferAppendData(Buf, bytes) \cup bufferSocketRead(Buf, bytes) : Becomes(e)
    BY <1>2 DEF AppendBytes, SocketRead
  <2>3. Gained(Buf, e, bytes)
    BY <1>1, <2>1, <2>2, AppendLemma, SocketReadLemma
  <2> QED BY <1>1, <2>2, <2>3, BecomesLemma DEF Gained
<1>3. ASSUME NEW n \in 1 .. bufferReadableSize(Buf), Read(n)
      PROVE  /\ TypeOK' /\ capacity' = capacity
             /\ n \in 1 .. Len(Unread) /\ Unread' = SubSeq(Unread, n + 1, Len(Unread))
  <2> DEFINE m == bufferReadableSize(Buf)
  <2>1. /\ Unread \in Seq(Byte) /\ Len(Unread) = m /\ m \in Nat
        /\ \A k \in 1 .. m : Unread[k] = data[readPos + k - 1]
    BY <1>1, UnreadType DEF Buf
  <2>2. m = writePos - readPos /\ readPos \in Nat /\ writePos \in Nat
    BY DEF TypeOK, Buf, bufferReadableSize
  <2>3. TypeOK' /\ capacity' = capacity
    BY <1>3, <2>2 DEF Read, TypeOK
  <2>4. BufferOK(Buf') /\ Unread' = UnreadIn(Buf')
    BY <2>3 DEF TypeOK, BufferOK, Buf, Unread
  <2>5. bufferReadableSize(Buf') = m - n
    BY <1>3, <2>2 DEF Read, Buf, bufferReadableSize
  <2>6. /\ Unread' \in Seq(Byte) /\ Len(Unread') = m - n
        /\ \A k \in 1 .. m - n : Unread'[k] = data[readPos + n + k - 1]
    BY <1>3, <2>4, <2>5, UnreadType DEF Read, Buf
  <2> HIDE DEF m
  <2>7. /\ SubSeq(Unread, n + 1, m) \in Seq(Byte)
        /\ Len(SubSeq(Unread, n + 1, m)) = m - n
        /\ \A k \in 1 .. m - n : SubSeq(Unread, n + 1, m)[k] = Unread[n + 1 + k - 1]
    <3>1. \A k \in n + 1 .. m : Unread[k] \in Byte
      BY <2>1, ElementOfSeq DEF m
    <3>2. n + 1 \in Int /\ m \in Int /\ n <= m /\ m - (n + 1) + 1 = m - n
      BY <2>1 DEF m
    <3>3. /\ SubSeq(Unread, n + 1, m) \in Seq(Byte)
          /\ Len(SubSeq(Unread, n + 1, m)) = IF n + 1 <= m THEN m - (n + 1) + 1 ELSE 0
          /\ \A k \in 1 .. m - (n + 1) + 1 : SubSeq(Unread, n + 1, m)[k] = Unread[n + 1 + k - 1]
      BY <3>1, <3>2, SubSeqProperties
    <3> QED BY <3>2, <3>3
  <2>8. \A k \in 1 .. m - n : Unread'[k] = SubSeq(Unread, n + 1, m)[k]
    <3> TAKE k \in 1 .. m - n
    <3>1. n + 1 + k - 1 \in 1 .. m /\ readPos + (n + 1 + k - 1) - 1 = readPos + n + k - 1
      BY <2>1, <2>2 DEF m
    <3> QED BY <2>1, <2>6, <2>7, <3>1
  <2>9. Unread' = SubSeq(Unread, n + 1, m)
    BY <2>6, <2>7, <2>8, SeqEqual
  <2> QED BY <2>1, <2>3, <2>9 DEF m
<1>4. CASE UNCHANGED vars
  BY <1>4 DEF vars, TypeOK, Unread, Buf
<1>5. capacity \in Nat
  BY DEF TypeOK
<1> QED BY <1>2, <1>3, <1>4, <1>5 DEF Next, Chunk

(* Nothing is ever written or read outside the array, and the positions     *)
(* keep their order, if realloc never fails (Buffer.c:37-133).              *)
THEOREM BufferTypes == ASSUME Careful PROVE Spec => []TypeOK
<1>1. TypeOK /\ [Next]_vars => TypeOK'
  BY StepLemma
<1> QED BY <1>1, InitTypes, PTL DEF Spec

(* The array grows only when unread and new bytes do not fit (Buffer.c:45). *)
THEOREM BufferGrowth == ASSUME Careful PROVE Spec => GrowsOnlyWhenFull
<1>1. TypeOK /\ [Next]_vars => [capacity' > capacity => writePos' - readPos' > capacity]_vars
  BY StepLemma
<1> QED BY <1>1, BufferTypes, PTL DEF Spec, GrowsOnlyWhenFull

(* Every buffer is a queue of bytes: none is lost, repeated or reordered by *)
(* an append, a read from the socket, a tidying up or a reallocation.       *)
THEOREM BufferIsQueue == ASSUME Careful PROVE Spec => ImplementsByteQueue
<1>1. Init => Queue!Init
  BY DEF Init, Queue!Init, Unread, UnreadIn, Buf
<1>2. TypeOK /\ [Next]_vars => [Queue!Put \/ Queue!Take]_Unread
  BY StepLemma DEF Queue!Put, Queue!Take
<1> QED BY <1>1, <1>2, BufferTypes, PTL DEF Spec, ImplementsByteQueue, Queue!Spec
=============================================================================
