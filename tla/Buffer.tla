-------------------------------- MODULE Buffer --------------------------------
(***************************************************************************)
(* The byte buffer between a socket and the parser, and between the        *)
(* response and the socket (Buffer.c): an array of which the bytes from    *)
(* readPos to writePos are still to be read.  One thread at a time uses a  *)
(* buffer.                                                                 *)
(***************************************************************************)
EXTENDS Sequences, Integers

CONSTANTS
  Byte,          \* values of a byte
  Zero,          \* the byte memset writes
  Size,          \* initial capacity (10240 in the source)
  TempLen,       \* bytes of bufferSocketRead's second area (40960)
  MaxChunk,      \* bound: bytes appended or received at once
  MaxCapacity,   \* bound: the array does not grow beyond it
  ReallocFails,  \* whether realloc may return NULL
  CopyOrders     \* orders memcpy may copy in, of {"up", "down"}: the areas
                 \* overlap, so the queue rests on its copying upwards

ASSUME BufferAssumption ==
  /\ Zero \in Byte
  /\ Size \in Nat \ {0} /\ TempLen \in Nat \ {0} /\ MaxChunk \in Nat \ {0}
  /\ MaxCapacity \in Nat
  /\ ReallocFails \in BOOLEAN
  /\ CopyOrders # {} /\ CopyOrders \subseteq {"up", "down"}

VARIABLES data, capacity, readPos, writePos

vars == <<data, capacity, readPos, writePos>>

(* data[k] is buffer->data[k].  The array, the positions in it, and their  *)
(* order.                                                                  *)
TypeOK ==
  /\ capacity \in Nat
  /\ data \in [0 .. capacity - 1 -> Byte]
  /\ readPos \in 0 .. writePos
  /\ writePos \in 0 .. capacity

(* bufferInit *)
Init ==
  /\ capacity = Size
  /\ data = [k \in 0 .. Size - 1 |-> Zero]
  /\ readPos = 0
  /\ writePos = 0

Buf == [data |-> data, capacity |-> capacity, readPos |-> readPos, writePos |-> writePos]
Becomes(b) == /\ data' = b.data /\ capacity' = b.capacity
              /\ readPos' = b.readPos /\ writePos' = b.writePos
-----------------------------------------------------------------------------
(* Seeded fault: one byte too many. *)
bufferWriteableSizeOver(b) == b.capacity - b.writePos + 1

bufferWriteableSize(b) == b.capacity - b.writePos
bufferReadableSize(b)  == b.writePos - b.readPos

(* memcpy within the array of b, of n bytes from offset src > 0 to offset 0. *)
(* C leaves the outcome open where the areas overlap.  Copying upwards reads *)
(* every byte before it is overwritten.  Copying downwards, byte k receives  *)
(* what has by then been moved down to k + src: the first byte at k + src,   *)
(* k + 2 * src, ... that lies beyond the n copied.                           *)
Source(k, src, n, order) ==
  IF order = "up" THEN k + src ELSE k + src * ((n - k + src - 1) \div src)

memcpy(d, src, n, order) ==
  [k \in DOMAIN d |-> IF k < n THEN d[Source(k, src, n, order)] ELSE d[k]]

CanTidy(b, size) == b.readPos + bufferWriteableSize(b) >= size

(* Seeded fault: readPos stays where it was. *)
TidyKeepsReadPos(b, order) ==
  [data     |-> memcpy(b.data, b.readPos, bufferReadableSize(b), order),
   capacity |-> b.capacity,
   readPos  |-> b.readPos,
   writePos |-> bufferReadableSize(b)]

Tidy(b, order) ==
  [data     |-> memcpy(b.data, b.readPos, bufferReadableSize(b), order),
   capacity |-> b.capacity,
   readPos  |-> 0,
   writePos |-> bufferReadableSize(b)]

Grow(b, size) ==
  [data     |-> [k \in 0 .. b.capacity + size - 1 |->
                   IF k < b.capacity THEN b.data[k] ELSE Zero],
   capacity |-> b.capacity + size,
   readPos  |-> b.readPos,
   writePos |-> b.writePos]

(* bufferExtendRoom: the buffers it may leave, given how memcpy copies and   *)
(* whether realloc succeeds.  Its callers do not learn of a failure.         *)
bufferExtendRoom(b, size) ==
  IF bufferWriteableSize(b) >= size THEN {b}
  ELSE IF CanTidy(b, size) THEN {Tidy(b, order) : order \in CopyOrders}
  ELSE {Grow(b, size)} \cup (IF ReallocFails THEN {b} ELSE {})

(* Bytes past the end of the array are written to memory not modelled here: *)
(* only writePos shows them.                                                *)
Write(b, bytes) ==
  [data     |-> [k \in DOMAIN b.data |->
                   IF k - b.writePos + 1 \in DOMAIN bytes
                   THEN bytes[k - b.writePos + 1] ELSE b.data[k]],
   capacity |-> b.capacity,
   readPos  |-> b.readPos,
   writePos |-> b.writePos + Len(bytes)]

bufferAppendData(b, bytes) == {Write(e, bytes) : e \in bufferExtendRoom(b, Len(bytes))}

(* readv filled the free part of the array, then the second area; what is in *)
(* the second area is appended.                                              *)
bufferSocketRead(b, bytes) ==
  LET room == bufferWriteableSize(b) IN
    IF Len(bytes) <= room
    THEN {Write(b, bytes)}
    ELSE bufferAppendData(Write(b, SubSeq(bytes, 1, room)), SubSeq(bytes, room + 1, Len(bytes)))
-----------------------------------------------------------------------------
Chunk == UNION {[1 .. n -> Byte] : n \in 1 .. MaxChunk}

(* bufferAppendData and bufferAppendString; for no bytes they do nothing. *)
AppendBytes(bytes) ==
  \E b \in bufferAppendData(Buf, bytes) : b.capacity <= MaxCapacity /\ Becomes(b)

(* bufferSocketRead, when readv returns more than 0.  readv cannot return   *)
(* more than fits the two areas.                                            *)
SocketRead(bytes) ==
  /\ Len(bytes) <= bufferWriteableSize(Buf) + TempLen
  /\ \E b \in bufferSocketRead(Buf, bytes) : b.capacity <= MaxCapacity /\ Becomes(b)

(* bufferSendData, when send takes count > 0 of the unread bytes, and the   *)
(* parser, when it has used a line of count bytes (HttpRequest.c:155, 184).  *)
Read(count) ==
  /\ readPos' = readPos + count
  /\ UNCHANGED <<data, capacity, writePos>>

Next == \/ \E bytes \in Chunk : AppendBytes(bytes) \/ SocketRead(bytes)
        \/ \E count \in 1 .. bufferReadableSize(Buf) : Read(count)

Spec == Init /\ [][Next]_vars
-----------------------------------------------------------------------------
(* The bytes still to be read. *)
UnreadIn(b) == [k \in 1 .. b.writePos - b.readPos |-> b.data[b.readPos + k - 1]]
Unread == UnreadIn(Buf)

Queue == INSTANCE ByteQueue WITH unread <- Unread

(* A buffer is a queue of bytes: whatever is appended, received, tidied up  *)
(* or reallocated, what is read is what was written, in order.              *)
ImplementsByteQueue == Queue!Spec

(* The buffer grows only when the unread bytes and the new ones would not   *)
(* fit together: bytes already read always count as room.                   *)
GrowsOnlyWhenFull == [][capacity' > capacity => writePos' - readPos' > capacity]_vars
=============================================================================
