----------------------------- MODULE RingBuffer ------------------------------
(***************************************************************************)
(* The lock-free ring buffer of libutil/ringbuffer.c: one writing thread   *)
(* and one reading thread share buf, write_ptr and read_ptr.  Each call is *)
(* split where the other thread can run in between: the sampling of the    *)
(* other side's pointer, the copy of each byte, and the store that         *)
(* publishes the pointer.  A call that wraps copies and publishes twice.   *)
(*                                                                         *)
(* Memory is sequentially consistent (the C code has volatile pointers and *)
(* no barriers).  ffado_ringbuffer_reset is "not thread safe": it happens  *)
(* here only while neither side is inside a call.                          *)
(***************************************************************************)
EXTENDS Integers, Sequences

CONSTANTS Request,   \* the sz given to ffado_ringbuffer_create
          Data,      \* the bytes that may be written
          MaxCount   \* bound: the largest cnt of one call

\* ffado_ringbuffer_create: 1 << power_of_two, from power_of_two = 1 on.
create_size(sz) == 2 ^ (CHOOSE p \in 1..(sz + 1) : /\ 2 ^ p >= sz
                                                   /\ \A q \in 1..(p - 1) : 2 ^ q < sz)

size == create_size(Request)

ASSUME RequestAssumption == /\ Request \in Nat
                            /\ size \in Nat
                            /\ size >= 2
ASSUME MaxCountAssumption == MaxCount \in Nat \ {0}
ASSUME DataAssumption == Data # {}

VARIABLES buf, write_ptr, read_ptr,
          wr,        \* the writer's call: where it is and its locals
          rd,        \* the reader's call: where it is and its locals
          delivered  \* what the reader's caller has been handed by the last copy

vars == <<buf, write_ptr, read_ptr, wr, rd, delivered>>

\* x & size_mask, the size being a power of two.
mask(x) == x % size

\* ffado_ringbuffer_read_space, for the two pointers as loaded.
read_space(w, r) == IF w > r THEN w - r ELSE mask(w - r + size)

\* Mutant: the cell that keeps a full buffer apart from an empty one is given away.
write_space_whole(w, r) == IF w > r THEN mask(r - w + size)
                           ELSE IF w < r THEN r - w
                           ELSE size - 1

\* ffado_ringbuffer_write_space, for the two pointers as loaded.
write_space(w, r) == IF w > r THEN mask(r - w + size) - 1
                     ELSE IF w < r THEN (r - w) - 1
                     ELSE size - 1

\* The two segments n1 and n2 that a call on n bytes from ptr is split into.
first_part(ptr, n) == IF ptr + n > size THEN size - ptr ELSE n
second_part(ptr, n) == IF ptr + n > size THEN mask(ptr + n) ELSE 0

NoCall == [op |-> "none", ptr |-> 0, n1 |-> 0, n2 |-> 0, bytes |-> <<>>]

AtMost(a, b) == IF a > b THEN b ELSE a

Init == /\ buf \in [0..(size - 1) -> Data]
        /\ write_ptr = 0
        /\ read_ptr = 0
        /\ wr = NoCall
        /\ rd = NoCall
        /\ delivered = <<>>

(***************************************************************************)
(* The writer.  wr.bytes is what is left of the caller's src: its head is  *)
(* the next byte copied, to buf[wr.ptr]; n1 counts the bytes of this       *)
(* segment not yet copied, n2 those of the second one.                     *)
(***************************************************************************)
\* ffado_ringbuffer_write up to the first memcpy: sample the space, or return 0.
write(src) ==
  LET free_cnt == write_space(write_ptr, read_ptr)
      to_write == AtMost(Len(src), free_cnt)
  IN /\ wr.op = "none"
     /\ free_cnt # 0
     /\ wr' = [op |-> "write", ptr |-> write_ptr,
               n1 |-> first_part(write_ptr, to_write), n2 |-> second_part(write_ptr, to_write),
               bytes |-> SubSeq(src, 1, to_write)]
     /\ UNCHANGED <<buf, write_ptr, read_ptr, rd, delivered>>

\* ffado_ringbuffer_get_write_vector, whose caller then fills part of vec[0] in place.
get_write_vector(src) ==
  LET len0 == first_part(write_ptr, write_space(write_ptr, read_ptr))
  IN /\ wr.op = "none"
     /\ Len(src) <= len0
     /\ wr' = [op |-> "write", ptr |-> write_ptr, n1 |-> Len(src), n2 |-> 0, bytes |-> src]
     /\ UNCHANGED <<buf, write_ptr, read_ptr, rd, delivered>>

\* Mutant: write_ptr is published before the bytes are copied.
copy_in_late ==
  /\ wr.op = "write" /\ wr.n1 > 0
  /\ buf' = [buf EXCEPT ![wr.ptr] = Head(wr.bytes)]
  /\ write_ptr' = mask(wr.ptr + wr.n1)
  /\ wr' = [wr EXCEPT !.ptr = @ + 1, !.n1 = @ - 1, !.bytes = Tail(@)]
  /\ UNCHANGED <<read_ptr, rd, delivered>>

\* One byte of a memcpy into the buffer.
copy_in ==
  /\ wr.op = "write" /\ wr.n1 > 0
  /\ buf' = [buf EXCEPT ![wr.ptr] = Head(wr.bytes)]
  /\ wr' = [wr EXCEPT !.ptr = @ + 1, !.n1 = @ - 1, !.bytes = Tail(@)]
  /\ UNCHANGED <<write_ptr, read_ptr, rd, delivered>>

\* The store to write_ptr after a memcpy; also ffado_ringbuffer_write_advance.
publish_write ==
  /\ wr.op = "write" /\ wr.n1 = 0
  /\ write_ptr' = mask(wr.ptr)
  /\ wr' = IF wr.n2 > 0
           THEN [wr EXCEPT !.ptr = mask(@), !.n1 = wr.n2, !.n2 = 0]
           ELSE NoCall
  /\ UNCHANGED <<buf, read_ptr, rd, delivered>>

(***************************************************************************)
(* The reader.  rd.bytes is what has been copied of this segment.          *)
(***************************************************************************)
StartRead(op, n, n1, n2) ==
  /\ rd.op = "none"
  /\ n # 0
  /\ rd' = [op |-> op, ptr |-> read_ptr, n1 |-> n1, n2 |-> n2, bytes |-> <<>>]
  /\ UNCHANGED <<buf, write_ptr, read_ptr, wr, delivered>>

\* ffado_ringbuffer_read up to the first memcpy: sample the fill, or return 0.
read(cnt) ==
  LET to_read == AtMost(cnt, read_space(write_ptr, read_ptr))
  IN StartRead("read", to_read, first_part(read_ptr, to_read), second_part(read_ptr, to_read))

\* ffado_ringbuffer_peek: the same, on a copy of the read pointer.
peek(cnt) ==
  LET to_read == AtMost(cnt, read_space(write_ptr, read_ptr))
  IN StartRead("peek", to_read, first_part(read_ptr, to_read), second_part(read_ptr, to_read))

\* ffado_ringbuffer_get_read_vector, whose caller then reads part of vec[0] in place.
get_read_vector(cnt) ==
  LET len0 == first_part(read_ptr, read_space(write_ptr, read_ptr))
  IN cnt <= len0 /\ StartRead("read", cnt, cnt, 0)

\* One byte of a memcpy out of the buffer.
copy_out ==
  /\ rd.op # "none" /\ rd.n1 > 0
  /\ rd' = [rd EXCEPT !.ptr = @ + 1, !.n1 = @ - 1, !.bytes = Append(@, buf[rd.ptr])]
  /\ UNCHANGED <<buf, write_ptr, read_ptr, wr, delivered>>

\* Mutant: the second segment is dropped, as if n2 were never tested.
publish_read_once ==
  /\ rd.op = "read" /\ rd.n1 = 0
  /\ read_ptr' = mask(rd.ptr + rd.n2)
  /\ delivered' = rd.bytes
  /\ rd' = NoCall
  /\ UNCHANGED <<buf, write_ptr, wr>>

\* The store to read_ptr after a memcpy; also ffado_ringbuffer_read_advance.
publish_read ==
  /\ rd.op = "read" /\ rd.n1 = 0
  /\ read_ptr' = mask(rd.ptr)
  /\ delivered' = rd.bytes
  /\ rd' = IF rd.n2 > 0
           THEN [rd EXCEPT !.ptr = mask(@), !.n1 = rd.n2, !.n2 = 0, !.bytes = <<>>]
           ELSE NoCall
  /\ UNCHANGED <<buf, write_ptr, wr>>

\* The end of a segment of a peek: no pointer is published, and the bytes add up.
end_peek ==
  /\ rd.op = "peek" /\ rd.n1 = 0
  /\ IF rd.n2 > 0
     THEN /\ rd' = [rd EXCEPT !.ptr = mask(@), !.n1 = rd.n2, !.n2 = 0]
          /\ UNCHANGED delivered
     ELSE /\ rd' = NoCall
          /\ delivered' = rd.bytes
  /\ UNCHANGED <<buf, write_ptr, read_ptr, wr>>

Sources == UNION {[1..n -> Data] : n \in 1..MaxCount}

Writer == \/ \E src \in Sources : write(src) \/ get_write_vector(src)
          \/ copy_in
          \/ publish_write

Reader == \/ \E cnt \in 1..MaxCount : read(cnt) \/ peek(cnt) \/ get_read_vector(cnt)
          \/ copy_out
          \/ publish_read
          \/ end_peek

\* ffado_ringbuffer_reset: "not thread safe", so neither thread is inside a call.
reset ==
  /\ wr.op = "none" /\ rd.op = "none"
  /\ write_ptr' = 0
  /\ read_ptr' = 0
  /\ UNCHANGED <<buf, wr, rd, delivered>>

Next == Writer \/ Reader \/ reset

Spec == Init /\ [][Next]_vars

(***************************************************************************)
(* Properties.                                                             *)
(***************************************************************************)
Cells == 0..(size - 1)

\* A call in progress: how far it got, never past the end of the memory block.
Calls(ops) == [op : ops, ptr : 0..size, n1 : 0..size, n2 : 0..size, bytes : Seq(Data)]

\* Type invariant.  Both pointers stay inside the block that create allocated.
TypeOK == /\ buf \in [Cells -> Data]
          /\ write_ptr \in Cells
          /\ read_ptr \in Cells
          /\ wr \in Calls({"none", "write"})
          /\ rd \in Calls({"none", "read", "peek"})
          /\ delivered \in Seq(Data)

\* The cells a call still has to copy, over both its segments.
Pending(c) == (c.ptr .. (c.ptr + c.n1 - 1)) \union (0 .. (c.n2 - 1))

\* The cells between the published pointers, which the reader may look at.
Readable == IF read_ptr <= write_ptr THEN read_ptr .. (write_ptr - 1)
            ELSE (read_ptr .. (size - 1)) \union (0 .. (write_ptr - 1))

\* Neither memcpy of a call touches memory outside the block, not even when the
\* call wraps (the n1/n2 split of ffado_ringbuffer_read, _peek and _write).
InBounds == Pending(wr) \union Pending(rd) \subseteq Cells

\* No byte is copied in while it can be copied out: what a write in progress has
\* yet to store is never part of what is published for reading, and what a read
\* in progress has yet to load always is, although each side worked from a sample
\* of the other side's pointer that may have grown old.
NoSharedCell == Pending(wr) \intersect Readable = {} /\ Pending(rd) \subseteq Readable

(***************************************************************************)
(* The strengthening that makes the above inductive: what each call still  *)
(* has to do fits in what the other side has released by now, so a pointer *)
(* sampled earlier can only have underestimated it.                        *)
(***************************************************************************)
WriterInv ==
  wr.op = "write" =>
    /\ write_ptr <= wr.ptr
    /\ wr.ptr + wr.n1 <= size
    /\ wr.n2 > 0 => wr.ptr + wr.n1 = size
    /\ (wr.ptr + wr.n1 - write_ptr) + wr.n2 <= write_space(write_ptr, read_ptr)
    /\ Len(wr.bytes) = wr.n1 + wr.n2

\* How far a reading call has come past read_ptr; a peek may have wrapped.
Ahead == IF read_ptr <= rd.ptr THEN rd.ptr - read_ptr ELSE rd.ptr - read_ptr + size

ReaderInv ==
  rd.op # "none" =>
    /\ rd.op = "read" => read_ptr <= rd.ptr
    /\ rd.ptr < read_ptr => rd.n2 = 0
    /\ rd.ptr + rd.n1 <= size
    /\ rd.n2 > 0 => rd.ptr + rd.n1 = size
    /\ Ahead + rd.n1 + rd.n2 <= read_space(write_ptr, read_ptr)

IdleInv == /\ wr.op = "none" => wr = NoCall
           /\ rd.op = "none" => rd = NoCall

\* The inductive invariant of the ring buffer: types, and each call's remaining
\* work inside the region its side owns.
IInv == TypeOK /\ WriterInv /\ ReaderInv /\ IdleInv

\* The bytes of b from r up to w, oldest first.
Bytes(b, w, r) == [i \in 1..read_space(w, r) |-> b[mask(r + i - 1)]]

\* The bytes between the two published pointers.
Contents == Bytes(buf, write_ptr, read_ptr)

\* What a read or a peek has copied so far is the front of what is published, and a
\* call that has begun copies at least one byte before it publishes.
ReadSoFar ==
  rd.op # "none" =>
    /\ Len(rd.bytes) = Ahead
    /\ Ahead + rd.n1 > 0
    /\ \A i \in 1..Ahead : rd.bytes[i] = buf[mask(read_ptr + i - 1)]

WriteSoFar == wr.op = "write" => wr.ptr + wr.n1 > write_ptr

\* The inductive invariant under which the ring buffer is a FIFO.
FifoInv == IInv /\ ReadSoFar /\ WriteSoFar

Fifo == INSTANCE BoundedFifo WITH Capacity <- size - 1, queue <- Contents

\* The ring buffer is a bounded FIFO of size - 1 bytes: each published pointer is
\* one append or one removal, nothing is lost, repeated, reordered or torn, and a
\* reader is handed the oldest bytes (ffado_ringbuffer_write, _read and _peek).
IsFifo == Fifo!Spec

\* "Create a new ringbuffer to hold at least `sz' bytes of data": an empty buffer
\* has room for the sz bytes it was asked to hold (comment of
\* ffado_ringbuffer_create).
HoldsRequest == write_ptr = read_ptr => write_space(write_ptr, read_ptr) >= Request
==============================================================================
