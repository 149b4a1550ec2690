-------------------------- MODULE RingBufferProofs ---------------------------
(***************************************************************************)
(* Proofs about RingBuffer, for every Request, Data and MaxCount.          *)
(***************************************************************************)
EXTENDS RingBuffer, SequenceTheorems, TLAPS

\* x & size_mask in the two cases that ringbuffer.c produces: a pointer inside the
\* block, and one that has run past its end by less than a whole turn.
LEMMA MaskLemma ==
  ASSUME NEW x \in Nat
  PROVE  /\ x < size => mask(x) = x
         /\ (size <= x /\ x < 2 * size) => mask(x) = x - size
<1>1. size \in Nat /\ size >= 2
  BY RequestAssumption
<1>2. CASE x < size
  BY <1>1, <1>2 DEF mask
<1>3. CASE size <= x /\ x < 2 * size
  <2>1. PICK n \in Nat : n = size BY <1>1
  <2>2. (x - n) \in 0..(n - 1) BY <1>1, <1>3, <2>1
  <2>3. x % n = x - n BY <1>1, <2>1, <2>2
  <2> QED BY <2>1, <2>3, <1>1, <1>3 DEF mask
<1> QED BY <1>1, <1>2, <1>3

\* read_space and write_space without the mask: what is filled and what is free
\* always add up to size - 1.
LEMMA SpaceLemma ==
  ASSUME NEW w \in Cells, NEW r \in Cells
  PROVE  /\ read_space(w, r) = IF w >= r THEN w - r ELSE w - r + size
         /\ read_space(w, r) \in 0..(size - 1)
         /\ write_space(w, r) = size - 1 - read_space(w, r)
         /\ write_space(w, r) \in 0..(size - 1)
<1>1. size \in Nat /\ size >= 2
  BY RequestAssumption
<1>2. w \in Nat /\ r \in Nat /\ w < size /\ r < size
  BY <1>1 DEF Cells
<1>3. CASE w > r
  <2>1. r - w + size \in Nat /\ r - w + size < size BY <1>1, <1>2, <1>3
  <2>2. mask(r - w + size) = r - w + size BY <2>1, MaskLemma
  <2> QED BY <1>1, <1>2, <1>3, <2>2 DEF read_space, write_space
<1>4. CASE w = r
  <2>1. w - r + size = size BY <1>1, <1>2, <1>4
  <2>2. mask(w - r + size) = 0 BY <1>1, <2>1, MaskLemma
  <2> QED BY <1>1, <1>2, <1>4, <2>2 DEF read_space, write_space
<1>5. CASE w < r
  <2>1. w - r + size \in Nat /\ w - r + size < size BY <1>1, <1>2, <1>5
  <2>2. mask(w - r + size) = w - r + size BY <2>1, MaskLemma
  <2> QED BY <1>1, <1>2, <1>5, <2>2 DEF read_space, write_space
<1> QED BY <1>2, <1>3, <1>4, <1>5

\* Moving one pointer forward by no more than what its side owns moves the fill by
\* exactly that much, whether or not the pointer wraps.
LEMMA WriteAdvance ==
  ASSUME NEW w \in Cells, NEW r \in Cells, NEW p \in 0..size, NEW q \in Cells,
         w <= p, p - w <= write_space(w, r), q = IF p = size THEN 0 ELSE p
  PROVE  /\ read_space(q, r) = read_space(w, r) + (p - w)
         /\ write_space(q, r) = write_space(w, r) - (p - w)
<1>1. PICK n \in Nat : n = size /\ n >= 2
  BY RequestAssumption
<1>2. w \in Nat /\ r \in Nat /\ p \in Nat /\ q \in Nat /\ w < n /\ r < n /\ p <= n
  BY <1>1 DEF Cells
<1>3. /\ read_space(w, r) = IF w >= r THEN w - r ELSE w - r + n
      /\ write_space(w, r) = n - 1 - (IF w >= r THEN w - r ELSE w - r + n)
  <2>1. read_space(w, r) = IF w >= r THEN w - r ELSE w - r + n BY <1>1, SpaceLemma
  <2>2. write_space(w, r) = n - 1 - read_space(w, r) BY <1>1, SpaceLemma
  <2> QED BY <2>1, <2>2
<1>4. /\ read_space(q, r) = IF q >= r THEN q - r ELSE q - r + n
      /\ write_space(q, r) = n - 1 - (IF q >= r THEN q - r ELSE q - r + n)
  <2>1. read_space(q, r) = IF q >= r THEN q - r ELSE q - r + n BY <1>1, SpaceLemma
  <2>2. write_space(q, r) = n - 1 - read_space(q, r) BY <1>1, SpaceLemma
  <2> QED BY <2>1, <2>2
<1>5. p - w <= n - 1 - (IF w >= r THEN w - r ELSE w - r + n)
  BY <1>3
<1>6. (IF q >= r THEN q - r ELSE q - r + n) = (IF w >= r THEN w - r ELSE w - r + n) + (p - w)
  <2>1. q = IF p = n THEN 0 ELSE p BY <1>1
  <2> QED BY <1>1, <1>2, <1>5, <2>1
<1> QED BY <1>2, <1>3, <1>4, <1>6

LEMMA ReadAdvance ==
  ASSUME NEW w \in Cells, NEW r \in Cells, NEW p \in 0..size, NEW q \in Cells,
         r <= p, p - r <= read_space(w, r), q = IF p = size THEN 0 ELSE p
  PROVE  /\ read_space(w, q) = read_space(w, r) - (p - r)
         /\ write_space(w, q) = write_space(w, r) + (p - r)
<1>1. PICK n \in Nat : n = size /\ n >= 2
  BY RequestAssumption
<1>2. w \in Nat /\ r \in Nat /\ p \in Nat /\ q \in Nat /\ w < n /\ r < n /\ p <= n
  BY <1>1 DEF Cells
<1>3. /\ read_space(w, r) = IF w >= r THEN w - r ELSE w - r + n
      /\ write_space(w, r) = n - 1 - (IF w >= r THEN w - r ELSE w - r + n)
  <2>1. read_space(w, r) = IF w >= r THEN w - r ELSE w - r + n BY <1>1, SpaceLemma
  <2>2. write_space(w, r) = n - 1 - read_space(w, r) BY <1>1, SpaceLemma
  <2> QED BY <2>1, <2>2
<1>4. /\ read_space(w, q) = IF w >= q THEN w - q ELSE w - q + n
      /\ write_space(w, q) = n - 1 - (IF w >= q THEN w - q ELSE w - q + n)
  <2>1. read_space(w, q) = IF w >= q THEN w - q ELSE w - q + n BY <1>1, SpaceLemma
  <2>2. write_space(w, q) = n - 1 - read_space(w, q) BY <1>1, SpaceLemma
  <2> QED BY <2>1, <2>2
<1>5. p - r <= IF w >= r THEN w - r ELSE w - r + n
  BY <1>3
<1>6. (IF w >= q THEN w - q ELSE w - q + n) = (IF w >= r THEN w - r ELSE w - r + n) - (p - r)
  <2>1. q = IF p = n THEN 0 ELSE p BY <1>1
  <2> QED BY <1>1, <1>2, <1>5, <2>1
<1> QED BY <1>2, <1>3, <1>4, <1>6

LEMMA SizeLemma == size \in Nat /\ size >= 2
BY RequestAssumption

\* The split of a call on n bytes that start at ptr.
LEMMA SplitLemma ==
  ASSUME NEW ptr \in Cells, NEW n \in Nat, n < size
  PROVE  /\ first_part(ptr, n) \in 0..size
         /\ second_part(ptr, n) \in 0..size
         /\ first_part(ptr, n) + second_part(ptr, n) = n
         /\ ptr + first_part(ptr, n) <= size
         /\ second_part(ptr, n) > 0 => ptr + first_part(ptr, n) = size
<1>1. size \in Nat /\ ptr \in Nat /\ ptr < size
  BY SizeLemma DEF Cells
<1>2. CASE ptr + n > size
  <2>1. mask(ptr + n) = ptr + n - size BY <1>1, <1>2, MaskLemma
  <2> QED BY <1>1, <1>2, <2>1 DEF first_part, second_part
<1>3. CASE ~(ptr + n > size)
  BY <1>1, <1>3 DEF first_part, second_part
<1> QED BY <1>2, <1>3

LEMMA NoCallType == /\ NoCall \in Calls({"none", "write"})
                    /\ NoCall \in Calls({"none", "read", "peek"})
<1>1. <<>> \in Seq(Data) OBVIOUS
<1> QED BY <1>1, SizeLemma DEF NoCall, Calls

LEMMA InitIInv == Init => IInv
<1> SUFFICES ASSUME Init PROVE IInv
  OBVIOUS
<1>1. TypeOK
  BY SizeLemma, NoCallType DEF Init, TypeOK, Cells
<1>2. WriterInv /\ ReaderInv /\ IdleInv
  BY DEF Init, WriterInv, ReaderInv, IdleInv, NoCall
<1> QED BY <1>1, <1>2 DEF IInv

\* Starting a write, by either interface, claims no more than what is free.
LEMMA StepStartWrite ==
  ASSUME IInv, NEW src \in Sources, write(src) \/ get_write_vector(src)
  PROVE  IInv'
<1> USE SizeLemma
<1>1. /\ src \in Seq(Data) /\ Len(src) \in Nat /\ Len(src) > 0
  <2>1. PICK n \in 1..MaxCount : src \in [1..n -> Data] BY DEF Sources
  <2>2. n \in Nat /\ n > 0 BY MaxCountAssumption
  <2> QED BY <2>1, <2>2
<1>2. write_ptr \in Cells /\ read_ptr \in Cells
  BY DEF IInv, TypeOK
<1> DEFINE free == write_space(write_ptr, read_ptr)
<1>3. free \in Nat /\ free < size
  BY <1>2, SpaceLemma
<1>4. CASE write(src)
  <2> DEFINE n == AtMost(Len(src), free)
  <2>1. n \in Nat /\ n <= free /\ n <= Len(src) /\ n < size
    BY <1>1, <1>3 DEF AtMost
  <2>2. SubSeq(src, 1, n) \in Seq(Data) /\ Len(SubSeq(src, 1, n)) = n
    <3>1. \A i \in 1..n : src[i] \in Data BY <1>1, <2>1
    <3> HIDE DEF n
    <3> QED BY <1>1, <2>1, <3>1
  <2>3. wr' = [op |-> "write", ptr |-> write_ptr, n1 |-> first_part(write_ptr, n),
               n2 |-> second_part(write_ptr, n), bytes |-> SubSeq(src, 1, n)]
        /\ UNCHANGED <<buf, write_ptr, read_ptr, rd, delivered>>
    BY <1>4 DEF write
  <2>4. /\ first_part(write_ptr, n) \in 0..size
        /\ second_part(write_ptr, n) \in 0..size
        /\ first_part(write_ptr, n) + second_part(write_ptr, n) = n
        /\ write_ptr + first_part(write_ptr, n) <= size
        /\ second_part(write_ptr, n) > 0 => write_ptr + first_part(write_ptr, n) = size
    BY <1>2, <2>1, SplitLemma
  <2> HIDE DEF n, free
  <2>5. TypeOK'
    <3>1. wr' \in Calls({"none", "write"})
      BY <1>2, <2>2, <2>3, <2>4 DEF Calls, Cells
    <3> QED BY <2>3, <3>1 DEF IInv, TypeOK
  <2>6. WriterInv'
    BY <1>2, <2>1, <2>2, <2>3, <2>4 DEF WriterInv, Cells, free
  <2>7. ReaderInv' /\ IdleInv'
    BY <2>3 DEF IInv, ReaderInv, IdleInv, Ahead
  <2> QED BY <2>5, <2>6, <2>7 DEF IInv
<1>5. CASE get_write_vector(src)
  <2> DEFINE n == Len(src)
  <2>1. n <= first_part(write_ptr, free)
    BY <1>5 DEF get_write_vector
  <2>2. /\ first_part(write_ptr, free) \in 0..size
        /\ first_part(write_ptr, free) <= free
        /\ write_ptr + first_part(write_ptr, free) <= size
    BY <1>2, <1>3, SplitLemma
  <2>3. wr' = [op |-> "write", ptr |-> write_ptr, n1 |-> n, n2 |-> 0, bytes |-> src]
        /\ UNCHANGED <<buf, write_ptr, read_ptr, rd, delivered>>
    BY <1>5 DEF get_write_vector
  <2> HIDE DEF n, free
  <2>4. TypeOK'
    BY <1>1, <1>2, <2>1, <2>2, <2>3, SMTT(30) DEF IInv, TypeOK, Calls, Cells, n
  <2>5. WriterInv'
    BY <1>1, <1>2, <1>3, <2>1, <2>2, <2>3 DEF WriterInv, Cells, free, n
  <2>6. ReaderInv' /\ IdleInv'
    BY <2>3 DEF IInv, ReaderInv, IdleInv, Ahead
  <2> QED BY <2>4, <2>5, <2>6 DEF IInv
<1> QED BY <1>4, <1>5

\* What the type invariant says of the pointers, of the spaces they give, and of
\* the fields of both calls.
LEMMA PtrTypes ==
  ASSUME IInv
  PROVE  /\ write_ptr \in Cells /\ read_ptr \in Cells
         /\ write_ptr \in Nat /\ write_ptr < size
         /\ read_ptr \in Nat /\ read_ptr < size
BY SizeLemma DEF IInv, TypeOK, Cells

LEMMA WrTypes ==
  ASSUME IInv
  PROVE  wr.ptr \in 0..size /\ wr.n1 \in 0..size /\ wr.n2 \in 0..size
BY DEF IInv, TypeOK, Calls

LEMMA RdTypes ==
  ASSUME IInv
  PROVE  rd.ptr \in 0..size /\ rd.n1 \in 0..size /\ rd.n2 \in 0..size
BY DEF IInv, TypeOK, Calls

LEMMA BytesTypes ==
  ASSUME IInv
  PROVE  wr.bytes \in Seq(Data) /\ rd.bytes \in Seq(Data)
BY DEF IInv, TypeOK, Calls

LEMMA StepCopyIn ==
  ASSUME IInv, copy_in
  PROVE  IInv'
<1> USE SizeLemma
<1>1. wr.op = "write" /\ wr.n1 > 0
  BY DEF copy_in
<1>2. wr.ptr \in 0..size /\ wr.n1 \in 0..size /\ wr.n2 \in 0..size
  BY WrTypes
<1>3. /\ write_ptr <= wr.ptr
      /\ wr.ptr + wr.n1 <= size
      /\ wr.n2 > 0 => wr.ptr + wr.n1 = size
      /\ (wr.ptr + wr.n1 - write_ptr) + wr.n2 <= write_space(write_ptr, read_ptr)
  BY <1>1 DEF WriterInv, IInv
<1>4. Len(wr.bytes) = wr.n1 + wr.n2
  BY <1>1 DEF WriterInv, IInv
<1>5. /\ Head(wr.bytes) \in Data /\ Tail(wr.bytes) \in Seq(Data)
      /\ Len(Tail(wr.bytes)) = Len(wr.bytes) - 1
  <2>1. wr.bytes \in Seq(Data) BY BytesTypes
  <2>2. wr.bytes # <<>> BY <1>1, <1>2, <1>4, <2>1
  <2> QED BY <2>1, <2>2
<1>6. /\ wr'.op = "write" /\ wr'.ptr = wr.ptr + 1 /\ wr'.n1 = wr.n1 - 1 /\ wr'.n2 = wr.n2
      /\ wr'.bytes = Tail(wr.bytes)
      /\ wr' = [op |-> wr'.op, ptr |-> wr'.ptr, n1 |-> wr'.n1, n2 |-> wr'.n2, bytes |-> wr'.bytes]
  BY <1>1 DEF copy_in, Calls, IInv, TypeOK
<1>7. buf' = [buf EXCEPT ![wr.ptr] = Head(wr.bytes)] /\ UNCHANGED <<write_ptr, read_ptr, rd, delivered>>
  BY DEF copy_in
<1>8. TypeOK'
  <2>1. buf' \in [Cells -> Data] BY <1>5, <1>7 DEF IInv, TypeOK
  <2>2. wr'.ptr \in 0..size /\ wr'.n1 \in 0..size /\ wr'.n2 \in 0..size
    BY <1>1, <1>2, <1>3, <1>6
  <2>3. wr' \in Calls({"none", "write"}) BY <1>5, <1>6, <2>2 DEF Calls
  <2> QED BY <1>7, <2>1, <2>3 DEF IInv, TypeOK
<1>9. WriterInv'
  <2>1. Len(wr'.bytes) = wr'.n1 + wr'.n2 BY <1>2, <1>4, <1>5, <1>6
  <2>2. write_ptr \in Nat BY PtrTypes
  <2>3. /\ write_ptr <= wr'.ptr
        /\ wr'.ptr + wr'.n1 = wr.ptr + wr.n1
    BY <1>2, <1>3, <1>6, <2>2
  <2>4. UNCHANGED <<write_ptr, read_ptr>> BY <1>7
  <2>5. wr'.n2 > 0 => wr'.ptr + wr'.n1 = size BY <1>3, <1>6, <2>3
  <2>6. (wr'.ptr + wr'.n1 - write_ptr) + wr'.n2 <= write_space(write_ptr, read_ptr)
    <3>1. write_space(write_ptr, read_ptr) \in 0..(size - 1) BY PtrTypes, SpaceLemma
    <3> QED BY <1>2, <1>3, <1>6, <2>2, <3>1
  <2>7. wr'.ptr + wr'.n1 <= size BY <1>3, <2>3
  <2> QED BY <2>1, <2>3, <2>4, <2>5, <2>6, <2>7 DEF WriterInv
<1>10. ReaderInv' /\ IdleInv'
  BY <1>6, <1>7 DEF IInv, ReaderInv, IdleInv, Ahead
<1> QED BY <1>8, <1>9, <1>10 DEF IInv

\* Publishing write_ptr hands the copied bytes over: the reader's share grows by
\* as much as the writer's shrinks.
LEMMA StepPublishWrite ==
  ASSUME IInv, publish_write
  PROVE  IInv'
<1> USE SizeLemma
<1> DEFINE done == wr.ptr - write_ptr
<1>1. wr.op = "write" /\ wr.n1 = 0
  BY DEF publish_write
<1>2. wr.ptr \in 0..size /\ wr.n2 \in 0..size
  BY WrTypes
<1>3. write_ptr \in Nat /\ write_ptr < size /\ read_ptr \in Nat /\ read_ptr < size
  BY PtrTypes
<1>4. write_ptr \in Cells /\ read_ptr \in Cells
  BY PtrTypes
<1>5. write_space(write_ptr, read_ptr) \in 0..(size - 1)
  BY <1>4, SpaceLemma
<1>6. /\ write_ptr <= wr.ptr
      /\ wr.ptr + wr.n1 <= size
      /\ wr.n2 > 0 => wr.ptr + wr.n1 = size
      /\ (wr.ptr + wr.n1 - write_ptr) + wr.n2 <= write_space(write_ptr, read_ptr)
      /\ Len(wr.bytes) = wr.n1 + wr.n2
  BY <1>1 DEF IInv, WriterInv
<1>7. /\ wr.n2 > 0 => wr.ptr = size
      /\ done \in Nat
      /\ done + wr.n2 <= write_space(write_ptr, read_ptr)
  BY <1>1, <1>2, <1>3, <1>5, <1>6, SMTT(30)
<1>8. /\ write_ptr' = mask(wr.ptr)
      /\ UNCHANGED <<buf, read_ptr, rd, delivered>>
  BY DEF publish_write
<1>9. write_ptr' = IF wr.ptr = size THEN 0 ELSE wr.ptr
  <2>1. wr.ptr \in Nat /\ wr.ptr <= size BY <1>2
  <2> QED BY <1>8, <2>1, MaskLemma
<1>10. write_ptr' \in Cells
  BY <1>2, <1>9 DEF Cells
<1>11. read_space(write_ptr', read_ptr) = read_space(write_ptr, read_ptr) + done
  <2>1. done <= write_space(write_ptr, read_ptr) BY <1>2, <1>5, <1>7
  <2>2. wr.ptr \in 0..size /\ write_ptr <= wr.ptr BY <1>2, <1>6
  <2> HIDE SizeLemma
  <2>3. PICK w \in Cells, r \in Cells, p \in 0..size, q \in Cells :
          w = write_ptr /\ r = read_ptr /\ p = wr.ptr /\ q = write_ptr'
    BY <1>4, <1>10, <2>2
  <2>4. w <= p /\ p - w <= write_space(w, r) /\ q = IF p = size THEN 0 ELSE p
    BY <1>9, <2>1, <2>2, <2>3
  <2>5. read_space(q, r) = read_space(w, r) + (p - w)
    BY <2>4, WriteAdvance
  <2> QED BY <2>3, <2>5
<1>12. wr.n2 <= write_space(write_ptr', read_ptr)
  <2>1. /\ write_space(write_ptr, read_ptr) = size - 1 - read_space(write_ptr, read_ptr)
        /\ read_space(write_ptr, read_ptr) \in 0..(size - 1)
    BY <1>4, SpaceLemma
  <2>2. write_space(write_ptr', read_ptr) = size - 1 - read_space(write_ptr', read_ptr)
    BY <1>4, <1>10, SpaceLemma
  <2>3. PICK ws \in Nat, rs \in Nat, d \in Nat :
          /\ ws = write_space(write_ptr, read_ptr) /\ rs = read_space(write_ptr, read_ptr)
          /\ d = done
    BY <1>5, <1>7, <2>1
  <2>4. d + wr.n2 <= size - 1 - rs BY <1>7, <2>1, <2>3
  <2>5. write_space(write_ptr', read_ptr) = size - 1 - (rs + d) BY <1>11, <2>2, <2>3
  <2>6. wr.n2 <= size - 1 - (rs + d) BY <1>2, <2>3, <2>4
  <2> QED BY <2>5, <2>6
<1>13. \/ wr' = NoCall
       \/ /\ wr.n2 > 0 /\ wr.ptr = size
          /\ wr'.op = "write" /\ wr'.ptr = 0 /\ wr'.n1 = wr.n2 /\ wr'.n2 = 0 /\ wr'.bytes = wr.bytes
          /\ wr' = [op |-> wr'.op, ptr |-> wr'.ptr, n1 |-> wr'.n1, n2 |-> wr'.n2, bytes |-> wr'.bytes]
  <2>1. CASE wr.n2 > 0
    <3>1. wr.ptr = size /\ mask(wr.ptr) = 0 BY <1>2, <1>7, <1>8, <1>9, <2>1
    <3>2. wr' = [wr EXCEPT !.ptr = 0, !.n1 = wr.n2, !.n2 = 0]
      BY <2>1, <3>1 DEF publish_write
    <3> QED BY <1>1, <2>1, <3>1, <3>2 DEF Calls, IInv, TypeOK
  <2>2. CASE ~(wr.n2 > 0) BY <2>2 DEF publish_write
  <2> QED BY <2>1, <2>2
<1>14. TypeOK'
  <2>1. wr' \in Calls({"none", "write"})
    <3>1. wr.bytes \in Seq(Data) BY BytesTypes
    <3> QED BY <1>2, <1>13, <3>1, NoCallType DEF Calls
  <2> QED BY <1>8, <1>10, <2>1 DEF IInv, TypeOK
<1>15. WriterInv'
  <2>1. CASE wr' = NoCall BY <2>1 DEF WriterInv, NoCall
  <2>2. CASE wr' # NoCall
    <3>1. /\ wr'.ptr = 0 /\ wr'.n1 = wr.n2 /\ wr'.n2 = 0 /\ wr'.bytes = wr.bytes
          /\ wr.ptr = size
      BY <1>13, <2>2
    <3>2. write_ptr' = 0 /\ read_ptr' = read_ptr BY <1>8, <1>9, <3>1
    <3>3. Len(wr'.bytes) = wr'.n1 + wr'.n2 BY <1>1, <1>2, <1>6, <3>1
    <3>4. write_space(write_ptr', read_ptr) \in 0..(size - 1) BY <1>4, <1>10, SpaceLemma
    <3>5. (wr'.ptr + wr'.n1 - write_ptr') + wr'.n2 <= write_space(write_ptr', read_ptr)
      BY <1>2, <1>12, <3>1, <3>2, <3>4
    <3>6. write_ptr' <= wr'.ptr /\ wr'.ptr + wr'.n1 <= size BY <1>2, <3>1, <3>2
    <3> QED BY <3>1, <3>2, <3>3, <3>5, <3>6 DEF WriterInv
  <2> QED BY <2>1, <2>2
<1>16. ReaderInv'
  <2>1. /\ read_space(write_ptr, read_ptr) \in 0..(size - 1)
    BY <1>4, SpaceLemma
  <2>2. rd.ptr \in 0..size /\ rd.n1 \in 0..size /\ rd.n2 \in 0..size BY RdTypes
  <2>3. Ahead \in Int BY <1>3, <2>2 DEF Ahead
  <2>4. rd' = rd /\ read_ptr' = read_ptr /\ Ahead' = Ahead BY <1>8 DEF Ahead
  <2>5. ASSUME Ahead + rd.n1 + rd.n2 <= read_space(write_ptr, read_ptr)
        PROVE  Ahead + rd.n1 + rd.n2 <= read_space(write_ptr', read_ptr)
    BY <1>7, <1>11, <2>1, <2>2, <2>3, <2>5
  <2> QED BY <2>4, <2>5 DEF IInv, ReaderInv
<1>17. IdleInv'
  BY <1>8, <1>13 DEF IInv, IdleInv
<1> QED BY <1>14, <1>15, <1>16, <1>17 DEF IInv

\* Starting a read, a peek or an in-place read claims no more than what is filled.
LEMMA StepStartRead ==
  ASSUME IInv, NEW cnt \in 1..MaxCount, read(cnt) \/ peek(cnt) \/ get_read_vector(cnt)
  PROVE  IInv'
<1> USE SizeLemma
<1> DEFINE fill == read_space(write_ptr, read_ptr)
<1>1. write_ptr \in Cells /\ read_ptr \in Cells
  BY PtrTypes
<1>2. fill \in Nat /\ fill < size
  BY <1>1, SpaceLemma
<1>3. cnt \in Nat /\ cnt > 0
  BY MaxCountAssumption
<1>4. ASSUME NEW op \in {"read", "peek"}, NEW n, NEW n1 \in 0..size, NEW n2 \in 0..size,
             n1 + n2 <= fill, read_ptr + n1 <= size, n2 > 0 => read_ptr + n1 = size,
             StartRead(op, n, n1, n2)
      PROVE  IInv'
  <2>1. /\ rd' = [op |-> op, ptr |-> read_ptr, n1 |-> n1, n2 |-> n2, bytes |-> <<>>]
        /\ UNCHANGED <<buf, write_ptr, read_ptr, wr, delivered>>
    BY <1>4 DEF StartRead
  <2>2. read_ptr \in Nat /\ read_ptr < size BY PtrTypes
  <2>3. TypeOK'
    <3>1. rd' \in Calls({"none", "read", "peek"})
      <4>1. <<>> \in Seq(Data) OBVIOUS
      <4> QED BY <2>1, <2>2, <4>1 DEF Calls
    <3> QED BY <2>1, <3>1 DEF IInv, TypeOK
  <2>4. WriterInv' /\ IdleInv'
    BY <2>1 DEF IInv, WriterInv, IdleInv, NoCall
  <2>5. ReaderInv'
    <3>1. Ahead' = 0 BY <2>1, <2>2 DEF Ahead
    <3>2. /\ rd'.ptr = read_ptr /\ rd'.n1 = n1 /\ rd'.n2 = n2 /\ read_ptr' = read_ptr
          /\ write_ptr' = write_ptr
      BY <2>1
    <3>3. Ahead' + n1 + n2 <= read_space(write_ptr, read_ptr)
      BY <1>2, <1>4, <3>1
    <3>4. read_ptr <= read_ptr /\ ~(read_ptr < read_ptr) BY <2>2
    <3> QED BY <1>4, <3>2, <3>3, <3>4 DEF ReaderInv
  <2> QED BY <2>3, <2>4, <2>5 DEF IInv
<1>5. CASE read(cnt) \/ peek(cnt)
  <2> DEFINE n == AtMost(cnt, fill)
             n1 == first_part(read_ptr, n)
             n2 == second_part(read_ptr, n)
  <2>1. n \in Nat /\ n < size /\ n <= fill BY <1>2, <1>3 DEF AtMost
  <2>2. n1 \in 0..size /\ n2 \in 0..size /\ n1 + n2 = n /\ read_ptr + n1 <= size
        /\ (n2 > 0 => read_ptr + n1 = size)
    <3> HIDE DEF n
    <3> QED BY <1>1, <2>1, SplitLemma
  <2>3. n1 + n2 <= fill BY <2>1, <2>2
  <2>4. CASE read(cnt)
    <3>1. StartRead("read", n, n1, n2) BY <2>4 DEF read
    <3> HIDE DEF n, n1, n2, fill
    <3> QED BY <1>4, <2>2, <2>3, <3>1
  <2>5. CASE peek(cnt)
    <3>1. StartRead("peek", n, n1, n2) BY <2>5 DEF peek
    <3> HIDE DEF n, n1, n2, fill
    <3> QED BY <1>4, <2>2, <2>3, <3>1
  <2> QED BY <1>5, <2>4, <2>5
<1>6. CASE get_read_vector(cnt)
  <2>1. cnt <= first_part(read_ptr, fill) /\ StartRead("read", cnt, cnt, 0)
    BY <1>6 DEF get_read_vector
  <2>2. first_part(read_ptr, fill) \in 0..size /\ first_part(read_ptr, fill) <= fill
        /\ read_ptr + first_part(read_ptr, fill) <= size
    BY <1>1, <1>2, SplitLemma
  <2>3. read_ptr \in Nat BY PtrTypes
  <2>4. cnt \in 0..size /\ 0 \in 0..size /\ cnt + 0 <= fill /\ read_ptr + cnt <= size /\ ~(0 > 0)
    <3> HIDE DEF fill
    <3> QED BY <1>2, <1>3, <2>1, <2>2, <2>3
  <2> HIDE DEF fill
  <2> QED BY <1>4, <2>1, <2>4
<1> QED BY <1>5, <1>6

LEMMA StepCopyOut ==
  ASSUME IInv, copy_out
  PROVE  IInv'
<1> USE SizeLemma
<1>1. rd.op # "none" /\ rd.n1 > 0
  BY DEF copy_out
<1>2. rd.ptr \in 0..size /\ rd.n1 \in 0..size /\ rd.n2 \in 0..size
  BY RdTypes
<1>3. write_ptr \in Nat /\ read_ptr \in Nat /\ read_ptr < size
  BY PtrTypes
<1>4. /\ rd.op = "read" => read_ptr <= rd.ptr
      /\ rd.ptr < read_ptr => rd.n2 = 0
      /\ rd.ptr + rd.n1 <= size
      /\ rd.n2 > 0 => rd.ptr + rd.n1 = size
      /\ Ahead + rd.n1 + rd.n2 <= read_space(write_ptr, read_ptr)
  BY <1>1 DEF IInv, ReaderInv
<1>5. buf[rd.ptr] \in Data
  <2>1. rd.ptr \in Cells BY <1>1, <1>2, <1>4 DEF Cells
  <2> QED BY <2>1 DEF IInv, TypeOK
<1>6. Append(rd.bytes, buf[rd.ptr]) \in Seq(Data)
  BY <1>5, BytesTypes
<1>7. /\ rd'.op = rd.op /\ rd'.ptr = rd.ptr + 1 /\ rd'.n1 = rd.n1 - 1 /\ rd'.n2 = rd.n2
      /\ rd'.bytes = Append(rd.bytes, buf[rd.ptr])
      /\ rd' = [op |-> rd'.op, ptr |-> rd'.ptr, n1 |-> rd'.n1, n2 |-> rd'.n2, bytes |-> rd'.bytes]
      /\ rd.op \in {"none", "read", "peek"}
  BY <1>1 DEF copy_out, Calls, IInv, TypeOK
<1>8. UNCHANGED <<buf, write_ptr, read_ptr, wr, delivered>>
  BY DEF copy_out
<1>9. TypeOK'
  <2>1. rd'.ptr \in 0..size /\ rd'.n1 \in 0..size /\ rd'.n2 \in 0..size
    BY <1>1, <1>2, <1>4, <1>7
  <2>2. rd' \in Calls({"none", "read", "peek"}) BY <1>6, <1>7, <2>1 DEF Calls
  <2> QED BY <1>8, <2>2 DEF IInv, TypeOK
<1>10. WriterInv' /\ IdleInv'
  BY <1>1, <1>7, <1>8 DEF IInv, WriterInv, IdleInv
<1>11. ReaderInv'
  <2>1. read_space(write_ptr, read_ptr) \in 0..(size - 1) BY PtrTypes, SpaceLemma
  <2>2. PICK fill \in Nat : fill = read_space(write_ptr, read_ptr) /\ fill < size BY <2>1
  <2>3. /\ (IF read_ptr <= rd.ptr THEN rd.ptr - read_ptr ELSE rd.ptr - read_ptr + size)
           + rd.n1 + rd.n2 <= fill
    BY <1>4, <2>2 DEF Ahead
  <2>4. (IF read_ptr <= rd.ptr + 1 THEN rd.ptr + 1 - read_ptr ELSE rd.ptr + 1 - read_ptr + size)
           + (rd.n1 - 1) + rd.n2 <= fill
    BY <1>1, <1>2, <1>3, <1>4, <2>2, <2>3
  <2>5. Ahead' + rd'.n1 + rd'.n2 <= read_space(write_ptr', read_ptr')
    <3>1. Ahead' = IF read_ptr <= rd.ptr + 1 THEN rd.ptr + 1 - read_ptr
                   ELSE rd.ptr + 1 - read_ptr + size
      <4>1. rd'.ptr = rd.ptr + 1 /\ read_ptr' = read_ptr BY <1>7, <1>8
      <4> QED BY <1>2, <1>3, <4>1 DEF Ahead
    <3>2. PICK a \in Int : a = Ahead' BY <1>2, <1>3, <3>1
    <3>3. a + (rd.n1 - 1) + rd.n2 <= fill BY <2>4, <3>1, <3>2
    <3> QED BY <1>7, <1>8, <2>2, <3>2, <3>3
  <2>6. /\ rd'.op = "read" => read_ptr' <= rd'.ptr
        /\ rd'.ptr < read_ptr' => rd'.n2 = 0
        /\ rd'.ptr + rd'.n1 <= size
        /\ rd'.n2 > 0 => rd'.ptr + rd'.n1 = size
    <3>1. /\ rd.op = "read" => read_ptr <= rd.ptr + 1
          /\ rd.ptr + 1 < read_ptr => rd.n2 = 0
          /\ rd.ptr + 1 + (rd.n1 - 1) <= size
          /\ rd.n2 > 0 => rd.ptr + 1 + (rd.n1 - 1) = size
      BY <1>2, <1>3, <1>4
    <3> QED BY <1>7, <1>8, <3>1
  <2> QED BY <2>5, <2>6 DEF ReaderInv
<1> QED BY <1>9, <1>10, <1>11 DEF IInv

\* Publishing read_ptr gives the cells back: the writer's share only grows.
LEMMA StepPublishRead ==
  ASSUME IInv, publish_read
  PROVE  IInv'
<1> USE SizeLemma
<1> DEFINE done == rd.ptr - read_ptr
<1>1. rd.op = "read" /\ rd.n1 = 0
  BY DEF publish_read
<1>2. rd.ptr \in 0..size /\ rd.n2 \in 0..size
  BY RdTypes
<1>3. read_ptr \in Nat /\ read_ptr < size /\ write_ptr \in Nat /\ write_ptr < size
  BY PtrTypes
<1>4. write_ptr \in Cells /\ read_ptr \in Cells
  BY PtrTypes
<1>5. /\ read_space(write_ptr, read_ptr) \in 0..(size - 1)
      /\ write_space(write_ptr, read_ptr) \in 0..(size - 1)
  BY <1>4, SpaceLemma
<1>6. /\ read_ptr <= rd.ptr
      /\ rd.n2 > 0 => rd.ptr = size
      /\ done \in Nat
      /\ done + rd.n2 <= read_space(write_ptr, read_ptr)
  <2>1. read_ptr <= rd.ptr BY <1>1 DEF IInv, ReaderInv
  <2>2. (rd.n2 > 0 => rd.ptr + rd.n1 = size) /\ Ahead + rd.n1 + rd.n2 <= read_space(write_ptr, read_ptr)
    BY <1>1 DEF IInv, ReaderInv
  <2>3. Ahead = done BY <2>1 DEF Ahead
  <2> QED BY <1>1, <1>2, <1>3, <1>5, <2>1, <2>2, <2>3
<1>7. /\ read_ptr' = mask(rd.ptr) /\ delivered' = rd.bytes
      /\ UNCHANGED <<buf, write_ptr, wr>>
  BY DEF publish_read
<1>8. read_ptr' = IF rd.ptr = size THEN 0 ELSE rd.ptr
  <2>1. rd.ptr \in Nat /\ rd.ptr <= size BY <1>2
  <2> QED BY <1>7, <2>1, MaskLemma
<1>9. read_ptr' \in Cells
  BY <1>2, <1>8 DEF Cells
<1>10. /\ read_space(write_ptr, read_ptr') = read_space(write_ptr, read_ptr) - done
       /\ write_space(write_ptr, read_ptr') = write_space(write_ptr, read_ptr) + done
  <2>1. done <= read_space(write_ptr, read_ptr) BY <1>2, <1>5, <1>6
  <2>2. rd.ptr \in 0..size /\ read_ptr <= rd.ptr BY <1>2, <1>6
  <2> HIDE SizeLemma
  <2>3. PICK w \in Cells, r \in Cells, p \in 0..size, q \in Cells :
          w = write_ptr /\ r = read_ptr /\ p = rd.ptr /\ q = read_ptr'
    BY <1>4, <1>9, <2>2
  <2>4. r <= p /\ p - r <= read_space(w, r) /\ q = IF p = size THEN 0 ELSE p
    BY <1>8, <2>1, <2>2, <2>3
  <2>5. /\ read_space(w, q) = read_space(w, r) - (p - r)
        /\ write_space(w, q) = write_space(w, r) + (p - r)
    BY <2>4, ReadAdvance
  <2> QED BY <2>3, <2>5
<1>11. \/ rd' = NoCall
       \/ /\ rd.n2 > 0 /\ rd.ptr = size
          /\ rd' = [op |-> "read", ptr |-> 0, n1 |-> rd.n2, n2 |-> 0, bytes |-> <<>>]
  <2>1. CASE rd.n2 > 0
    <3>1. rd.ptr = size /\ mask(rd.ptr) = 0 BY <1>2, <1>6, <1>7, <1>8, <2>1
    <3>2. rd' = [rd EXCEPT !.ptr = 0, !.n1 = rd.n2, !.n2 = 0, !.bytes = <<>>]
      BY <2>1, <3>1 DEF publish_read
    <3> QED BY <1>1, <2>1, <3>1, <3>2 DEF Calls, IInv, TypeOK
  <2>2. CASE ~(rd.n2 > 0) BY <2>2 DEF publish_read
  <2> QED BY <2>1, <2>2
<1>12. TypeOK'
  <2>1. rd' \in Calls({"none", "read", "peek"})
    <3>1. <<>> \in Seq(Data) OBVIOUS
    <3>2. CASE rd' = NoCall BY <3>2, NoCallType
    <3>3. CASE rd' = [op |-> "read", ptr |-> 0, n1 |-> rd.n2, n2 |-> 0, bytes |-> <<>>]
      BY <1>2, <3>1, <3>3 DEF Calls
    <3> QED BY <1>11, <3>2, <3>3
  <2>2. delivered' \in Seq(Data) BY <1>7, BytesTypes
  <2> QED BY <1>7, <1>9, <2>1, <2>2 DEF IInv, TypeOK
<1>13. WriterInv'
  <2>1. wr.ptr \in 0..size /\ wr.n1 \in 0..size /\ wr.n2 \in 0..size BY WrTypes
  <2>2. PICK ws \in Nat : ws = write_space(write_ptr, read_ptr) BY <1>5
  <2>3. write_space(write_ptr, read_ptr') = ws + done BY <1>10, <2>2
  <2>4. ASSUME (wr.ptr + wr.n1 - write_ptr) + wr.n2 <= write_space(write_ptr, read_ptr)
        PROVE  (wr.ptr + wr.n1 - write_ptr) + wr.n2 <= write_space(write_ptr', read_ptr')
    <3>1. (wr.ptr + wr.n1 - write_ptr) + wr.n2 <= ws BY <2>2, <2>4
    <3>2. (wr.ptr + wr.n1 - write_ptr) + wr.n2 <= ws + done BY <1>3, <1>6, <2>1, <2>2, <3>1
    <3> QED BY <1>7, <2>3, <3>2
  <2>5. wr' = wr /\ write_ptr' = write_ptr BY <1>7
  <2> QED BY <2>4, <2>5 DEF IInv, WriterInv
<1>14. ReaderInv'
  <2>1. CASE rd' = NoCall BY <2>1 DEF ReaderInv, NoCall
  <2>2. CASE rd' # NoCall
    <3>1. /\ rd'.ptr = 0 /\ rd'.n1 = rd.n2 /\ rd'.n2 = 0 /\ rd'.op = "read"
          /\ rd.ptr = size
      BY <1>11, <2>2
    <3>2. read_ptr' = 0 BY <1>8, <3>1
    <3>3. Ahead' = 0 BY <3>1, <3>2 DEF Ahead
    <3>4. rd.n2 <= read_space(write_ptr, read_ptr')
      <4>1. PICK rs \in Nat : rs = read_space(write_ptr, read_ptr) BY <1>5
      <4>2. done + rd.n2 <= rs BY <1>6, <4>1
      <4>3. rd.n2 <= rs - done BY <1>2, <1>6, <4>1, <4>2
      <4> QED BY <1>10, <4>1, <4>3
    <3>5. Ahead' + rd'.n1 + rd'.n2 <= read_space(write_ptr', read_ptr')
      BY <1>2, <1>7, <3>1, <3>3, <3>4
    <3>6. read_ptr' <= rd'.ptr /\ rd'.ptr + rd'.n1 <= size BY <1>2, <3>1, <3>2
    <3> QED BY <3>1, <3>5, <3>6 DEF ReaderInv
  <2> QED BY <2>1, <2>2
<1>15. IdleInv'
  BY <1>7, <1>11 DEF IInv, IdleInv
<1> QED BY <1>12, <1>13, <1>14, <1>15 DEF IInv

\* A peek moves no pointer; its second segment starts at cell 0, before read_ptr.
LEMMA StepEndPeek ==
  ASSUME IInv, end_peek
  PROVE  IInv'
<1> USE SizeLemma
<1>1. rd.op = "peek" /\ rd.n1 = 0 /\ UNCHANGED <<buf, write_ptr, read_ptr, wr>>
  BY DEF end_peek
<1>2. rd.ptr \in 0..size /\ rd.n2 \in 0..size /\ rd.bytes \in Seq(Data)
  BY RdTypes, BytesTypes
<1>3. read_ptr \in Nat /\ read_ptr < size /\ write_ptr \in Nat /\ write_ptr < size
  BY PtrTypes
<1>4. read_space(write_ptr, read_ptr) \in 0..(size - 1)
  BY PtrTypes, SpaceLemma
<1>5. /\ rd.n2 > 0 => rd.ptr + rd.n1 = size
      /\ Ahead + rd.n1 + rd.n2 <= read_space(write_ptr, read_ptr)
  BY <1>1 DEF IInv, ReaderInv
<1>6. CASE rd.n2 > 0
  <2>1. rd.ptr = size BY <1>1, <1>2, <1>5, <1>6
  <2>2. mask(rd.ptr) = 0 BY <2>1, MaskLemma
  <2>3. rd' = [rd EXCEPT !.ptr = 0, !.n1 = rd.n2, !.n2 = 0] /\ delivered' = delivered
    BY <1>6, <2>2 DEF end_peek
  <2>4. rd' = [op |-> "peek", ptr |-> 0, n1 |-> rd.n2, n2 |-> 0, bytes |-> rd.bytes]
    BY <1>1, <2>3 DEF Calls, IInv, TypeOK
  <2>5. TypeOK'
    <3>1. rd' \in Calls({"none", "read", "peek"}) BY <1>2, <2>4 DEF Calls
    <3> QED BY <1>1, <2>3, <3>1 DEF IInv, TypeOK
  <2>6. WriterInv' /\ IdleInv'
    BY <1>1, <2>4 DEF IInv, WriterInv, IdleInv
  <2>7. ReaderInv'
    <3>1. Ahead = size - read_ptr BY <1>3, <2>1 DEF Ahead
    <3>2. /\ rd'.ptr = 0 /\ rd'.n1 = rd.n2 /\ rd'.n2 = 0 /\ rd'.op = "peek"
      BY <2>4
    <3>3. size - read_ptr + rd.n2 <= read_space(write_ptr, read_ptr)
      BY <1>1, <1>2, <1>3, <1>4, <1>5, <3>1
    <3>4. (IF read_ptr <= 0 THEN 0 - read_ptr ELSE 0 - read_ptr + size) + rd.n2 + 0
            <= read_space(write_ptr, read_ptr)
      BY <1>2, <1>3, <1>4, <3>3
    <3>5. Ahead' + rd'.n1 + rd'.n2 <= read_space(write_ptr', read_ptr')
      BY <1>1, <3>2, <3>4 DEF Ahead
    <3>6. rd'.ptr + rd'.n1 <= size BY <1>2, <3>2
    <3> QED BY <3>2, <3>5, <3>6 DEF ReaderInv
  <2> QED BY <2>5, <2>6, <2>7 DEF IInv
<1>7. CASE ~(rd.n2 > 0)
  <2>1. rd' = NoCall /\ delivered' = rd.bytes BY <1>7 DEF end_peek
  <2>2. TypeOK' BY <1>1, <1>2, <2>1, NoCallType DEF IInv, TypeOK
  <2>3. WriterInv' /\ ReaderInv' /\ IdleInv'
    BY <1>1, <2>1 DEF IInv, WriterInv, ReaderInv, IdleInv, NoCall
  <2> QED BY <2>2, <2>3 DEF IInv
<1> QED BY <1>6, <1>7

LEMMA StepReset ==
  ASSUME IInv, reset
  PROVE  IInv'
<1>1. 0 \in Cells
  BY SizeLemma DEF Cells
<1>2. TypeOK'
  BY <1>1 DEF reset, IInv, TypeOK
<1>3. WriterInv' /\ ReaderInv' /\ IdleInv'
  BY DEF reset, IInv, WriterInv, ReaderInv, IdleInv
<1> QED BY <1>2, <1>3 DEF IInv

LEMMA Inductive == IInv /\ [Next]_vars => IInv'
<1> SUFFICES ASSUME IInv, [Next]_vars PROVE IInv'
  OBVIOUS
<1>1. CASE Writer
  BY <1>1, StepStartWrite, StepCopyIn, StepPublishWrite DEF Writer
<1>2. CASE Reader
  BY <1>2, StepStartRead, StepCopyOut, StepPublishRead, StepEndPeek DEF Reader
<1>3. CASE reset
  BY <1>3, StepReset
<1>4. CASE UNCHANGED vars
  BY <1>4 DEF vars, IInv, TypeOK, WriterInv, ReaderInv, IdleInv, Ahead
<1> QED BY <1>1, <1>2, <1>3, <1>4 DEF Next

\* The inductive invariant holds of every behaviour of the two threads.
THEOREM AlwaysIInv == Spec => []IInv
BY InitIInv, Inductive, PTL DEF Spec

\* Both pointers stay inside the block and every call's locals keep their types,
\* for every size that ffado_ringbuffer_create can give.
THEOREM TypeCorrect == Spec => []TypeOK
<1>1. IInv => TypeOK BY DEF IInv
<1> QED BY AlwaysIInv, <1>1, PTL

\* A call that is not in progress has nothing pending.
LEMMA IdlePending == Pending(NoCall) = {}
BY DEF Pending, NoCall

\* What the writer still has to store lies in the block and outside what is
\* published, however old its sample of read_ptr is.
LEMMA WriterPending ==
  ASSUME IInv
  PROVE  Pending(wr) \subseteq Cells /\ Pending(wr) \intersect Readable = {}
<1> USE SizeLemma
<1>1. CASE wr.op # "write"
  <2>1. wr = NoCall BY <1>1 DEF IInv, IdleInv, TypeOK, Calls
  <2> QED BY <2>1, IdlePending
<1>2. CASE wr.op = "write"
  <2>1. PICK n \in Nat : n = size /\ n >= 2 OBVIOUS
  <2>2. PICK w \in Nat, r \in Nat : w = write_ptr /\ r = read_ptr /\ w < n /\ r < n
    BY <2>1, PtrTypes
  <2>3. PICK p \in Nat, a \in Nat, b \in Nat : p = wr.ptr /\ a = wr.n1 /\ b = wr.n2
    BY WrTypes
  <2>4. /\ w <= p /\ p + a <= n
        /\ b > 0 => p + a = n
        /\ (p + a - w) + b <= write_space(w, r)
    BY <1>2, <2>1, <2>2, <2>3 DEF IInv, WriterInv
  <2>5. write_space(w, r) = n - 1 - (IF w >= r THEN w - r ELSE w - r + n)
    <3>1. w \in Cells /\ r \in Cells BY <2>1, <2>2 DEF Cells
    <3>2. read_space(w, r) = IF w >= r THEN w - r ELSE w - r + n BY <2>1, <3>1, SpaceLemma
    <3>3. write_space(w, r) = n - 1 - read_space(w, r) BY <2>1, <3>1, SpaceLemma
    <3> QED BY <3>2, <3>3
  <2>6. (p + a - w) + b <= n - 1 - (IF w >= r THEN w - r ELSE w - r + n)
    BY <2>4, <2>5
  <2>7. Pending(wr) = (p .. (p + a - 1)) \union (0 .. (b - 1))
    BY <2>3 DEF Pending
  <2>8. Readable = IF r <= w THEN r .. (w - 1) ELSE (r .. (n - 1)) \union (0 .. (w - 1))
    BY <2>1, <2>2 DEF Readable
  <2>9. Pending(wr) \subseteq Cells
    BY <2>1, <2>2, <2>4, <2>6, <2>7 DEF Cells
  <2>10. ASSUME NEW c \in Pending(wr) PROVE c \notin Readable
    <3>1. c \in Int /\ ((p <= c /\ c < p + a) \/ (0 <= c /\ c < b)) BY <2>7, <2>10
    <3>2. CASE p <= c /\ c < p + a BY <2>2, <2>4, <2>6, <2>8, <3>1, <3>2
    <3>3. CASE 0 <= c /\ c < b BY <2>2, <2>4, <2>6, <2>8, <3>1, <3>3
    <3> QED BY <3>1, <3>2, <3>3
  <2> QED BY <2>9, <2>10
<1> QED BY <1>1, <1>2

\* What the reader still has to load lies inside what is published.
LEMMA ReaderPending ==
  ASSUME IInv
  PROVE  Pending(rd) \subseteq Cells /\ Pending(rd) \subseteq Readable
<1> USE SizeLemma
<1>1. CASE rd.op = "none"
  <2>1. rd = NoCall BY <1>1 DEF IInv, IdleInv
  <2> QED BY <2>1, IdlePending
<1>2. CASE rd.op # "none"
  <2>1. PICK n \in Nat : n = size /\ n >= 2 OBVIOUS
  <2>2. PICK w \in Nat, r \in Nat : w = write_ptr /\ r = read_ptr /\ w < n /\ r < n
    BY <2>1, PtrTypes
  <2>3. PICK p \in Nat, a \in Nat, b \in Nat : p = rd.ptr /\ a = rd.n1 /\ b = rd.n2
    BY RdTypes
  <2>4. /\ p < r => b = 0
        /\ p + a <= n
        /\ b > 0 => p + a = n
        /\ (IF r <= p THEN p - r ELSE p - r + n) + a + b <= read_space(w, r)
    BY <1>2, <2>1, <2>2, <2>3 DEF IInv, ReaderInv, Ahead
  <2>5. read_space(w, r) = IF w >= r THEN w - r ELSE w - r + n
    <3>1. w \in Cells /\ r \in Cells BY <2>1, <2>2 DEF Cells
    <3> QED BY <2>1, <3>1, SpaceLemma
  <2>6. (IF r <= p THEN p - r ELSE p - r + n) + a + b <= IF w >= r THEN w - r ELSE w - r + n
    BY <2>4, <2>5
  <2>7. Pending(rd) = (p .. (p + a - 1)) \union (0 .. (b - 1))
    BY <2>3 DEF Pending
  <2>8. Readable = IF r <= w THEN r .. (w - 1) ELSE (r .. (n - 1)) \union (0 .. (w - 1))
    BY <2>1, <2>2 DEF Readable
  <2>9. Readable \subseteq Cells BY <2>1, <2>2, <2>8 DEF Cells
  <2>10. ASSUME NEW c \in Pending(rd) PROVE c \in Readable
    <3>1. c \in Int /\ ((p <= c /\ c < p + a) \/ (0 <= c /\ c < b)) BY <2>7, <2>10
    <3>2. CASE p <= c /\ c < p + a BY <2>2, <2>4, <2>6, <2>8, <3>1, <3>2
    <3>3. CASE 0 <= c /\ c < b BY <2>2, <2>4, <2>6, <2>8, <3>1, <3>3
    <3> QED BY <3>1, <3>2, <3>3
  <2> QED BY <2>9, <2>10
<1> QED BY <1>1, <1>2

\* No memcpy of ringbuffer.c ever touches memory outside the allocated block.
THEOREM AlwaysInBounds == Spec => []InBounds
<1>1. IInv => InBounds BY WriterPending, ReaderPending DEF InBounds
<1> QED BY AlwaysIInv, <1>1, PTL

\* The two threads never touch the same byte at the same time, for every buffer size
\* and every interleaving: the lock-free claim of ringbuffer.c.
THEOREM AlwaysNoSharedCell == Spec => []NoSharedCell
<1>1. IInv => NoSharedCell BY WriterPending, ReaderPending DEF NoSharedCell
<1> QED BY AlwaysIInv, <1>1, PTL

(***************************************************************************)
(* The refinement.  Lemmas on the bytes between two pointers come first:   *)
(* they are facts of constants, used for the state before and after a step.*)
(***************************************************************************)
\* The cell of the i-th byte from r on, without the mask.
Cell(r, i) == IF r + i - 1 < size THEN r + i - 1 ELSE r + i - 1 - size

\* Where a pointer that has reached p is published.
Turn(p) == IF p = size THEN 0 ELSE p

\* t is u with bytes appended that there was room for.
Extends(t, u) == \E n \in 1..((size - 1) - Len(u)) : \E s \in [1..n -> Data] : t = u \o s

LEMMA CellLemma ==
  ASSUME NEW r \in Cells, NEW i \in 1..size
  PROVE  mask(r + i - 1) = Cell(r, i) /\ Cell(r, i) \in Cells
<1>1. size \in Nat /\ r \in Nat /\ r < size /\ i \in Nat /\ 1 <= i /\ i <= size
  BY SizeLemma DEF Cells
<1>2. r + i - 1 \in Nat /\ r + i - 1 < 2 * size
  BY <1>1
<1>3. mask(r + i - 1) = Cell(r, i)
  <2>1. CASE r + i - 1 < size BY <1>1, <1>2, <2>1, MaskLemma DEF Cell
  <2>2. CASE ~(r + i - 1 < size)
    <3>1. size <= r + i - 1 BY <1>1, <1>2, <2>2
    <3> QED BY <1>1, <1>2, <2>2, <3>1, MaskLemma DEF Cell
  <2> QED BY <2>1, <2>2
<1>4. Cell(r, i) \in Cells
  BY <1>1 DEF Cell, Cells
<1> QED BY <1>3, <1>4

LEMMA BytesAre ==
  ASSUME NEW b \in [Cells -> Data], NEW w \in Cells, NEW r \in Cells
  PROVE  /\ Bytes(b, w, r) \in Seq(Data)
         /\ Len(Bytes(b, w, r)) = read_space(w, r)
         /\ \A i \in 1..read_space(w, r) : /\ Bytes(b, w, r)[i] = b[mask(r + i - 1)]
                                           /\ Bytes(b, w, r)[i] \in Data
<1>1. PICK n \in Nat : n = read_space(w, r) /\ n < size
  BY SpaceLemma, SizeLemma
<1>2. \A i \in 1..n : b[mask(r + i - 1)] \in Data
  <2>1. SUFFICES ASSUME NEW i \in 1..n PROVE b[mask(r + i - 1)] \in Data OBVIOUS
  <2>2. i \in 1..size BY <1>1, SizeLemma
  <2>3. mask(r + i - 1) \in Cells BY <2>2, CellLemma
  <2> QED BY <2>3
<1>3. Bytes(b, w, r) = [i \in 1..n |-> b[mask(r + i - 1)]]
  BY <1>1 DEF Bytes
<1>4. Bytes(b, w, r) \in [1..n -> Data]
  BY <1>2, <1>3
<1>5. Bytes(b, w, r) \in Seq(Data) /\ Len(Bytes(b, w, r)) = n
  BY <1>3, <1>4
<1> QED BY <1>1, <1>2, <1>3, <1>5

\* A store to a cell that is not published leaves the published bytes as they are.
LEMMA BytesUntouched ==
  ASSUME NEW b \in [Cells -> Data], NEW w \in Cells, NEW r \in Cells, NEW c \in Cells, NEW d \in Data,
         \A i \in 1..read_space(w, r) : c # mask(r + i - 1)
  PROVE  Bytes([b EXCEPT ![c] = d], w, r) = Bytes(b, w, r)
<1> DEFINE e == [b EXCEPT ![c] = d]
<1>1. e \in [Cells -> Data] OBVIOUS
<1>2. PICK n \in Nat : n = read_space(w, r) /\ n < size
  BY SpaceLemma, SizeLemma
<1>3. \A i \in 1..n : e[mask(r + i - 1)] = b[mask(r + i - 1)]
  <2>1. SUFFICES ASSUME NEW i \in 1..n PROVE e[mask(r + i - 1)] = b[mask(r + i - 1)] OBVIOUS
  <2>2. i \in 1..size BY <1>2, SizeLemma
  <2>3. mask(r + i - 1) \in Cells BY <2>2, CellLemma
  <2> QED BY <1>2, <2>3
<1> HIDE DEF e
<1>4. Bytes(e, w, r) = Bytes(b, w, r)
  BY <1>2, <1>3 DEF Bytes
<1> QED BY <1>4 DEF e

LEMMA FunSeq ==
  ASSUME NEW n \in Nat, NEW f \in [1..n -> Data]
  PROVE  f \in Seq(Data) /\ Len(f) = n
OBVIOUS

\* Publishing write_ptr appends what lies between the old and the new pointer.
LEMMA BytesGrow ==
  ASSUME NEW b \in [Cells -> Data], NEW w \in Cells, NEW r \in Cells, NEW p \in 0..size, NEW q \in Cells,
         w < p, p - w <= write_space(w, r), q = Turn(p)
  PROVE  Extends(Bytes(b, q, r), Bytes(b, w, r))
<1>1. PICK z \in Nat : z = size /\ z >= 2 BY SizeLemma
<1>2. w \in Nat /\ r \in Nat /\ p \in Nat /\ w < z /\ r < z /\ p <= z
  BY <1>1 DEF Cells
<1>3. PICK k \in Nat : k = read_space(w, r) /\ k = (IF w >= r THEN w - r ELSE w - r + z) /\ k < z
  <2>1. read_space(w, r) = IF w >= r THEN w - r ELSE w - r + size BY SpaceLemma
  <2>2. read_space(w, r) \in 0..(size - 1) BY SpaceLemma
  <2> QED BY <1>1, <2>1, <2>2
<1>4. PICK n \in Nat : n = p - w /\ n >= 1
  BY <1>2
<1>5. n <= z - 1 - k
  <2>1. write_space(w, r) = size - 1 - read_space(w, r) BY SpaceLemma
  <2> QED BY <1>1, <1>3, <1>4, <2>1
<1>6. read_space(q, r) = k + n
  <2>1. w <= p BY <1>2
  <2>2. read_space(q, r) = read_space(w, r) + (p - w) BY <2>1, WriteAdvance DEF Turn
  <2> QED BY <1>3, <1>4, <2>2
<1> DEFINE s == [i \in 1..n |-> b[w + i - 1]]
<1>7. s \in [1..n -> Data]
  <2>1. \A i \in 1..n : w + i - 1 \in Cells BY <1>1, <1>2, <1>4 DEF Cells
  <2> QED BY <2>1
<1>8. s \in Seq(Data) /\ Len(s) = n BY <1>7, FunSeq
<1>9. /\ Bytes(b, w, r) \in Seq(Data) /\ Len(Bytes(b, w, r)) = k
      /\ \A i \in 1..k : Bytes(b, w, r)[i] = b[mask(r + i - 1)]
  <2> HIDE DEF s
  <2>1. /\ Bytes(b, w, r) \in Seq(Data) /\ Len(Bytes(b, w, r)) = read_space(w, r)
        /\ \A i \in 1..read_space(w, r) : Bytes(b, w, r)[i] = b[mask(r + i - 1)]
    BY BytesAre
  <2> QED BY <1>3, <2>1
<1>10. /\ Bytes(b, q, r) \in Seq(Data) /\ Len(Bytes(b, q, r)) = k + n
       /\ \A i \in 1..(k + n) : Bytes(b, q, r)[i] = b[mask(r + i - 1)]
  <2> HIDE DEF s
  <2>1. /\ Bytes(b, q, r) \in Seq(Data) /\ Len(Bytes(b, q, r)) = read_space(q, r)
        /\ \A i \in 1..read_space(q, r) : Bytes(b, q, r)[i] = b[mask(r + i - 1)]
    BY BytesAre
  <2> QED BY <1>6, <2>1
<1>11. \A i \in 1..n : s[i] = b[w + i - 1] OBVIOUS
<1> HIDE DEF s
<1>12. /\ Bytes(b, w, r) \o s \in Seq(Data)
       /\ Len(Bytes(b, w, r) \o s) = k + n
       /\ \A i \in 1..(k + n) : (Bytes(b, w, r) \o s)[i]
                                   = IF i <= k THEN Bytes(b, w, r)[i] ELSE s[i - k]
  BY <1>8, <1>9, ConcatProperties
<1>13. \A i \in 1..(k + n) : Bytes(b, q, r)[i] = (Bytes(b, w, r) \o s)[i]
  <2>1. SUFFICES ASSUME NEW i \in 1..(k + n)
                 PROVE  Bytes(b, q, r)[i] = (Bytes(b, w, r) \o s)[i]
    OBVIOUS
  <2>2. CASE i <= k
    <3>1. i \in 1..k BY <2>2
    <3> QED BY <1>9, <1>10, <1>12, <2>2, <3>1
  <2>3. CASE ~(i <= k)
    <3>1. i - k \in 1..n /\ i \in 1..size BY <1>1, <1>3, <1>5, <2>3
    <3>2. mask(r + i - 1) = Cell(r, i) BY <3>1, CellLemma
    <3>3. Cell(r, i) = w + (i - k) - 1 BY <1>1, <1>2, <1>3, <1>4, <1>5, <2>3 DEF Cell
    <3> QED BY <1>10, <1>11, <1>12, <2>3, <3>1, <3>2, <3>3
  <2> QED BY <2>2, <2>3
<1>14. Bytes(b, q, r) = Bytes(b, w, r) \o s
  BY <1>10, <1>12, <1>13, SeqEqual
<1>15. n \in 1..((size - 1) - Len(Bytes(b, w, r)))
  BY <1>1, <1>3, <1>4, <1>5, <1>9
<1> QED BY <1>7, <1>14, <1>15 DEF Extends

\* Publishing read_ptr removes what lies between the old and the new pointer.
LEMMA BytesShrink ==
  ASSUME NEW b \in [Cells -> Data], NEW w \in Cells, NEW r \in Cells, NEW p \in 0..size, NEW q \in Cells,
         r <= p, p - r <= read_space(w, r), q = Turn(p)
  PROVE  Bytes(b, w, q) = SubSeq(Bytes(b, w, r), (p - r) + 1, Len(Bytes(b, w, r)))
<1>1. PICK z \in Nat : z = size /\ z >= 2 BY SizeLemma
<1>2. w \in Nat /\ r \in Nat /\ p \in Nat /\ w < z /\ r < z /\ p <= z
  BY <1>1 DEF Cells
<1>3. PICK k \in Nat : k = read_space(w, r) /\ k < z
  BY <1>1, <1>2, SpaceLemma
<1>4. PICK n \in Nat : n = p - r /\ n <= k
  BY <1>2, <1>3
<1>5. PICK m \in Nat : m = k - n BY <1>4
<1>6. read_space(w, q) = m
  BY <1>3, <1>4, <1>5, ReadAdvance DEF Turn
<1>7. /\ Bytes(b, w, r) \in Seq(Data) /\ Len(Bytes(b, w, r)) = k
      /\ \A i \in 1..k : Bytes(b, w, r)[i] = b[mask(r + i - 1)] /\ Bytes(b, w, r)[i] \in Data
  BY <1>3, BytesAre
<1>8. /\ Bytes(b, w, q) \in Seq(Data) /\ Len(Bytes(b, w, q)) = m
      /\ \A i \in 1..m : Bytes(b, w, q)[i] = b[mask(q + i - 1)]
  BY <1>6, BytesAre
<1> DEFINE t == SubSeq(Bytes(b, w, r), n + 1, k)
<1>9. /\ t \in Seq(Data) /\ Len(t) = m
      /\ \A i \in 1..m : t[i] = Bytes(b, w, r)[n + i]
  <2>1. \A i \in (n + 1)..k : Bytes(b, w, r)[i] \in Data BY <1>7
  <2>2. /\ t \in Seq(Data)
        /\ Len(t) = IF n + 1 <= k THEN k - (n + 1) + 1 ELSE 0
        /\ \A i \in 1..(k - (n + 1) + 1) : t[i] = Bytes(b, w, r)[(n + 1) + i - 1]
    BY <2>1, SubSeqProperties
  <2> HIDE DEF t
  <2>3. Len(t) = m BY <1>4, <1>5, <2>2
  <2>4. ASSUME NEW i \in 1..m PROVE t[i] = Bytes(b, w, r)[n + i]
    <3>1. i \in 1..(k - (n + 1) + 1) /\ (n + 1) + i - 1 = n + i BY <1>5
    <3> QED BY <2>2, <3>1
  <2> QED BY <2>2, <2>3, <2>4
<1> HIDE DEF t
<1>10. \A i \in 1..m : Bytes(b, w, q)[i] = t[i]
  <2>1. SUFFICES ASSUME NEW i \in 1..m PROVE Bytes(b, w, q)[i] = t[i] OBVIOUS
  <2>2. i \in 1..size /\ n + i \in 1..size /\ n + i \in 1..k BY <1>1, <1>3, <1>4, <1>5
  <2>3. mask(q + i - 1) = Cell(q, i) BY <2>2, CellLemma
  <2>4. mask(r + (n + i) - 1) = Cell(r, n + i) BY <2>2, CellLemma
  <2>5. Cell(q, i) = Cell(r, n + i) BY <1>1, <1>2, <1>3, <1>4, <1>5 DEF Cell, Turn
  <2>6. Bytes(b, w, q)[i] = b[mask(q + i - 1)] BY <1>8
  <2>7. t[i] = Bytes(b, w, r)[n + i] BY <1>9
  <2>8. Bytes(b, w, r)[n + i] = b[mask(r + (n + i) - 1)] BY <1>7, <2>2
  <2> QED BY <2>3, <2>4, <2>5, <2>6, <2>7, <2>8
<1>11. Bytes(b, w, q) = t
  BY <1>8, <1>9, <1>10, SeqEqual
<1> QED BY <1>4, <1>7, <1>11 DEF t

\* The last two with their hypotheses under one name, which the provers match.
MayPut(b, w, r, p, q) == /\ b \in [Cells -> Data] /\ w \in Cells /\ r \in Cells /\ p \in 0..size /\ q \in Cells
                         /\ w < p /\ p - w <= write_space(w, r) /\ q = Turn(p)

MayGet(b, w, r, p, q) == /\ b \in [Cells -> Data] /\ w \in Cells /\ r \in Cells /\ p \in 0..size /\ q \in Cells
                         /\ r <= p /\ p - r <= read_space(w, r) /\ q = Turn(p)

LEMMA BytesPut ==
  ASSUME NEW b, NEW w, NEW r, NEW p, NEW q, MayPut(b, w, r, p, q)
  PROVE  Extends(Bytes(b, q, r), Bytes(b, w, r))
BY BytesGrow DEF MayPut

LEMMA BytesGet ==
  ASSUME NEW b, NEW w, NEW r, NEW p, NEW q, MayGet(b, w, r, p, q)
  PROVE  Bytes(b, w, q) = SubSeq(Bytes(b, w, r), (p - r) + 1, Len(Bytes(b, w, r)))
BY BytesShrink DEF MayGet

\* Bytes that agree with the front of what is published are its prefix.
LEMMA FrontIsPrefix ==
  ASSUME NEW b \in [Cells -> Data], NEW w \in Cells, NEW r \in Cells, NEW s \in Seq(Data),
         Len(s) <= read_space(w, r),
         \A i \in 1..Len(s) : s[i] = b[mask(r + i - 1)]
  PROVE  s = SubSeq(Bytes(b, w, r), 1, Len(s))
<1>1. PICK n \in Nat : n = Len(s) BY LenProperties
<1>2. PICK k \in Nat : k = read_space(w, r) /\ n <= k BY <1>1, SpaceLemma, SizeLemma
<1>3. \A i \in 1..k : Bytes(b, w, r)[i] = b[mask(r + i - 1)] /\ Bytes(b, w, r)[i] \in Data
  BY <1>2, BytesAre
<1> DEFINE t == SubSeq(Bytes(b, w, r), 1, n)
<1>4. /\ t \in Seq(Data)
      /\ Len(t) = IF 1 <= n THEN n - 1 + 1 ELSE 0
      /\ \A i \in 1..(n - 1 + 1) : t[i] = Bytes(b, w, r)[1 + i - 1]
  <2>1. \A i \in 1..n : Bytes(b, w, r)[i] \in Data BY <1>2, <1>3
  <2> QED BY <2>1, SubSeqProperties
<1> HIDE DEF t
<1>5. Len(t) = Len(s) BY <1>1, <1>4
<1>6. ASSUME NEW i \in 1..n PROVE s[i] = t[i]
  <2>1. 1 + i - 1 = i /\ i \in 1..(n - 1 + 1) /\ i \in 1..k BY <1>2
  <2> QED BY <1>1, <1>3, <1>4, <2>1
<1>7. s = t BY <1>1, <1>4, <1>5, <1>6, SeqEqual
<1> QED BY <1>1, <1>7 DEF t

\* What the FIFO lemmas need of the state.
LEMMA FifoTypes ==
  ASSUME IInv
  PROVE  /\ buf \in [Cells -> Data] /\ write_ptr \in Cells /\ read_ptr \in Cells
         /\ Ahead \in Nat
         /\ rd.op # "none" => Ahead <= read_space(write_ptr, read_ptr)
<1>1. buf \in [Cells -> Data] /\ write_ptr \in Cells /\ read_ptr \in Cells
  BY DEF IInv, TypeOK
<1>2. size \in Nat /\ read_ptr \in Nat /\ read_ptr < size
  BY SizeLemma, PtrTypes
<1>3. rd.ptr \in 0..size /\ rd.n1 \in 0..size /\ rd.n2 \in 0..size
  BY RdTypes
<1>4. Ahead \in Nat BY <1>2, <1>3 DEF Ahead
<1>5. ASSUME rd.op # "none" PROVE Ahead <= read_space(write_ptr, read_ptr)
  <2>1. read_space(write_ptr, read_ptr) \in Nat BY <1>1, SpaceLemma, SizeLemma
  <2>2. Ahead + rd.n1 + rd.n2 <= read_space(write_ptr, read_ptr) BY <1>5 DEF IInv, ReaderInv
  <2> QED BY <1>3, <1>4, <2>1, <2>2
<1> QED BY <1>1, <1>4, <1>5

\* Every published byte lies in a readable cell.
LEMMA PublishedReadable ==
  ASSUME IInv, NEW i \in 1..read_space(write_ptr, read_ptr)
  PROVE  mask(read_ptr + i - 1) \in Readable
<1>1. PICK n \in Nat : n = size /\ n >= 2 BY SizeLemma
<1>2. PICK w \in Nat, r \in Nat : w = write_ptr /\ r = read_ptr /\ w < n /\ r < n
  BY <1>1, PtrTypes
<1>3. w \in Cells /\ r \in Cells BY <1>1, <1>2 DEF Cells
<1>4. PICK k \in Nat : k = read_space(w, r) /\ k = (IF w >= r THEN w - r ELSE w - r + n) /\ k < n
  <2>1. read_space(w, r) = IF w >= r THEN w - r ELSE w - r + size BY <1>3, SpaceLemma
  <2>2. read_space(w, r) \in 0..(size - 1) BY <1>3, SpaceLemma
  <2> QED BY <1>1, <2>1, <2>2
<1>5. i \in 1..k /\ i \in 1..size BY <1>1, <1>2, <1>4
<1>6. mask(r + i - 1) = Cell(r, i) BY <1>3, <1>5, CellLemma
<1>7. Readable = IF r <= w THEN r .. (w - 1) ELSE (r .. (n - 1)) \union (0 .. (w - 1))
  BY <1>1, <1>2 DEF Readable
<1>8. Cell(r, i) \in Readable
  <2>1. Cell(r, i) = IF r + i - 1 < n THEN r + i - 1 ELSE r + i - 1 - n BY <1>1 DEF Cell
  <2> QED BY <1>2, <1>4, <1>5, <1>7, <2>1
<1> QED BY <1>2, <1>6, <1>8

\* A write that begins has a byte to copy, and nothing is published yet.
LEMMA FifoStartWrite ==
  ASSUME FifoInv, NEW src \in Sources, write(src) \/ get_write_vector(src)
  PROVE  WriteSoFar' /\ ReadSoFar' /\ UNCHANGED <<Contents, delivered>>
<1>0. IInv BY DEF FifoInv
<1>1. UNCHANGED <<buf, write_ptr, read_ptr, rd, delivered>>
  BY DEF write, get_write_vector
<1>2. ReadSoFar' /\ UNCHANGED <<Contents, delivered>>
  BY <1>1 DEF FifoInv, ReadSoFar, Ahead, Contents
<1>3. Len(src) \in Nat /\ Len(src) >= 1
  <2>1. PICK n \in 1..MaxCount : src \in [1..n -> Data] BY DEF Sources
  <2>2. n \in Nat /\ n >= 1 BY MaxCountAssumption
  <2>3. Len(src) = n BY <2>1, <2>2, FunSeq
  <2> QED BY <2>2, <2>3
<1>4. write_ptr \in Cells /\ read_ptr \in Cells /\ write_ptr \in Nat /\ write_ptr < size
  BY <1>0, PtrTypes
<1>5. write_ptr + wr'.n1 > write_ptr /\ wr'.ptr = write_ptr
  <2>1. CASE write(src)
    <3>1. PICK f \in Nat : f = write_space(write_ptr, read_ptr) /\ f < size /\ f # 0
      <4>1. write_space(write_ptr, read_ptr) \in 0..(size - 1) BY <1>4, SpaceLemma
      <4> QED BY <2>1, <4>1, SizeLemma DEF write
    <3>2. PICK n \in Nat : n = AtMost(Len(src), f) /\ n >= 1 /\ n < size
      BY <1>3, <3>1, SizeLemma DEF AtMost
    <3>3. wr'.ptr = write_ptr /\ wr'.n1 = first_part(write_ptr, n)
      BY <2>1, <3>1, <3>2 DEF write
    <3>4. first_part(write_ptr, n) \in Nat /\ first_part(write_ptr, n) >= 1
      BY <1>4, <3>2, SizeLemma DEF first_part
    <3> QED BY <1>4, <3>3, <3>4
  <2>2. CASE get_write_vector(src)
    BY <1>3, <1>4, <2>2 DEF get_write_vector
  <2> QED BY <2>1, <2>2
<1> QED BY <1>1, <1>2, <1>5 DEF WriteSoFar

\* The byte that is copied in is not one of the published ones.
LEMMA FifoCopyIn ==
  ASSUME FifoInv, copy_in
  PROVE  WriteSoFar' /\ ReadSoFar' /\ UNCHANGED <<Contents, delivered>>
<1>0. IInv BY DEF FifoInv
<1>1. /\ wr.op = "write" /\ wr.n1 > 0
      /\ buf' = [buf EXCEPT ![wr.ptr] = Head(wr.bytes)]
      /\ wr' = [wr EXCEPT !.ptr = @ + 1, !.n1 = @ - 1, !.bytes = Tail(@)]
      /\ UNCHANGED <<write_ptr, read_ptr, rd, delivered>>
  BY DEF copy_in
<1>2. wr.ptr \in Nat /\ wr.n1 \in Nat /\ wr.n2 \in Nat /\ write_ptr \in Nat
  BY <1>0, WrTypes, PtrTypes, SizeLemma
<1>3. WriteSoFar'
  <2>1. wr'.ptr = wr.ptr + 1 /\ wr'.n1 = wr.n1 - 1
    BY <1>0, <1>1 DEF IInv, TypeOK, Calls
  <2>2. wr.ptr + wr.n1 > write_ptr BY <1>1 DEF FifoInv, WriteSoFar
  <2> QED BY <1>1, <1>2, <2>1, <2>2 DEF WriteSoFar
<1>4. wr.ptr \in Pending(wr) BY <1>1, <1>2 DEF Pending
<1>5. wr.ptr \in Cells /\ wr.ptr \notin Readable BY <1>0, <1>4, WriterPending
<1>6. Head(wr.bytes) \in Data
  <2>1. wr.bytes \in Seq(Data) BY <1>0, BytesTypes
  <2>2. Len(wr.bytes) = wr.n1 + wr.n2 BY <1>0, <1>1 DEF IInv, WriterInv
  <2>3. wr.bytes # <<>> BY <1>1, <1>2, <2>1, <2>2
  <2> QED BY <2>1, <2>3, HeadTailProperties
<1>7. \A i \in 1..read_space(write_ptr, read_ptr) : wr.ptr # mask(read_ptr + i - 1)
  BY <1>0, <1>5, PublishedReadable
<1>8. /\ buf \in [Cells -> Data] /\ write_ptr \in Cells /\ read_ptr \in Cells /\ Ahead \in Nat
      /\ rd.op # "none" => Ahead <= read_space(write_ptr, read_ptr)
  BY <1>0, FifoTypes
<1>9. UNCHANGED <<Contents, delivered>>
  <2>1. Bytes(buf', write_ptr, read_ptr) = Bytes(buf, write_ptr, read_ptr)
    <3>1. PICK b \in [Cells -> Data], w \in Cells, r \in Cells, c \in Cells, d \in Data :
            b = buf /\ w = write_ptr /\ r = read_ptr /\ c = wr.ptr /\ d = Head(wr.bytes)
      BY <1>5, <1>6, <1>8
    <3>2. \A i \in 1..read_space(w, r) : c # mask(r + i - 1) BY <1>7, <3>1
    <3>3. Bytes([b EXCEPT ![c] = d], w, r) = Bytes(b, w, r) BY <3>2, BytesUntouched, ZenonT(40)
    <3> QED BY <1>1, <3>1, <3>3
  <2> QED BY <1>1, <2>1 DEF Contents
<1>10. ReadSoFar'
  <2>1. SUFFICES ASSUME rd.op # "none", NEW i \in 1..Ahead
                 PROVE  buf'[mask(read_ptr + i - 1)] = buf[mask(read_ptr + i - 1)]
    BY <1>1 DEF FifoInv, ReadSoFar, Ahead
  <2>2. read_space(write_ptr, read_ptr) \in 0..(size - 1) BY <1>8, SpaceLemma
  <2>3. i \in 1..read_space(write_ptr, read_ptr) /\ i \in 1..size BY <1>8, <2>1, <2>2, SizeLemma
  <2>4. mask(read_ptr + i - 1) \in Cells BY <1>8, <2>3, CellLemma
  <2>5. wr.ptr # mask(read_ptr + i - 1) BY <1>7, <2>3
  <2> QED BY <1>1, <1>8, <2>4, <2>5
<1> QED BY <1>3, <1>9, <1>10

\* The store to write_ptr is one Put.
LEMMA FifoPublishWrite ==
  ASSUME FifoInv, publish_write
  PROVE  WriteSoFar' /\ ReadSoFar' /\ Fifo!Put
<1>0. IInv /\ IInv'
  BY StepPublishWrite DEF FifoInv
<1>1. /\ wr.op = "write" /\ wr.n1 = 0
      /\ write_ptr' = mask(wr.ptr)
      /\ UNCHANGED <<buf, read_ptr, rd, delivered>>
  BY DEF publish_write
<1>2. ReadSoFar' BY <1>1 DEF FifoInv, ReadSoFar, Ahead
<1>3. wr.ptr \in 0..size /\ wr.n2 \in 0..size /\ size \in Nat
  BY <1>0, WrTypes, SizeLemma
<1>4. /\ buf \in [Cells -> Data] /\ write_ptr \in Cells /\ read_ptr \in Cells
  BY <1>0, FifoTypes
<1>5. write_ptr' = IF wr.ptr = size THEN 0 ELSE wr.ptr
  <2>1. wr.ptr \in Nat /\ wr.ptr <= size BY <1>3
  <2> QED BY <1>1, <2>1, MaskLemma, SizeLemma
<1>6. write_ptr' \in Cells BY <1>0 DEF IInv, TypeOK
<1>7. write_ptr < wr.ptr
  BY <1>1, <1>3 DEF FifoInv, WriteSoFar
<1>8. wr.ptr - write_ptr <= write_space(write_ptr, read_ptr)
  <2>1. (wr.ptr + wr.n1 - write_ptr) + wr.n2 <= write_space(write_ptr, read_ptr)
    BY <1>0, <1>1 DEF IInv, WriterInv
  <2>2. write_space(write_ptr, read_ptr) \in 0..(size - 1) BY <1>4, SpaceLemma
  <2>3. write_ptr \in Nat BY <1>4, <1>3 DEF Cells
  <2> QED BY <1>1, <1>3, <2>1, <2>2, <2>3
<1>9. \E n \in 1..((size - 1) - Len(Contents)) : \E s \in [1..n -> Data] : Contents' = Contents \o s
  <2>1. \E n \in 1..((size - 1) - Len(Bytes(buf, write_ptr, read_ptr))) : \E s \in [1..n -> Data] :
          Bytes(buf, write_ptr', read_ptr) = Bytes(buf, write_ptr, read_ptr) \o s
    <3>1. PICK b \in [Cells -> Data], w \in Cells, r \in Cells, p \in 0..size, q \in Cells :
            b = buf /\ w = write_ptr /\ r = read_ptr /\ p = wr.ptr /\ q = write_ptr'
      BY <1>3, <1>4, <1>6
    <3>2. w < p /\ p - w <= write_space(w, r) /\ q = Turn(p)
      BY <1>5, <1>7, <1>8, <3>1 DEF Turn
    <3>3. Extends(Bytes(b, q, r), Bytes(b, w, r))
      <4>1. MayPut(b, w, r, p, q) BY <3>2 DEF MayPut
      <4> QED BY <4>1, BytesPut
    <3> QED BY <3>1, <3>3 DEF Extends
  <2> QED BY <1>1, <2>1 DEF Contents
<1>10. WriteSoFar'
  <2>1. CASE wr.n2 > 0
    <3>1. wr.ptr = size
      BY <1>0, <1>1, <1>3, <2>1 DEF IInv, WriterInv
    <3>2. write_ptr' = 0 /\ mask(wr.ptr) = 0 BY <1>1, <1>5, <3>1
    <3>3. wr' = [wr EXCEPT !.ptr = 0, !.n1 = wr.n2, !.n2 = 0]
      BY <2>1, <3>2 DEF publish_write
    <3>4. wr'.ptr = 0 /\ wr'.n1 = wr.n2 BY <1>0, <3>3 DEF IInv, TypeOK, Calls
    <3> QED BY <1>3, <2>1, <3>2, <3>4 DEF WriteSoFar
  <2>2. CASE ~(wr.n2 > 0)
    BY <2>2 DEF publish_write, NoCall, WriteSoFar
  <2> QED BY <2>1, <2>2
<1> QED BY <1>1, <1>2, <1>9, <1>10 DEF Fifo!Put

\* A read or a peek that begins has copied nothing and has a byte to copy.
LEMMA FifoStartRead ==
  ASSUME FifoInv, NEW cnt \in 1..MaxCount, read(cnt) \/ peek(cnt) \/ get_read_vector(cnt)
  PROVE  WriteSoFar' /\ ReadSoFar' /\ UNCHANGED <<Contents, delivered>>
<1>0. IInv BY DEF FifoInv
<1>1. read_ptr \in Cells /\ write_ptr \in Cells /\ read_ptr \in Nat /\ read_ptr < size
  BY <1>0, PtrTypes
<1>2. cnt \in Nat /\ cnt >= 1 BY MaxCountAssumption
<1>3. read_space(write_ptr, read_ptr) \in 0..(size - 1) BY <1>1, SpaceLemma
<1>4. ASSUME NEW op, NEW n, NEW n1 \in Nat, NEW n2, n1 >= 1, StartRead(op, n, n1, n2)
      PROVE  WriteSoFar' /\ ReadSoFar' /\ UNCHANGED <<Contents, delivered>>
  <2>1. /\ rd' = [op |-> op, ptr |-> read_ptr, n1 |-> n1, n2 |-> n2, bytes |-> <<>>]
        /\ UNCHANGED <<buf, write_ptr, read_ptr, wr, delivered>>
    BY <1>4 DEF StartRead
  <2>2. rd'.ptr = read_ptr /\ rd'.n1 = n1 /\ rd'.bytes = <<>> BY <2>1
  <2>3. Ahead' = 0 BY <1>1, <2>1, <2>2 DEF Ahead
  <2>4. ReadSoFar' BY <1>4, <2>2, <2>3 DEF ReadSoFar
  <2> QED BY <2>1, <2>4 DEF FifoInv, WriteSoFar, Contents
<1>5. ASSUME read(cnt) \/ peek(cnt)
      PROVE  WriteSoFar' /\ ReadSoFar' /\ UNCHANGED <<Contents, delivered>>
  <2> DEFINE n == AtMost(cnt, read_space(write_ptr, read_ptr))
  <2>1. PICK op \in {"read", "peek"} :
          StartRead(op, n, first_part(read_ptr, n), second_part(read_ptr, n))
    BY <1>5 DEF read, peek
  <2>2. n \in Nat /\ n # 0 BY <1>2, <1>3, <2>1, SizeLemma DEF AtMost, StartRead
  <2>3. first_part(read_ptr, n) \in Nat /\ first_part(read_ptr, n) >= 1
    <3> HIDE DEF n
    <3> QED BY <1>1, <2>2, SizeLemma DEF first_part
  <2> HIDE DEF n
  <2> QED BY <1>4, <2>1, <2>3
<1>6. ASSUME get_read_vector(cnt)
      PROVE  WriteSoFar' /\ ReadSoFar' /\ UNCHANGED <<Contents, delivered>>
  BY <1>2, <1>4, <1>6 DEF get_read_vector
<1> QED BY <1>5, <1>6

\* The byte copied out is the next one of the published bytes.
LEMMA FifoCopyOut ==
  ASSUME FifoInv, copy_out
  PROVE  WriteSoFar' /\ ReadSoFar' /\ UNCHANGED <<Contents, delivered>>
<1>0. IInv BY DEF FifoInv
<1>1. /\ rd.op # "none" /\ rd.n1 > 0
      /\ rd' = [rd EXCEPT !.ptr = @ + 1, !.n1 = @ - 1, !.bytes = Append(@, buf[rd.ptr])]
      /\ UNCHANGED <<buf, write_ptr, read_ptr, wr, delivered>>
  BY DEF copy_out
<1>2. WriteSoFar' /\ UNCHANGED <<Contents, delivered>>
  BY <1>1 DEF FifoInv, WriteSoFar, Contents
<1>3. /\ rd'.ptr = rd.ptr + 1 /\ rd'.n1 = rd.n1 - 1 /\ rd'.bytes = Append(rd.bytes, buf[rd.ptr])
  BY <1>0, <1>1 DEF IInv, TypeOK, Calls
<1>4. PICK z \in Nat, r \in Nat, p \in Nat, n \in Nat, m \in Nat :
        /\ z = size /\ r = read_ptr /\ r < z /\ p = rd.ptr /\ n = rd.n1 /\ m = rd.n2
  BY <1>0, RdTypes, PtrTypes, SizeLemma
<1>5. PICK a \in Nat : a = Ahead /\ a = IF r <= p THEN p - r ELSE p - r + z
  BY <1>0, <1>4, FifoTypes DEF Ahead
<1>6. /\ read_ptr \in Cells /\ write_ptr \in Cells /\ buf \in [Cells -> Data]
  BY <1>0, FifoTypes
<1>7. a + n + m <= z - 1 /\ p + n <= z
  <2>1. Ahead + rd.n1 + rd.n2 <= read_space(write_ptr, read_ptr) /\ rd.ptr + rd.n1 <= size
    BY <1>0, <1>1 DEF IInv, ReaderInv
  <2>2. read_space(write_ptr, read_ptr) \in 0..(size - 1) BY <1>6, SpaceLemma
  <2> QED BY <1>4, <1>5, <2>1, <2>2
<1>8. Ahead' = a + 1
  <2>1. Ahead' = IF r <= p + 1 THEN p + 1 - r ELSE p + 1 - r + z
    BY <1>1, <1>3, <1>4 DEF Ahead
  <2>2. n > 0 BY <1>1, <1>4
  <2> QED BY <1>4, <1>5, <1>7, <2>1, <2>2
<1>9. a + 1 \in 1..size /\ Cell(read_ptr, a + 1) = rd.ptr
  BY <1>1, <1>4, <1>5, <1>7 DEF Cell
<1>10. mask(read_ptr + (a + 1) - 1) = rd.ptr /\ rd.ptr \in Cells
  BY <1>6, <1>9, CellLemma
<1>11. /\ Len(rd.bytes) = a
       /\ \A i \in 1..a : rd.bytes[i] = buf[mask(read_ptr + i - 1)]
  BY <1>1, <1>5 DEF FifoInv, ReadSoFar
<1>12. PICK s \in Seq(Data), d \in Data : s = rd.bytes /\ d = buf[rd.ptr]
  BY <1>0, <1>6, <1>10, BytesTypes
<1>13. /\ Len(Append(s, d)) = a + 1
       /\ \A i \in 1..a : Append(s, d)[i] = s[i]
       /\ Append(s, d)[a + 1] = d
  BY <1>11, <1>12
<1>14. \A i \in 1..(a + 1) : rd'.bytes[i] = buf[mask(read_ptr + i - 1)]
  <2>1. SUFFICES ASSUME NEW i \in 1..(a + 1) PROVE rd'.bytes[i] = buf[mask(read_ptr + i - 1)]
    OBVIOUS
  <2>2. CASE i = a + 1 BY <1>3, <1>10, <1>12, <1>13, <2>2
  <2>3. CASE i # a + 1
    <3>1. i \in 1..a BY <2>3
    <3> QED BY <1>3, <1>11, <1>12, <1>13, <3>1
  <2> QED BY <2>2, <2>3
<1>15. Len(rd'.bytes) = a + 1 BY <1>3, <1>12, <1>13
<1>16. Ahead' + rd'.n1 > 0 BY <1>1, <1>3, <1>4, <1>8
<1>17. ReadSoFar'
  BY <1>1, <1>8, <1>14, <1>15, <1>16 DEF ReadSoFar
<1> QED BY <1>2, <1>17

\* What a call that has copied its segment holds is a prefix of the published bytes.
LEMMA CopiedIsPrefix ==
  ASSUME FifoInv, rd.op # "none", rd.n1 = 0
  PROVE  /\ Ahead \in 1..Len(Contents)
         /\ rd.bytes = SubSeq(Contents, 1, Ahead)
<1>0. IInv BY DEF FifoInv
<1>1. /\ buf \in [Cells -> Data] /\ write_ptr \in Cells /\ read_ptr \in Cells /\ Ahead \in Nat
      /\ Ahead <= read_space(write_ptr, read_ptr)
  BY <1>0, FifoTypes
<1>2. /\ Len(rd.bytes) = Ahead /\ Ahead + rd.n1 > 0
      /\ \A i \in 1..Ahead : rd.bytes[i] = buf[mask(read_ptr + i - 1)]
  BY DEF FifoInv, ReadSoFar
<1>3. PICK b \in [Cells -> Data], w \in Cells, r \in Cells, s \in Seq(Data) :
        b = buf /\ w = write_ptr /\ r = read_ptr /\ s = rd.bytes
  BY <1>0, <1>1, BytesTypes
<1>4. s = SubSeq(Bytes(b, w, r), 1, Len(s))
  <2>1. Len(s) <= read_space(w, r) /\ \A i \in 1..Len(s) : s[i] = b[mask(r + i - 1)]
    BY <1>1, <1>2, <1>3
  <2> QED BY <2>1, FrontIsPrefix
<1>5. Len(Bytes(b, w, r)) = read_space(w, r) BY BytesAre
<1>6. read_space(w, r) \in 0..(size - 1) BY SpaceLemma
<1>7. Ahead \in 1..Len(Contents)
  BY <1>1, <1>2, <1>3, <1>5, <1>6, SizeLemma DEF Contents
<1> QED BY <1>2, <1>3, <1>4, <1>7 DEF Contents

\* The store to read_ptr is one Get of what was copied.
LEMMA FifoPublishRead ==
  ASSUME FifoInv, publish_read
  PROVE  WriteSoFar' /\ ReadSoFar' /\ Fifo!Get
<1>0. IInv /\ IInv' BY StepPublishRead DEF FifoInv
<1>1. /\ rd.op = "read" /\ rd.n1 = 0
      /\ read_ptr' = mask(rd.ptr)
      /\ delivered' = rd.bytes
      /\ UNCHANGED <<buf, write_ptr, wr>>
  BY DEF publish_read
<1>2. WriteSoFar' BY <1>1 DEF FifoInv, WriteSoFar
<1>3. rd.ptr \in 0..size /\ rd.n2 \in 0..size /\ size \in Nat
  BY <1>0, RdTypes, SizeLemma
<1>4. /\ buf \in [Cells -> Data] /\ write_ptr \in Cells /\ read_ptr \in Cells
      /\ Ahead <= read_space(write_ptr, read_ptr)
  BY <1>0, <1>1, FifoTypes
<1>5. read_ptr <= rd.ptr /\ Ahead = rd.ptr - read_ptr
  BY <1>0, <1>1 DEF IInv, ReaderInv, Ahead
<1>6. read_ptr' = IF rd.ptr = size THEN 0 ELSE rd.ptr
  <2>1. rd.ptr \in Nat /\ rd.ptr <= size BY <1>3
  <2> QED BY <1>1, <2>1, MaskLemma, SizeLemma
<1>7. read_ptr' \in Cells BY <1>0 DEF IInv, TypeOK
<1>8. Ahead \in 1..Len(Contents) /\ rd.bytes = SubSeq(Contents, 1, Ahead)
  BY <1>1, CopiedIsPrefix
<1>9. Contents' = SubSeq(Contents, Ahead + 1, Len(Contents))
  <2>1. PICK b \in [Cells -> Data], w \in Cells, r \in Cells, p \in 0..size, q \in Cells :
          b = buf /\ w = write_ptr /\ r = read_ptr /\ p = rd.ptr /\ q = read_ptr'
    BY <1>3, <1>4, <1>7
  <2>2. r <= p /\ p - r <= read_space(w, r) /\ q = Turn(p)
    BY <1>4, <1>5, <1>6, <2>1 DEF Turn
  <2>3. Bytes(b, w, q) = SubSeq(Bytes(b, w, r), (p - r) + 1, Len(Bytes(b, w, r)))
    <3>1. MayGet(b, w, r, p, q) BY <2>2 DEF MayGet
    <3> QED BY <3>1, BytesGet
  <2> QED BY <1>1, <1>5, <2>1, <2>3 DEF Contents
<1>10. Fifo!Get BY <1>1, <1>8, <1>9 DEF Fifo!Get
<1>11. ReadSoFar'
  <2>1. CASE rd.n2 > 0
    <3>1. rd.ptr = size BY <1>0, <1>1, <1>3, <2>1 DEF IInv, ReaderInv
    <3>2. read_ptr' = 0 /\ mask(rd.ptr) = 0 BY <1>1, <1>6, <3>1
    <3>3. rd' = [rd EXCEPT !.ptr = 0, !.n1 = rd.n2, !.n2 = 0, !.bytes = <<>>]
      BY <2>1, <3>2 DEF publish_read
    <3>4. rd'.ptr = 0 /\ rd'.n1 = rd.n2 /\ rd'.bytes = <<>>
      BY <1>0, <3>3 DEF IInv, TypeOK, Calls
    <3>5. Ahead' = 0 BY <3>2, <3>4 DEF Ahead
    <3> QED BY <1>3, <2>1, <3>4, <3>5 DEF ReadSoFar
  <2>2. CASE ~(rd.n2 > 0)
    BY <2>2 DEF publish_read, NoCall, ReadSoFar
  <2> QED BY <2>1, <2>2
<1> QED BY <1>2, <1>10, <1>11

\* A peek hands over a prefix and removes nothing.
LEMMA FifoEndPeek ==
  ASSUME FifoInv, end_peek
  PROVE  /\ WriteSoFar' /\ ReadSoFar'
         /\ Fifo!Look \/ UNCHANGED <<Contents, delivered>>
<1>0. IInv BY DEF FifoInv
<1>1. /\ rd.op = "peek" /\ rd.n1 = 0
      /\ UNCHANGED <<buf, write_ptr, read_ptr, wr>>
  BY DEF end_peek
<1>2. WriteSoFar' /\ UNCHANGED Contents
  BY <1>1 DEF FifoInv, WriteSoFar, Contents
<1>3. CASE rd.n2 > 0
  <2>1. PICK z \in Nat, r \in Nat, n \in Nat : z = size /\ r = read_ptr /\ r < z /\ n = rd.n2
    BY <1>0, RdTypes, PtrTypes, SizeLemma
  <2>2. rd.ptr = z BY <1>0, <1>1, <1>3, <2>1, RdTypes DEF IInv, ReaderInv
  <2>3. Ahead = z - r BY <2>1, <2>2 DEF Ahead
  <2>4. Ahead + rd.n1 + rd.n2 <= read_space(write_ptr, read_ptr)
    BY <1>0, <1>1 DEF IInv, ReaderInv
  <2>5. read_space(write_ptr, read_ptr) \in 0..(size - 1)
    BY <1>0, FifoTypes, SpaceLemma
  <2>6. r > 0 BY <1>1, <1>3, <2>1, <2>3, <2>4, <2>5
  <2>7. mask(rd.ptr) = 0 BY <2>1, <2>2, MaskLemma, SizeLemma
  <2>8. rd' = [rd EXCEPT !.ptr = 0, !.n1 = rd.n2, !.n2 = 0] /\ UNCHANGED delivered
    BY <1>3, <2>7 DEF end_peek
  <2>9. rd'.ptr = 0 /\ rd'.n1 = rd.n2 /\ rd'.bytes = rd.bytes
    BY <1>0, <2>8 DEF IInv, TypeOK, Calls
  <2>10. Ahead' = Ahead BY <1>1, <2>1, <2>3, <2>6, <2>9 DEF Ahead
  <2>11. ReadSoFar'
    <3>1. /\ Len(rd.bytes) = Ahead
          /\ \A i \in 1..Ahead : rd.bytes[i] = buf[mask(read_ptr + i - 1)]
      BY <1>1 DEF FifoInv, ReadSoFar
    <3>2. Ahead' + rd'.n1 > 0 BY <1>3, <2>1, <2>3, <2>9, <2>10
    <3> QED BY <1>1, <2>9, <2>10, <3>1, <3>2 DEF ReadSoFar
  <2> QED BY <1>2, <2>8, <2>11
<1>4. CASE ~(rd.n2 > 0)
  <2>1. rd' = NoCall /\ delivered' = rd.bytes BY <1>4 DEF end_peek
  <2>2. ReadSoFar' BY <2>1 DEF ReadSoFar, NoCall
  <2>3. Ahead \in 1..Len(Contents) /\ rd.bytes = SubSeq(Contents, 1, Ahead)
    BY <1>1, CopiedIsPrefix
  <2>4. Fifo!Look BY <1>2, <2>1, <2>3 DEF Fifo!Look
  <2> QED BY <1>2, <2>2, <2>4
<1> QED BY <1>3, <1>4

\* Between equal pointers there is nothing.
LEMMA EmptyBytes ==
  ASSUME NEW b
  PROVE  Bytes(b, 0, 0) = <<>>
<1>1. 0 \in Cells BY SizeLemma DEF Cells
<1>2. read_space(0, 0) = 0
  <2>1. read_space(0, 0) = IF 0 >= 0 THEN 0 - 0 ELSE 0 - 0 + size BY <1>1, SpaceLemma
  <2> QED BY <2>1
<1> QED BY <1>2 DEF Bytes

\* Every step keeps the invariant and is a step of the FIFO or leaves it alone.
LEMMA FifoStep ==
  ASSUME FifoInv, [Next]_vars
  PROVE  FifoInv' /\ [Fifo!Next]_(Fifo!vars)
<1>0. IInv' BY Inductive DEF FifoInv
<1>1. SUFFICES /\ WriteSoFar' /\ ReadSoFar'
               /\ Fifo!Next \/ UNCHANGED <<Contents, delivered>>
  BY <1>0 DEF FifoInv, Fifo!vars
<1>2. CASE Writer
  BY <1>2, FifoStartWrite, FifoCopyIn, FifoPublishWrite DEF Writer, Fifo!Next
<1>3. CASE Reader
  BY <1>3, FifoStartRead, FifoCopyOut, FifoPublishRead, FifoEndPeek DEF Reader, Fifo!Next
<1>4. CASE reset
  <2>1. UNCHANGED <<buf, wr, rd, delivered>> /\ write_ptr' = 0 /\ read_ptr' = 0
        /\ wr.op = "none" /\ rd.op = "none"
    BY <1>4 DEF reset
  <2>2. Contents' = <<>> BY <2>1, EmptyBytes DEF Contents
  <2>3. Fifo!Clear BY <2>1, <2>2 DEF Fifo!Clear
  <2>4. WriteSoFar' /\ ReadSoFar' BY <2>1 DEF WriteSoFar, ReadSoFar
  <2> QED BY <2>3, <2>4 DEF Fifo!Next
<1>5. CASE UNCHANGED vars
  BY <1>5 DEF vars, FifoInv, WriteSoFar, ReadSoFar, Ahead, Contents
<1> QED BY <1>2, <1>3, <1>4, <1>5 DEF Next

LEMMA FifoInit == Init => FifoInv /\ Fifo!Init
<1> SUFFICES ASSUME Init PROVE FifoInv /\ Fifo!Init OBVIOUS
<1>1. FifoInv BY InitIInv DEF Init, FifoInv, WriteSoFar, ReadSoFar, NoCall
<1>2. Contents = <<>> BY EmptyBytes DEF Init, Contents
<1> QED BY <1>1, <1>2 DEF Init, Fifo!Init

\* What a reader has copied is the front of what is published, at every point of
\* every call.
THEOREM AlwaysFifoInv == Spec => []FifoInv
<1>1. FifoInv /\ [Next]_vars => FifoInv' BY FifoStep
<1> QED BY <1>1, FifoInit, PTL DEF Spec

\* The ring buffer implements the bounded FIFO, for every size and every
\* interleaving of the two threads.
THEOREM ImplementsFifo == Spec => IsFifo
<1>1. FifoInv /\ [Next]_vars => [Fifo!Next]_(Fifo!vars) BY FifoStep
<1> QED BY <1>1, FifoInit, AlwaysFifoInv, PTL DEF Spec, IsFifo, Fifo!Spec
=============================================================================
