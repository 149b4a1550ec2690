--------------------------- MODULE TransportProofs ---------------------------
(***************************************************************************)
(* Proofs about what carries the samples: the counts of the time-stamped   *)
(* buffer, the packets of a transmit stream, and the blocks handed to      *)
(* another process.                                                        *)
(***************************************************************************)
EXTENDS TimestampedBuffer, TransmitPackets, IpcRingBuffer, SequenceTheorems, TLAPS

(***************************************************************************)
(* The time-stamped buffer: what is counted is there.                      *)
(***************************************************************************)
LEMMA BufferSizes == /\ m_update_period \in Nat /\ m_update_period >= 1
                     /\ m_buffer_size \in Nat /\ m_buffer_size > m_update_period
                     /\ \A c \in Capacities : c \in Nat /\ c >= m_buffer_size - 1
BY TimestampedBufferAssumption

LEMMA CountsInit == BufInit => CountsIInv
<1> SUFFICES ASSUME BufInit PROVE CountsIInv
  OBVIOUS
<1>1. spilled = 0 /\ cut = FALSE
  BY DEF BufInit
<1>2. spilled \in Nat /\ cut \in BOOLEAN
  BY <1>1
<1>3. phase = "dry" /\ IsoIdle
  BY DEF BufInit, IsoIdle
<1>4. CountsTypeOK
  BY <1>2, BufferSizes DEF BufInit, CountsTypeOK
<1> QED BY <1>1, <1>3, <1>4 DEF CountsIInv

\* What does not fit leaves no more in the ring buffer than it holds.
LEMMA FittingFits ==
  ASSUME NEW r \in Nat
  PROVE  LET n == (r \div ProcessBlock) * ProcessBlock IN n \in Nat /\ n <= r
<1> USE TimestampedBufferAssumption
<1> DEFINE q == r \div ProcessBlock
<1>1. q \in Nat /\ r = q * ProcessBlock + (r % ProcessBlock) /\ (r % ProcessBlock) \in Nat
  BY SMT
<1>2. q * ProcessBlock \in Nat
  BY <1>1, SMT
<1> HIDE DEF q
<1>3. q * ProcessBlock <= r
  BY <1>1, <1>2, SMT
<1> QED BY <1>2, <1>3 DEF q

\* A block that does not fit.
LEMMA CountsOverflow ==
  ASSUME CountsIInv, writeFrames_overflow
  PROVE  CountsIInv'
<1> USE BufferSizes
<1>1. /\ CountsTypeOK /\ phase \in {"running", "disable"} /\ writing = 0
      /\ capacity \in Nat /\ Room \in Nat
  BY DEF CountsIInv, CountsTypeOK, writeFrames_overflow, CanWrite, m_transparent, Room
<1>2. PICK n \in Fitting : fill' = fill + n /\ spilled' = spilled + n
  BY DEF writeFrames_overflow
<1>3. n \in Nat /\ n <= Room
  <2>1. CASE n = Room
    BY <1>1, <2>1
  <2>2. CASE n = (Room \div ProcessBlock) * ProcessBlock
    BY <1>1, <2>2, FittingFits
  <2> QED BY <1>2, <2>1, <2>2 DEF Fitting
<1>4. /\ UNCHANGED <<m_type, m_framecounter, capacity, writing, reading>> /\ cut' = TRUE
      /\ phase' = IF m_type = "Receive" THEN "disable" ELSE phase
  BY DEF writeFrames_overflow
<1>5. CountsTypeOK'
  BY <1>1, <1>2, <1>3, <1>4 DEF CountsTypeOK
<1> QED BY <1>1, <1>2, <1>3, <1>4, <1>5 DEF CountsIInv, CountsTypeOK, IsoIdle, ClientIdle, Room

\* The transfers, and the counting of them.
LEMMA CountsTransfer ==
  ASSUME CountsIInv, writeFrames \/ incrementFrameCounter \/ readFrames \/ decrementFrameCounter
  PROVE  CountsIInv'
<1> USE BufferSizes
<1>1. CASE writeFrames
  BY <1>1 DEF writeFrames, CountsIInv, CountsTypeOK, IsoIdle, ClientIdle, m_transparent, CanWrite, Room,
              getBufferSpace, overflow
<1>2. CASE incrementFrameCounter
  BY <1>2 DEF incrementFrameCounter, CountsIInv, CountsTypeOK, IsoIdle, ClientIdle, overflow
<1>3. CASE readFrames
  <2>1. PICK n \in 1..m_update_period : m_framecounter >= n /\ fill' = fill - n /\ reading' = n
    BY <1>3 DEF readFrames
  <2>2. /\ phase \in {"running", "disable"} /\ (m_type = "Transmit" => phase = "running")
        /\ reading = 0
        /\ UNCHANGED <<m_type, phase, m_framecounter, capacity, writing, spilled, cut>>
    BY <1>3 DEF readFrames, m_transparent, CountsIInv, CountsTypeOK, overflow
  <2> QED BY <2>1, <2>2 DEF CountsIInv, CountsTypeOK, IsoIdle, ClientIdle
<1>4. CASE decrementFrameCounter
  BY <1>4 DEF decrementFrameCounter, CountsIInv, CountsTypeOK, IsoIdle, ClientIdle, overflow
<1> QED BY <1>1, <1>2, <1>3, <1>4

\* The stream processor and its manager.
LEMMA CountsStream ==
  ASSUME CountsIInv,
         doWaitForStreamDisable \/ clearBuffer \/ doWaitForStreamEnable \/ doRunning
  PROVE  CountsIInv'
<1>1. CASE doWaitForStreamDisable
  BY <1>1 DEF doWaitForStreamDisable, CountsIInv, CountsTypeOK, IsoIdle, ClientIdle, overflow
<1>2. CASE clearBuffer
  <2>1. spilled' = 0 /\ cut' = FALSE /\ phase' = "dry"
    BY <1>2 DEF clearBuffer
  <2>2. spilled' \in Nat /\ cut' \in BOOLEAN
    BY <2>1
  <2>3. CountsTypeOK' /\ IsoIdle'
    BY <1>2, <2>2 DEF clearBuffer, CountsIInv, CountsTypeOK, IsoIdle
  <2> QED BY <2>1, <2>3 DEF CountsIInv
<1>3. CASE doWaitForStreamEnable
  <2>1. spilled' = 0 /\ cut' = FALSE /\ phase' = "enable"
    BY <1>3 DEF doWaitForStreamEnable
  <2>2. spilled' \in Nat /\ cut' \in BOOLEAN
    BY <2>1
  <2>3. /\ UNCHANGED <<m_type, capacity, writing, reading>> /\ IsoIdle /\ ClientIdle
        /\ m_framecounter' = fill' /\ fill' \in {0, m_buffer_size - 1}
    BY <1>3 DEF doWaitForStreamEnable, Prefill, CountsIInv
  <2>4. CountsTypeOK'
    BY <2>1, <2>2, <2>3, BufferSizes DEF CountsIInv, CountsTypeOK
  <2>5. writing = 0 /\ reading = 0
    BY <2>3 DEF IsoIdle, ClientIdle
  <2>6. capacity \in Nat /\ fill' \in Nat /\ fill' <= capacity /\ fill' <= m_buffer_size
    BY <2>3, BufferSizes DEF CountsIInv, CountsTypeOK
  <2>7. /\ fill' + reading' = m_framecounter' + writing' + spilled'
        /\ 0 <= fill' /\ fill' <= capacity' /\ m_framecounter' >= reading'
        /\ m_framecounter' + writing' <= m_buffer_size
    <3>1. /\ spilled' = 0 /\ writing' = 0 /\ reading' = 0
          /\ capacity' = capacity /\ m_framecounter' = fill'
      BY <2>1, <2>3, <2>5, Zenon
    <3> QED BY <3>1, <2>6
  <2>8. IsoIdle' /\ ClientIdle'
    BY <2>3 DEF IsoIdle, ClientIdle
  <2> QED BY <2>1, <2>4, <2>7, <2>8, Zenon DEF CountsIInv
<1>4. CASE doRunning
  BY <1>4 DEF doRunning, CountsIInv, CountsTypeOK, IsoIdle, ClientIdle, overflow
<1> QED BY <1>1, <1>2, <1>3, <1>4

\* What sets times alone leaves the counts as they are.
LEMMA CountsTimes ==
  ASSUME CountsIInv,
         \/ writeFrames_transparent \/ setBufferTailTimestamp \/ UNCHANGED bufVars
         \/ \E at \in Begin : doDryRunning(at) \/ setBufferHeadTimestamp(at)
  PROVE  CountsIInv'
<1>1. UNCHANGED <<m_type, phase, m_framecounter, capacity, fill, writing, reading, spilled, cut>>
  BY DEF writeFrames_transparent, setBufferTailTimestamp, doDryRunning, setBufferHeadTimestamp, bufVars,
         overflow
<1> QED BY <1>1 DEF CountsIInv, CountsTypeOK, IsoIdle, ClientIdle

LEMMA CountsStep == CountsIInv /\ [BufNext]_bufVars => CountsIInv'
BY CountsTransfer, CountsOverflow, CountsStream, CountsTimes DEF BufNext

\* In a running stream the ring buffer and the counter differ by what is under way and by
\* what was written of blocks that did not fit, for every size of the buffer, of the ring
\* that is created for it, and of the blocks.
THEOREM AlwaysCountsIInv == BufSpec => []CountsIInv
BY CountsInit, CountsStep, PTL DEF BufSpec

\* The frames that a reader counts are in the ring buffer, whichever transfers were cut
\* by a clear and whichever blocks did not fit; the space that a writer counts is free
\* until a block did not fit, but for the one frame of a ring of just a power of two.
THEOREM AlwaysCountedIsThere == BufSpec => []CountedIsThere
<1>1. CountsIInv => CountedIsThere
  BY BufferSizes DEF CountsIInv, CountsTypeOK, CountedIsThere, getBufferSpace, m_transparent, Room
<1> QED BY <1>1, AlwaysCountsIInv, PTL

(***************************************************************************)
(* Remainders.                                                             *)
(***************************************************************************)
LEMMA Quotient ==
  ASSUME NEW n \in Nat \ {0}, NEW x \in Int
  PROVE  /\ x % n \in 0..(n - 1) /\ x \div n \in Int
         /\ x = n * (x \div n) + (x % n)
OBVIOUS

LEMMA SmallMultiple ==
  ASSUME NEW n \in Nat \ {0}, NEW k \in Int, -n < n * k, n * k < n
  PROVE  k = 0
<1>1. CASE k <= -1
  <2>1. n * k <= -n BY <1>1
  <2> QED BY <2>1
<1>2. CASE k >= 1
  <2>1. n * k >= n BY <1>2
  <2> QED BY <2>1
<1> QED BY <1>1, <1>2

\* Whole turns do not change a remainder.
LEMMA RemainderShift ==
  ASSUME NEW n \in Nat \ {0}, NEW x \in Int, NEW k \in Int
  PROVE  (x + n * k) % n = x % n
<1> DEFINE y == x + n * k
           p == x \div n
           q == y \div n
           r == x % n
           s == y % n
<1>0. n * k \in Int /\ y \in Int OBVIOUS
<1>1. p \in Int /\ r \in 0..(n - 1) /\ x = n * p + r BY Quotient
<1>2. q \in Int /\ s \in 0..(n - 1) /\ y = n * q + s
  <2> HIDE DEF y
  <2> QED BY <1>0, Quotient
<1>3. y = x + n * k OBVIOUS
<1> HIDE DEF y, p, q, r, s
<1>4. n * (q - p - k) = r - s
  <2>1. n * (q - p - k) = n * q - n * p - n * k BY <1>1, <1>2
  <2>2. n * q \in Int /\ n * p \in Int BY <1>1, <1>2
  <2> QED BY <1>0, <1>1, <1>2, <1>3, <2>1, <2>2
<1>5. q - p - k = 0
  <2>1. q - p - k \in Int BY <1>1, <1>2
  <2>2. -n < n * (q - p - k) /\ n * (q - p - k) < n BY <1>1, <1>2, <1>4
  <2> QED BY <2>1, <2>2, SmallMultiple
<1>6. r = s BY <1>1, <1>2, <1>4, <1>5
<1> QED BY <1>3, <1>6 DEF r, s

LEMMA TxConstants ==
  /\ CYCLES_PER_SECOND \in Nat \ {0} /\ CYCLES_PER_SECOND >= 24 /\ CYCLES_PER_SECOND % 2 = 0
  /\ TICKS_PER_CYCLE = 6 /\ SECONDS \in Nat \ {0}
  /\ TxPrestart \in Nat /\ 2 <= TxPrestart /\ 2 * (TxPrestart + 1) < CYCLES_PER_SECOND
  /\ DBC \in Nat \ {0} /\ TxKinds \subseteq {"amdtp", "motu", "rme", "digidesign"}
  /\ m_period \in Nat /\ TxBuffer \in Nat /\ TxStart \in Nat /\ TxHorizon \in Nat
BY CycleTimerAssumption, TransmitPacketsAssumption

\* Less than half a second apart.
Close(a, b) == /\ a \in Int /\ b \in Int
               /\ \E h \in Int : CYCLES_PER_SECOND = 2 * h /\ -h < a - b /\ a - b < h

\* The difference of two cycles is theirs, though each is taken modulo the second, if they
\* are less than half a second apart.
LEMMA CyclesApart ==
  ASSUME NEW a, NEW b, Close(a, b)
  PROVE  diffCycles(a % CYCLES_PER_SECOND, b % CYCLES_PER_SECOND) = a - b
<1> DEFINE p == a \div CYCLES_PER_SECOND
           q == b \div CYCLES_PER_SECOND
           r == a % CYCLES_PER_SECOND
           s == b % CYCLES_PER_SECOND
<1>c. a \in Int /\ b \in Int BY DEF Close
<1>0. PICK n \in Nat \ {0} : n = CYCLES_PER_SECOND BY TxConstants
<1>h. PICK h \in Int : n = 2 * h /\ -h < a - b /\ a - b < h BY <1>0 DEF Close
<1>1. p \in Int /\ r \in 0..(n - 1) /\ a = n * p + r BY <1>c, <1>0, Quotient
<1>2. q \in Int /\ s \in 0..(n - 1) /\ b = n * q + s BY <1>c, <1>0, Quotient
<1>3. diffCycles(r, s) = IF r - s > n \div 2 THEN r - s - n
                         ELSE IF r - s < -(n \div 2) THEN r - s + n ELSE r - s
  BY <1>0 DEF diffCycles, unwrapDiff
<1> HIDE DEF p, q, r, s
<1>4. PICK k \in Int : k = p - q BY <1>1, <1>2
<1>5. n * k \in Int /\ r - s = (a - b) - n * k
  <2>1. n * k = n * p - n * q BY <1>1, <1>2, <1>4
  <2>2. n * p \in Int /\ n * q \in Int BY <1>1, <1>2
  <2> QED BY <1>c, <1>1, <1>2, <2>1, <2>2
<1>6. n \div 2 = h /\ n = 2 * h /\ h \in Int BY <1>0, <1>h
<1>7. k = 0 \/ k = 1 \/ k = -1
  <2>1. CASE k >= 2
    <3>1. n * k >= 2 * n BY <2>1
    <3> QED BY <1>1, <1>2, <1>5, <1>6, <1>c, <1>h, <3>1
  <2>2. CASE k <= -2
    <3>1. n * k <= -(2 * n) BY <2>2
    <3> QED BY <1>1, <1>2, <1>5, <1>6, <1>c, <1>h, <3>1
  <2> QED BY <2>1, <2>2
<1>8. diffCycles(r, s) = a - b
  <2>1. CASE k = 0
    <3>1. n * k = 0 BY <2>1
    <3> QED BY <1>1, <1>2, <1>3, <1>5, <1>6, <1>c, <1>h, <3>1
  <2>2. CASE k = 1
    <3>1. n * k = n BY <2>2
    <3> QED BY <1>1, <1>2, <1>3, <1>5, <1>6, <1>c, <1>h, <3>1
  <2>3. CASE k = -1
    <3>1. n * k = -n BY <2>3
    <3> QED BY <1>1, <1>2, <1>3, <1>5, <1>6, <1>c, <1>h, <3>1
  <2> QED BY <1>7, <2>1, <2>2, <2>3
<1> QED BY <1>8 DEF r, s

\* The cycle of a time is not changed by turns of the cycle timer.
LEMMA CycleOfTurns ==
  ASSUME NEW x \in Int, NEW j \in Int
  PROVE  TICKS_TO_CYCLES(x + WrapTicks * j) = Cycle(x) % CYCLES_PER_SECOND
<1>1. PICK n \in Nat \ {0}, m \in Nat : n = CYCLES_PER_SECOND /\ m = SECONDS BY TxConstants
<1>2. PICK k \in Int : k = m * j OBVIOUS
<1>3. PICK t \in Int : t = n * k OBVIOUS
<1>4. WrapTicks * j = 6 * t
  <2>1. WrapTicks = m * (n * 6) BY <1>1, TxConstants DEF WrapTicks, TICKS_PER_SECOND
  <2>2. WrapTicks * j = 6 * (n * (m * j)) BY <2>1
  <2> QED BY <1>2, <1>3, <2>2
<1>5. (x + 6 * t) \div 6 = (x \div 6) + t OBVIOUS
<1>6. TICKS_TO_CYCLES(x + WrapTicks * j) = ((x \div 6) + t) % n
  BY <1>1, <1>4, <1>5, TxConstants DEF TICKS_TO_CYCLES
<1>7. x \div 6 \in Int /\ Cycle(x) = x \div 6 BY TxConstants DEF Cycle
<1>8. ((x \div 6) + n * k) % n = (x \div 6) % n BY <1>7, RemainderShift
<1> QED BY <1>1, <1>3, <1>6, <1>7, <1>8

(***************************************************************************)
(* The packets of a transmit stream.                                       *)
(***************************************************************************)
LEMMA Tables ==
  ASSUME TxTypeOK
  PROVE  \/ kind = "amdtp" /\ TransferDelay[kind] = 17 /\ MinBefore[kind] = 1 /\ MaxEarly[kind] = 1 /\ Nevents = 8
         \/ kind = "motu" /\ TransferDelay[kind] = 0 /\ MinBefore[kind] = 0 /\ MaxEarly[kind] = 2 /\ Nevents = 8
         \/ kind = "rme" /\ TransferDelay[kind] = 18 /\ MinBefore[kind] = 1 /\ MaxEarly[kind] = 5 /\ Nevents = 7
         \/ kind = "digidesign" /\ TransferDelay[kind] = 0 /\ MinBefore[kind] = 0 /\ MaxEarly[kind] = 2 /\ Nevents = 0
<1>1. kind \in {"amdtp", "motu", "rme", "digidesign"} BY TxConstants DEF TxTypeOK
<1> QED BY <1>1 DEF TransferDelay, MinBefore, MaxEarly, Nevents, FramesPerPacket

LEMMA TableTypes ==
  ASSUME TxTypeOK
  PROVE  /\ TransferDelay[kind] \in 0..18 /\ MinBefore[kind] \in 0..1 /\ MaxEarly[kind] \in 0..5
         /\ Nevents \in 0..8
BY Tables

\* The wrapped time of the head is its time but for whole turns.
LEMMA WrappedTime ==
  ASSUME NEW x \in Int
  PROVE  /\ WrapTicks \in Nat \ {0}
         /\ \E j \in Int : x % WrapTicks = x + WrapTicks * j
         /\ x % WrapTicks \in Nat
<1>1. WrapTicks \in Nat \ {0}
  <2>1. PICK n \in Nat \ {0}, m \in Nat \ {0} : n = CYCLES_PER_SECOND /\ m = SECONDS BY TxConstants
  <2>2. WrapTicks = m * (n * 6) BY <2>1, TxConstants DEF WrapTicks, TICKS_PER_SECOND
  <2>3. PICK c \in Nat : c = n * 6 /\ c >= 1 OBVIOUS
  <2>4. m * c \in Nat /\ m * c >= 1 BY <2>3
  <2> QED BY <2>2, <2>3, <2>4
<1>2. PICK w \in Nat \ {0} : w = WrapTicks BY <1>1
<1>3. x % w \in 0..(w - 1) /\ x \div w \in Int /\ x = w * (x \div w) + (x % w) BY Quotient
<1>4. PICK q \in Int : q = x \div w BY <1>3
<1>5. w * (-q) = -(w * q) /\ w * q \in Int BY <1>4
<1>6. x % w = x + w * (-q) BY <1>3, <1>4, <1>5
<1>7. -q \in Int BY <1>4
<1>8. \E j \in Int : x % w = x + w * j
  <2> WITNESS -q \in Int
  <2> QED BY <1>6
<1> QED BY <1>1, <1>2, <1>3, <1>8

\* The cycles that generatePacketHeader computes from the wrapped time of the head of a
\* running stream are those between the true times.
LEMMA CyclesUntil ==
  ASSUME TxIInv, m_state = "Running"
  PROVE  /\ cycles_until_presentation(head % WrapTicks) = Cycle(head) - now
         /\ cycles_until_transmit(head % WrapTicks) = Cycle(head - TransferDelay[kind]) - now
<1>1. head \in Nat /\ now \in Nat /\ TransferDelay[kind] \in 0..18
  BY TableTypes DEF TxIInv, TxTypeOK
<1>2. PICK h \in Int : CYCLES_PER_SECOND = 2 * h /\ h >= 12 /\ TxPrestart + 1 < h
  BY TxConstants
<1>3. Cycle(head) = head \div 6 /\ Cycle(head - TransferDelay[kind]) = (head - TransferDelay[kind]) \div 6
  BY TxConstants DEF Cycle
<1>4. /\ Cycle(head) \in Int /\ -2 < Cycle(head) - now /\ Cycle(head) - now < h
  BY <1>1, <1>2, <1>3, TxConstants DEF TxIInv, Near, TxLead
<1>5. /\ Cycle(head - TransferDelay[kind]) \in Int
      /\ -h < Cycle(head - TransferDelay[kind]) - now
      /\ Cycle(head - TransferDelay[kind]) - now < h
  <2>1. PICK d \in 0..18 : d = TransferDelay[kind] BY <1>1
  <2>2. (head \div 6) - 3 <= (head - d) \div 6 /\ (head - d) \div 6 <= head \div 6
    BY <1>1
  <2> QED BY <1>1, <1>2, <1>3, <1>4, <2>1, <2>2
<1>6. PICK j \in Int : head % WrapTicks = head + WrapTicks * j
  BY <1>1, WrappedTime
<1>7. TICKS_TO_CYCLES(head % WrapTicks) = Cycle(head) % CYCLES_PER_SECOND
  BY <1>1, <1>6, CycleOfTurns
<1>8. cycles_until_presentation(head % WrapTicks) = Cycle(head) - now
  <2>1. -h < Cycle(head) - now BY <1>2, <1>4, <1>1
  <2>2. diffCycles(Cycle(head) % CYCLES_PER_SECOND, now % CYCLES_PER_SECOND) = Cycle(head) - now
    <3>1. PICK a \in Int : a = Cycle(head) BY <1>4
    <3>2. diffCycles(a % CYCLES_PER_SECOND, now % CYCLES_PER_SECOND) = a - now
      <4>1. Close(a, now) BY <1>1, <1>2, <1>4, <2>1, <3>1 DEF Close
      <4> QED BY <4>1, CyclesApart
    <3> QED BY <3>1, <3>2
  <2> QED BY <1>7, <2>2 DEF cycles_until_presentation
<1>9. PICK i \in Int : substractTicks(head % WrapTicks, TransferDelay[kind])
                         = (head - TransferDelay[kind]) + WrapTicks * i
  <2>1. PICK w \in Nat : w = WrapTicks BY <1>1, WrappedTime
  <2>2. PICK d \in Int : d = TransferDelay[kind] BY <1>1
  <2>3. w * (j + 1) = w * j + w /\ w * j \in Int BY <2>1
  <2>v. PICK v \in Int : v = head + w * j BY <1>1, <2>3
  <2>4. substractTicks(head % WrapTicks, TransferDelay[kind]) = IF v < d THEN v - d + w ELSE v - d
    <3>1. head % WrapTicks = v BY <1>6, <2>1, <2>v
    <3> QED BY <2>1, <2>2, <3>1 DEF substractTicks
  <2>5. \/ substractTicks(head % WrapTicks, TransferDelay[kind]) = (head - d) + w * (j + 1)
        \/ substractTicks(head % WrapTicks, TransferDelay[kind]) = (head - d) + w * j
    BY <1>1, <2>1, <2>2, <2>3, <2>v, <2>4
  <2>6. \E i \in Int : substractTicks(head % WrapTicks, TransferDelay[kind]) = (head - d) + w * i
    <3>1. CASE substractTicks(head % WrapTicks, TransferDelay[kind]) = (head - d) + w * (j + 1)
      <4> WITNESS j + 1 \in Int
      <4> QED BY <3>1
    <3>2. CASE substractTicks(head % WrapTicks, TransferDelay[kind]) = (head - d) + w * j
      <4> WITNESS j \in Int
      <4> QED BY <3>2
    <3> QED BY <2>5, <3>1, <3>2
  <2> QED BY <2>1, <2>2, <2>6
<1>10. cycles_until_transmit(head % WrapTicks) = Cycle(head - TransferDelay[kind]) - now
  <2>1. PICK x \in Int : x = head - TransferDelay[kind] BY <1>1
  <2>2. TICKS_TO_CYCLES(x + WrapTicks * i) = Cycle(x) % CYCLES_PER_SECOND BY CycleOfTurns
  <2>3. diffCycles(Cycle(x) % CYCLES_PER_SECOND, now % CYCLES_PER_SECOND) = Cycle(x) - now
    <3>1. PICK a \in Int : a = Cycle(x) BY <1>5, <2>1
    <3>2. -h < a - now /\ a - now < h BY <1>5, <2>1, <3>1
    <3>3. diffCycles(a % CYCLES_PER_SECOND, now % CYCLES_PER_SECOND) = a - now
      <4>1. Close(a, now) BY <1>1, <1>2, <3>2 DEF Close
      <4> QED BY <4>1, CyclesApart
    <3> QED BY <3>1, <3>3
  <2> QED BY <1>9, <2>1, <2>2, <2>3 DEF cycles_until_transmit
<1> QED BY <1>8, <1>10

\* What each answer of generatePacketHeader means in true time.
LEMMA Decisions ==
  ASSUME TxIInv, m_state = "Running"
  PROVE  LET res == generatePacketHeader(head % WrapTicks) IN
         /\ res \in {"Packet", "Defer", "Again", "EmptyPacket", "XRun"}
         /\ res \in {"Packet", "Defer"} =>
              /\ now + MinBefore[kind] <= Cycle(head)
              /\ Cycle(head - TransferDelay[kind]) <= now + MaxEarly[kind]
         /\ res = "Again" => now + MinBefore[kind] < Cycle(head)
         /\ res = "EmptyPacket" => now + MaxEarly[kind] < Cycle(head - TransferDelay[kind])
         /\ res = "XRun" => \/ fc < Nevents /\ Cycle(head) - now <= MinBefore[kind]
                            \/ Cycle(head) - now < MinBefore[kind]
<1>1. TxTypeOK /\ head \in Nat /\ now \in Nat /\ fc \in Int BY DEF TxIInv, TxTypeOK
<1> DEFINE time == head % WrapTicks
<1>2. PICK p \in Int, t \in Int :
        /\ p = Cycle(head) - now /\ t = Cycle(head - TransferDelay[kind]) - now
        /\ p = (head \div 6) - now /\ t = ((head - TransferDelay[kind]) \div 6) - now
  BY <1>1, TableTypes, TxConstants DEF Cycle
<1>3. cycles_until_presentation(time) = p /\ cycles_until_transmit(time) = t
  BY <1>2, CyclesUntil
<1> HIDE DEF time
<1>4. Timing(time) = IF t < 0 THEN IF p >= MinBefore[kind] THEN "Packet" ELSE "XRun"
                     ELSE IF t <= MaxEarly[kind] THEN "Packet" ELSE "EmptyPacket"
  BY <1>3 DEF Timing
<1>5. t >= 0 => p >= MinBefore[kind]
  BY <1>1, <1>2, Tables
<1>6. /\ kind = "amdtp" => generatePacketHeader(time) = generatePacketHeader_amdtp(time)
      /\ kind # "amdtp" => generatePacketHeader(time) = generatePacketHeader_motu(time)
  BY <1>1, Tables DEF generatePacketHeader, generatePacketHeader_rme, generatePacketHeader_digidesign
<1>7. /\ generatePacketHeader(time) \in {"Packet", "Defer", "Again", "EmptyPacket", "XRun"}
      /\ generatePacketHeader(time) \in {"Packet", "Defer"} => p >= MinBefore[kind] /\ t <= MaxEarly[kind]
      /\ generatePacketHeader(time) = "Again" => p > MinBefore[kind]
      /\ generatePacketHeader(time) = "EmptyPacket" => t > MaxEarly[kind]
      /\ generatePacketHeader(time) = "XRun" => (fc < Nevents /\ p <= MinBefore[kind]) \/ p < MinBefore[kind]
  <2>1. MinBefore[kind] \in Int /\ MaxEarly[kind] \in Nat /\ Nevents \in Int BY <1>1, TableTypes
  <2>2. CASE kind = "amdtp"
    <3>1. generatePacketHeader(time) =
            IF fc < Nevents THEN IF p <= MinBefore[kind] THEN "XRun" ELSE "Again"
            ELSE IF Timing(time) = "Packet" /\ t < 0 /\ fc < 2 * Nevents THEN "Defer" ELSE Timing(time)
      BY <1>3, <1>6, <2>2 DEF generatePacketHeader_amdtp
    <3> QED BY <1>1, <1>2, <1>4, <1>5, <2>1, <3>1
  <2>3. CASE kind # "amdtp"
    <3>1. generatePacketHeader(time) =
            IF fc < Nevents THEN IF p <= MinBefore[kind] THEN "XRun" ELSE "Again" ELSE Timing(time)
      BY <1>3, <1>6, <2>3 DEF generatePacketHeader_motu
    <3> QED BY <1>1, <1>2, <1>4, <1>5, <2>1, <3>1
  <2> QED BY <2>2, <2>3
<1>8. /\ Cycle(head) \in Int /\ Cycle(head - TransferDelay[kind]) \in Int
      /\ MinBefore[kind] \in Int /\ MaxEarly[kind] \in Int
  BY <1>1, TableTypes, TxConstants DEF Cycle
<1>9. /\ p >= MinBefore[kind] => now + MinBefore[kind] <= Cycle(head)
      /\ t <= MaxEarly[kind] => Cycle(head - TransferDelay[kind]) <= now + MaxEarly[kind]
      /\ p > MinBefore[kind] => now + MinBefore[kind] < Cycle(head)
      /\ t > MaxEarly[kind] => now + MaxEarly[kind] < Cycle(head - TransferDelay[kind])
  BY <1>1, <1>2, <1>8
<1> QED BY <1>2, <1>7, <1>9 DEF time

\* What sending a packet leaves in sent.
LEMMA SendsPacket ==
  ASSUME TxTypeOK, NEW dbc \in Nat, NEW events \in Nat, NEW data \in BOOLEAN, NEW time \in Nat,
         Sends(Packet(dbc, events, data, time))
  PROVE  /\ sent' \in TxPackets \X TxPackets
         /\ sent'[1].dbc = sent[2].dbc /\ sent'[1].events = sent[2].events
         /\ sent'[2].dbc = dbc /\ sent'[2].events = events
         /\ sent'[2].data = data /\ sent'[2].cycle = now /\ sent'[2].presented = time
<1> DEFINE before == [NoPacket EXCEPT !.dbc = sent[2].dbc, !.events = sent[2].events]
           packet == Packet(dbc, events, data, time)
<1>1. sent[2] \in TxPackets /\ now \in Nat BY DEF TxTypeOK
<1>2. sent[2].dbc \in Nat /\ sent[2].events \in Nat BY <1>1 DEF TxPackets
<1>3. before \in TxPackets /\ before.dbc = sent[2].dbc /\ before.events = sent[2].events
  BY <1>2 DEF NoPacket, TxPackets
<1>4. /\ packet \in TxPackets /\ packet.dbc = dbc /\ packet.events = events
      /\ packet.data = data /\ packet.cycle = now /\ packet.presented = time
  BY <1>1 DEF Packet, TxPackets
<1>5. sent' = <<before, packet>> BY DEF Sends
<1> HIDE DEF before, packet
<1> QED BY <1>3, <1>4, <1>5

\* A packet is counted, and its successor will be.
Counted(data, time) ==
  /\ m_dbc' \in 0..DBC - 1 /\ sent' \in TxPackets \X TxPackets
  /\ Counter' /\ BlocksCounted'
  /\ sent'[2].data = data /\ sent'[2].cycle = now /\ sent'[2].presented = time

LEMMA CountTypes ==
  ASSUME TxTypeOK, NEW n \in Nat
  PROVE  Count(n) \in 0..DBC - 1
<1>1. PICK d \in Nat \ {0} : d = DBC BY TxConstants
<1>2. m_dbc + n \in Int BY <1>1 DEF TxTypeOK
<1>3. (m_dbc + n) % d \in 0..d - 1 BY <1>2, Quotient
<1> QED BY <1>1, <1>3 DEF Count

LEMMA DataCounted ==
  ASSUME TxIInv, UNCHANGED stream, NEW data \in BOOLEAN, NEW time \in Nat,
         fillDataPacketHeader(data, time)
  PROVE  Counted(data, time)
<1>1. TxTypeOK /\ Counter /\ m_dbc \in Nat /\ m_dbc \in 0..DBC - 1 /\ kind' = kind
  BY TxConstants DEF TxIInv, TxTypeOK, stream
<1>2. Nevents \in Nat /\ Count(Nevents) \in 0..DBC - 1 /\ Count(Nevents) \in Nat
  BY <1>1, TableTypes, CountTypes, TxConstants
<1>3. CASE kind = "amdtp"
  <2>1. m_dbc' = Count(Nevents) /\ Sends(Packet(m_dbc, Nevents, data, time))
    BY <1>3 DEF fillDataPacketHeader, fillDataPacketHeader_amdtp
  <2> QED BY <1>1, <1>2, <1>3, <2>1, SendsPacket DEF Counted, Counter, BlocksCounted, Count
<1>4. CASE kind = "motu"
  <2>1. m_dbc' = Count(Nevents) /\ Sends(Packet(Count(Nevents), Nevents, data, time))
    BY <1>4 DEF fillDataPacketHeader, fillDataPacketHeader_motu
  <2>2. /\ sent' \in TxPackets \X TxPackets
        /\ sent'[1].dbc = sent[2].dbc /\ sent'[2].dbc = Count(Nevents) /\ sent'[2].events = Nevents
        /\ sent'[2].data = data /\ sent'[2].cycle = now /\ sent'[2].presented = time
    BY <1>1, <1>2, <2>1, SendsPacket
  <2> QED BY <1>1, <1>2, <1>4, <2>1, <2>2 DEF Counted, Counter, BlocksCounted, Count
<1>5. CASE kind \notin {"amdtp", "motu"}
  <2>1. (m_dbc' = Count(Nevents) \/ m_dbc' = m_dbc) /\ Sends(Packet(0, Nevents, data, time))
    BY <1>5 DEF fillDataPacketHeader, fillDataPacketHeader_rme, fillDataPacketHeader_digidesign
  <2>2. /\ sent' \in TxPackets \X TxPackets
        /\ sent'[2].data = data /\ sent'[2].cycle = now /\ sent'[2].presented = time
    BY <1>1, <1>2, <2>1, SendsPacket
  <2> QED BY <1>1, <1>2, <1>5, <2>1, <2>2 DEF Counted, Counter, BlocksCounted
<1> QED BY <1>3, <1>4, <1>5

LEMMA NoDataCounted ==
  ASSUME TxIInv, UNCHANGED stream, kind = "amdtp", fillNoDataPacketHeader_amdtp
  PROVE  Counted(FALSE, 0)
<1>1. TxTypeOK /\ Counter /\ m_dbc \in Nat /\ m_dbc \in 0..DBC - 1 /\ kind' = kind
  BY TxConstants DEF TxIInv, TxTypeOK, stream
<1>2. PICK n \in Nat : m_dbc' = Count(n) /\ Sends(Packet(m_dbc, n, FALSE, 0))
  <2>1. PICK n : n = IF m_send_nodata_payload THEN Nevents ELSE 0 OBVIOUS
  <2>2. n \in Nat BY <1>1, <2>1, TableTypes
  <2>3. m_dbc' = Count(n) /\ Sends(Packet(m_dbc, n, FALSE, 0))
    BY <2>1 DEF fillNoDataPacketHeader_amdtp
  <2> QED BY <2>2, <2>3
<1>3. Count(n) \in 0..DBC - 1 BY <1>1, CountTypes
<1> QED BY <1>1, <1>2, <1>3, SendsPacket DEF Counted, Counter, BlocksCounted, Count

LEMMA EmptyCounted ==
  ASSUME TxIInv, UNCHANGED stream, generateEmptyPacketHeader
  PROVE  Counted(FALSE, 0)
<1>1. TxTypeOK /\ Counter /\ m_dbc \in Nat /\ m_dbc \in 0..DBC - 1 /\ kind' = kind
  BY TxConstants DEF TxIInv, TxTypeOK, stream
<1>2. CASE kind = "amdtp"
  BY <1>2, NoDataCounted DEF generateEmptyPacketHeader
<1>3. CASE kind = "motu"
  <2>1. m_dbc' = m_dbc /\ Sends(Packet(m_dbc, 0, FALSE, 0))
    BY <1>3 DEF generateEmptyPacketHeader, fillNoDataPacketHeader_motu
  <2>2. /\ sent' \in TxPackets \X TxPackets
        /\ sent'[1].dbc = sent[2].dbc /\ sent'[2].dbc = m_dbc /\ sent'[2].events = 0
        /\ sent'[2].data = FALSE /\ sent'[2].cycle = now /\ sent'[2].presented = 0
    BY <1>1, <2>1, SendsPacket
  <2>3. m_dbc = (m_dbc + 0) % DBC
    <3>1. PICK d \in Nat \ {0} : d = DBC BY TxConstants
    <3>2. m_dbc % d = m_dbc BY <1>1, <3>1
    <3> QED BY <1>1, <3>1, <3>2
  <2>4. sent[2].dbc = m_dbc BY <1>1, <1>3 DEF Counter
  <2>5. BlocksCounted' BY <1>1, <1>3, <2>2, <2>3, <2>4 DEF BlocksCounted
  <2>6. Counter' BY <1>1, <1>3, <2>1, <2>2 DEF Counter
  <2> QED BY <1>1, <2>1, <2>2, <2>5, <2>6 DEF Counted
<1>4. CASE kind \notin {"amdtp", "motu"}
  <2>1. m_dbc' = m_dbc /\ \E n \in Nat : Sends(Packet(0, n, FALSE, 0))
    <3>1. Nevents \in Nat BY <1>1, TableTypes
    <3> QED BY <1>4, <3>1 DEF generateEmptyPacketHeader, generateEmptyPacketHeader_rme,
                              fillNoDataPacketHeader_digidesign
  <2>2. /\ sent' \in TxPackets \X TxPackets
        /\ sent'[2].data = FALSE /\ sent'[2].cycle = now /\ sent'[2].presented = 0
    BY <1>1, <2>1, SendsPacket
  <2> QED BY <1>1, <1>4, <2>1, <2>2 DEF Counted, Counter, BlocksCounted
<1> QED BY <1>2, <1>3, <1>4

\* The states of a stream, pair by pair.
TxStates == {<<"DryRunning", "DryRunning">>, <<"DryRunning", "Enable">>, <<"Enable", "Enable">>,
             <<"Running", "Running">>, <<"Running", "Disable">>, <<"Disable", "Disable">>}

LEMMA SendEmpty ==
  ASSUME TxIInv, UNCHANGED stream, NEW d, NEW state, sendEmpty(d, state)
  PROVE  /\ Counted(FALSE, 0)
         /\ m_state' = state /\ m_next_state' = state
         /\ UNCHANGED <<fc, head, m_last_timestamp, streaming_has_run>>
BY EmptyCounted DEF sendEmpty

\* A packet without data does not bear on FedInTime.
LEMMA FedWithoutData ==
  ASSUME FedInTime, UNCHANGED stream, sent'[2].data = FALSE, xrun' = xrun, starved' = starved
  PROVE  FedInTime'
BY DEF FedInTime, stream, Nevents

\* getPacket of a running stream that sends its frames.
LEMMA RunningSends ==
  ASSUME TxIInv, UNCHANGED stream, getPacket_running, NEW d, generatePacketData(d),
         generatePacketHeader(head % WrapTicks) \in {"Packet", "Defer"}
  PROVE  TxIInv'
<1>1. TxTypeOK /\ Near /\ FedInTime /\ head \in Nat /\ now \in Nat /\ fc \in Int /\ kind' = kind
  BY DEF TxIInv, TxTypeOK, stream
<1>2. /\ m_state = "Running" /\ now' = now + 1
      /\ starved' = (starved \/ Starving)
      /\ xrun' = (xrun \/ generatePacketHeader(head % WrapTicks) = "XRun")
  BY DEF getPacket_running
<1>3. xrun' = xrun /\ m_cycle_to_switch_state' = m_cycle_to_switch_state
  BY <1>1, <1>2 DEF getPacket_running, TxTypeOK
<1>4. /\ fillDataPacketHeader(TRUE, head)
      /\ m_last_timestamp' = head % WrapTicks
      /\ fc' = fc - Nevents /\ head' = head + Nevents
      /\ streaming_has_run' = (streaming_has_run \/ kind = "rme")
      /\ m_state' = m_next_state /\ m_next_state' = m_next_state
  BY DEF generatePacketData
<1>5. Counted(TRUE, head) BY <1>1, <1>4, DataCounted
<1>6. /\ now + MinBefore[kind] <= Cycle(head)
      /\ Cycle(head - TransferDelay[kind]) <= now + MaxEarly[kind]
  BY <1>2, Decisions
<1>7. /\ Cycle(head) = head \div 6 /\ Cycle(head') = head' \div 6
      /\ Cycle(head - TransferDelay[kind]) = (head - TransferDelay[kind]) \div 6
  BY TxConstants DEF Cycle
<1>8. Nevents \in Nat /\ Nevents' = Nevents BY <1>1, TableTypes DEF Nevents
<1>9. Near'
  <2>1. now' - 1 <= Cycle(head') /\ Cycle(head') <= now' + TxLead
    BY <1>1, <1>2, <1>4, <1>6, <1>7, Tables DEF TxLead
  <2>2. Nevents > 0 => now' + MinBefore[kind] <= Cycle(head')
    BY <1>1, <1>2, <1>4, <1>6, <1>7, Tables
  <2>3. Cycle(head)' = Cycle(head') BY DEF Cycle
  <2> QED BY <1>1, <1>8, <2>1, <2>2, <2>3 DEF Near
<1>10. FedInTime'
  <2>1. /\ sent'[2].presented \div TICKS_PER_CYCLE >= sent'[2].cycle + MinBefore[kind]
        /\ (sent'[2].presented - TransferDelay[kind]) \div TICKS_PER_CYCLE <= sent'[2].cycle + MaxEarly[kind]
    <3>1. sent'[2].presented = head /\ sent'[2].cycle = now BY <1>5 DEF Counted
    <3>2. MinBefore[kind] \in Int /\ MaxEarly[kind] \in Int /\ TransferDelay[kind] \in Int BY <1>1, TableTypes
    <3> QED BY <1>1, <1>6, <1>7, <3>1, <3>2, TxConstants
  <2>2. xrun' /\ Nevents > 0 => starved' BY <1>1, <1>2, <1>3 DEF FedInTime
  <2> QED BY <1>1, <1>8, <2>1, <2>2 DEF FedInTime
<1>11. TxTypeOK'
  <2>1. m_last_timestamp' \in Nat BY <1>1, <1>4, WrappedTime
  <2>2. fc' \in Int /\ head' \in Nat /\ now' \in Nat BY <1>1, <1>2, <1>4, <1>8
  <2>3. {starved', xrun', streaming_has_run'} \subseteq BOOLEAN
    BY <1>1, <1>2, <1>3, <1>4, Zenon DEF TxTypeOK
  <2>4. <<m_state', m_next_state'>> \in TxStates
    BY <1>1, <1>2, <1>4 DEF TxTypeOK, TxStates
  <2> QED BY <1>1, <1>3, <1>5, <2>1, <2>2, <2>3, <2>4 DEF TxTypeOK, TxStates, Counted, stream
<1>12. Starting'
  <2>1. m_state' \in {"Running", "Disable"} BY <1>1, <1>2, <1>4 DEF TxTypeOK
  <2> QED BY <2>1 DEF Starting
<1> QED BY <1>5, <1>9, <1>10, <1>11, <1>12 DEF TxIInv, Counted

\* getPacket of a running stream that sends no frames, now or any more.
LEMMA RunningWaits ==
  ASSUME TxIInv, UNCHANGED stream, getPacket_running,
         generatePacketHeader(head % WrapTicks) \notin {"Packet", "Defer"}
  PROVE  TxIInv'
<1> DEFINE res == generatePacketHeader(head % WrapTicks)
<1>1. TxTypeOK /\ Near /\ FedInTime /\ head \in Nat /\ now \in Nat /\ fc \in Int /\ kind' = kind
  BY DEF TxIInv, TxTypeOK, stream
<1>2. /\ m_state = "Running" /\ now' = now + 1
      /\ starved' = (starved \/ Starving)
      /\ xrun' = (xrun \/ res = "XRun")
      /\ \/ m_cycle_to_switch_state' = (now % CYCLES_PER_SECOND) + 1
         \/ m_cycle_to_switch_state' = m_cycle_to_switch_state
  BY DEF getPacket_running
<1>3. PICK d, state :
        /\ sendEmpty(d, state)
        /\ \/ res \in {"Again", "EmptyPacket"} /\ state = m_next_state
           \/ res = "XRun" /\ state = "Disable"
  BY DEF getPacket_running, send_empty_packet
<1>4. /\ Counted(FALSE, 0)
      /\ m_state' = state /\ m_next_state' = state
      /\ UNCHANGED <<fc, head, m_last_timestamp, streaming_has_run>>
  BY <1>3, SendEmpty
<1>5. /\ res = "Again" => now + MinBefore[kind] < Cycle(head)
      /\ res = "EmptyPacket" => now + MaxEarly[kind] < Cycle(head - TransferDelay[kind])
      /\ res = "XRun" => \/ fc < Nevents /\ Cycle(head) - now <= MinBefore[kind]
                         \/ Cycle(head) - now < MinBefore[kind]
  BY <1>2, Decisions
<1> HIDE DEF res
<1>6. /\ Cycle(head) = head \div 6 /\ Cycle(head)' = Cycle(head) /\ Cycle(head) \in Int
      /\ Cycle(head - TransferDelay[kind]) = (head - TransferDelay[kind]) \div 6
  BY <1>1, <1>4, TxConstants DEF Cycle
<1>7. Nevents \in Nat /\ Nevents' = Nevents BY <1>1, TableTypes DEF Nevents
<1>8. state \in {"Running", "Disable"} BY <1>1, <1>2, <1>3 DEF TxTypeOK
<1>9. Near'
  <2>1. ASSUME res \in {"Again", "EmptyPacket"}
        PROVE  now' + MinBefore[kind] <= Cycle(head)
    BY <1>1, <1>2, <1>5, <1>6, <2>1, Tables
  <2>2. MinBefore[kind] \in Nat BY <1>1, TableTypes
  <2>3. \/ Cycle(head) <= now + TxLead
        \/ Cycle(head) <= now + TxPrestart
    BY <1>1, <1>2 DEF Near
  <2>4. Cycle(head) <= now' + TxLead \/ Cycle(head) <= now' + TxPrestart
    BY <1>1, <1>2, <1>6, <2>3, TxConstants DEF TxLead
  <2>5. CASE res = "XRun"
    BY <1>3, <1>4, <2>5 DEF Near
  <2>6. CASE res \in {"Again", "EmptyPacket"}
    <3>1. now' + MinBefore[kind] <= Cycle(head) BY <2>1, <2>6
    <3>2. now' - 1 <= Cycle(head) BY <1>1, <1>2, <1>6, <2>2, <3>1
    <3> QED BY <1>1, <1>6, <1>7, <2>4, <3>1, <3>2 DEF Near
  <2> QED BY <1>3, <2>5, <2>6
<1>10. FedInTime'
  <2>1. sent'[2].data = FALSE BY <1>4 DEF Counted
  <2>2. xrun' /\ Nevents > 0 => starved'
    <3>1. CASE res = "XRun"
      <4>1. MinBefore[kind] \in Int BY <1>1, TableTypes
      <4>2. CASE fc < Nevents /\ Cycle(head) - now <= MinBefore[kind]
        BY <1>2, <4>2 DEF Starving, Cycle
      <4>3. CASE Cycle(head) - now < MinBefore[kind]
        <5>1. ~(now + MinBefore[kind] <= Cycle(head)) BY <1>1, <1>6, <4>1, <4>3
        <5>2. Nevents > 0 => starved BY <1>1, <1>2, <5>1 DEF Near
        <5> QED BY <1>2, <5>2
      <4> QED BY <1>5, <3>1, <4>2, <4>3
    <3>2. CASE res # "XRun"
      BY <1>1, <1>2, <3>2 DEF FedInTime
    <3> QED BY <3>1, <3>2
  <2> QED BY <1>7, <2>1, <2>2 DEF FedInTime
<1>11. TxTypeOK'
  <2>1. m_cycle_to_switch_state' \in Nat
    <3>1. PICK n \in Nat \ {0} : n = CYCLES_PER_SECOND BY TxConstants
    <3>2. (now % n) + 1 \in Nat BY <1>1
    <3> QED BY <1>1, <1>2, <3>1, <3>2 DEF TxTypeOK
  <2>2. {starved', xrun', streaming_has_run'} \subseteq BOOLEAN
    BY <1>1, <1>2, <1>4, Zenon DEF TxTypeOK
  <2>3. <<m_state', m_next_state'>> \in TxStates BY <1>4, <1>8 DEF TxStates
  <2>4. now' \in Nat BY <1>1, <1>2
  <2> QED BY <1>1, <1>4, <2>1, <2>2, <2>3, <2>4 DEF TxTypeOK, TxStates, Counted, stream
<1>12. Starting' BY <1>4, <1>8 DEF Starting
<1> QED BY <1>4, <1>9, <1>10, <1>11, <1>12 DEF TxIInv, Counted

LEMMA RunningStep ==
  ASSUME TxIInv, UNCHANGED stream, getPacket_running
  PROVE  TxIInv'
<1>1. CASE generatePacketHeader(head % WrapTicks) \in {"Packet", "Defer"}
  <2>1. \E d : generatePacketData(d) BY <1>1 DEF getPacket_running
  <2> QED BY <1>1, <2>1, RunningSends
<1>2. CASE generatePacketHeader(head % WrapTicks) \notin {"Packet", "Defer"}
  BY <1>2, RunningWaits
<1> QED BY <1>1, <1>2

\* A lost cycle ends the run.
LEMMA DroppedStep ==
  ASSUME TxIInv, UNCHANGED stream, getPacket_dropped
  PROVE  TxIInv'
<1>1. TxTypeOK /\ FedInTime /\ now \in Nat /\ kind' = kind
  BY DEF TxIInv, TxTypeOK, stream
<1>2. /\ now' = now + 2 /\ starved' = TRUE /\ xrun' = TRUE
      /\ m_cycle_to_switch_state' = ((now + 1) % CYCLES_PER_SECOND) + 1
      /\ sendEmpty("OK", "Disable")
  BY DEF getPacket_dropped
<1>3. /\ Counted(FALSE, 0)
      /\ m_state' = "Disable" /\ m_next_state' = "Disable"
      /\ UNCHANGED <<fc, head, m_last_timestamp, streaming_has_run>>
  BY <1>2, SendEmpty
<1>4. m_cycle_to_switch_state' \in Nat
  <2>1. PICK n \in Nat \ {0} : n = CYCLES_PER_SECOND BY TxConstants
  <2>2. ((now + 1) % n) + 1 \in Nat BY <1>1
  <2> QED BY <1>2, <2>1, <2>2
<1>5. now' \in Nat BY <1>1, <1>2
<1>6. TxTypeOK' BY <1>1, <1>2, <1>3, <1>4, <1>5 DEF TxTypeOK, Counted, stream
<1>7. Starting' /\ Near' BY <1>3 DEF Starting, Near
<1>8. FedInTime' BY <1>2, <1>3 DEF FedInTime, Counted
<1> QED BY <1>3, <1>6, <1>7, <1>8 DEF TxIInv, Counted

\* A stream that stops sends silent packets, which are counted like the others.
LEMMA DisableStep ==
  ASSUME TxIInv, UNCHANGED stream, getPacket_disable
  PROVE  TxIInv'
<1>1. TxTypeOK /\ FedInTime /\ now \in Nat /\ m_last_timestamp \in Nat /\ kind' = kind
  BY DEF TxIInv, TxTypeOK, stream
<1>2. /\ \/ m_state' = "DryRunning" /\ m_next_state' = "DryRunning" /\ fc' = 0
         \/ m_state' = "Disable" /\ m_next_state' = "Disable" /\ fc' = fc
      /\ now' = now + 1
      /\ UNCHANGED <<m_cycle_to_switch_state, head, streaming_has_run, starved, xrun>>
  BY <1>1 DEF getPacket_disable, TxTypeOK
<1> DEFINE time == addTicks(m_last_timestamp, Nevents)
<1>3. time \in Nat
  <2>1. WrapTicks \in Nat BY WrappedTime
  <2>2. Nevents \in Nat BY <1>1, TableTypes
  <2> QED BY <1>1, <2>1, <2>2 DEF addTicks, wrapAtMaxTicks
<1>4. \/ fillDataPacketHeader(FALSE, time) /\ m_last_timestamp' = time
      \/ kind = "amdtp" /\ fillNoDataPacketHeader_amdtp /\ m_last_timestamp' = m_last_timestamp
      \/ generateEmptyPacketHeader /\ m_last_timestamp' = m_last_timestamp
      \/ UNCHANGED <<m_dbc, sent, m_last_timestamp>>
  BY DEF getPacket_disable
<1> HIDE DEF time
<1>5. /\ m_dbc' \in 0..DBC - 1 /\ sent' \in TxPackets \X TxPackets
      /\ Counter' /\ BlocksCounted'
      /\ m_last_timestamp' \in Nat
      /\ sent'[2].data = FALSE \/ sent' = sent
  <2>1. CASE fillDataPacketHeader(FALSE, time) /\ m_last_timestamp' = time
    BY <1>3, <2>1, DataCounted DEF Counted
  <2>2. CASE kind = "amdtp" /\ fillNoDataPacketHeader_amdtp /\ m_last_timestamp' = m_last_timestamp
    BY <1>1, <2>2, NoDataCounted DEF Counted
  <2>3. CASE generateEmptyPacketHeader /\ m_last_timestamp' = m_last_timestamp
    BY <1>1, <2>3, EmptyCounted DEF Counted
  <2>4. CASE UNCHANGED <<m_dbc, sent, m_last_timestamp>>
    BY <1>1, <2>4 DEF TxIInv, TxTypeOK, Counter, BlocksCounted
  <2> QED BY <1>4, <2>1, <2>2, <2>3, <2>4
<1>6. now' \in Nat /\ fc' \in Int BY <1>1, <1>2 DEF TxTypeOK
<1>7. TxTypeOK' BY <1>1, <1>2, <1>5, <1>6 DEF TxTypeOK, stream
<1>8. Starting' /\ Near' BY <1>2 DEF Starting, Near
<1>9. FedInTime' BY <1>1, <1>2, <1>5 DEF FedInTime, Nevents
<1> QED BY <1>5, <1>7, <1>8, <1>9 DEF TxIInv

\* A stream that waits for its start is switched in the cycle that start has chosen.
LEMMA DryStep ==
  ASSUME TxIInv, UNCHANGED stream, getPacket_dry
  PROVE  TxIInv'
<1>1. TxTypeOK /\ Starting /\ FedInTime /\ now \in Nat /\ head \in Nat /\ kind' = kind
  BY DEF TxIInv, TxTypeOK, stream
<1>2. /\ m_state \in {"DryRunning", "Enable"} /\ now' = now + 1
      /\ UNCHANGED <<m_cycle_to_switch_state, starved, xrun>>
  BY DEF getPacket_dry
<1>3. m_state = "Enable" => Due
  <2>1. SUFFICES ASSUME m_state = "Enable" PROVE Due OBVIOUS
  <2>2. m_cycle_to_switch_state = now % CYCLES_PER_SECOND BY <1>1, <2>1 DEF Starting
  <2>3. Close(now, now)
    <3>1. PICK h \in Int : CYCLES_PER_SECOND = 2 * h /\ h >= 12 BY TxConstants
    <3> QED BY <1>1, <3>1 DEF Close
  <2>4. diffCycles(now % CYCLES_PER_SECOND, now % CYCLES_PER_SECOND) = now - now
    BY <2>3, CyclesApart
  <2> QED BY <1>1, <2>2, <2>4 DEF Due
<1>4. PICK state :
        /\ sendEmpty("OK", state)
        /\ state = IF m_state = "Enable" THEN "Running" ELSE m_next_state
  BY <1>2, <1>3 DEF getPacket_dry, send_empty_packet
<1>5. /\ Counted(FALSE, 0)
      /\ m_state' = state /\ m_next_state' = state
      /\ UNCHANGED <<fc, head, m_last_timestamp, streaming_has_run>>
  <2>1. sendEmpty("OK", state) BY <1>4
  <2>2. generateEmptyPacketHeader /\ m_state' = state /\ m_next_state' = state
        /\ UNCHANGED <<fc, head, m_last_timestamp, streaming_has_run>>
    BY <2>1 DEF sendEmpty
  <2>3. Counted(FALSE, 0) BY <2>2, EmptyCounted
  <2> QED BY <2>2, <2>3
<1>6. now' \in Nat BY <1>1, <1>2
<1>7. \/ m_state = "Enable" /\ state = "Running"
      \/ m_state = "DryRunning" /\ state = "DryRunning"
      \/ m_state = "DryRunning" /\ m_next_state = "Enable" /\ state = "Enable"
  BY <1>1, <1>2, <1>4 DEF TxTypeOK
<1>8. TxTypeOK' BY <1>1, <1>2, <1>5, <1>6, <1>7 DEF TxTypeOK, Counted, stream
<1>9. Cycle(head)' = Cycle(head) /\ Cycle(head) \in Int
  BY <1>1, <1>5, TxConstants DEF Cycle
<1>10. Starting'
  <2>1. CASE state = "Enable"
    <3>1. Cycle(head) = now + TxPrestart + 1 /\ m_cycle_to_switch_state = (now + 1) % CYCLES_PER_SECOND
      BY <1>1, <1>7, <2>1 DEF Starting
    <3>2. Cycle(head) = now' + TxPrestart BY <1>1, <1>2, <3>1, TxConstants
    <3> QED BY <1>2, <1>5, <1>9, <2>1, <3>1, <3>2 DEF Starting
  <2>2. CASE state # "Enable" BY <1>5, <1>7, <2>2 DEF Starting
  <2> QED BY <2>1, <2>2
<1>11. Near'
  <2>1. CASE state = "Running"
    <3>1. Cycle(head) = now + TxPrestart BY <1>1, <1>7, <2>1 DEF Starting
    <3>2. MinBefore[kind] \in 0..1 BY <1>1, TableTypes
    <3>3. /\ now' - 1 <= Cycle(head) /\ Cycle(head) <= now' + TxPrestart
          /\ now' + MinBefore[kind] <= Cycle(head)
      BY <1>1, <1>2, <3>1, <3>2, TxConstants
    <3> QED BY <1>1, <1>9, <3>3 DEF Near
  <2>2. CASE state # "Running" BY <1>5, <2>2 DEF Near
  <2> QED BY <2>1, <2>2
<1>12. FedInTime' BY <1>1, <1>2, <1>5, FedWithoutData DEF Counted
<1> QED BY <1>5, <1>8, <1>10, <1>11, <1>12 DEF TxIInv, Counted

\* syncStartAll chooses the cycle of the switch from the time of the first frame.
LEMMA StartStep ==
  ASSUME TxIInv, start
  PROVE  TxIInv'
<1>1. TxTypeOK /\ FedInTime /\ now \in Nat BY DEF TxIInv, TxTypeOK
<1>2. /\ m_state = "DryRunning" /\ m_state' = "DryRunning" /\ m_next_state' = "Enable"
      /\ fc' = TxBuffer /\ starved' = FALSE /\ xrun' = FALSE /\ streaming_has_run' = FALSE
      /\ UNCHANGED <<stream, now, m_last_timestamp, m_dbc, sent, result>>
  BY DEF start
<1>3. PICK offset \in 0..TICKS_PER_CYCLE - 1 :
        LET time == (now + TxPrestart + 1) * TICKS_PER_CYCLE + offset IN
        /\ head' = time
        /\ m_cycle_to_switch_state' =
             TICKS_TO_CYCLES(substractTicks(time % WrapTicks, TxPrestart * TICKS_PER_CYCLE))
  BY DEF start
<1>4. PICK time \in Nat : time = (now + TxPrestart + 1) * 6 + offset
  BY <1>1, <1>3, TxConstants
<1>5. /\ head' = time
      /\ m_cycle_to_switch_state' = TICKS_TO_CYCLES(substractTicks(time % WrapTicks, TxPrestart * 6))
  BY <1>3, <1>4, TxConstants
<1>6. PICK i \in Int : substractTicks(time % WrapTicks, TxPrestart * 6) = (time - TxPrestart * 6) + WrapTicks * i
  <2> time \in Int BY <1>4
  <2>j. PICK j \in Int : time % WrapTicks = time + WrapTicks * j BY WrappedTime
  <2>w. PICK w \in Nat : w = WrapTicks BY WrappedTime
  <2>1. w = WrapTicks /\ time % WrapTicks = time + w * j BY <2>j, <2>w
  <2>2. PICK d \in Int : d = TxPrestart * 6 BY TxConstants
  <2>3. w * (j + 1) = w * j + w /\ w * j \in Int BY <2>1
  <2>4. PICK v \in Int : v = time + w * j BY <2>3
  <2>5. substractTicks(time % WrapTicks, TxPrestart * 6) = IF v < d THEN v - d + w ELSE v - d
    <3>1. time % WrapTicks = v BY <2>1, <2>4
    <3> QED BY <2>1, <2>2, <3>1 DEF substractTicks
  <2>6. \/ substractTicks(time % WrapTicks, TxPrestart * 6) = (time - d) + w * (j + 1)
        \/ substractTicks(time % WrapTicks, TxPrestart * 6) = (time - d) + w * j
    BY <2>1, <2>2, <2>3, <2>4, <2>5
  <2>7. \E i \in Int : substractTicks(time % WrapTicks, TxPrestart * 6) = (time - d) + w * i
    <3>1. CASE substractTicks(time % WrapTicks, TxPrestart * 6) = (time - d) + w * (j + 1)
      <4> WITNESS j + 1 \in Int
      <4> QED BY <3>1
    <3>2. CASE substractTicks(time % WrapTicks, TxPrestart * 6) = (time - d) + w * j
      <4> WITNESS j \in Int
      <4> QED BY <3>2
    <3> QED BY <2>6, <3>1, <3>2
  <2> QED BY <2>1, <2>2, <2>7
<1>7. m_cycle_to_switch_state' = (now + 1) % CYCLES_PER_SECOND
  <2>1. PICK x \in Int : x = time - TxPrestart * 6 BY TxConstants
  <2>2. TICKS_TO_CYCLES(x + WrapTicks * i) = Cycle(x) % CYCLES_PER_SECOND BY CycleOfTurns
  <2>3. Cycle(x) = now + 1
    <3>1. x = (now + 1) * 6 + offset /\ offset \in 0..5 BY <1>1, <1>3, <1>4, <2>1, TxConstants
    <3>2. x \div 6 = now + 1 BY <1>1, <3>1
    <3> QED BY <3>2, TxConstants DEF Cycle
  <2> QED BY <1>5, <1>6, <2>1, <2>2, <2>3
<1>8. Cycle(head') = now + TxPrestart + 1
  <2>1. time \div 6 = now + TxPrestart + 1 BY <1>1, <1>3, <1>4, TxConstants
  <2> QED BY <1>5, <2>1, TxConstants DEF Cycle
<1>9. m_cycle_to_switch_state' \in Nat
  <2>1. PICK n \in Nat \ {0} : n = CYCLES_PER_SECOND BY TxConstants
  <2>2. (now + 1) % n \in Nat BY <1>1
  <2> QED BY <1>7, <2>1, <2>2
<1>10. TxTypeOK'
  <2>1. now' \in Nat /\ fc' \in Int /\ head' \in Nat
    BY <1>1, <1>2, <1>5, TxConstants
  <2>2. /\ kind' \in TxKinds /\ m_send_nodata_payload' \in BOOLEAN
        /\ m_last_timestamp' \in Nat /\ m_dbc' \in 0..DBC - 1
        /\ sent' \in TxPackets \X TxPackets
    BY <1>1, <1>2, Zenon DEF TxTypeOK, stream
  <2>3. <<m_state', m_next_state'>> = <<"DryRunning", "Enable">> BY <1>2
  <2>4. {starved', xrun', streaming_has_run'} \subseteq BOOLEAN BY <1>2, Zenon
  <2> QED BY <1>9, <2>1, <2>2, <2>3, <2>4 DEF TxTypeOK
<1>11. Starting'
  <2>1. Cycle(head)' = Cycle(head') BY DEF Cycle
  <2> QED BY <1>2, <1>7, <1>8, <2>1 DEF Starting
<1>12. Near' /\ Counter' /\ BlocksCounted'
  BY <1>2 DEF Near, TxIInv, Counter, BlocksCounted, stream
<1>13. FedInTime' BY <1>1, <1>2 DEF FedInTime, stream
<1> QED BY <1>10, <1>11, <1>12, <1>13 DEF TxIInv

\* The client, and steps that change nothing.
LEMMA ClientStep ==
  ASSUME TxIInv, stop \/ putFrames \/ UNCHANGED txVars
  PROVE  TxIInv'
<1>1. TxTypeOK /\ now \in Nat BY DEF TxIInv, TxTypeOK
<1>2. CASE stop
  <2>1. /\ m_state = "Running" /\ m_next_state' = "Disable"
        /\ UNCHANGED <<stream, now, m_state, fc, head, m_last_timestamp, m_dbc, streaming_has_run,
                       sent, result, starved, xrun>>
    BY <1>2 DEF stop
  <2>2. m_cycle_to_switch_state' \in Nat
    <3>1. PICK lead \in 0..1 : m_cycle_to_switch_state' = (now + lead) % CYCLES_PER_SECOND
      BY <1>2 DEF stop
    <3>2. PICK n \in Nat \ {0} : n = CYCLES_PER_SECOND BY TxConstants
    <3>3. (now + lead) % n \in Nat BY <1>1
    <3> QED BY <3>1, <3>2, <3>3
  <2>3. TxTypeOK' BY <1>1, <2>1, <2>2 DEF TxTypeOK, stream
  <2> QED BY <2>1, <2>3 DEF TxIInv, Starting, Near, Counter, BlocksCounted, FedInTime, stream, Nevents, Cycle
<1>3. CASE putFrames
  <2>1. /\ fc' = fc + m_period
        /\ UNCHANGED <<stream, now, m_cycle_to_switch_state, m_state, m_next_state, head,
                       m_last_timestamp, m_dbc, streaming_has_run, sent, result, starved, xrun>>
    BY <1>3 DEF putFrames
  <2>2. fc' \in Int BY <1>1, <2>1, TxConstants DEF TxTypeOK
  <2>3. TxTypeOK' BY <1>1, <2>1, <2>2 DEF TxTypeOK, stream
  <2> QED BY <2>1, <2>3 DEF TxIInv, Starting, Near, Counter, BlocksCounted, FedInTime, stream, Nevents, Cycle
<1>4. CASE UNCHANGED txVars
  BY <1>4 DEF txVars, TxIInv, TxTypeOK, Starting, Near, Counter, BlocksCounted, FedInTime, stream, Nevents, Cycle
<1> QED BY <1>2, <1>3, <1>4

LEMMA TxInitial == TxInit => TxIInv
<1> SUFFICES ASSUME TxInit PROVE TxIInv OBVIOUS
<1>1. NoPacket \in TxPackets /\ NoPacket.dbc = 0 /\ NoPacket.events = 0 /\ NoPacket.data = FALSE
  BY DEF NoPacket, TxPackets
<1>2. sent[1] = NoPacket /\ sent[2] = NoPacket /\ sent \in TxPackets \X TxPackets
  BY <1>1 DEF TxInit
<1>3. TxTypeOK
  <2>1. m_dbc \in 0..DBC - 1 /\ now \in Nat /\ m_cycle_to_switch_state \in Nat /\ fc \in Int
        /\ head \in Nat /\ m_last_timestamp \in Nat
    BY TxConstants DEF TxInit
  <2>2. /\ kind \in TxKinds /\ m_send_nodata_payload \in BOOLEAN
        /\ <<m_state, m_next_state>> = <<"DryRunning", "DryRunning">>
    BY DEF TxInit
  <2>3. {starved, xrun, streaming_has_run} \subseteq BOOLEAN BY Zenon DEF TxInit
  <2> QED BY <1>2, <2>1, <2>2, <2>3 DEF TxTypeOK
<1>4. 0 % DBC = 0 BY TxConstants
<1>5. Starting /\ Near /\ FedInTime BY <1>1, <1>2 DEF TxInit, Starting, Near, FedInTime
<1>6. Counter /\ BlocksCounted
  BY <1>1, <1>2, <1>4 DEF TxInit, Counter, BlocksCounted
<1> QED BY <1>3, <1>5, <1>6 DEF TxIInv

LEMMA TxStep == TxIInv /\ [TxNext]_txVars => TxIInv'
BY RunningStep, DroppedStep, DisableStep, DryStep, StartStep, ClientStep DEF TxNext

\* The first frame of a running stream stays within half a second of the present cycle,
\* and ahead of it until the stream is starved; the counter is the one to continue.
THEOREM AlwaysTxIInv == TxSpec => []TxIInv
BY TxInitial, TxStep, PTL DEF TxSpec

\* Frames reach the device in time and not too early, across every wrap of the cycles and
\* of the seconds, and there is an xrun only after a shortage or a lost cycle.
THEOREM AlwaysFedInTime == TxSpec => []FedInTime
<1>1. TxIInv => FedInTime BY DEF TxIInv
<1> QED BY <1>1, AlwaysTxIInv, PTL

\* The counters of consecutive packets differ by the events between them.
THEOREM AlwaysBlocksCounted == TxSpec => []BlocksCounted
<1>1. TxIInv => BlocksCounted BY DEF TxIInv
<1> QED BY <1>1, AlwaysTxIInv, PTL

-----------------------------------------------------------------------------
(***************************************************************************)
(* The blocks handed to another process, for any number of blocks and      *)
(* messages.                                                               *)
(***************************************************************************)
\* Arithmetic of the ring.
LEMMA Division ==
  ASSUME NEW n \in Nat \ {0}, NEW x \in Nat
  PROVE  /\ x % n \in 0..(n - 1) /\ x \div n \in Nat
         /\ x = n * (x \div n) + (x % n)
OBVIOUS

LEMMA NoFactor ==
  ASSUME NEW n \in Nat \ {0}, NEW k \in Int, NEW d \in Int, d = n * k, 0 < d, d < n
  PROVE  FALSE
<1>1. CASE k <= 0
  <2>1. n * k <= 0 BY <1>1
  <2> QED BY <2>1
<1>2. CASE k >= 1
  <2>1. n * k >= n BY <1>2
  <2> QED BY <2>1
<1> QED BY <1>1, <1>2

\* Writes less than a round apart go to different blocks.
LEMMA BlocksApart ==
  ASSUME NEW n \in Nat \ {0}, NEW x \in Nat, NEW y \in Nat, 0 < x - y, x - y < n
  PROVE  x % n # y % n
<1> SUFFICES ASSUME x % n = y % n PROVE FALSE
  OBVIOUS
<1> DEFINE p == x \div n
           q == y \div n
<1>a. p \in Nat /\ x = n * p + (x % n) /\ x % n \in 0..(n - 1) BY Division
<1>b. q \in Nat /\ y = n * q + (y % n) BY Division
<1> HIDE DEF p, q
<1>1. p \in Nat /\ q \in Nat /\ x = n * p + (x % n) /\ y = n * q + (y % n) /\ x % n \in Int BY <1>a, <1>b
<1>2. x - y = n * p - n * q BY <1>1
<1>3. n * p - n * q = n * (p - q) BY <1>1
<1>4. p - q \in Int /\ x - y \in Int /\ x - y = n * (p - q) BY <1>1, <1>2, <1>3
<1> QED BY <1>4, NoFactor

\* The remainder of the next number.
LEMMA NextRemainder ==
  ASSUME NEW n \in Nat \ {0}, NEW x \in Nat
  PROVE  (x + 1) % n = IF (x % n) + 1 = n THEN 0 ELSE (x % n) + 1
<1> DEFINE p == x \div n
           q == (x + 1) \div n
           r == x % n
           s == (x + 1) % n
<1>a. p \in Nat /\ x = n * p + r /\ r \in 0..(n - 1) BY Division
<1>b. q \in Nat /\ x + 1 = n * q + s /\ s \in 0..(n - 1)
  <2>1. x + 1 \in Nat OBVIOUS
  <2> QED BY <2>1, Division
<1> HIDE DEF p, q, r, s
<1>1. /\ p \in Nat /\ q \in Nat /\ x = n * p + r /\ x + 1 = n * q + s /\ r \in 0..(n - 1) /\ s \in 0..(n - 1)
  BY <1>a, <1>b
<1>2. n * (q - p) = r + 1 - s
  <2>1. n * (q - p) = n * q - n * p BY <1>1
  <2>2. n * q \in Int /\ n * p \in Int BY <1>1
  <2> QED BY <1>1, <2>1, <2>2
<1>3. CASE r + 1 = n
  <2>1. CASE s = 0 BY <1>3, <2>1 DEF r, s
  <2>2. CASE s # 0
    <3>1. 0 < n * (q - p) /\ n * (q - p) < n BY <1>1, <1>2, <1>3, <2>2
    <3> QED BY <1>1, <3>1, NoFactor
  <2> QED BY <2>1, <2>2
<1>4. CASE r + 1 # n
  <2>1. r + 1 \in 1..(n - 1) BY <1>1, <1>4
  <2>2. CASE r + 1 > s
    <3>1. 0 < n * (q - p) /\ n * (q - p) < n BY <1>1, <1>2, <2>1, <2>2
    <3> QED BY <1>1, <3>1, NoFactor
  <2>3. CASE r + 1 < s
    <3>1. n * (p - q) = -(n * (q - p)) BY <1>1
    <3>2. 0 < n * (p - q) /\ n * (p - q) < n BY <1>1, <1>2, <2>1, <2>3, <3>1
    <3> QED BY <1>1, <3>2, NoFactor
  <2> QED BY <1>1, <1>4, <2>2, <2>3 DEF r, s
<1> QED BY <1>3, <1>4

\* How far apart two writes are, from their blocks.
LEMMA RoundDistance ==
  ASSUME NEW n \in Nat \ {0}, NEW x \in Nat, NEW y \in Nat, 1 <= x - y, x - y <= n
  PROVE  x - y = (x % n) - (y % n) + IF x % n <= y % n THEN n ELSE 0
<1> DEFINE p == x \div n
           q == y \div n
           r == x % n
           s == y % n
<1>1. p \in Nat /\ x = n * p + r /\ r \in 0..(n - 1) BY Division
<1>2. q \in Nat /\ y = n * q + s /\ s \in 0..(n - 1) BY Division
<1> HIDE DEF p, q, r, s
<1>3. n * (p - q) = n * p - n * q /\ n * (q - p) = n * q - n * p BY <1>1, <1>2
<1>4. n * (p - 1 - q) = n * p - n * q - n /\ n * (q + 1 - p) = n * q + n - n * p BY <1>1, <1>2
<1>5. n * p \in Int /\ n * q \in Int BY <1>1, <1>2
<1>6. CASE r > s
  <2>1. n * (p - q) = (x - y) - (r - s) /\ n * (q - p) = (r - s) - (x - y) BY <1>1, <1>2, <1>3, <1>5
  <2>2. CASE x - y > r - s
    <3>1. p - q \in Int /\ n * (p - q) \in Int /\ 0 < n * (p - q) /\ n * (p - q) < n BY <1>1, <1>2, <1>6, <2>1, <2>2
    <3> QED BY <3>1, NoFactor
  <2>3. CASE x - y < r - s
    <3>1. q - p \in Int /\ n * (q - p) \in Int /\ 0 < n * (q - p) /\ n * (q - p) < n BY <1>1, <1>2, <1>6, <2>1, <2>3
    <3> QED BY <3>1, NoFactor
  <2> QED BY <1>1, <1>2, <1>6, <2>2, <2>3 DEF r, s
<1>7. CASE r <= s
  <2>1. n * (p - 1 - q) = (x - y) - (r - s + n) /\ n * (q + 1 - p) = (r - s + n) - (x - y) BY <1>1, <1>2, <1>4, <1>5
  <2>2. CASE x - y > r - s + n
    <3>1. p - 1 - q \in Int /\ n * (p - 1 - q) \in Int /\ 0 < n * (p - 1 - q) /\ n * (p - 1 - q) < n
      BY <1>1, <1>2, <1>7, <2>1, <2>2
    <3> QED BY <3>1, NoFactor
  <2>3. CASE x - y < r - s + n
    <3>1. q + 1 - p \in Int /\ n * (q + 1 - p) \in Int /\ 0 < n * (q + 1 - p) /\ n * (q + 1 - p) < n
      BY <1>1, <1>2, <1>7, <2>1, <2>3
    <3> QED BY <3>1, NoFactor
  <2> QED BY <1>1, <1>2, <1>7, <2>2, <2>3 DEF r, s
<1> QED BY <1>1, <1>2, <1>6, <1>7

-----------------------------------------------------------------------------
\* The constants of a run, and what the types say.
LEMMA SetupSizes ==
  ASSUME IpcTypeOK
  PROVE  /\ m_blocks \in Nat /\ m_blocks > 1 /\ m_blocks \in Nat \ {0} /\ m_blocks = setup.blocks
         /\ setup.messages \in Nat /\ setup.writer \in {"waits", "writes", "server"}
<1>1. setup \in IpcSetups BY DEF IpcTypeOK
<1>2. setup \in Setups /\ setup.blocks > 1 BY <1>1, IpcRingBufferAssumption
<1>3. setup.blocks \in Nat /\ setup.messages \in Nat /\ setup.writer \in {"waits", "writes", "server"}
  BY <1>2 DEF Setups
<1> QED BY <1>2, <1>3 DEF m_blocks

LEMMA TypeFacts ==
  ASSUME IpcTypeOK
  PROVE  /\ writer.m_idx \in Nat /\ writer.m_idx >= 1 /\ writer.m_next_block \in 0..(m_blocks - 1)
         /\ writer.at \in {"start", "request", "fill", "fill2", "release"}
         /\ m_last_block_ack \in 0..(m_blocks - 1)
         /\ Len(ping) \in Nat /\ Len(pong) \in Nat
         /\ \A i \in 1..Len(ping) : ping[i] \in Messages
         /\ \A i \in 1..Len(pong) : pong[i] \in Messages
         /\ ipcReader.at \in {"start", "copy", "release"}
         /\ ipcReader.at # "start" => /\ ipcReader \in [at : {"copy", "release"}, message : Messages, copied : Seq(Nat),
                                                      m_next_block : 0..m_blocks - 1, m_idx : Nat]
                                      /\ ipcReader.message \in Messages
         /\ ipcReader.m_next_block \in 0..(m_blocks - 1) /\ ipcReader.m_idx \in Nat
         /\ Oldest \in Int
<1>1. Len(ping) \in Nat /\ Len(pong) \in Nat /\ (\A i \in 1..Len(ping) : ping[i] \in Messages)
      /\ (\A i \in 1..Len(pong) : pong[i] \in Messages)
  <2>1. ping \in Seq(Messages) /\ pong \in Seq(Messages) BY DEF IpcTypeOK
  <2> QED BY ONLY <2>1, LenProperties
<1>2. /\ writer.m_idx \in Nat /\ writer.m_idx >= 1 /\ writer.m_next_block \in 0..(m_blocks - 1)
      /\ writer.at \in {"start", "request", "fill", "fill2", "release"} /\ m_last_block_ack \in 0..(m_blocks - 1)
  BY DEF IpcTypeOK
<1>3. /\ ipcReader.at \in {"start", "copy", "release"}
      /\ ipcReader.at # "start" => /\ ipcReader \in [at : {"copy", "release"}, message : Messages, copied : Seq(Nat),
                                                   m_next_block : 0..m_blocks - 1, m_idx : Nat]
                                   /\ ipcReader.message \in Messages
      /\ ipcReader.m_next_block \in 0..(m_blocks - 1) /\ ipcReader.m_idx \in Nat
  BY DEF IpcTypeOK
<1>4. Oldest \in Int BY <1>1, <1>2 DEF Oldest
<1> QED BY <1>1, <1>2, <1>3, <1>4

LEMMA FillRange ==
  ASSUME IpcTypeOK
  PROVE  getBufferFill \in 0..(m_blocks - 1)
BY SetupSizes, TypeFacts, SMTT(30) DEF getBufferFill

\* What the writer takes for acknowledged, once it has seen the acknowledgement of a write.
LEMMA AckedIs ==
  ASSUME IpcTypeOK, Numbered, NEW n \in Nat, m_last_block_ack = n % m_blocks, 1 <= writer.m_idx - n, writer.m_idx - n <= m_blocks
  PROVE  getBufferFill = writer.m_idx - n - 1 /\ Acked = n
<1>1. writer.m_idx - n = (writer.m_idx % m_blocks) - (n % m_blocks)
                           + IF writer.m_idx % m_blocks <= n % m_blocks THEN m_blocks ELSE 0
  BY SetupSizes, TypeFacts, RoundDistance
<1>2. writer.m_next_block = writer.m_idx % m_blocks BY DEF Numbered
<1>a. writer.m_idx \in Nat /\ writer.m_next_block \in Int /\ m_last_block_ack \in Int /\ m_blocks \in Int
  BY SetupSizes, TypeFacts
<1>b. writer.m_idx - n = writer.m_next_block - m_last_block_ack
                           + IF writer.m_next_block <= m_last_block_ack THEN m_blocks ELSE 0
  BY <1>1, <1>2
<1>3. getBufferFill = writer.m_idx - n - 1 BY <1>a, <1>b DEF getBufferFill
<1> QED BY <1>3, TypeFacts, SMTT(30) DEF Acked

\* The writer never fills a block that is on its way or being read.
LEMMA BlockIsFree ==
  ASSUME IpcTypeOK, Numbered, AckedFirst, writer.at # "start", setup.writer = "waits" \/ m_blocks >= setup.messages + 2
  PROVE  /\ \A i \in 1..Len(ping) : ping[i].id # writer.m_next_block
         /\ ipcReader.at # "start" => ipcReader.message.id # writer.m_next_block
<1> DEFINE W == writer.m_idx
<1>1. W - Oldest < m_blocks
  <2>1. CASE setup.writer = "waits"
    <3>1. Acked < Oldest /\ getBufferFill < m_blocks - 1 BY <2>1, FillRange, SetupSizes DEF AckedFirst, WaitsForSpace
    <3> QED BY <3>1, FillRange, SetupSizes, TypeFacts DEF Acked
  <2>2. CASE m_blocks >= setup.messages + 2
    <3>1. Len(ping) <= setup.messages BY DEF Numbered
    <3>2. W - Oldest <= Len(ping) + 1 BY TypeFacts DEF Oldest
    <3>3. W \in Nat /\ Oldest \in Int /\ Len(ping) \in Nat BY TypeFacts
    <3>4. m_blocks \in Nat /\ setup.messages \in Nat BY SetupSizes
    <3> QED BY <2>2, <3>1, <3>2, <3>3, <3>4
  <2> QED BY <2>1, <2>2
<1>2. ASSUME NEW i \in 1..Len(ping) PROVE ping[i].id # writer.m_next_block
  <2>1. ping[i].idx = W - Len(ping) + i - 1 /\ ping[i].id = ping[i].idx % m_blocks /\ writer.m_next_block = W % m_blocks
    BY DEF Numbered
  <2>a. ping[i] \in Messages /\ Len(ping) \in Nat /\ W \in Nat /\ m_blocks \in Nat BY TypeFacts, SetupSizes
  <2>b. ping[i].idx \in Nat BY <2>a DEF Messages
  <2>c. Oldest <= W - Len(ping) /\ Oldest \in Int BY <2>a DEF Oldest
  <2>2. ping[i].idx \in Nat /\ 0 < W - ping[i].idx /\ W - ping[i].idx < m_blocks
    BY <1>1, <2>1, <2>a, <2>b, <2>c
  <2> QED BY <2>1, <2>2, BlocksApart, SetupSizes, TypeFacts
<1>3. ASSUME ipcReader.at # "start" PROVE ipcReader.message.id # writer.m_next_block
  <2>1. ipcReader.message.idx = Oldest /\ ipcReader.message.id = Oldest % m_blocks /\ writer.m_next_block = W % m_blocks
    BY <1>3 DEF Numbered
  <2>2. ipcReader.message.idx \in Nat BY <1>3, TypeFacts DEF Messages
  <2>3. 0 < W - Oldest BY <1>3, TypeFacts DEF Oldest
  <2> QED BY <1>1, <2>1, <2>2, <2>3, BlocksApart, SetupSizes, TypeFacts
<1> QED BY <1>2, <1>3

-----------------------------------------------------------------------------
\* The inductive invariant, action by action.
LEMMA IpcInitInv == IpcInit => IpcIInv
<1> SUFFICES ASSUME IpcInit PROVE IpcIInv
  OBVIOUS
<1>1. /\ m_blocks \in Nat /\ m_blocks > 1 /\ m_blocks = setup.blocks
      /\ setup.messages \in Nat /\ setup.writer \in {"waits", "writes", "server"} /\ setup \in IpcSetups
  BY IpcRingBufferAssumption DEF IpcInit, Setups, m_blocks
<1>2. ping = <<>> /\ pong = <<>> /\ Len(ping) = 0 /\ Len(pong) = 0 BY DEF IpcInit
<1>3. /\ writer.at = "start" /\ writer.m_next_block = 1 /\ writer.m_idx = 1 /\ ipcReader.at = "start" /\ m_last_block_ack = 0
  BY DEF IpcInit
<1>4. IpcTypeOK
  <2>1. m_memblock \in [0..m_blocks - 1 -> [1..2 -> Nat]] BY DEF IpcInit
  <2>2. ping \in Seq(Messages) /\ pong \in Seq(Messages) BY <1>2
  <2>3. /\ writer \in [at : {"start", "request", "fill", "fill2", "release"}, m_next_block : 0..m_blocks - 1, m_idx : Nat \ {0}]
        /\ ipcReader \in [at : {"start"}, m_next_block : 0..m_blocks - 1, m_idx : Nat]
    BY <1>1 DEF IpcInit
  <2> QED BY <1>1, <2>1, <2>2, <2>3 DEF IpcInit, IpcTypeOK
<1>5. Numbered
  <2>1. 1 % m_blocks = 1 BY <1>1
  <2> QED BY <1>1, <1>2, <1>3, <2>1 DEF Numbered
<1>6. AckedFirst BY <1>1, <1>2, <1>3 DEF AckedFirst, Acked, Oldest, getBufferFill
<1>7. Handed BY <1>2, <1>3 DEF Handed
<1>8. Noticed BY DEF IpcInit, Noticed, AckIsNoticed
<1> QED BY <1>4, <1>5, <1>6, <1>7, <1>8 DEF IpcIInv

\* Steps that touch no queue and no notification.
LEMMA NoticedSame ==
  ASSUME Noticed, UNCHANGED <<pong, registered, callbacks, noticing>>
  PROVE  Noticed'
BY DEF Noticed, AckIsNoticed

LEMMA NumberedSame ==
  ASSUME Numbered, UNCHANGED <<setup, ping, pong, ipcReader>>, writer'.m_idx = writer.m_idx, writer'.m_next_block = writer.m_next_block
  PROVE  Numbered' /\ Oldest' = Oldest
BY DEF Numbered, Oldest, m_blocks

\* The writer waits, asks for a block or gives up: its next block and number stay.
LEMMA WriterMoves ==
  ASSUME IpcIInv, IpcTypeOK', UNCHANGED <<setup, m_memblock, ping, pong, ipcReader, registered, callbacks, noticing>>,
         writer'.m_idx = writer.m_idx, writer'.m_next_block = writer.m_next_block, writer'.at \notin {"fill2", "release"},
         setup.writer = "waits" => m_last_block_ack' = m_last_block_ack /\ (writer'.at # "start" => ~WaitsForSpace)
  PROVE  IpcIInv'
<1> USE DEF IpcIInv
<1>1. Numbered' /\ Oldest' = Oldest BY NumberedSame
<1>2. AckedFirst'
  <2> SUFFICES ASSUME setup.writer = "waits" PROVE AckedFirst'
    BY DEF AckedFirst
  <2>1. getBufferFill' = getBufferFill /\ m_blocks' = m_blocks BY DEF getBufferFill, m_blocks
  <2>2. Acked' = Acked /\ WaitsForSpace' = WaitsForSpace BY <2>1 DEF Acked, WaitsForSpace
  <2> QED BY <1>1, <2>2 DEF AckedFirst
<1>3. Handed' BY DEF Handed, Holds, m_blocks
<1>4. Noticed' BY NoticedSame
<1> QED BY <1>1, <1>2, <1>3, <1>4

LEMMA WaitStep == ASSUME IpcIInv, waitForWrite PROVE IpcIInv'
<1> USE DEF IpcIInv
<1>1. UNCHANGED <<setup, m_memblock, ping, pong, registered, callbacks, noticing, m_last_block_ack, ipcReader, faults>>
  BY DEF waitForWrite
<1>2. /\ writer' \in [at : {"start", "request", "fill", "fill2", "release"}, m_next_block : 0..m_blocks - 1, m_idx : Nat \ {0}]
      /\ writer'.m_idx = writer.m_idx /\ writer'.m_next_block = writer.m_next_block
      /\ writer'.at \in {"start", "request"} /\ (writer'.at = "request" => ~WaitsForSpace) /\ m_activity' \in Nat
  <2>1. CASE ~WaitsForSpace /\ writer' = [writer EXCEPT !.at = "request"] /\ UNCHANGED m_activity
    BY <2>1 DEF IpcTypeOK
  <2>2. CASE WaitsForSpace /\ m_activity > 0 /\ m_activity' = m_activity - 1 /\ UNCHANGED writer
    <3>1. m_activity \in Nat /\ m_activity' \in Nat BY <2>2 DEF IpcTypeOK
    <3> QED BY <2>2, <3>1 DEF IpcTypeOK, waitForWrite
  <2> QED BY <2>1, <2>2 DEF waitForWrite
<1>3. IpcTypeOK' BY <1>1, <1>2 DEF IpcTypeOK, Messages, m_blocks
<1> QED BY <1>1, <1>2, <1>3, WriterMoves

LEMMA RequestStep == ASSUME IpcIInv, requestBlockForWrite PROVE IpcIInv'
<1> USE DEF IpcIInv
<1>1. UNCHANGED <<setup, m_memblock, ping, pong, registered, callbacks, noticing, m_activity, ipcReader, faults>>
  BY DEF requestBlockForWrite
<1>2. /\ writer' \in [at : {"start", "request", "fill", "fill2", "release"}, m_next_block : 0..m_blocks - 1, m_idx : Nat \ {0}]
      /\ writer'.m_idx = writer.m_idx /\ writer'.m_next_block = writer.m_next_block /\ writer'.at = "fill"
  BY DEF requestBlockForWrite, IpcTypeOK
<1>3. setup.writer = "waits" => m_last_block_ack' = m_last_block_ack /\ ~WaitsForSpace
  <2> SUFFICES ASSUME setup.writer = "waits" PROVE m_last_block_ack' = m_last_block_ack /\ ~WaitsForSpace
    OBVIOUS
  <2>1. writer.at = "request" BY DEF requestBlockForWrite
  <2>2. ~WaitsForSpace BY <2>1 DEF AckedFirst
  <2>3. writer.m_next_block # m_last_block_ack
    BY <2>2, SetupSizes, TypeFacts DEF WaitsForSpace, getBufferFill
  <2> QED BY <2>2, <2>3 DEF requestBlockForWrite
<1>4. m_last_block_ack' \in 0..(m_blocks - 1)
  BY SetupSizes, TypeFacts DEF requestBlockForWrite, Following
<1>5. IpcTypeOK' BY <1>1, <1>2, <1>4 DEF IpcTypeOK, Messages, m_blocks
<1> QED BY <1>1, <1>2, <1>3, <1>5, WriterMoves

LEMMA FillStep == ASSUME IpcIInv, Fill PROVE IpcIInv'
<1> USE DEF IpcIInv
<1> DEFINE half == IF writer.at = "fill" THEN 1 ELSE 2
           b == writer.m_next_block
           at == IF half = 1 THEN "fill2" ELSE "release"
<1>1. UNCHANGED <<setup, ping, pong, registered, callbacks, noticing, m_last_block_ack, m_activity, ipcReader, faults>>
  BY DEF Fill
<1>2. /\ writer.at \in {"fill", "fill2"} /\ m_memblock' = [m_memblock EXCEPT ![b][half] = writer.m_idx]
      /\ writer' = [writer EXCEPT !.at = at]
  BY DEF Fill
<1>3. half \in {1, 2} /\ at \in {"fill2", "release"} OBVIOUS
<1>4. /\ writer' \in [at : {"start", "request", "fill", "fill2", "release"}, m_next_block : 0..m_blocks - 1, m_idx : Nat \ {0}]
      /\ writer'.m_idx = writer.m_idx /\ writer'.m_next_block = b /\ writer'.at = at
  BY <1>2, <1>3 DEF IpcTypeOK
<1>5. /\ m_memblock \in [0..m_blocks - 1 -> [1..2 -> Nat]] /\ b \in 0..(m_blocks - 1) /\ writer.m_idx \in Nat
  BY TypeFacts DEF IpcTypeOK
<1>6. /\ m_memblock' \in [0..m_blocks - 1 -> [1..2 -> Nat]] /\ m_memblock'[b][half] = writer.m_idx
      /\ \A h \in {1, 2} : h # half => m_memblock'[b][h] = m_memblock[b][h]
      /\ \A c \in 0..(m_blocks - 1) : c # b => m_memblock'[c] = m_memblock[c]
  BY <1>2, <1>3, <1>5
<1>7. half = (IF writer.at = "fill" THEN 1 ELSE 2) /\ at = (IF half = 1 THEN "fill2" ELSE "release") OBVIOUS
<1> HIDE DEF half, at, b
<1>8. IpcTypeOK' BY <1>1, <1>4, <1>6 DEF IpcTypeOK, Messages, m_blocks
<1>9. Numbered' /\ Oldest' = Oldest BY <1>1, <1>4, NumberedSame DEF b
<1>10. AckedFirst'
  <2>1. getBufferFill' = getBufferFill /\ m_blocks' = m_blocks BY <1>1, <1>4 DEF getBufferFill, m_blocks, b
  <2>2. Acked' = Acked /\ WaitsForSpace' = WaitsForSpace BY <1>4, <2>1 DEF Acked, WaitsForSpace
  <2> QED BY <1>1, <1>2, <1>9, <2>2 DEF AckedFirst
<1>11. Handed'
  <2> SUFFICES ASSUME setup.writer = "waits" \/ m_blocks >= setup.messages + 2 PROVE Handed'
    BY <1>1 DEF Handed, m_blocks
  <2>1. /\ \A i \in 1..Len(ping) : ping[i].id # b
        /\ ipcReader.at # "start" => ipcReader.message.id # b
    BY <1>2, BlockIsFree DEF b
  <2>2. \A i \in 1..Len(ping) : ping[i].id \in 0..(m_blocks - 1) BY TypeFacts DEF Messages
  <2>3. ipcReader.at # "start" => ipcReader.message.id \in 0..(m_blocks - 1) BY TypeFacts DEF Messages
  <2>4. writer'.at \in {"fill2", "release"} => m_memblock'[writer'.m_next_block][1] = writer'.m_idx
    <3>1. CASE half = 1 BY <1>4, <1>6, <3>1
    <3>2. CASE half = 2
      <4>1. writer.at = "fill2" BY <1>2, <1>7, <3>2
      <4>2. m_memblock[b][1] = writer.m_idx BY <4>1 DEF Handed, b
      <4> QED BY <1>4, <1>6, <3>2, <4>2
    <3> QED BY <1>3, <3>1, <3>2
  <2>5. writer'.at = "release" => m_memblock'[writer'.m_next_block][2] = writer'.m_idx
    BY <1>3, <1>4, <1>6, <1>7
  <2>6. \A i \in 1..Len(ping) : Holds(ping[i].id, ping[i].idx)'
    BY <1>1, <1>6, <2>1, <2>2 DEF Handed, Holds
  <2>7. ipcReader.at # "start" => Holds(ipcReader.message.id, ipcReader.message.idx)'
    BY <1>1, <1>6, <2>1, <2>3 DEF Handed, Holds
  <2> QED BY <1>1, <2>4, <2>5, <2>6, <2>7 DEF Handed
<1>12. Noticed' BY <1>1, NoticedSame
<1> QED BY <1>8, <1>9, <1>10, <1>11, <1>12

LEMMA ReleaseWriteStep == ASSUME IpcIInv, releaseBlockForWrite PROVE IpcIInv'
<1> USE DEF IpcIInv
<1>1. UNCHANGED <<setup, m_memblock, pong, registered, callbacks, noticing, m_last_block_ack, m_activity, ipcReader>>
  BY DEF releaseBlockForWrite
<1>2. writer.at = "release" BY DEF releaseBlockForWrite
<1> DEFINE W == writer.m_idx
           b == writer.m_next_block
<1>3. CASE /\ ~canSend(ping) /\ writer' = [writer EXCEPT !.at = "start"] /\ UNCHANGED ping
           /\ faults' = IF Blocking THEN faults + 1 ELSE faults
  <2>1. /\ writer' \in [at : {"start", "request", "fill", "fill2", "release"}, m_next_block : 0..m_blocks - 1, m_idx : Nat \ {0}]
        /\ writer'.m_idx = writer.m_idx /\ writer'.m_next_block = writer.m_next_block /\ writer'.at = "start"
    BY <1>3 DEF IpcTypeOK
  <2>2. faults' \in Nat BY <1>3, SMTT(30) DEF IpcTypeOK
  <2>3. IpcTypeOK' BY <1>1, <1>3, <2>1, <2>2 DEF IpcTypeOK, Messages, m_blocks
  <2> QED BY <1>1, <1>3, <2>1, <2>3, WriterMoves
<1>4. CASE /\ canSend(ping) /\ UNCHANGED faults
           /\ ping' = Append(ping, [id |-> b, idx |-> W])
           /\ writer' = [at |-> "start", m_next_block |-> Following(b), m_idx |-> W + 1]
  <2>1. W \in Nat /\ b \in 0..(m_blocks - 1) /\ W % m_blocks = b /\ Len(ping) \in Nat /\ m_blocks \in Nat \ {0}
    BY TypeFacts, SetupSizes DEF Numbered
  <2>2. Following(b) \in 0..(m_blocks - 1) /\ Following(b) = (W + 1) % m_blocks
    <3>1. (W + 1) % m_blocks = IF (W % m_blocks) + 1 = m_blocks THEN 0 ELSE (W % m_blocks) + 1
      <4> HIDE DEF W
      <4> QED BY <2>1, NextRemainder
    <3> HIDE DEF W, b
    <3>2. (W + 1) % m_blocks = Following(b) BY <2>1, <3>1 DEF Following
    <3> QED BY <2>1, <3>2 DEF Following
  <2>3. /\ writer'.at = "start" /\ writer'.m_next_block = Following(b) /\ writer'.m_idx = W + 1
        /\ writer' \in [at : {"start", "request", "fill", "fill2", "release"}, m_next_block : 0..m_blocks - 1, m_idx : Nat \ {0}]
    BY <1>4, <2>1, <2>2
  <2> DEFINE m == [id |-> b, idx |-> W]
  <2>4. m \in Messages /\ m.id = b /\ m.idx = W BY <2>1 DEF Messages
  <2> HIDE DEF m
  <2>5. /\ ping' \in Seq(Messages) /\ Len(ping') = Len(ping) + 1
        /\ \A i \in 1..Len(ping) : ping'[i] = ping[i]
        /\ ping'[Len(ping) + 1] = m
    <3>1. ping \in Seq(Messages) /\ ping' = Append(ping, m) BY <1>4 DEF IpcTypeOK, m
    <3> QED BY <2>4, <3>1, AppendProperties
  <2> HIDE DEF W, b
  <2>6. IpcTypeOK' BY <1>1, <1>4, <2>3, <2>5 DEF IpcTypeOK, Messages, m_blocks
  <2>7. m_blocks' = m_blocks /\ Oldest' = Oldest
    BY <1>1, <2>1, <2>3, <2>5 DEF Oldest, m_blocks, W
  <2>8. \A i \in 1..Len(ping') : i \in 1..Len(ping) \/ i = Len(ping) + 1 BY <2>1, <2>5
  <2>9. Numbered'
    <3>1. Len(ping') <= setup'.messages BY <1>1, <1>4, <2>1, <2>5, SetupSizes DEF canSend
    <3>2. ASSUME NEW i \in 1..Len(ping')
          PROVE  ping'[i].idx = writer'.m_idx - Len(ping') + i - 1 /\ ping'[i].id = ping'[i].idx % m_blocks
      <4>1. CASE i \in 1..Len(ping)
        <5>1. ping[i].idx = W - Len(ping) + i - 1 /\ ping[i].id = ping[i].idx % m_blocks BY <4>1 DEF Numbered, W
        <5>2. ping'[i] = ping[i] BY <2>5, <4>1
        <5>3. W - Len(ping) + i - 1 = writer'.m_idx - Len(ping') + i - 1
          <6>1. W \in Int /\ Len(ping) \in Int /\ i \in Int BY <2>1, <4>1
          <6>2. writer'.m_idx = W + 1 /\ Len(ping') = Len(ping) + 1 BY <2>3, <2>5
          <6> QED BY ONLY <6>1, <6>2
        <5> QED BY ONLY <5>1, <5>2, <5>3
      <4>2. CASE i = Len(ping) + 1
        <5>1. ping'[i].idx = W /\ ping'[i].id = b BY <2>4, <2>5, <4>2
        <5>2. W = writer'.m_idx - Len(ping') + i - 1 BY <2>1, <2>3, <2>5, <4>2
        <5> QED BY <2>1, <5>1, <5>2
      <4> QED BY <2>8, <4>1, <4>2
    <3>3. \A i \in 1..Len(pong) : /\ pong[i].idx < Oldest
                                  /\ pong[i].id = pong[i].idx % m_blocks
                                  /\ \A j \in 1..(i - 1) : pong[j].idx < pong[i].idx
      BY DEF Numbered
    <3>4. ipcReader.at # "start" => ipcReader.message.idx = Oldest /\ ipcReader.message.id = Oldest % m_blocks
      BY DEF Numbered
    <3> QED BY <1>1, <2>2, <2>3, <2>7, <3>1, <3>2, <3>3, <3>4 DEF Numbered
  <2>10. AckedFirst'
    <3> SUFFICES ASSUME setup.writer = "waits" PROVE AckedFirst'
      BY <1>1 DEF AckedFirst
    <3>1. getBufferFill < m_blocks - 1 BY <1>2, FillRange, SetupSizes DEF AckedFirst, WaitsForSpace
    <3>2. getBufferFill' = getBufferFill + 1
      <4>1. m_last_block_ack' = m_last_block_ack /\ m_last_block_ack \in 0..(m_blocks - 1) BY <1>1, TypeFacts
      <4>2. getBufferFill = b - m_last_block_ack - 1 + (IF b <= m_last_block_ack THEN m_blocks ELSE 0)
        BY DEF getBufferFill, b
      <4>3. getBufferFill' = Following(b) - m_last_block_ack - 1 + (IF Following(b) <= m_last_block_ack THEN m_blocks ELSE 0)
        BY <2>3, <2>7, <4>1 DEF getBufferFill
      <4> QED BY <2>1, <3>1, <4>1, <4>2, <4>3 DEF Following
    <3>3. Acked' = Acked BY <2>1, <2>3, <3>2, FillRange, SMTT(30) DEF Acked, W
    <3> QED BY <1>1, <2>3, <2>7, <3>3 DEF AckedFirst
  <2>11. Handed'
    <3> SUFFICES ASSUME setup.writer = "waits" \/ m_blocks >= setup.messages + 2 PROVE Handed'
      BY <1>1 DEF Handed, m_blocks
    <3>1. m_memblock[b][1] = W /\ m_memblock[b][2] = W BY <1>2 DEF Handed, W, b
    <3>2. \A i \in 1..Len(ping) : Holds(ping[i].id, ping[i].idx) BY DEF Handed
    <3>3. \A i \in 1..Len(ping') : Holds(ping[i].id, ping[i].idx)'
      BY <1>1, <2>4, <2>5, <2>8, <3>1, <3>2 DEF Holds
    <3> QED BY <1>1, <2>3, <3>3 DEF Handed, Holds
  <2>12. Noticed' BY <1>1, NoticedSame
  <2> QED BY <2>6, <2>9, <2>10, <2>11, <2>12
<1> QED BY <1>3, <1>4 DEF releaseBlockForWrite

LEMMA RequestReadStep == ASSUME IpcIInv, requestBlockForRead PROVE IpcIInv'
<1> USE DEF IpcIInv
<1> DEFINE m == ping[1]
           W == writer.m_idx
<1>1. UNCHANGED <<setup, m_memblock, pong, registered, callbacks, noticing, writer, m_last_block_ack, m_activity, faults>>
  BY DEF requestBlockForRead
<1>2. ping \in Seq(Messages) /\ ping # <<>> /\ Len(ping) \in Nat /\ Len(ping) >= 1 /\ W \in Nat
  BY TypeFacts DEF requestBlockForRead, canReceive, IpcTypeOK
<1>3. m \in Messages /\ m.idx = W - Len(ping) /\ m.id = m.idx % m_blocks
  <2>1. 1 \in 1..Len(ping) BY <1>2
  <2>2. m \in Messages BY <2>1, TypeFacts
  <2>3. m.idx = W - Len(ping) + 1 - 1 /\ m.id = m.idx % m_blocks BY <2>1 DEF Numbered
  <2> QED BY <1>2, <2>2, <2>3
<1>4. /\ ping' = Tail(ping) /\ ping' \in Seq(Messages) /\ Len(ping') = Len(ping) - 1
      /\ \A i \in 1..Len(ping') : ping'[i] = ping[i + 1]
  BY <1>2, HeadTailProperties DEF requestBlockForRead
<1>5. Head(ping) = m BY <1>2
<1> HIDE DEF m, W
<1>6. /\ ipcReader.at = "start" /\ ipcReader'.at = "copy" /\ ipcReader'.message = m /\ ipcReader'.copied = <<>>
      /\ ipcReader' = [at |-> "copy", message |-> m, copied |-> <<>>, m_next_block |-> ipcReader.m_next_block, m_idx |-> ipcReader.m_idx]
  BY <1>5 DEF requestBlockForRead
<1>7. IpcTypeOK'
  <2>1. ipcReader' \in [at : {"copy", "release"}, message : Messages, copied : Seq(Nat),
                        m_next_block : 0..m_blocks - 1, m_idx : Nat]
    BY <1>3, <1>6, TypeFacts
  <2> QED BY <1>1, <1>4, <1>6, <2>1 DEF IpcTypeOK, Messages, m_blocks
<1>8. m_blocks' = m_blocks /\ Oldest' = Oldest /\ Oldest = m.idx
  BY <1>1, <1>2, <1>3, <1>4, <1>6 DEF Oldest, m_blocks, W
<1>9. Numbered'
  <2>1. ASSUME NEW i \in 1..Len(ping')
        PROVE  ping'[i].idx = W - Len(ping') + i - 1 /\ ping'[i].id = ping'[i].idx % m_blocks
    <3>1. i + 1 \in 1..Len(ping) /\ i \in Nat BY <1>2, <1>4
    <3>2. ping[i + 1].idx = W - Len(ping) + (i + 1) - 1 /\ ping[i + 1].id = ping[i + 1].idx % m_blocks
      BY <3>1 DEF Numbered, W
    <3> QED BY <1>2, <1>4, <3>1, <3>2
  <2>2. Len(ping') <= setup.messages BY <1>2, <1>4, SetupSizes DEF Numbered
  <2>3. \A i \in 1..Len(pong) : /\ pong[i].idx < Oldest
                                /\ pong[i].id = pong[i].idx % m_blocks
                                /\ \A j \in 1..(i - 1) : pong[j].idx < pong[i].idx
    BY DEF Numbered
  <2>4. writer.m_next_block = writer.m_idx % m_blocks BY DEF Numbered
  <2> QED BY <1>1, <1>3, <1>6, <1>8, <2>1, <2>2, <2>3, <2>4 DEF Numbered, W
<1>10. AckedFirst'
  <2>1. getBufferFill' = getBufferFill BY <1>1 DEF getBufferFill, m_blocks
  <2> QED BY <1>1, <1>8, <2>1 DEF AckedFirst, Acked, WaitsForSpace
<1>11. Handed'
  <2> SUFFICES ASSUME setup.writer = "waits" \/ m_blocks >= setup.messages + 2 PROVE Handed'
    BY <1>1 DEF Handed, m_blocks
  <2>1. \A i \in 1..Len(ping) : Holds(ping[i].id, ping[i].idx) BY DEF Handed
  <2>2. Holds(m.id, m.idx) BY <1>2, <2>1 DEF m
  <2>3. \A i \in 1..Len(ping') : i + 1 \in 1..Len(ping) BY <1>2, <1>4
  <2>4. \A i \in 1..Len(ping') : Holds(ping[i].id, ping[i].idx)' BY <1>1, <1>4, <2>1, <2>3 DEF Holds
  <2>5. Holds(ipcReader.message.id, ipcReader.message.idx)' BY <1>1, <1>6, <2>2 DEF Holds
  <2>6. /\ writer.at \in {"fill2", "release"} => m_memblock[writer.m_next_block][1] = writer.m_idx
        /\ writer.at = "release" => m_memblock[writer.m_next_block][2] = writer.m_idx
    BY DEF Handed
  <2> QED BY <1>1, <1>6, <2>4, <2>5, <2>6 DEF Handed
<1>12. Noticed' BY <1>1, NoticedSame
<1> QED BY <1>7, <1>9, <1>10, <1>11, <1>12

LEMMA AppendToOne == ASSUME NEW v PROVE Append(<<v>>, v) = <<v, v>>
<1>1. <<v>> \in Seq({v}) /\ Len(<<v>>) = 1 /\ <<v>>[1] = v OBVIOUS
<1>2. <<v, v>> \in Seq({v}) /\ Len(<<v, v>>) = 2 /\ <<v, v>>[1] = v /\ <<v, v>>[2] = v OBVIOUS
<1>3. Append(<<v>>, v) \in Seq({v}) /\ Len(Append(<<v>>, v)) = 2 /\ Append(<<v>>, v)[1] = v /\ Append(<<v>>, v)[2] = v
  BY <1>1, AppendProperties
<1> DEFINE s == Append(<<v>>, v)
           t == <<v, v>>
<1>4. s \in Seq({v}) /\ t \in Seq({v}) /\ Len(s) = 2 /\ Len(t) = 2 /\ s[1] = t[1] /\ s[2] = t[2] BY <1>2, <1>3
<1> HIDE DEF s, t
<1>5. \A i \in 1..Len(s) : s[i] = t[i] BY <1>4
<1>6. s = t BY <1>4, <1>5, SeqEqual
<1> QED BY <1>6 DEF s, t

LEMMA CopyStep == ASSUME IpcIInv, Copy PROVE IpcIInv'
<1> USE DEF IpcIInv
<1> DEFINE half == Len(ipcReader.copied) + 1
           m == ipcReader.message
           x == m_memblock[m.id][half]
           at == IF half = 2 THEN "release" ELSE "copy"
<1>1. /\ UNCHANGED <<setup, m_memblock, ping, pong, registered, callbacks, noticing, writer, m_last_block_ack, m_activity, faults>>
      /\ ipcReader.at = "copy" /\ ipcReader' = [ipcReader EXCEPT !.copied = Append(ipcReader.copied, x), !.at = at]
  BY DEF Copy
<1>2. /\ m \in Messages /\ ipcReader.copied \in Seq(Nat)
      /\ ipcReader \in [at : {"copy", "release"}, message : Messages, copied : Seq(Nat), m_next_block : 0..m_blocks - 1, m_idx : Nat]
  BY <1>1, TypeFacts
<1>3. half \in {1, 2}
  <2> DEFINE n == Len(ipcReader.copied)
  <2>1. n \in {0, 1} BY <1>1 DEF IpcTypeOK
  <2> HIDE DEF n
  <2>2. n + 1 \in {1, 2} BY <2>1
  <2> QED BY <2>2 DEF n
<1>4. x \in Nat
  <2>1. m_memblock \in [0..m_blocks - 1 -> [1..2 -> Nat]] /\ m.id \in 0..m_blocks - 1 BY <1>2 DEF IpcTypeOK, Messages
  <2> HIDE DEF half, m
  <2> QED BY <1>3, <2>1
<1>5. at = IF half = 2 THEN "release" ELSE "copy" OBVIOUS
<1>6. half = Len(ipcReader.copied) + 1 OBVIOUS
<1>7. x = m_memblock[m.id][half] OBVIOUS
<1> HIDE DEF half, x, at, m
<1>8. /\ Append(ipcReader.copied, x) \in Seq(Nat) /\ Len(Append(ipcReader.copied, x)) = half
  BY <1>2, <1>4, <1>6, AppendProperties
<1>9. /\ ipcReader' \in [at : {"copy", "release"}, message : Messages, copied : Seq(Nat), m_next_block : 0..m_blocks - 1, m_idx : Nat]
      /\ ipcReader'.at = at /\ ipcReader'.copied = Append(ipcReader.copied, x) /\ ipcReader'.message = m
  BY <1>1, <1>2, <1>5, <1>8 DEF m
<1>10. at # "start" /\ ipcReader.at # "start" /\ (at = "copy" => half = 1) /\ (at = "release" => half = 2) BY <1>1, <1>3, <1>5
<1>11. IpcTypeOK'
  <2>1. ipcReader'.at = "copy" => Len(ipcReader'.copied) \in {0, 1} BY <1>8, <1>9, <1>10
  <2> QED BY <1>1, <1>9, <2>1 DEF IpcTypeOK, Messages, m_blocks
<1>12. Oldest' = Oldest /\ m_blocks' = m_blocks BY <1>1, <1>9, <1>10 DEF Oldest, m_blocks
<1>13. Numbered' BY <1>1, <1>9, <1>10, <1>12 DEF Numbered, m
<1>14. AckedFirst'
  <2>1. getBufferFill' = getBufferFill BY <1>1 DEF getBufferFill, m_blocks
  <2> QED BY <1>1, <1>12, <2>1 DEF AckedFirst, Acked, WaitsForSpace
<1>15. Handed'
  <2> SUFFICES ASSUME setup.writer = "waits" \/ m_blocks >= setup.messages + 2 PROVE Handed'
    BY <1>1 DEF Handed, m_blocks
  <2>1. Holds(m.id, m.idx) BY <1>10 DEF Handed, m
  <2>2. x = m.idx BY <1>3, <1>7, <2>1 DEF Holds
  <2>3. ipcReader.copied \in {<<>>, <<m.idx>>} BY <1>1 DEF Handed, m
  <2>4. half = 1 => ipcReader'.copied = <<m.idx>>
    <3> SUFFICES ASSUME half = 1 PROVE ipcReader'.copied = <<m.idx>>
      OBVIOUS
    <3>1. ipcReader.copied = <<>> BY <1>2, <1>6, <2>3
    <3> QED BY <1>9, <2>2, <3>1
  <2>5. half = 2 => ipcReader'.copied = <<m.idx, m.idx>>
    <3> SUFFICES ASSUME half = 2 PROVE ipcReader'.copied = <<m.idx, m.idx>>
      OBVIOUS
    <3>1. ipcReader.copied = <<m.idx>> BY <1>2, <1>6, <2>3
    <3> QED BY <1>9, <2>2, <3>1, AppendToOne
  <2>6. \A i \in 1..Len(ping) : Holds(ping[i].id, ping[i].idx) BY DEF Handed
  <2>7. \A i \in 1..Len(ping') : Holds(ping[i].id, ping[i].idx)' BY <1>1, <2>6 DEF Holds
  <2>8. Holds(ipcReader.message.id, ipcReader.message.idx)' BY <1>1, <1>9, <2>1 DEF Holds
  <2>9. /\ writer.at \in {"fill2", "release"} => m_memblock[writer.m_next_block][1] = writer.m_idx
        /\ writer.at = "release" => m_memblock[writer.m_next_block][2] = writer.m_idx
    BY DEF Handed
  <2> QED BY <1>1, <1>3, <1>9, <1>10, <2>4, <2>5, <2>7, <2>8, <2>9 DEF Handed
<1>16. Noticed' BY <1>1, NoticedSame
<1> QED BY <1>11, <1>13, <1>14, <1>15, <1>16

\* The reader has nothing any more; the queue of acknowledgements is as it was.
LEMMA ReaderLeaves ==
  ASSUME IpcIInv, IpcTypeOK', UNCHANGED <<setup, m_memblock, pong, registered, callbacks, noticing, writer, m_last_block_ack>>,
         ipcReader'.at = "start", ping' = ping \/ ping' = <<>>
  PROVE  IpcIInv'
<1> USE DEF IpcIInv
<1>1. Len(ping') \in Nat /\ Len(ping) \in Nat /\ Len(ping') <= Len(ping) /\ (ping' = ping \/ Len(ping') = 0)
  BY TypeFacts
<1>2. m_blocks' = m_blocks /\ Oldest' \in Int /\ Oldest \in Int /\ Oldest <= Oldest'
  BY <1>1, TypeFacts DEF m_blocks, Oldest
<1>3. \A i \in 1..Len(ping') : ping'[i] = ping[i] /\ i \in 1..Len(ping) /\ Len(ping') = Len(ping) BY <1>1
<1>4. Numbered'
  <2>1. ASSUME NEW i \in 1..Len(pong)
        PROVE  /\ pong[i].idx < Oldest' /\ pong[i].id = pong[i].idx % m_blocks
               /\ \A j \in 1..(i - 1) : pong[j].idx < pong[i].idx
    <3>1. pong[i].idx < Oldest /\ pong[i].idx \in Nat BY TypeFacts DEF Numbered, Messages
    <3> QED BY <1>2, <3>1 DEF Numbered
  <2>2. \A i \in 1..Len(ping') : /\ ping'[i].idx = writer.m_idx - Len(ping') + i - 1
                                 /\ ping'[i].id = ping'[i].idx % m_blocks
    BY <1>3 DEF Numbered
  <2>3. Len(ping') <= setup.messages BY <1>1, SetupSizes DEF Numbered
  <2>4. writer.m_next_block = writer.m_idx % m_blocks BY DEF Numbered
  <2> QED BY <1>2, <2>1, <2>2, <2>3, <2>4 DEF Numbered
<1>5. AckedFirst'
  <2>1. getBufferFill' = getBufferFill BY DEF getBufferFill, m_blocks
  <2>2. Acked' = Acked /\ WaitsForSpace' = WaitsForSpace BY <1>2, <2>1 DEF Acked, WaitsForSpace
  <2>3. Acked \in Int BY FillRange, TypeFacts, SetupSizes DEF Acked
  <2> QED BY <1>2, <2>2, <2>3 DEF AckedFirst
<1>6. Handed'
  <2> SUFFICES ASSUME setup.writer = "waits" \/ m_blocks >= setup.messages + 2 PROVE Handed'
    BY DEF Handed, m_blocks
  <2>1. \A i \in 1..Len(ping) : Holds(ping[i].id, ping[i].idx) BY DEF Handed
  <2>2. \A i \in 1..Len(ping') : Holds(ping[i].id, ping[i].idx)' BY <1>3, <2>1 DEF Holds
  <2>3. /\ writer.at \in {"fill2", "release"} => m_memblock[writer.m_next_block][1] = writer.m_idx
        /\ writer.at = "release" => m_memblock[writer.m_next_block][2] = writer.m_idx
    BY DEF Handed
  <2> QED BY <2>2, <2>3 DEF Handed
<1>7. Noticed' BY NoticedSame
<1> QED BY <1>4, <1>5, <1>6, <1>7

LEMMA RestartStep == ASSUME IpcIInv, RestartReader PROVE IpcIInv'
<1> USE DEF IpcIInv
<1>1. /\ UNCHANGED <<setup, m_memblock, pong, registered, callbacks, noticing, writer, m_last_block_ack, m_activity>>
      /\ ping' = <<>> /\ ipcReader' = [at |-> "start", m_next_block |-> 1, m_idx |-> 1]
  BY DEF RestartReader
<1>2. ipcReader'.at = "start" /\ ipcReader' \in [at : {"start"}, m_next_block : 0..m_blocks - 1, m_idx : Nat]
  BY <1>1, SetupSizes
<1>3. faults' \in Nat
  <2>1. faults \in Nat BY DEF IpcTypeOK
  <2>2. faults' = faults + 1 BY DEF RestartReader
  <2> QED BY ONLY <2>1, <2>2
<1>4. ping' \in Seq(Messages) BY <1>1
<1>5. IpcTypeOK' BY <1>1, <1>2, <1>3, <1>4 DEF IpcTypeOK, Messages, m_blocks
<1> QED BY <1>1, <1>2, <1>5, ReaderLeaves

LEMMA ReleaseReadStep == ASSUME IpcIInv, releaseBlockForRead PROVE IpcIInv'
<1> USE DEF IpcIInv
<1> DEFINE m == ipcReader.message
           next == [at |-> "start", m_next_block |-> Following(m.id), m_idx |-> m.idx + 1]
           same == [at |-> "start", m_next_block |-> ipcReader.m_next_block, m_idx |-> ipcReader.m_idx]
<1>1. /\ UNCHANGED <<setup, m_memblock, ping, noticing, writer, m_last_block_ack, m_activity>>
      /\ ipcReader.at = "release"
  BY DEF releaseBlockForRead
<1>2. m \in Messages /\ m.idx = Oldest /\ m.id = m.idx % m_blocks /\ m.idx \in Nat /\ m.id \in 0..(m_blocks - 1)
  BY <1>1, TypeFacts DEF Numbered, Messages
<1>3. CASE /\ ~canSend(pong) /\ ipcReader' = same /\ UNCHANGED <<pong, registered, callbacks>>
           /\ faults' = IF setup.reader = "blocking" THEN faults + 1 ELSE faults
  <2>1. ipcReader'.at = "start" /\ ipcReader' \in [at : {"start"}, m_next_block : 0..m_blocks - 1, m_idx : Nat]
    BY <1>3, TypeFacts
  <2>2. faults' \in Nat BY <1>3 DEF IpcTypeOK
  <2>3. IpcTypeOK' BY <1>1, <1>3, <2>1, <2>2 DEF IpcTypeOK, Messages, m_blocks
  <2> QED BY <1>1, <1>3, <2>1, <2>3, ReaderLeaves
<1>4. CASE canSend(pong) /\ Send_pong(m) /\ ipcReader' = next /\ UNCHANGED faults
  <2>1. ipcReader'.at = "start" /\ ipcReader' \in [at : {"start"}, m_next_block : 0..m_blocks - 1, m_idx : Nat]
    <3>1. Following(m.id) \in 0..(m_blocks - 1) BY <1>2, SetupSizes DEF Following
    <3> QED BY <1>2, <1>4, <3>1
  <2>2. pong' = Append(pong, m) BY <1>4 DEF Send_pong
  <2> HIDE DEF m
  <2>3. /\ pong' \in Seq(Messages) /\ pong' # <<>> /\ Len(pong') = Len(pong) + 1
        /\ \A i \in 1..Len(pong) : pong'[i] = pong[i]
        /\ pong'[Len(pong) + 1] = m
    <3>1. pong \in Seq(Messages) BY DEF IpcTypeOK
    <3> QED BY <1>2, <2>2, <3>1, AppendProperties
  <2>4. registered' \in BOOLEAN /\ callbacks' \in Nat
    <3>1. registered \in BOOLEAN /\ callbacks \in Nat BY DEF IpcTypeOK
    <3>2. CASE registered /\ pong = <<>>
      <4>1. registered' = FALSE /\ callbacks' = callbacks + 1 BY <1>4, <3>2 DEF Send_pong
      <4>2. registered' \in BOOLEAN BY <4>1, Zenon
      <4>3. callbacks' \in Nat BY <3>1, <4>1
      <4> QED BY <4>2, <4>3
    <3>3. CASE ~(registered /\ pong = <<>>) BY <1>4, <3>1, <3>3 DEF Send_pong
    <3> QED BY <3>2, <3>3
  <2>5. IpcTypeOK' BY <1>1, <1>4, <2>1, <2>3, <2>4 DEF IpcTypeOK, Messages, m_blocks
  <2>6. Len(pong) \in Nat /\ \A i \in 1..Len(pong') : i \in 1..Len(pong) \/ i = Len(pong) + 1 BY <2>3, TypeFacts
  <2>7. m_blocks' = m_blocks /\ Oldest' = Oldest + 1 /\ Oldest \in Int
    BY <1>1, <2>1, TypeFacts DEF m_blocks, Oldest
  <2>8. \A i \in 1..Len(pong) : pong[i].idx \in Nat /\ pong[i].idx < m.idx
    BY <1>2, TypeFacts DEF Numbered, Messages
  <2>9. Numbered'
    <3>1. ASSUME NEW i \in 1..Len(pong')
          PROVE  /\ pong'[i].idx < Oldest' /\ pong'[i].id = pong'[i].idx % m_blocks
                 /\ \A j \in 1..(i - 1) : pong'[j].idx < pong'[i].idx
      <4>1. CASE i \in 1..Len(pong)
        <5>1. \A j \in 1..(i - 1) : j \in 1..Len(pong) BY <2>6, <4>1
        <5>2. pong'[i] = pong[i] /\ \A j \in 1..(i - 1) : pong'[j] = pong[j] BY <2>3, <4>1, <5>1
        <5>3. /\ pong[i].id = pong[i].idx % m_blocks
              /\ \A j \in 1..(i - 1) : pong[j].idx < pong[i].idx
          BY <4>1 DEF Numbered
        <5>4. pong[i].idx < Oldest' BY <1>2, <2>7, <2>8, <4>1
        <5> QED BY <5>2, <5>3, <5>4
      <4>2. CASE i = Len(pong) + 1
        <5>1. \A j \in 1..(i - 1) : j \in 1..Len(pong) BY <2>6, <4>2
        <5>2. pong'[i] = m BY <2>3, <4>2
        <5>3. m.idx < Oldest' /\ m.id = m.idx % m_blocks BY <1>2, <2>7
        <5>4. \A j \in 1..(i - 1) : pong'[j].idx < m.idx BY <2>3, <2>8, <5>1
        <5> QED BY <5>2, <5>3, <5>4
      <4> QED BY <2>6, <4>1, <4>2
    <3>2. /\ Len(ping) <= setup.messages /\ writer.m_next_block = writer.m_idx % m_blocks
          /\ \A i \in 1..Len(ping) : /\ ping[i].idx = writer.m_idx - Len(ping) + i - 1
                                     /\ ping[i].id = ping[i].idx % m_blocks
      BY DEF Numbered
    <3> QED BY <1>1, <2>1, <2>7, <3>1, <3>2 DEF Numbered
  <2>10. AckedFirst'
    <3> SUFFICES ASSUME setup.writer = "waits" PROVE AckedFirst'
      BY <1>1 DEF AckedFirst
    <3>1. getBufferFill' = getBufferFill BY <1>1 DEF getBufferFill, m_blocks
    <3>2. Acked' = Acked /\ WaitsForSpace' = WaitsForSpace BY <1>1, <2>7, <3>1 DEF Acked, WaitsForSpace
    <3>3. Acked \in Int BY FillRange, TypeFacts, SetupSizes DEF Acked
    <3>4. Acked < Oldest /\ \A i \in 1..Len(pong) : Acked < pong[i].idx BY DEF AckedFirst
    <3>5. \A i \in 1..Len(pong') : Acked < pong'[i].idx BY <1>2, <2>3, <2>6, <3>4
    <3>6. Acked < Oldest' BY <2>7, <3>3, <3>4
    <3> QED BY <1>1, <3>2, <3>5, <3>6 DEF AckedFirst
  <2>11. Handed'
    <3> SUFFICES ASSUME setup.writer = "waits" \/ m_blocks >= setup.messages + 2 PROVE Handed'
      BY <1>1 DEF Handed, m_blocks
    <3>1. \A i \in 1..Len(ping) : Holds(ping[i].id, ping[i].idx) BY DEF Handed
    <3>2. \A i \in 1..Len(ping') : Holds(ping[i].id, ping[i].idx)' BY <1>1, <3>1 DEF Holds
    <3>3. /\ writer.at \in {"fill2", "release"} => m_memblock[writer.m_next_block][1] = writer.m_idx
          /\ writer.at = "release" => m_memblock[writer.m_next_block][2] = writer.m_idx
      BY DEF Handed
    <3> QED BY <1>1, <2>1, <3>2, <3>3 DEF Handed
  <2>12. Noticed'
    <3>1. CASE registered /\ pong = <<>>
      <4>1. callbacks' > 0 BY <1>4, <3>1 DEF Send_pong, IpcTypeOK
      <4> QED BY <4>1 DEF Noticed, AckIsNoticed
    <3>2. CASE ~(registered /\ pong = <<>>)
      <4>1. registered' = registered /\ callbacks' = callbacks BY <1>4, <3>2 DEF Send_pong
      <4> QED BY <1>1, <3>2, <4>1 DEF Noticed, AckIsNoticed
    <3> QED BY <3>1, <3>2
  <2> QED BY <2>5, <2>9, <2>10, <2>11, <2>12
<1> QED BY <1>3, <1>4 DEF releaseBlockForRead

LEMMA NotifyStep == ASSUME IpcIInv, notifyCallback \/ enableNotification PROVE IpcIInv'
<1> USE DEF IpcIInv
<1>1. UNCHANGED <<setup, m_memblock, ping, pong, writer, m_last_block_ack, m_activity, ipcReader, faults>>
  BY DEF notifyCallback, enableNotification
<1>2. registered' \in BOOLEAN /\ callbacks' \in Nat /\ noticing' \in {"enable", "drain"}
  <2>1. registered \in BOOLEAN /\ callbacks \in Nat BY DEF IpcTypeOK
  <2>2. CASE notifyCallback BY <2>1, <2>2 DEF notifyCallback
  <2>3. CASE enableNotification BY <2>1, <2>3 DEF enableNotification
  <2> QED BY <2>2, <2>3
<1>3. IpcTypeOK' BY <1>1, <1>2 DEF IpcTypeOK, Messages, m_blocks
<1>4. Numbered' /\ Oldest' = Oldest BY <1>1, NumberedSame
<1>5. AckedFirst'
  <2>1. getBufferFill' = getBufferFill /\ m_blocks' = m_blocks BY <1>1 DEF getBufferFill, m_blocks
  <2> QED BY <1>1, <1>4, <2>1 DEF AckedFirst, Acked, WaitsForSpace
<1>6. Handed' BY <1>1 DEF Handed, Holds, m_blocks
<1>7. Noticed' BY <1>2 DEF Noticed, AckIsNoticed, notifyCallback, enableNotification
<1> QED BY <1>3, <1>4, <1>5, <1>6, <1>7

LEMMA DrainStep == ASSUME IpcIInv, Drain PROVE IpcIInv'
<1> USE DEF IpcIInv
<1>1. UNCHANGED <<setup, m_memblock, ping, registered, callbacks, writer, ipcReader, faults>> /\ noticing = "drain"
  BY DEF Drain
<1>2. m_blocks' = m_blocks /\ Oldest' = Oldest BY <1>1 DEF m_blocks, Oldest
<1>3. CASE ~canReceive(pong) /\ noticing' = "no" /\ UNCHANGED <<pong, m_last_block_ack, m_activity>>
  <2>1. IpcTypeOK' BY <1>1, <1>3 DEF IpcTypeOK, Messages, m_blocks
  <2>2. Numbered' BY <1>1, <1>3, NumberedSame
  <2>3. AckedFirst'
    <3>1. getBufferFill' = getBufferFill BY <1>1, <1>3 DEF getBufferFill, m_blocks
    <3> QED BY <1>1, <1>2, <1>3, <3>1 DEF AckedFirst, Acked, WaitsForSpace
  <2>4. Handed' BY <1>1 DEF Handed, Holds, m_blocks
  <2>5. pong = <<>> BY <1>3, EmptySeq DEF canReceive, IpcTypeOK
  <2>6. Noticed' BY <1>1, <1>3, <2>5 DEF Noticed, AckIsNoticed
  <2> QED BY <2>1, <2>2, <2>3, <2>4, <2>6
<1>4. CASE /\ canReceive(pong) /\ pong' = Tail(pong) /\ m_last_block_ack' = Head(pong).id /\ UNCHANGED noticing
           /\ m_activity' = IF Blocking THEN m_activity + 1 ELSE m_activity
  <2> DEFINE m == pong[1]
             W == writer.m_idx
  <2>1. pong \in Seq(Messages) /\ pong # <<>> /\ Len(pong) \in Nat /\ Len(pong) >= 1 /\ W \in Nat
    BY <1>4, TypeFacts DEF canReceive, IpcTypeOK
  <2>2. /\ m \in Messages /\ m.id = m.idx % m_blocks /\ m.idx \in Nat /\ m.id \in 0..(m_blocks - 1)
        /\ m.idx < Oldest /\ Oldest \in Int /\ Head(pong) = m
    BY <2>1, TypeFacts DEF Numbered, Messages
  <2>3. /\ pong' \in Seq(Messages) /\ Len(pong') = Len(pong) - 1
        /\ \A i \in 1..Len(pong') : pong'[i] = pong[i + 1]
    BY <1>4, <2>1, HeadTailProperties
  <2> HIDE DEF m, W
  <2>4. m_last_block_ack' = m.id BY <1>4, <2>2
  <2>5. m_activity' \in Nat BY <1>4 DEF IpcTypeOK
  <2>6. IpcTypeOK' BY <1>1, <1>4, <2>2, <2>3, <2>4, <2>5 DEF IpcTypeOK, Messages, m_blocks
  <2>7. \A i \in 1..Len(pong') : i + 1 \in 1..Len(pong) /\ i \in Nat BY <2>1, <2>3
  <2>8. Numbered'
    <3>1. ASSUME NEW i \in 1..Len(pong')
          PROVE  /\ pong'[i].idx < Oldest /\ pong'[i].id = pong'[i].idx % m_blocks
                 /\ \A j \in 1..(i - 1) : pong'[j].idx < pong'[i].idx
      <4>1. pong[i + 1].idx < Oldest /\ pong[i + 1].id = pong[i + 1].idx % m_blocks
        BY <2>7 DEF Numbered
      <4>2. ASSUME NEW j \in 1..(i - 1) PROVE pong'[j].idx < pong'[i].idx
        <5>1. i + 1 \in 1..Len(pong) /\ j + 1 \in 1..((i + 1) - 1) /\ j \in 1..Len(pong') BY <2>7
        <5>2. pong[j + 1].idx < pong[i + 1].idx BY <5>1 DEF Numbered
        <5> QED BY <2>3, <5>1, <5>2
      <4> QED BY <2>3, <4>1, <4>2
    <3>2. /\ Len(ping) <= setup.messages /\ writer.m_next_block = writer.m_idx % m_blocks
          /\ \A i \in 1..Len(ping) : /\ ping[i].idx = writer.m_idx - Len(ping) + i - 1
                                     /\ ping[i].id = ping[i].idx % m_blocks
          /\ ipcReader.at # "start" => ipcReader.message.idx = Oldest /\ ipcReader.message.id = Oldest % m_blocks
      BY DEF Numbered
    <3> QED BY <1>1, <1>2, <3>1, <3>2 DEF Numbered
  <2>9. AckedFirst'
    <3> SUFFICES ASSUME setup.writer = "waits" PROVE AckedFirst'
      BY <1>1 DEF AckedFirst
    <3>1. Acked < m.idx /\ (writer.at # "start" => ~WaitsForSpace) BY <2>1 DEF AckedFirst, m
    <3>2. getBufferFill \in 0..(m_blocks - 1) /\ Acked = W - getBufferFill - 1 BY FillRange DEF Acked, W
    <3>3. m_blocks \in Nat /\ m_blocks > 1 BY SetupSizes
    <3>4. Oldest <= W BY <2>1, TypeFacts DEF Oldest, W
    <3>5. 1 <= W - m.idx /\ W - m.idx <= getBufferFill BY <2>1, <2>2, <3>1, <3>2, <3>3, <3>4
    <3>6. getBufferFill' = W - m.idx - 1 /\ Acked' = m.idx
      <4>1. W - m.idx <= m_blocks BY <2>1, <2>2, <3>2, <3>3, <3>5
      <4>2. writer.m_idx' = W /\ m_last_block_ack' = m.idx % m_blocks' BY <1>1, <1>2, <2>2, <2>4 DEF W
      <4>3. W - m.idx = (W % m_blocks) - (m.idx % m_blocks) + IF W % m_blocks <= m.idx % m_blocks THEN m_blocks ELSE 0
        <5>1. m_blocks \in Nat \ {0} BY <3>3
        <5> QED BY <2>1, <2>2, <3>5, <4>1, <5>1, RoundDistance
      <4>4. writer.m_next_block = W % m_blocks /\ writer.m_next_block \in Int BY TypeFacts DEF Numbered, W
      <4>5. getBufferFill' = writer.m_next_block - m.id - 1 + (IF writer.m_next_block <= m.id THEN m_blocks ELSE 0)
        BY <1>1, <1>2, <2>4 DEF getBufferFill
      <4>6. getBufferFill' = W - m.idx - 1 BY <2>1, <2>2, <3>3, <4>3, <4>4, <4>5
      <4> QED BY <2>1, <2>2, <4>2, <4>6 DEF Acked
    <3>7. \A i \in 1..Len(pong') : m.idx < pong'[i].idx
      <4> SUFFICES ASSUME NEW i \in 1..Len(pong') PROVE m.idx < pong[i + 1].idx
        BY <2>3
      <4>1. i + 1 \in 1..Len(pong) /\ 1 \in 1..((i + 1) - 1) BY <2>7
      <4> QED BY <4>1 DEF Numbered, m
    <3>8. writer'.at # "start" => ~WaitsForSpace'
      BY <1>1, <1>2, <2>1, <2>2, <3>1, <3>2, <3>3, <3>5, <3>6 DEF WaitsForSpace
    <3> QED BY <1>2, <2>2, <3>6, <3>7, <3>8 DEF AckedFirst
  <2>10. Handed' BY <1>1 DEF Handed, Holds, m_blocks
  <2>11. Noticed' BY <1>1, <1>4 DEF Noticed, AckIsNoticed
  <2> QED BY <2>6, <2>8, <2>9, <2>10, <2>11
<1> QED BY <1>3, <1>4 DEF Drain

LEMMA IpcStep == ASSUME IpcIInv, [IpcNext]_ipcVars PROVE IpcIInv'
<1>1. CASE waitForWrite BY <1>1, WaitStep
<1>2. CASE requestBlockForWrite BY <1>2, RequestStep
<1>3. CASE Fill BY <1>3, FillStep
<1>4. CASE releaseBlockForWrite BY <1>4, ReleaseWriteStep
<1>5. CASE requestBlockForRead BY <1>5, RequestReadStep
<1>6. CASE Copy BY <1>6, CopyStep
<1>7. CASE releaseBlockForRead BY <1>7, ReleaseReadStep
<1>8. CASE RestartReader BY <1>8, RestartStep
<1>9. CASE notifyCallback \/ enableNotification BY <1>9, NotifyStep
<1>10. CASE Drain BY <1>10, DrainStep
<1>11. CASE UNCHANGED ipcVars
  <2> USE <1>11 DEF ipcVars, IpcIInv
  <2>1. IpcTypeOK' BY DEF IpcTypeOK, Messages, m_blocks
  <2>2. Numbered' /\ Oldest' = Oldest BY NumberedSame
  <2>3. getBufferFill' = getBufferFill /\ m_blocks' = m_blocks BY DEF getBufferFill, m_blocks
  <2>4. AckedFirst' BY <2>2, <2>3 DEF AckedFirst, Acked, WaitsForSpace
  <2>5. Handed' BY DEF Handed, Holds, m_blocks
  <2>6. Noticed' BY NoticedSame
  <2> QED BY <2>1, <2>2, <2>4, <2>5, <2>6
<1> QED BY <1>1, <1>2, <1>3, <1>4, <1>5, <1>6, <1>7, <1>8, <1>9, <1>10, <1>11 DEF IpcNext

-----------------------------------------------------------------------------
\* The theorems.
\* The number of a write tells its block, the queues hold the numbers in order, a
\* writer that calls waitForWrite is never a round ahead, and a block on its way keeps
\* its contents: for any number of blocks and messages, of writes, timeouts and
\* restarts of the reader.
THEOREM AlwaysIpcIInv == IpcSpec => []IpcIInv
<1>1. IpcIInv /\ [IpcNext]_ipcVars => IpcIInv' BY IpcStep
<1> QED BY <1>1, IpcInitInv, PTL DEF IpcSpec

\* What a reader has copied is, whole, the block its message speaks of, for a writer that
\* calls waitForWrite and for any writer when there are two blocks more than messages;
\* and no acknowledgement lies unread without a thread that will read it.
THEOREM AlwaysBlocksHandedOver == IpcSpec => []BlocksHandedOver
<1>1. IpcIInv => BlocksHandedOver
  <2> SUFFICES ASSUME IpcIInv PROVE BlocksHandedOver
    OBVIOUS
  <2>1. BlockIsWhole BY DEF IpcIInv, Handed, BlockIsWhole
  <2> QED BY <2>1 DEF IpcIInv, Noticed, BlocksHandedOver
<1> QED BY <1>1, AlwaysIpcIInv, PTL
=============================================================================
