-------------------------- MODULE TimestampedBuffer --------------------------
(***************************************************************************)
(* The buffer of a stream (TimestampedBuffer.cpp): a ring buffer of frames *)
(* that the iso thread and the client use without a lock, a frame counter  *)
(* that is updated after the ring buffer, under a lock, and a delay locked *)
(* loop that keeps the time of the tail from the times the writer gives    *)
(* with its blocks.  From the time of the tail, the rate and the counter   *)
(* the time of every frame in the buffer is computed.                      *)
(*                                                                         *)
(* A time is a whole number of small units here, not a double, and the     *)
(* gains of the loop are quotients, so that a correction is rounded down.  *)
(* wt is the true time of the tail, which does not wrap; the writer's      *)
(* times are off by an element of Jitter.                                  *)
(***************************************************************************)
EXTENDS Integers

CONSTANTS m_update_period,  \* frames of a block
          m_nominal_rate,   \* time units of a frame
          m_buffer_size,    \* frames the ring buffer is created for
          Capacities,       \* whole frames it holds: 2^k - 1 bytes, by the size of a frame
          ProcessBlock,     \* FRAMES_PER_PROCESS_BLOCK
          m_wrap_at,        \* where the times wrap
          m_dll_b, m_dll_c, \* the gains of the loop are 1 / m_dll_b, 1 / m_dll_c
          Jitter,           \* the errors of the writer's times
          Tolerance,        \* the error of a computed time
          MaxBlocks         \* bound: the blocks written

ASSUME TimestampedBufferAssumption ==
  /\ m_update_period \in Nat \ {0} /\ m_nominal_rate \in Nat \ {0}
  /\ m_buffer_size \in Nat /\ m_buffer_size > m_update_period
  /\ Capacities \subseteq Nat /\ \A c \in Capacities : c >= m_buffer_size - 1
  /\ ProcessBlock \in Nat \ {0}
  /\ m_wrap_at \in Nat /\ m_wrap_at > 2 * (m_buffer_size + m_update_period) * m_nominal_rate
  /\ m_dll_b \in Nat \ {0} /\ m_dll_c \in Nat \ {0}
  /\ Jitter \subseteq Int /\ Tolerance \in Nat /\ MaxBlocks \in Nat

VARIABLES
  m_type,           \* "Receive": the iso thread writes, "Transmit": the client does
  phase,            \* of the stream: "dry", "enable", "running", "disable"
  m_framecounter,
  m_buffer_tail_timestamp,
  m_buffer_next_tail_timestamp,
  m_current_rate,   \* of a block, not of a frame: a whole number
  m_dll_e2,
  capacity,         \* of the ring buffer, in whole frames
  fill,             \* frames in the ring buffer
  writing, reading, \* frames written, or read, and not counted yet
  wt,               \* the true time of the tail; -1: none
  spilled,          \* frames in the ring buffer that will not be counted
  cut,              \* a block did not fit since the buffer was cleared
  told,             \* what time the buffer was told since it was cleared: "none", "head", "tail"
  diff, error,      \* the last error of the loop as it is computed, and as it is
  blocks            \* blocks written

stamps == <<m_buffer_tail_timestamp, m_buffer_next_tail_timestamp, m_current_rate, m_dll_e2>>
truth == <<wt, told, diff, error, blocks>>
overflow == <<spilled, cut>>
bufVars == <<m_type, phase, m_framecounter, stamps, capacity, fill, writing, reading, overflow, truth>>

\* The buffer is transparent until doRunning, and again after doDryRunning.
m_transparent == phase \notin {"running", "disable"}

\* TIMESTAMP_MAX + 1.0, after prepare.
NoStamp == 2 * m_wrap_at

NominalBlock == m_nominal_rate * m_update_period

\* TimestampedBuffer, setNominalRate, setUpdatePeriod, setWrapValue, setBufferSize and prepare.
BufInit ==
  /\ m_type \in {"Receive", "Transmit"} /\ phase = "dry"
  /\ m_framecounter = 0 /\ capacity \in Capacities /\ fill = 0 /\ writing = 0 /\ reading = 0
  /\ spilled = 0 /\ cut = FALSE
  /\ m_buffer_tail_timestamp = NoStamp /\ m_buffer_next_tail_timestamp = NoStamp
  /\ m_current_rate = NominalBlock /\ m_dll_e2 = NominalBlock
  /\ wt = -1 /\ told = "none" /\ diff = 0 /\ error = 0 /\ blocks = 0

\* The wrap of a timestamp that is off by at most one turn.
Wrapped(ts) == IF ts >= m_wrap_at THEN ts - m_wrap_at
               ELSE IF ts < 0 THEN ts + m_wrap_at
               ELSE ts

\* The difference of two times on the circle.
Apart(x, y) == LET d == (x - y) % m_wrap_at IN IF 2 * d > m_wrap_at THEN d - m_wrap_at ELSE d

\* getTimestampFromTail.
getTimestampFromTail(nframes) ==
  Wrapped(m_buffer_tail_timestamp - (nframes * m_current_rate) \div m_update_period)

\* getBufferHeadTimestamp, getTimestampFromHead: under the lock.
getTimestampFromHead(nframes) == getTimestampFromTail(m_framecounter - nframes)

getBufferSpace == m_buffer_size - m_framecounter

\* setBufferTailTimestamp, and the end of setBufferHeadTimestamp: the predicted time is
\* not wrapped.
setTail(ts) ==
  /\ m_buffer_tail_timestamp' = Wrapped(ts)
  /\ m_dll_e2' = m_current_rate
  /\ m_buffer_next_tail_timestamp' = Wrapped(ts) + m_current_rate

\* calculateRate: the rate of the loop, or the nominal one if they are 10 % apart.
calculateRate(next, tail) ==
  LET d == next - tail
      rate == IF d > m_wrap_at \div 2 THEN d - m_wrap_at
              ELSE IF d < -(m_wrap_at \div 2) THEN d + m_wrap_at
              ELSE d
      off == IF rate > NominalBlock THEN rate - NominalBlock ELSE NominalBlock - rate
  IN IF 10 * off > NominalBlock THEN NominalBlock ELSE rate

\* Mutant: a wrap between the two times is not corrected.
Diff_uncorrected(ts) == ts - m_buffer_next_tail_timestamp

\* The error of the prediction, as incrementFrameCounter computes it.
Diff(ts) ==
  LET d == ts - m_buffer_next_tail_timestamp IN
  IF d > m_wrap_at \div 2 THEN m_wrap_at - d
  ELSE IF d < -(m_wrap_at \div 2) THEN m_wrap_at + d
  ELSE d

\* The part of incrementFrameCounter that is the delay locked loop.
advance(err) ==
  LET next == m_buffer_next_tail_timestamp + err \div m_dll_b + m_dll_e2 IN
  /\ m_buffer_tail_timestamp' = m_buffer_next_tail_timestamp
  /\ m_buffer_next_tail_timestamp' = IF next >= m_wrap_at THEN next - m_wrap_at ELSE next
  /\ m_dll_e2' = m_dll_e2 + err \div m_dll_c
  /\ m_current_rate' = calculateRate(m_buffer_next_tail_timestamp', m_buffer_tail_timestamp')

\* The next block's time, in truth and as the writer gives it.
NextTime == wt + NominalBlock
Given(j) == (NextTime + j) % m_wrap_at

NextBlock(j) ==
  /\ blocks < MaxBlocks
  /\ blocks' = blocks + 1
  /\ wt' = NextTime
  /\ diff' = Diff(Given(j)) /\ error' = Apart(Given(j), m_buffer_next_tail_timestamp)

(***************************************************************************)
(* The writer: the iso thread of a receive stream, the client of a         *)
(* transmit stream.                                                        *)
(***************************************************************************)

\* writeFrames of a transparent buffer: no data is kept, the loop runs, and then the
\* tail is set to the time that was given.
writeFrames_transparent ==
  /\ m_type = "Receive" /\ m_transparent /\ wt # -1
  /\ \E j \in Jitter :
       /\ NextBlock(j)
       /\ m_current_rate' = calculateRate(m_buffer_next_tail_timestamp + Diff(Given(j)) \div m_dll_b
                                            + m_dll_e2, m_buffer_next_tail_timestamp)
       /\ m_buffer_tail_timestamp' = Given(j)
       /\ m_dll_e2' = m_current_rate'
       /\ m_buffer_next_tail_timestamp' = Given(j) + m_current_rate'
  /\ told' = "tail"
  /\ UNCHANGED <<m_type, phase, m_framecounter, capacity, fill, writing, reading, overflow>>

\* ffado_ringbuffer_write_space, in whole frames.
Room == capacity - fill

\* The stream that a write finds: the iso thread writes while the stream runs, and the
\* client once canProduce has found space by the counter.
CanWrite ==
  /\ writing = 0 /\ blocks < MaxBlocks
  /\ \/ m_type = "Receive" /\ phase = "running"
     \/ m_type = "Transmit" /\ ~m_transparent /\ getBufferSpace >= m_update_period

\* writeFrames and blockProcessWriteFrames: the block goes into the ring buffer.
writeFrames ==
  /\ CanWrite /\ Room >= m_update_period
  /\ fill' = fill + m_update_period /\ writing' = m_update_period
  /\ UNCHANGED <<m_type, phase, m_framecounter, stamps, capacity, reading, overflow, truth>>

\* What goes into a ring buffer without the room for a block: all that fits (writeFrames),
\* or the process blocks that fit (blockProcessWriteFrames).
Fitting == {Room} \cup {(Room \div ProcessBlock) * ProcessBlock :
                          t \in {m_type} \cap {"Transmit"}}

\* The same of a block that does not fit: what was written stays, uncounted.  To the
\* iso thread this is an xrun; putFramesWet ignores the failure, and the block is gone.
writeFrames_overflow ==
  /\ CanWrite /\ Room < m_update_period
  /\ \E n \in Fitting : fill' = fill + n /\ spilled' = spilled + n
  /\ cut' = TRUE
  /\ blocks' = blocks + 1 /\ wt' = NextTime
  /\ phase' = IF m_type = "Receive" THEN "disable" ELSE phase
  /\ UNCHANGED <<m_type, m_framecounter, stamps, capacity, writing, reading, told, diff, error>>

\* incrementFrameCounter.
incrementFrameCounter ==
  /\ writing > 0
  /\ \E j \in Jitter : NextBlock(j) /\ advance(Diff(Given(j)))
  /\ m_framecounter' = m_framecounter + writing
  /\ writing' = 0
  /\ UNCHANGED <<m_type, phase, capacity, fill, reading, overflow, told>>

(***************************************************************************)
(* The reader.                                                             *)
(***************************************************************************)

\* readFrames, blockProcessReadFrames and dropFrames of frames that are there by the
\* counter: they leave the ring buffer.  The iso thread reads while the stream runs.
readFrames ==
  /\ reading = 0
  /\ \/ m_type = "Receive" /\ ~m_transparent
     \/ m_type = "Transmit" /\ phase = "running"
  /\ \E n \in 1..m_update_period :
       m_framecounter >= n /\ fill' = fill - n /\ reading' = n
  /\ UNCHANGED <<m_type, phase, m_framecounter, stamps, capacity, writing, overflow, truth>>

\* decrementFrameCounter.
decrementFrameCounter ==
  /\ reading > 0
  /\ m_framecounter' = m_framecounter - reading
  /\ reading' = 0
  /\ UNCHANGED <<m_type, phase, stamps, capacity, fill, writing, overflow, truth>>

(***************************************************************************)
(* The stream processor and its manager.                                   *)
(***************************************************************************)

\* The client, in the manager's start, is not in a transfer.
ClientIdle == IF m_type = "Receive" THEN reading = 0 ELSE writing = 0

IsoIdle == IF m_type = "Receive" THEN writing = 0 ELSE reading = 0

\* doDryRunning out of WaitingForStream: the tail has the time of the last packet.
doDryRunning(at) ==
  /\ m_type = "Receive" /\ wt = -1
  /\ wt' = at /\ told' = "tail"
  /\ setTail(at)
  /\ UNCHANGED <<m_type, phase, m_framecounter, m_current_rate, capacity, fill, writing, reading,
                 overflow, diff, error, blocks>>

\* doWaitForStreamDisable, by the iso thread after an xrun or as the manager asked.
doWaitForStreamDisable ==
  /\ IsoIdle /\ phase = "running"
  /\ phase' = "disable"
  /\ UNCHANGED <<m_type, m_framecounter, stamps, capacity, fill, writing, reading, overflow, truth>>

\* doDryRunning out of WaitingForStreamDisable, by the iso thread: the client may be in
\* a transfer, which it will count later.
clearBuffer ==
  /\ phase = "disable"
  /\ phase' = "dry"
  /\ told' = "none"
  /\ m_framecounter' = 0 /\ fill' = 0 /\ spilled' = 0 /\ cut' = FALSE
  /\ m_current_rate' = NominalBlock /\ m_dll_e2' = NominalBlock
  /\ UNCHANGED <<m_type, m_buffer_tail_timestamp, m_buffer_next_tail_timestamp, capacity,
                 writing, reading, wt, diff, error, blocks>>

\* setBufferHeadTimestamp, with which the manager begins a start: the time of the
\* first frame that a transmit stream will send.
setBufferHeadTimestamp(at) ==
  /\ m_type = "Transmit" /\ phase = "dry" /\ ClientIdle /\ told = "none"
  /\ wt' = at /\ told' = "head"
  /\ setTail(at + (m_current_rate * m_framecounter) \div m_update_period)
  /\ UNCHANGED <<m_type, phase, m_framecounter, m_current_rate, capacity, fill, writing, reading,
                 overflow, diff, error, blocks>>

\* The frames of silence that a transmit stream starts with: all but the frame that is
\* there "to ensure that we can fit it all in there".
Prefill == m_buffer_size - 1

\* Mutant: resizeBuffer does not reset the counter.
doWaitForStreamEnable_kept ==
  /\ phase = "dry" /\ ClientIdle /\ told # "none"
  /\ phase' = "enable"
  /\ m_current_rate' = NominalBlock /\ m_dll_e2' = NominalBlock
  /\ spilled' = 0 /\ cut' = FALSE
  /\ IF m_type = "Receive"
     THEN /\ m_framecounter' = m_framecounter /\ fill' = 0
          /\ UNCHANGED <<m_buffer_tail_timestamp, m_buffer_next_tail_timestamp, wt>>
     ELSE LET tail == Wrapped(Wrapped(m_buffer_tail_timestamp) + Prefill * m_nominal_rate) IN
          /\ m_framecounter' = m_framecounter + Prefill /\ fill' = Prefill
          /\ m_buffer_tail_timestamp' = tail
          /\ m_buffer_next_tail_timestamp' = tail + NominalBlock
          /\ wt' = wt + Prefill * m_nominal_rate
  /\ UNCHANGED <<m_type, capacity, writing, reading, told, diff, error, blocks>>

\* doWaitForStreamEnable: resizeBuffer, and for a transmit stream preloadFrames, which
\* keeps the time of the head.
doWaitForStreamEnable ==
  /\ phase = "dry" /\ ClientIdle /\ told # "none"
  /\ phase' = "enable"
  /\ m_current_rate' = NominalBlock /\ m_dll_e2' = NominalBlock
  /\ spilled' = 0 /\ cut' = FALSE
  /\ IF m_type = "Receive"
     THEN /\ m_framecounter' = 0 /\ fill' = 0
          /\ UNCHANGED <<m_buffer_tail_timestamp, m_buffer_next_tail_timestamp, wt>>
     ELSE LET tail == Wrapped(Wrapped(m_buffer_tail_timestamp) + Prefill * m_nominal_rate) IN
          /\ m_framecounter' = Prefill /\ fill' = Prefill
          /\ m_buffer_tail_timestamp' = tail
          /\ m_buffer_next_tail_timestamp' = tail + NominalBlock
          /\ wt' = wt + Prefill * m_nominal_rate
  /\ UNCHANGED <<m_type, capacity, writing, reading, told, diff, error, blocks>>

doRunning ==
  /\ phase = "enable" /\ phase' = "running"
  /\ UNCHANGED <<m_type, m_framecounter, stamps, capacity, fill, writing, reading, overflow, truth>>

\* The manager gives the running transmit stream its rate (setTicksPerFrame) and the
\* time of its tail (setBufferTailTimestamp).
setBufferTailTimestamp ==
  /\ m_type = "Transmit" /\ phase = "running" /\ ClientIdle /\ told = "head"
  /\ m_current_rate' = NominalBlock
  /\ m_buffer_tail_timestamp' = wt % m_wrap_at
  /\ m_dll_e2' = NominalBlock
  /\ m_buffer_next_tail_timestamp' = (wt % m_wrap_at) + NominalBlock
  /\ told' = "tail"
  /\ UNCHANGED <<m_type, phase, m_framecounter, capacity, fill, writing, reading, overflow, wt, diff,
                 error, blocks>>

\* The times at which a stream may begin: before and after a wrap.
Begin == {m_wrap_at - 2 * NominalBlock, m_wrap_at - 1}

BufNext ==
  \/ writeFrames_transparent \/ writeFrames \/ writeFrames_overflow \/ incrementFrameCounter
  \/ readFrames \/ decrementFrameCounter
  \/ \E at \in Begin : doDryRunning(at) \/ setBufferHeadTimestamp(at)
  \/ doWaitForStreamDisable \/ clearBuffer \/ doWaitForStreamEnable \/ doRunning \/ setBufferTailTimestamp

BufSpec == BufInit /\ [][BufNext]_bufVars

(***************************************************************************)
(* Properties.                                                             *)
(***************************************************************************)

\* While the stream runs, what the counter says is there for either side, though the
\* ring buffer and the counter are updated one after the other and a transfer may have
\* been under way when the iso thread cleared the buffer.  The frames a reader counts are
\* in the ring buffer, also after blocks that did not fit.  The space a writer counts is
\* free until a block did not fit, but for one frame where the size of the ring buffer is
\* just a power of two; and it never falls below zero, where it is a large unsigned number.
CountedIsThere ==
  ~m_transparent =>
    /\ reading = 0 => m_framecounter <= fill
    /\ 0 <= fill /\ fill <= capacity
    /\ writing = 0 /\ ~cut =>
         getBufferSpace <= Room + (IF capacity < m_buffer_size THEN 1 ELSE 0)
    /\ m_type = "Transmit" => getBufferSpace >= 0

\* The inductive invariant of the two counts: a stream that runs, or is about to, has in
\* the ring buffer what is counted, what is under way and what was spilled, and the iso
\* thread is not in a transfer while the stream does not run.
CountsTypeOK ==
  /\ m_type \in {"Receive", "Transmit"} /\ phase \in {"dry", "enable", "running", "disable"}
  /\ m_framecounter \in Int /\ fill \in Int /\ capacity \in Capacities
  /\ writing \in 0..m_update_period /\ reading \in 0..m_update_period
  /\ spilled \in Nat /\ cut \in BOOLEAN

CountsIInv ==
  /\ CountsTypeOK
  /\ phase # "running" => IsoIdle
  /\ phase = "enable" => ClientIdle
  /\ ~cut => spilled = 0
  /\ phase # "dry" => /\ fill + reading = m_framecounter + writing + spilled
                      /\ 0 <= fill /\ fill <= capacity
                      /\ m_framecounter >= reading
                      /\ m_type = "Transmit" => m_framecounter + writing <= m_buffer_size

\* "This allows to calculate the timestamp of any other frame in the buffer": the time
\* computed for each frame of a running stream is its true time, up to the jitter of
\* the writer's times, however often tail, prediction and time have wrapped meanwhile,
\* and whatever was left over in the counter when the stream was started, until a block
\* is lost because it did not fit.
StampIsTrue ==
  ~m_transparent /\ ~cut /\ told = "tail" =>
    \A k \in 0..m_framecounter :
      LET e == Apart(getTimestampFromTail(k), wt - k * m_nominal_rate) IN
      -Tolerance <= e /\ e <= Tolerance

\* "correct for when new_timestamp doesn't wrap at the same time as
\* m_buffer_next_tail_timestamp": the error that the loop is given is the difference
\* of the two times.
WrapCorrected == diff = error
=============================================================================
