----------------------------- MODULE CycleTimer -----------------------------
(***************************************************************************)
(* The arithmetic of the IEEE 1394 cycle timer (cycletimer.h).  A value of *)
(* the timer (CTR) has a seconds, a cycles and an offset field; in ticks   *)
(* it wraps at WrapTicks.  The code's sizes (8000 cycles of 3072 ticks,    *)
(* 128 seconds, and the 16 cycles that an SYT tells apart) are parameters, *)
(* so that TLC can go around all of the wraps.                             *)
(***************************************************************************)
EXTENDS Integers

CONSTANTS CYCLES_PER_SECOND, TICKS_PER_CYCLE, SECONDS, SYT_CYCLES

ASSUME CycleTimerAssumption ==
  /\ CYCLES_PER_SECOND \in Nat \ {0} /\ TICKS_PER_CYCLE \in Nat \ {0}
  /\ SECONDS \in Nat \ {0} /\ SYT_CYCLES \in Nat \ {0}
  /\ CYCLES_PER_SECOND % 2 = 0
  /\ CYCLES_PER_SECOND % SYT_CYCLES = 0

TICKS_PER_SECOND == CYCLES_PER_SECOND * TICKS_PER_CYCLE

WrapTicks == SECONDS * TICKS_PER_SECOND

CTR == [secs : 0..SECONDS - 1, cycles : 0..CYCLES_PER_SECOND - 1, offset : 0..TICKS_PER_CYCLE - 1]

CYCLE_TIMER_TO_TICKS(x) ==
  x.secs * TICKS_PER_SECOND + x.cycles * TICKS_PER_CYCLE + x.offset

TICKS_TO_SECS(x) == x \div TICKS_PER_SECOND

TICKS_TO_CYCLES(x) == (x \div TICKS_PER_CYCLE) % CYCLES_PER_SECOND
TICKS_TO_OFFSET(x) == x % TICKS_PER_CYCLE

\* The mask on the seconds is their number.
TICKS_TO_CYCLE_TIMER(x) == [secs |-> TICKS_TO_SECS(x) % SECONDS,
                            cycles |-> TICKS_TO_CYCLES(x),
                            offset |-> TICKS_TO_OFFSET(x)]

TICKS_TO_SYT(x) == [cycles |-> TICKS_TO_CYCLES(x) % SYT_CYCLES, offset |-> TICKS_TO_OFFSET(x)]

wrapAtMaxTicks(x) == IF x >= WrapTicks THEN x - WrapTicks ELSE x

wrapAtMinMaxTicks(x) == IF x < 0 THEN x + WrapTicks
                        ELSE IF x >= WrapTicks THEN x - WrapTicks
                        ELSE x

\* The difference of x and y, which wrap at wrap: the smaller of the two ways round.
unwrapDiff(x, y, wrap) == LET diff == x - y IN
                          IF diff > wrap \div 2 THEN diff - wrap
                          ELSE IF diff < -(wrap \div 2) THEN diff + wrap
                          ELSE diff

diffCycles(x, y) == unwrapDiff(x, y, CYCLES_PER_SECOND)

\* Mutant: only a y that has wrapped is unwrapped.
diffTicks_one_way(x, y) == IF x - y > WrapTicks \div 2 THEN x - y - WrapTicks ELSE x - y

diffTicks(x, y) == unwrapDiff(x, y, WrapTicks)

addTicks(x, y) == wrapAtMaxTicks(x + y)

\* Mutant: a wrap of the cycles that the SYT tells apart is not undone.
sytRecvToFullTicks2_masked(syt, rcv_ctr) ==
  LET rcv_cycle == rcv_ctr.cycles + syt.cycles - (rcv_ctr.cycles % SYT_CYCLES)
  IN addTicks(rcv_cycle * TICKS_PER_CYCLE + syt.offset, rcv_ctr.secs * TICKS_PER_SECOND)

\* The full timestamp of a packet with this SYT that was received at rcv_ctr.  A cycle
\* beyond the second is a cycle of the next second, in ticks.
sytRecvToFullTicks2(syt, rcv_ctr) ==
  LET masked == rcv_ctr.cycles % SYT_CYCLES
      syt_cycle == IF syt.cycles < masked THEN syt.cycles + SYT_CYCLES ELSE syt.cycles
      rcv_cycle == rcv_ctr.cycles + (syt_cycle - masked)
      timestamp == IF rcv_cycle < CYCLES_PER_SECOND
                   THEN rcv_cycle * TICKS_PER_CYCLE
                   ELSE (rcv_cycle - CYCLES_PER_SECOND) * TICKS_PER_CYCLE + TICKS_PER_SECOND
  IN addTicks(timestamp + syt.offset, rcv_ctr.secs * TICKS_PER_SECOND)
=============================================================================
