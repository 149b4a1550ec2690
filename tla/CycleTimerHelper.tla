--------------------------- MODULE CycleTimerHelper ---------------------------
(***************************************************************************)
(* The estimate of the bus time (CycleTimerHelper.cpp).  A thread reads    *)
(* the cycle timer once per update, corrects a delay-locked loop with the  *)
(* error of its prediction and publishes what a client needs to compute    *)
(* the time: a record of an array, whose index it then advances.  Clients  *)
(* use the record of the index field by field and without a lock.  A bus   *)
(* reset, which may move the timer, starts the loop anew from another      *)
(* thread.                                                                 *)
(*                                                                         *)
(* The rate of a record is in ticks per update; the state of the loop in   *)
(* units of 1/SCALE tick.                                                  *)
(***************************************************************************)
EXTENDS CycleTimer, FiniteSets, Sequences

CONSTANTS
    RATE,                       \* ticks of a microsecond: 24.576
    m_usecs_per_update,
    CTRHELPER_NB_SHADOW_VARS,   \* 8
    SCALE, m_dll_coeff_b, m_dll_coeff_c,
    RESYNC,                     \* updates that the prediction may lag behind: 20
    DllScenarios,               \* [jitter, bogus: ticks by which readings may be off, late: microseconds
                                \* by which the thread may wake up late, updates, resets: bounds]
    CtrStart,                   \* the timer when the model begins
    DllTolerance                \* ticks by which an estimate may be off

ASSUME CycleTimerHelperAssumption ==
    /\ RATE \in Nat \ {0} /\ m_usecs_per_update \in Nat \ {0}
    /\ CTRHELPER_NB_SHADOW_VARS \in Nat /\ CTRHELPER_NB_SHADOW_VARS > 1
    /\ SCALE \in Nat \ {0} /\ m_dll_coeff_b \in 0..SCALE /\ m_dll_coeff_c \in 0..SCALE
    /\ CtrStart \in 0..WrapTicks - 1

VARIABLES
    clock,              \* the system time in microseconds
    offset,             \* the timer when it was 0
    m_ctr_e2, m_current_time_usecs, m_next_time_usecs, m_current_time_ticks, m_next_time_ticks,
    m_first_run, m_sleep_until, m_cycle_timer_ticks_prev,
    m_shadow_vars, m_current_shadow_idx, m_unhandled_busreset,
    thread,             \* of Execute: [at, its locals]
    handler,            \* of the bus reset: "idle", "init"
    reader,             \* a client: [at, its locals, and what happened meanwhile]
    settled,            \* history: the published record is of the timer as it runs now
    scenario, updates, resets

loop == <<m_ctr_e2, m_current_time_usecs, m_next_time_usecs, m_current_time_ticks, m_next_time_ticks,
          m_sleep_until>>
dllVars == <<clock, offset, loop, m_first_run, m_cycle_timer_ticks_prev, m_shadow_vars, m_current_shadow_idx,
             m_unhandled_busreset, thread, handler, reader, settled, scenario, updates, resets>>

m_ticks_per_update == RATE * m_usecs_per_update
TruncatedQuotient(a, b) == IF a >= 0 THEN a \div b ELSE -((-a) \div b)
NearTicks(x, y, d) == -d <= diffTicks(x, y) /\ diffTicks(x, y) <= d
\* wrapAtMinMaxTicks, of values that may be several wraps away.
Wrap(x) == x % WrapTicks
HardwareTicks(t) == Wrap(offset + RATE * t)

-----------------------------------------------------------------------------
\* Reading the timer at a time: with jitter, or without success.  A reading of 0 is repeated.
readCycleTimerReg(t) == {r \in {Wrap(HardwareTicks(t) + j) : j \in scenario.jitter} : r # 0}
\* A reading that seems to go back is repeated, and then taken all the same; what was read last
\* is remembered where it does not.
readCycleTimerWithRetry(prev, r) == IF diffTicks(r, prev) < 0 THEN prev ELSE r

\* The locals of initDLL become the state of the loop.
initDLL(r, t) ==
    /\ m_sleep_until' = t + m_usecs_per_update
    /\ m_ctr_e2' = SCALE * m_ticks_per_update
    /\ m_current_time_usecs' = t
    /\ m_next_time_usecs' = t + m_usecs_per_update
    /\ m_current_time_ticks' = r
    /\ m_next_time_ticks' = addTicks(r, m_ticks_per_update)
    /\ m_cycle_timer_ticks_prev' = readCycleTimerWithRetry(m_cycle_timer_ticks_prev, r)

getRate == diffTicks(m_next_time_ticks, m_current_time_ticks)
ComputeVars == [usecs |-> m_current_time_usecs, ticks |-> m_current_time_ticks, rate |-> getRate]
Fields == {"usecs", "ticks", "rate"}

\* The estimate from a record, of the timer at a time and of the time of a value of the timer.
TicksFrom(v, t) ==
    Wrap(v.ticks + TruncatedQuotient((t - v.usecs) * v.rate, m_usecs_per_update))
UsecsFrom(v, ticks) == v.usecs + TruncatedQuotient(diffTicks(ticks, v.ticks) * m_usecs_per_update, v.rate)

-----------------------------------------------------------------------------
\* Start: initValues, and a thread whose first run is still to come.
DllInit ==
    /\ clock = 0 /\ offset = CtrStart
    /\ m_first_run = TRUE /\ m_cycle_timer_ticks_prev = CtrStart
    /\ m_sleep_until = m_usecs_per_update /\ m_ctr_e2 = SCALE * m_ticks_per_update
    /\ m_current_time_usecs = 0 /\ m_next_time_usecs = m_usecs_per_update
    /\ m_current_time_ticks = CtrStart /\ m_next_time_ticks = addTicks(CtrStart, m_ticks_per_update)
    /\ m_shadow_vars = [i \in 0..CTRHELPER_NB_SHADOW_VARS - 1 |-> [usecs |-> 0, ticks |-> 0, rate |-> 1]]
    /\ m_current_shadow_idx = 0 /\ m_unhandled_busreset = FALSE
    /\ thread = [at |-> "loop"] /\ handler = "idle" /\ reader = [at |-> "none"]
    /\ settled = FALSE /\ scenario \in DllScenarios /\ updates = 0 /\ resets = 0

\* The first run, of the thread or after a bus reset, first fills record 0, without the lock.
Execute_first ==
    /\ thread.at = "loop" /\ m_first_run
    /\ updates < scenario.updates
    /\ thread' = [at |-> "prime", new |-> ComputeVars, left |-> Fields]
    /\ UNCHANGED <<clock, offset, loop, m_first_run, m_cycle_timer_ticks_prev, m_shadow_vars, m_current_shadow_idx,
                   m_unhandled_busreset, handler, reader, settled, updates, resets>>
Execute_prime ==
    /\ thread.at = "prime"
    /\ \E f \in thread.left :
          /\ m_shadow_vars' = [m_shadow_vars EXCEPT ![0][f] = thread.new[f]]
          /\ thread' = IF thread.left = {f} THEN [at |-> "read"] ELSE [thread EXCEPT !.left = @ \ {f}]
    /\ reader' = IF reader.at = "copy" /\ reader.idx = 0 THEN [reader EXCEPT !.primed = TRUE] ELSE reader
    /\ UNCHANGED <<clock, offset, loop, m_first_run, m_cycle_timer_ticks_prev, m_current_shadow_idx,
                   m_unhandled_busreset, handler, settled, updates, resets>>

\* Every other run sleeps.
Execute_sleep ==
    /\ thread.at = "loop" /\ ~m_first_run
    /\ updates < scenario.updates
    /\ \E late \in scenario.late : clock' = (IF clock > m_sleep_until THEN clock ELSE m_sleep_until) + late
    /\ thread' = [at |-> "read"]
    /\ UNCHANGED <<offset, loop, m_first_run, m_cycle_timer_ticks_prev, m_shadow_vars, m_current_shadow_idx,
                   m_unhandled_busreset, handler, reader, settled, updates, resets>>

\* The reading is compared with the estimate for the same time; where they differ by more than
\* a cycle it is repeated half a cycle later, ten times at most, and not at all in the first run
\* or in a bus reset.  The last reading is taken, good or not.
NTries == 10
HalfCycle == TICKS_PER_CYCLE \div (2 * RATE)
Plausible(r, t) == NearTicks(r, TicksFrom(m_shadow_vars[m_current_shadow_idx], t), TICKS_PER_CYCLE)
Execute_read ==
    /\ thread.at = "read"
    /\ \E k \in {0, 1}, b \in scenario.bogus, t \in clock..(clock + NTries * HalfCycle) : \E r \in readCycleTimerReg(t) :
          LET bogus == Wrap(HardwareTicks(clock) + b)
              once == m_first_run \/ m_unhandled_busreset
          IN  /\ k = 1 => ~once /\ ~Plausible(bogus, clock)
              /\ t = clock + HalfCycle * (IF once \/ Plausible(r, t) THEN k ELSE NTries)
              /\ clock' = t
              /\ m_cycle_timer_ticks_prev' =
                    readCycleTimerWithRetry(IF k = 1 THEN readCycleTimerWithRetry(m_cycle_timer_ticks_prev, bogus)
                                            ELSE m_cycle_timer_ticks_prev, r)
              /\ thread' = [at |-> "lock", ticks |-> r, usecs_late |-> t - m_sleep_until]
    /\ UNCHANGED <<offset, loop, m_first_run, m_shadow_vars, m_current_shadow_idx, m_unhandled_busreset,
                   handler, reader, settled, updates, resets>>
\* A reading that fails ends the thread: Execute returns false.
Execute_fails ==
    /\ thread.at = "read"
    /\ thread' = [at |-> "gone"]
    /\ settled' = FALSE
    /\ UNCHANGED <<clock, offset, loop, m_first_run, m_cycle_timer_ticks_prev, m_shadow_vars, m_current_shadow_idx,
                   m_unhandled_busreset, handler, reader, updates, resets>>

\* The correction of the loop by the error of its prediction, less what the thread woke up late.
DllError(diff_ticks, usecs_late) ==
    IF usecs_late >= 0 THEN diff_ticks - usecs_late * RATE ELSE diff_ticks + usecs_late * RATE
StepTicks(corr) ==
    LET step == m_dll_coeff_b * corr + m_ctr_e2
    IN  IF step < 0 THEN m_ticks_per_update ELSE step \div SCALE
updateDLL(diff_ticks, usecs_late) ==
    LET corr == DllError(diff_ticks, usecs_late)
    IN  /\ m_sleep_until' = m_sleep_until + m_usecs_per_update
        /\ m_current_time_ticks' = m_next_time_ticks
        /\ m_next_time_ticks' = addTicks(m_next_time_ticks, StepTicks(corr))
        /\ m_ctr_e2' = m_ctr_e2 + m_dll_coeff_c * corr
        /\ m_current_time_usecs' = m_next_time_usecs
        /\ m_next_time_usecs' = m_next_time_usecs + m_usecs_per_update
        /\ UNCHANGED m_cycle_timer_ticks_prev

\* m_update_lock is held from here to the end of Execute, and by initValues.
NextIdx == (m_current_shadow_idx + 1) % CTRHELPER_NB_SHADOW_VARS
Execute_update ==
    /\ thread.at = "lock"
    /\ IF m_unhandled_busreset
       THEN /\ m_sleep_until' = m_sleep_until + m_usecs_per_update
            /\ thread' = [at |-> "loop"]
            /\ updates' = updates + 1
            /\ UNCHANGED <<m_ctr_e2, m_current_time_usecs, m_next_time_usecs, m_current_time_ticks,
                           m_next_time_ticks, m_first_run, m_cycle_timer_ticks_prev>>
       ELSE LET diff_ticks == diffTicks(thread.ticks, m_next_time_ticks)
            IN  /\ IF m_first_run \/ diff_ticks > m_ticks_per_update * RESYNC
                   THEN \E r \in readCycleTimerReg(clock) : initDLL(r, clock)
                   ELSE updateDLL(diff_ticks, thread.usecs_late)
                /\ m_first_run' = FALSE
                /\ thread' = [at |-> "write", fresh |-> m_first_run, new |-> ComputeVars', left |-> Fields,
                              idx |-> NextIdx]
                /\ UNCHANGED updates
    /\ UNCHANGED <<clock, offset, m_shadow_vars, m_current_shadow_idx, m_unhandled_busreset, handler, reader,
                   settled, resets>>
\* Mutant: the new values go to the record that clients are using.
Execute_write_current ==
    /\ thread.at = "write"
    /\ \E f \in thread.left :
          /\ m_shadow_vars' = [m_shadow_vars EXCEPT ![m_current_shadow_idx][f] = thread.new[f]]
          /\ thread' = IF thread.left = {f} THEN [at |-> "publish", fresh |-> thread.fresh, idx |-> m_current_shadow_idx]
                       ELSE [thread EXCEPT !.left = @ \ {f}]
    /\ UNCHANGED <<clock, offset, loop, m_first_run, m_cycle_timer_ticks_prev, m_current_shadow_idx,
                   m_unhandled_busreset, handler, reader, settled, updates, resets>>
Execute_write ==
    /\ thread.at = "write"
    /\ \E f \in thread.left :
          /\ m_shadow_vars' = [m_shadow_vars EXCEPT ![thread.idx][f] = thread.new[f]]
          /\ thread' = IF thread.left = {f} THEN [at |-> "publish", fresh |-> thread.fresh, idx |-> thread.idx]
                       ELSE [thread EXCEPT !.left = @ \ {f}]
    /\ UNCHANGED <<clock, offset, loop, m_first_run, m_cycle_timer_ticks_prev, m_current_shadow_idx,
                   m_unhandled_busreset, handler, reader, settled, updates, resets>>
Execute_publish ==
    /\ thread.at = "publish"
    /\ m_current_shadow_idx' = thread.idx
    /\ thread' = [at |-> "loop"]
    /\ settled' = (settled \/ thread.fresh)
    /\ updates' = updates + 1
    /\ reader' = IF reader.at = "copy" THEN [reader EXCEPT !.overtaken = @ + 1] ELSE reader
    /\ UNCHANGED <<clock, offset, loop, m_first_run, m_cycle_timer_ticks_prev, m_shadow_vars, m_unhandled_busreset,
                   handler, resets>>

-----------------------------------------------------------------------------
\* A bus reset, with another cycle master whose timer is somewhere else; later the handler runs.
Unsettled ==
    /\ settled' = FALSE
    /\ thread' = IF "fresh" \in DOMAIN thread THEN [thread EXCEPT !.fresh = FALSE] ELSE thread
    /\ reader' = IF reader.at = "copy" THEN [reader EXCEPT !.moved = TRUE] ELSE reader
BusReset ==
    /\ resets < scenario.resets /\ handler = "idle"
    /\ resets' = resets + 1
    /\ handler' = "called"
    /\ \/ offset' = Wrap(offset + WrapTicks \div 3) /\ Unsettled
       \/ UNCHANGED <<offset, settled, thread, reader>>
    /\ UNCHANGED <<clock, loop, m_first_run, m_cycle_timer_ticks_prev, m_shadow_vars, m_current_shadow_idx,
                   m_unhandled_busreset, updates>>
busresetHandler ==
    /\ handler = "called"
    /\ handler' = "init"
    /\ m_unhandled_busreset' = TRUE
    /\ UNCHANGED <<clock, offset, loop, m_first_run, m_cycle_timer_ticks_prev, m_shadow_vars, m_current_shadow_idx,
                   thread, reader, settled, updates, resets>>
\* initValues, under the lock; that it fails is only reported, and leaves the loop behind by the
\* update that Execute skipped meanwhile.
Locked == thread.at \in {"write", "publish"}
initValues ==
    /\ handler = "init" /\ ~Locked
    /\ handler' = "idle" /\ m_unhandled_busreset' = FALSE
    /\ \/ /\ \E r \in readCycleTimerReg(clock + 1) :
                 initDLL(r, clock + 1)
          /\ clock' = clock + 1
          /\ m_first_run' = TRUE
          /\ UNCHANGED <<thread, reader, settled>>
       \/ UNCHANGED <<clock, loop, m_first_run, m_cycle_timer_ticks_prev>> /\ Unsettled
    /\ UNCHANGED <<offset, m_shadow_vars, m_current_shadow_idx, updates, resets>>

-----------------------------------------------------------------------------
\* A client asks for the timer now, or for the system time of a value of the timer: it takes
\* the index, then the fields in the order of the code.  One read is enough: it may begin and go
\* on at any time.
FieldOrder == [ticks |-> <<"usecs", "rate", "ticks">>, usecs |-> <<"ticks", "rate", "usecs">>]
getCycleTimer_start ==
    /\ reader.at = "none"
    /\ settled
    /\ \E want \in {"ticks", "usecs"} :
          reader' = [at |-> "copy", want |-> want, time |-> clock, true |-> HardwareTicks(clock),
                     idx |-> m_current_shadow_idx, got |-> << >>,
                     primed |-> thread.at = "prime" /\ m_current_shadow_idx = 0, moved |-> FALSE, overtaken |-> 0]
    /\ UNCHANGED <<clock, offset, loop, m_first_run, m_cycle_timer_ticks_prev, m_shadow_vars, m_current_shadow_idx,
                   m_unhandled_busreset, thread, handler, settled, updates, resets>>
Taken == [f \in Fields |-> reader.got[CHOOSE i \in 1..3 : FieldOrder[reader.want][i] = f]]
getCycleTimer_copy ==
    /\ reader.at = "copy"
    /\ reader' = [reader EXCEPT !.got =
                      Append(@, m_shadow_vars[reader.idx][FieldOrder[reader.want][Len(reader.got) + 1]]),
                  !.at = IF Len(reader.got) = 2 THEN "done" ELSE @]
    /\ UNCHANGED <<clock, offset, loop, m_first_run, m_cycle_timer_ticks_prev, m_shadow_vars, m_current_shadow_idx,
                   m_unhandled_busreset, thread, handler, settled, updates, resets>>

DllStep ==
    \/ Execute_first \/ Execute_prime \/ Execute_sleep \/ Execute_read \/ Execute_fails \/ Execute_update
    \/ Execute_write \/ Execute_publish
    \/ BusReset \/ busresetHandler \/ initValues
    \/ getCycleTimer_start \/ getCycleTimer_copy
DllNext == DllStep /\ UNCHANGED scenario
DllSpec == DllInit /\ [][DllNext]_dllVars

-----------------------------------------------------------------------------
Estimated ==
    IF reader.want = "ticks" THEN NearTicks(TicksFrom(Taken, reader.time), reader.true, DllTolerance)
    ELSE LET d == RATE * (UsecsFrom(Taken, reader.true) - reader.time)
         IN  -DllTolerance <= d /\ d <= DllTolerance
Undisturbed == ~reader.moved /\ reader.overtaken < CTRHELPER_NB_SHADOW_VARS - 1

(* A client that copies a record without a lock, while the thread updates  *)
(* the loop, wakes up late or reads bogus values, gets a time within the   *)
(* tolerance of the bus time, across the wrap of the timer, unless the     *)
(* timer was moved, the thread went round the array meanwhile, or record 0 *)
(* was filled again under it (CycleTimerHelper::Execute, getCycleTimer-    *)
(* Ticks, getSystemTimeForCycleTimerTicks).                                *)
EstimateIsClose ==
    reader.at = "done" /\ Undisturbed /\ ~reader.primed => Estimated

(* The same without the last exception: "we only have to ensure that the   *)
(* used dataset is consistent".  The first run after a bus reset fills     *)
(* record 0 in place, also when clients are using it.                      *)
DatasetIsConsistent ==
    reader.at = "done" /\ Undisturbed => Estimated
=============================================================================
