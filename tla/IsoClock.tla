------------------------------ MODULE IsoClock ------------------------------
(***************************************************************************)
(* What the receive side knows of time.  A packet comes with no more than  *)
(* the number of its cycle, and an SYT; the iso thread reads the cycle     *)
(* timer once, when poll returns, and then handles a run of packets that   *)
(* arrived before or after that.  From this IsoHandler::putPacket rebuilds *)
(* the time of arrival and counts the lost cycles, processPacketHeader     *)
(* rebuilds the presentation time, StreamProcessor::putPacket decides      *)
(* whether a scheduled switch is due, and IsoTask::Execute decides whether *)
(* the handler is dead.  All counters wrap meanwhile.                      *)
(*                                                                         *)
(* time, polled, switch_at, last and the packets hold true times, which do *)
(* not wrap.  The code sees them through the cycle timer only.             *)
(***************************************************************************)
EXTENDS CycleTimer, Sequences

CONSTANTS Start,       \* the tick at which the model begins
          Horizon,     \* bound: the last tick
          MaxLag,      \* bound: cycles by which the iso thread is late
          MaxLead,     \* bound: cycles by which a switch is scheduled ahead
          MaxWire,     \* bound: packets waiting in the kernel
          Silence      \* seconds without a packet after which a handler is dead

ASSUME IsoClockAssumption ==
  /\ Start \in Nat /\ Horizon \in Nat /\ MaxWire \in Nat \ {0}
  /\ MaxLag \in Nat /\ MaxLead \in Nat \ {0}
  /\ 2 * (MaxLag + MaxLead) < CYCLES_PER_SECOND
  /\ Silence \in Nat \ {0} /\ 2 * (Silence + 1) < SECONDS

VARIABLES
  time,                        \* in ticks
  wire,                        \* packets received by the kernel: their cycles
  \* IsoTask
  pc,                          \* Execute: "poll", "iterate"
  polled,                      \* when poll returned last
  \* IsoHandler
  m_State, m_last_now, m_last_cycle, m_last_packet_handled_at,
  last,                        \* the cycle of the last packet handled; -1: none
  \* StreamProcessor
  m_cycle_to_switch_state,
  switch_at                    \* the cycle it stands for; -1: no switch is scheduled

handler == <<m_State, m_last_now, m_last_cycle, m_last_packet_handled_at, last>>
switch == <<m_cycle_to_switch_state, switch_at>>
vars == <<time, wire, pc, polled, handler, switch>>

Cycle(t) == t \div TICKS_PER_CYCLE

\* 0xFFFFFFFF, which is no value of the timer.
NoCTR == [secs |-> -1, cycles |-> -1, offset |-> -1]

Now == TICKS_TO_CYCLE_TIMER(time)

Init ==
  /\ time = Start /\ wire = <<>>
  /\ pc = "poll" /\ polled = Start
  /\ m_State = "Stopped"
  /\ m_last_now = NoCTR /\ m_last_cycle = -1 /\ m_last_packet_handled_at = NoCTR /\ last = -1
  /\ m_cycle_to_switch_state = 0 /\ switch_at = -1

(***************************************************************************)
(* The bus.                                                                *)
(***************************************************************************)

\* Time passes; the iso thread polls, and handles what there is, soon enough.
tick ==
  /\ time < Horizon
  /\ time' = time + 1
  /\ m_State = "Running" => Cycle(time') - Cycle(polled) <= MaxLag
  /\ m_State = "Running" /\ wire # <<>> => Cycle(time') - Head(wire) <= MaxLag
  /\ UNCHANGED <<wire, pc, polled, handler, switch>>

\* The kernel receives the packet of this cycle.  A cycle without one is lost.
receive ==
  /\ m_State = "Running" /\ Len(wire) < MaxWire
  /\ last < Cycle(time) /\ (wire # <<>> => wire[Len(wire)] < Cycle(time))
  /\ wire' = Append(wire, Cycle(time))
  /\ UNCHANGED <<time, pc, polled, handler, switch>>

(***************************************************************************)
(* The iso thread.                                                         *)
(***************************************************************************)

\* IsoHandler::enable, in an update of the shadow map.
enable ==
  /\ m_State = "Stopped"
  /\ m_State' = "Running"
  /\ m_last_now' = NoCTR /\ m_last_cycle' = -1 /\ m_last_packet_handled_at' = NoCTR
  /\ last' = -1 /\ wire' = <<>> /\ polled' = time
  /\ UNCHANGED <<time, pc, switch>>

\* IsoHandler::disable, in an update of the shadow map.  The handle and its packets are gone.
disable ==
  /\ pc = "poll" /\ m_State = "Running"
  /\ m_State' = "Stopped" /\ wire' = <<>>
  /\ UNCHANGED <<time, pc, polled, m_last_now, m_last_cycle, m_last_packet_handled_at,
                 last, switch>>

\* The test for a dead handler in Execute.
Dead(now) ==
  /\ m_last_packet_handled_at # NoCTR
  /\ diffTicks(CYCLE_TIMER_TO_TICKS(now), CYCLE_TIMER_TO_TICKS(m_last_packet_handled_at))
       > Silence * TICKS_PER_SECOND

\* Execute after poll has returned: a dead handler is disabled, any other is iterated.
Execute ==
  /\ pc = "poll" /\ m_State = "Running"
  /\ polled' = time
  /\ IF Dead(Now) THEN m_State' = "Stopped" /\ wire' = <<>> /\ UNCHANGED <<pc, m_last_now>>
     ELSE m_last_now' = Now /\ pc' = "iterate" /\ UNCHANGED <<m_State, wire>>
  /\ UNCHANGED <<time, m_last_cycle, m_last_packet_handled_at, last, switch>>

dropped_cycles(cycle) ==
  IF m_last_cycle # cycle /\ m_last_cycle # -1 THEN diffCycles(cycle, m_last_cycle) - 1 ELSE 0

\* Mutant: the packet is taken to have arrived before the timer was read.
pkt_ctr_before(cycle) ==
  TICKS_TO_CYCLE_TIMER(wrapAtMinMaxTicks(
    CYCLE_TIMER_TO_TICKS(m_last_now)
      - ((m_last_now.cycles - cycle) % CYCLES_PER_SECOND) * TICKS_PER_CYCLE))

\* The time of arrival that IsoHandler::putPacket rebuilds.
pkt_ctr(cycle) ==
  TICKS_TO_CYCLE_TIMER(wrapAtMinMaxTicks(
    CYCLE_TIMER_TO_TICKS(m_last_now) + diffCycles(cycle, m_last_now.cycles) * TICKS_PER_CYCLE))

\* Mutant: the wrap of the cycles is forgotten.
Due_plain(ctr) == ctr.cycles >= m_cycle_to_switch_state

\* The test of StreamProcessor::putPacket for a switch.
Due(ctr) == diffCycles(ctr.cycles, m_cycle_to_switch_state) >= 0

\* IsoHandler::putPacket, and what StreamProcessor::putPacket does with the switch: it
\* executes it, or after a lost cycle, if the stream is running, schedules the next one.
\* The cycle of a switch that was executed is not read again; it is 0 here.
putPacket ==
  /\ pc = "iterate" /\ wire # <<>>
  /\ LET cycle == Head(wire) % CYCLES_PER_SECOND
         ctr == pkt_ctr(cycle) IN
     /\ m_last_cycle' = cycle
     /\ m_last_packet_handled_at' = ctr
     /\ last' = Head(wire)
     /\ \/ switch_at # -1 /\ Due(ctr)
           /\ switch_at' = -1 /\ m_cycle_to_switch_state' = 0
        \/ switch_at = -1 /\ dropped_cycles(cycle) # 0
           /\ m_cycle_to_switch_state' = ctr.cycles + 1 /\ switch_at' = Head(wire) + 1
        \/ UNCHANGED switch /\ ~(switch_at # -1 /\ Due(ctr))
  /\ wire' = Tail(wire)
  /\ UNCHANGED <<time, pc, polled, m_State, m_last_now>>

\* raw1394_loop_iterate returns.
iterated ==
  /\ pc = "iterate"
  /\ pc' = "poll"
  /\ UNCHANGED <<time, wire, polled, handler, switch>>

(***************************************************************************)
(* The other threads.                                                      *)
(***************************************************************************)

\* IsoHandler::handleBusReset.  (That a task that is not m_running does not pass the
\* reset on is in StreamProcessor.)
handleBusReset ==
  /\ m_last_packet_handled_at' = NoCTR
  /\ UNCHANGED <<time, wire, pc, polled, m_State, m_last_now, m_last_cycle, last, switch>>

\* StreamProcessor::scheduleStateTransition with a time some cycles ahead.
scheduleStateTransition ==
  /\ switch_at = -1
  /\ \E lead \in 1..MaxLead :
       LET instant == addTicks(CYCLE_TIMER_TO_TICKS(Now), lead * TICKS_PER_CYCLE) IN
       /\ m_cycle_to_switch_state' = TICKS_TO_CYCLES(instant)
       /\ switch_at' = Cycle(time) + lead
  /\ UNCHANGED <<time, wire, pc, polled, handler>>

Next == \/ tick \/ receive
        \/ enable \/ disable \/ Execute \/ putPacket \/ iterated
        \/ handleBusReset \/ scheduleStateTransition

Spec == Init /\ [][Next]_vars

(***************************************************************************)
(* Properties.                                                             *)
(***************************************************************************)

Handling == pc = "iterate" /\ wire # <<>>
PktCycle == Head(wire) % CYCLES_PER_SECOND

\* The rebuilt time of arrival has the second and the cycle in which the packet was on
\* the wire, whether that was before or after the timer was read, and on whichever
\* sides of a wrap of the cycles or the seconds the two are.
ArrivalRebuilt ==
  Handling => LET true == TICKS_TO_CYCLE_TIMER(Head(wire) * TICKS_PER_CYCLE)
                  ctr == pkt_ctr(PktCycle)
              IN ctr.secs = true.secs /\ ctr.cycles = true.cycles

\* The full timestamp that processPacketHeader rebuilds from the SYT of a packet is its
\* presentation time, if that is within the cycles that an SYT tells apart.
PresentationRebuilt ==
  Handling =>
    \A lead \in 0..SYT_CYCLES - 1, offset \in 0..TICKS_PER_CYCLE - 1 :
      LET stamp == (Head(wire) + lead) * TICKS_PER_CYCLE + offset IN
      sytRecvToFullTicks2(TICKS_TO_SYT(stamp), pkt_ctr(PktCycle)) = stamp % WrapTicks

\* A gap of less than a second is noticed, and nothing else is taken for a gap; below
\* half a second its length is right as well.
GapNoticed ==
  Handling /\ last # -1 /\ Head(wire) - last < CYCLES_PER_SECOND =>
    LET missed == Head(wire) - last - 1 IN
    /\ dropped_cycles(PktCycle) # 0 <=> missed > 0
    /\ 2 * (missed + 1) < CYCLES_PER_SECOND => dropped_cycles(PktCycle) = missed

\* IsoHandler::putPacket knows both when a packet arrived and what was lost before it.
PacketPlaced == ArrivalRebuilt /\ GapNoticed

\* "synchronized switching is restricted to a 0.5 sec span": within it, a packet
\* executes the switch exactly if it is of the scheduled cycle or of a later one, also
\* where the scheduled cycle is past the last one of the second.
SwitchOnTime ==
  Handling /\ switch_at # -1 /\ 2 * (Head(wire) - switch_at) < CYCLES_PER_SECOND =>
    (Due(pkt_ctr(PktCycle)) <=> Head(wire) >= switch_at)

\* A handler is found dead only if it has handled packets since it was enabled, but
\* none of the last two seconds.
DeadIsSilent ==
  pc = "poll" /\ m_State = "Running" /\ Dead(Now) =>
    last # -1 /\ time - last * TICKS_PER_CYCLE > Silence * TICKS_PER_SECOND

\* A silent handler is found dead before the ticks can wrap around on it, however long
\* the silence lasts.
SilentIsFound ==
  m_State = "Running" /\ last # -1 /\ m_last_packet_handled_at # NoCTR =>
    time - last * TICKS_PER_CYCLE
      <= Silence * TICKS_PER_SECOND + (MaxLag + 2) * TICKS_PER_CYCLE

\* IsoTask::Execute finds a handler dead when, and only when, it has gone silent.
DeathIsSilence == DeadIsSilent /\ SilentIsFound

(***************************************************************************)
(* The inductive invariant.  The true times that the values of the timer   *)
(* stand for are close enough for differences modulo a second, or modulo   *)
(* the turn of the timer, to be the true ones.                             *)
(***************************************************************************)
TypeOK ==
  /\ time \in Nat /\ polled \in 0..time /\ wire \in Seq(Nat)
  /\ pc \in {"poll", "iterate"} /\ m_State \in {"Stopped", "Running"}
  /\ last \in Nat \cup {-1} /\ switch_at \in Nat \cup {-1}

\* The packets in the kernel are in order, and later than those handled.
WireInOrder ==
  /\ last <= Cycle(time)
  /\ \A i \in DOMAIN wire :
       wire[i] <= Cycle(time) /\ last < wire[i] /\ \A j \in 1..(i - 1) : wire[j] < wire[i]

\* The iso thread is not late, and what it read from the timer is the time it woke up at.
InTime ==
  /\ pc = "iterate" => m_State = "Running" /\ m_last_now = TICKS_TO_CYCLE_TIMER(polled)
  /\ m_State = "Running" => Cycle(time) - Cycle(polled) <= MaxLag
  /\ wire # <<>> => m_State = "Running" /\ Cycle(time) - Head(wire) <= MaxLag

\* The cycle of the last packet, and the cycle to switch in, which may be the one past the
\* last of a second.
CyclesOfTimes ==
  /\ m_last_cycle = IF last = -1 THEN -1 ELSE last % CYCLES_PER_SECOND
  /\ switch_at # -1 =>
       /\ switch_at <= Cycle(time) + MaxLead
       /\ \/ m_cycle_to_switch_state = switch_at % CYCLES_PER_SECOND
          \/ m_cycle_to_switch_state = CYCLES_PER_SECOND /\ switch_at % CYCLES_PER_SECOND = 0

\* The time of the last packet is in its cycle, and not longer ago than a handler may be
\* silent.
Heard ==
  m_last_packet_handled_at # NoCTR =>
    /\ last # -1
    /\ \E o \in 0..(TICKS_PER_CYCLE - 1) :
         m_last_packet_handled_at = TICKS_TO_CYCLE_TIMER(last * TICKS_PER_CYCLE + o)
    /\ m_State = "Running" =>
         polled - last * TICKS_PER_CYCLE <= Silence * TICKS_PER_SECOND + TICKS_PER_CYCLE

IsoIInv == TypeOK /\ WireInOrder /\ InTime /\ CyclesOfTimes /\ Heard
=============================================================================
