--------------------------- MODULE StreamProcessor ---------------------------
(***************************************************************************)
(* One stream: its StreamProcessor, the IsoHandler that feeds it, and the  *)
(* three threads that work on them without a common lock:                  *)
(*   iso       IsoTask::Execute: updates the handlers, then lets a handler *)
(*             deliver a packet to putPacket or ask getPacket for one;     *)
(*   client    StreamProcessorManager: start, stop, xrun recovery and the  *)
(*             wait for a period, for a session of this one stream;        *)
(*   busreset  the bus reset thread, from IsoTask::handleBusReset down.    *)
(* A step is one access to state that another thread may write; reads that *)
(* lead to one decision are taken together.                                *)
(*                                                                         *)
(* Time is kept as the number of cycles that are left until an instant,    *)
(* counted down by the packets; what diffCycles does at a wrap is the      *)
(* subject of CycleTimer.                                                  *)
(***************************************************************************)
EXTENDS Integers

CONSTANTS Types,      \* the types of stream, of "Receive" and "Transmit"
          MaxLead,    \* bound: how far ahead a transition is scheduled, in cycles
          MaxResets,  \* bound: bus resets
          MaxDeaths,  \* bound: handlers found dead
          Timeouts    \* whether the waits of the client may time out

ASSUME TypesAssumption == Types \subseteq {"Receive", "Transmit"}
ASSUME BoundsAssumption == /\ MaxLead \in Nat \ {0}
                           /\ MaxResets \in Nat
                           /\ MaxDeaths \in Nat
                           /\ Timeouts \in BOOLEAN

VARIABLES
  \* StreamProcessor
  m_processor_type,           \* set once, by the constructor
  m_state, m_next_state,
  m_cycle_to_switch_state,    \* cycles left until it; 0: it has come
  m_in_xrun,
  m_transparent,              \* of m_data_buffer
  period,                     \* m_data_buffer has a period ready for the client
  \* IsoHandler
  h_State, h_NextState,
  \* IsoTask
  request_update,             \* the count of requested shadow map updates is not 0
  shadow,                     \* the handler is in the shadow map
  m_in_busreset, m_running,
  \* StreamProcessorManager
  m_WaitLock,                 \* the thread that holds it
  m_shutdown_needed,
  \* the threads
  iso, client, busreset,
  \* how much of the bounds is used
  resets, deaths

processor == <<m_state, m_next_state, m_cycle_to_switch_state, m_in_xrun, m_transparent, period>>
handler == <<h_State, h_NextState>>
task == <<request_update, shadow, m_in_busreset, m_running>>
manager == <<m_WaitLock, m_shutdown_needed>>
rest == <<m_processor_type, resets, deaths>>
vars == <<processor, handler, task, manager, iso, client, busreset, rest>>

\* Mutant: a request to disable that comes after the stream was disabled is accepted.
Transitions_lax == { <<"Created", "Stopped">>,
                     <<"Stopped", "WaitingForStream">>,
                     <<"WaitingForStream", "DryRunning">>,
                     <<"DryRunning", "Stopped">>,
                     <<"DryRunning", "WaitingForStreamEnable">>,
                     <<"DryRunning", "WaitingForStreamDisable">>,
                     <<"WaitingForStreamEnable", "DryRunning">>,
                     <<"WaitingForStreamEnable", "Running">>,
                     <<"Running", "WaitingForStreamDisable">>,
                     <<"WaitingForStreamDisable", "DryRunning">> }

\* The transitions that updateState executes, and the do* functions accept.
Transitions == { <<"Created", "Stopped">>,
                 <<"Stopped", "WaitingForStream">>,
                 <<"WaitingForStream", "DryRunning">>,
                 <<"DryRunning", "Stopped">>,
                 <<"DryRunning", "WaitingForStreamEnable">>,
                 <<"WaitingForStreamEnable", "DryRunning">>,
                 <<"WaitingForStreamEnable", "Running">>,
                 <<"Running", "WaitingForStreamDisable">>,
                 <<"WaitingForStreamDisable", "DryRunning">> }

States == {"Created", "Stopped", "WaitingForStream", "DryRunning", "WaitingForStreamEnable",
           "Running", "WaitingForStreamDisable", "Error"}

Min0(n) == IF n > 0 THEN n ELSE 0

Init ==
  /\ m_processor_type \in Types
  /\ m_state = "Created" /\ m_next_state = "Created"
  /\ m_cycle_to_switch_state = 0
  /\ m_in_xrun = FALSE
  /\ m_transparent = TRUE
  /\ period = FALSE
  /\ h_State = "Stopped" /\ h_NextState = "Stopped"
  /\ request_update = FALSE /\ shadow = FALSE
  /\ m_in_busreset = FALSE /\ m_running = TRUE
  /\ m_WaitLock = "none" /\ m_shutdown_needed = FALSE
  /\ iso = [pc |-> "idle", to |-> "Created", ret |-> "idle", dropped |-> FALSE]
  /\ client = [pc |-> "new", to |-> "Created", ret |-> "idle", lead |-> 0]
  /\ busreset = "idle"
  /\ resets = 0 /\ deaths = 0

(***************************************************************************)
(* The iso thread: StreamProcessor::updateState and the do* functions.     *)
(***************************************************************************)
Goto(pc) == iso' = [iso EXCEPT !.pc = pc]

\* updateState() is called; it continues at ret when it succeeds.
Update(ret) == iso' = [iso EXCEPT !.pc = "load", !.ret = ret]

\* m_next_state = to; updateState()
SetAndUpdate(to, ret) == iso' = [iso EXCEPT !.pc = "set", !.to = to, !.ret = ret]

\* Mutant: the stream leaves Running, but the xrun is not flagged.
Xrun_unflagged(ret) == /\ m_cycle_to_switch_state' = 1
                       /\ SetAndUpdate("WaitingForStreamDisable", ret)
                       /\ UNCHANGED <<m_state, m_next_state, m_in_xrun, m_transparent, period>>

\* What every xrun branch does before it requests WaitingForStreamDisable.
Xrun(ret) == /\ m_in_xrun' = TRUE
             /\ m_cycle_to_switch_state' = 1
             /\ SetAndUpdate("WaitingForStreamDisable", ret)
             /\ UNCHANGED <<m_state, m_next_state, m_transparent, period>>

NotIso == UNCHANGED <<manager, client, busreset, rest>>

set_next_state ==
  /\ iso.pc = "set"
  /\ m_next_state' = iso.to
  /\ Goto("load")
  /\ UNCHANGED <<m_state, m_cycle_to_switch_state, m_in_xrun, m_transparent, period>>
  /\ UNCHANGED <<handler, task>> /\ NotIso

\* updateState: the copy of m_next_state and the choice of the do* function.
\* A refused transition makes the packet function return RAW1394_ISO_ERROR.
updateState ==
  /\ iso.pc = "load"
  /\ iso' = [iso EXCEPT !.to = m_next_state,
                        !.pc = IF m_state = m_next_state THEN iso.ret
                               ELSE IF <<m_state, m_next_state>> \in Transitions THEN "enter"
                               ELSE "idle"]
  /\ UNCHANGED <<processor, handler, task>> /\ NotIso

\* A do* function up to the assignment of m_state: its switch on m_state, which
\* may have changed since updateState looked, and its work on the buffer.
Enters(to) == iso.pc = "enter" /\ iso.to = to /\ <<m_state, to>> \in Transitions

invalid_entry ==
  /\ iso.pc = "enter" /\ <<m_state, iso.to>> \notin Transitions
  /\ Goto("idle")
  /\ UNCHANGED <<processor, handler, task>> /\ NotIso

\* doStop from DryRunning, with stopHandlerForStream and IsoHandler::requestDisable.
doStop ==
  /\ Enters("Stopped")
  /\ h_NextState' = IF h_State = "Running" THEN "Stopped" ELSE h_NextState
  /\ request_update' = TRUE
  /\ m_transparent' = TRUE
  /\ period' = FALSE
  /\ Goto("commit")
  /\ UNCHANGED <<m_state, m_next_state, m_cycle_to_switch_state, m_in_xrun>>
  /\ UNCHANGED <<h_State, shadow, m_in_busreset, m_running>> /\ NotIso

doWaitForRunningStream ==
  /\ Enters("WaitingForStream")
  /\ Goto("commit")
  /\ UNCHANGED <<processor, handler, task>> /\ NotIso

\* Mutant: the xrun is forgotten as soon as the stream is back in DryRunning.
doDryRunning_forgetful ==
  /\ Enters("DryRunning")
  /\ m_transparent' = (m_transparent \/ m_state # "WaitingForStream")
  /\ period' = (period /\ m_state = "WaitingForStream")
  /\ m_in_xrun' = FALSE
  /\ Goto("commit")
  /\ UNCHANGED <<m_state, m_next_state, m_cycle_to_switch_state>>
  /\ UNCHANGED <<handler, task>> /\ NotIso

doDryRunning ==
  /\ Enters("DryRunning")
  /\ m_transparent' = (m_transparent \/ m_state # "WaitingForStream")
  /\ period' = (period /\ m_state = "WaitingForStream")
  /\ Goto("commit")
  /\ UNCHANGED <<m_state, m_next_state, m_cycle_to_switch_state, m_in_xrun>>
  /\ UNCHANGED <<handler, task>> /\ NotIso

\* resizeBuffer, and the prefill of a transmit buffer; either may fail.
doWaitForStreamEnable ==
  /\ Enters("WaitingForStreamEnable")
  /\ Goto("commit") \/ Goto("idle")
  /\ period' = FALSE
  /\ UNCHANGED <<m_state, m_next_state, m_cycle_to_switch_state, m_in_xrun, m_transparent>>
  /\ UNCHANGED <<handler, task>> /\ NotIso

\* Mutant: the buffer is left transparent.
doRunning_transparent ==
  /\ Enters("Running")
  /\ m_in_xrun' = FALSE
  /\ Goto("commit")
  /\ UNCHANGED <<m_state, m_next_state, m_cycle_to_switch_state, m_transparent, period>>
  /\ UNCHANGED <<handler, task>> /\ NotIso

doRunning ==
  /\ Enters("Running")
  /\ m_in_xrun' = FALSE
  /\ m_transparent' = FALSE
  /\ Goto("commit")
  /\ UNCHANGED <<m_state, m_next_state, m_cycle_to_switch_state, period>>
  /\ UNCHANGED <<handler, task>> /\ NotIso

doWaitForStreamDisable ==
  /\ Enters("WaitingForStreamDisable")
  /\ Goto("commit")
  /\ UNCHANGED <<processor, handler, task>> /\ NotIso

\* The assignment of m_state that ends every do* function.
commit_state ==
  /\ iso.pc = "commit"
  /\ m_state' = iso.to
  /\ Goto(iso.ret)
  /\ UNCHANGED <<m_next_state, m_cycle_to_switch_state, m_in_xrun, m_transparent, period>>
  /\ UNCHANGED <<handler, task>> /\ NotIso

Transition ==
  \/ set_next_state \/ updateState \/ invalid_entry
  \/ doStop \/ doWaitForRunningStream \/ doDryRunning
  \/ doWaitForStreamEnable \/ doRunning \/ doWaitForStreamDisable
  \/ commit_state

(***************************************************************************)
(* The iso thread: the packet functions.                                   *)
(***************************************************************************)
Due == m_cycle_to_switch_state = 0

Waiting(s) == m_state = s /\ (s = "WaitingForStreamEnable" => m_next_state = s)

\* Mutant: IsoHandler::iterate does not look at the state of the handler.
iterate_stopped ==
  /\ iso.pc = "idle" /\ shadow
  /\ iso' = [iso EXCEPT !.pc = IF m_processor_type = "Receive" THEN "put" ELSE "get", !.dropped = FALSE]
  /\ m_cycle_to_switch_state' = Min0(m_cycle_to_switch_state - 1)
  /\ client' = [client EXCEPT !.lead = Min0(@ - 1)]
  /\ UNCHANGED <<m_state, m_next_state, m_in_xrun, m_transparent, period>>
  /\ UNCHANGED <<handler, task, manager, busreset, rest>>

\* A packet of the next cycle, or of the one after if a cycle was dropped, is
\* handed to the stream processor by IsoHandler::iterate.
iterate ==
  /\ iso.pc = "idle" /\ shadow /\ h_State = "Running"
  /\ \E dropped \in BOOLEAN :
       LET cycles == IF dropped THEN 2 ELSE 1 IN
       /\ iso' = [iso EXCEPT !.pc = IF m_processor_type = "Receive" THEN "put" ELSE "get",
                             !.dropped = dropped]
       /\ m_cycle_to_switch_state' = Min0(m_cycle_to_switch_state - cycles)
       /\ client' = [client EXCEPT !.lead = Min0(@ - cycles)]
  /\ UNCHANGED <<m_state, m_next_state, m_in_xrun, m_transparent, period>>
  /\ UNCHANGED <<handler, task, manager, busreset, rest>>

\* putPacket up to processPacketHeader.
putPacket ==
  /\ iso.pc = "put"
  /\ \/ m_state \in {"Created", "Error"} /\ Goto("idle")
     \/ m_state = "WaitingForStreamDisable"
        /\ IF Due THEN SetAndUpdate("DryRunning", "idle") ELSE Goto("idle")
     \/ Waiting("WaitingForStreamEnable")
        /\ IF Due THEN SetAndUpdate("Running", "dropped") ELSE Goto("dropped")
     \/ /\ m_state \notin {"Created", "Error", "WaitingForStreamDisable"}
        /\ ~Waiting("WaitingForStreamEnable")
        /\ Goto("dropped")
  /\ UNCHANGED <<processor, handler, task>> /\ NotIso

putPacket_dropped ==
  /\ iso.pc = "dropped"
  /\ IF iso.dropped /\ m_state = "Running" THEN Xrun("header")
     ELSE Goto("header") /\ UNCHANGED processor
  /\ UNCHANGED <<handler, task>> /\ NotIso

\* processPacketHeader returned eCRV_Invalid.
putPacket_invalid ==
  /\ iso.pc = "header"
  /\ Goto("idle")
  /\ UNCHANGED <<processor, handler, task>> /\ NotIso

\* processPacketHeader returned eCRV_OK.
putPacket_valid ==
  /\ iso.pc = "header"
  /\ \/ m_state = "WaitingForStream"
        /\ IF Due THEN SetAndUpdate("DryRunning", "idle") ELSE Goto("idle")
     \/ m_state # "WaitingForStream" /\ m_state # m_next_state /\ Update("data")
     \/ m_state # "WaitingForStream" /\ m_state = m_next_state /\ Goto("data")
  /\ UNCHANGED <<processor, handler, task>> /\ NotIso

\* processPacketData.  Only a buffer that keeps its frames can be full.
putPacket_data ==
  /\ iso.pc = "data"
  /\ \/ /\ Goto("idle")
        /\ period' \in {period, period \/ (~m_transparent /\ m_state # "WaitingForStream")}
        /\ UNCHANGED <<m_state, m_next_state, m_cycle_to_switch_state, m_in_xrun, m_transparent>>
     \/ m_state # "WaitingForStream" /\ ~m_transparent /\ Xrun("idle")
  /\ UNCHANGED <<handler, task>> /\ NotIso

\* getPacket up to the choice by state.
getPacket ==
  /\ iso.pc = "get"
  /\ \/ m_state = "Error" /\ Goto("idle") /\ UNCHANGED processor
     \/ m_state = "Running" /\ iso.dropped /\ Xrun("empty")
     \/ /\ m_state # "Error" /\ ~(m_state = "Running" /\ iso.dropped)
        /\ m_in_xrun' = (m_in_xrun \/ iso.dropped)
        /\ Goto("state")
        /\ UNCHANGED <<m_state, m_next_state, m_cycle_to_switch_state, m_transparent, period>>
  /\ UNCHANGED <<handler, task>> /\ NotIso

getPacket_state ==
  /\ iso.pc = "state"
  /\ \/ m_state = "Created" /\ Goto("idle")
     \/ m_state = "WaitingForStreamDisable"
        /\ IF Due THEN SetAndUpdate("DryRunning", "silent") ELSE Goto("silent")
     \/ Waiting("WaitingForStreamEnable")
        /\ IF Due THEN SetAndUpdate("Running", "empty") ELSE Goto("empty")
     \/ m_state = "WaitingForStream"
        /\ IF Due THEN SetAndUpdate("DryRunning", "empty") ELSE Goto("empty")
     \/ m_state = "Running" /\ Goto("generate")
     \/ /\ m_state \in {"Stopped", "DryRunning", "WaitingForStreamEnable", "Error"}
        /\ ~Waiting("WaitingForStreamEnable")
        /\ Goto("empty")
  /\ UNCHANGED <<processor, handler, task>> /\ NotIso

\* generateSilentPacketHeader: eCRV_Packet, or eCRV_EmptyPacket.
getPacket_silent ==
  /\ iso.pc = "silent"
  /\ Goto("idle") \/ Goto("empty")
  /\ UNCHANGED <<processor, handler, task>> /\ NotIso

\* A requested change is executed on the way to pc.
UpdateOrGoto(pc) == IF m_state # m_next_state THEN Update(pc) ELSE Goto(pc)

\* generatePacketHeader: a packet or a deferred one, an empty one, another try
\* later, or an xrun.
getPacket_generate ==
  /\ iso.pc = "generate"
  /\ \/ /\ \E pc \in {"payload", "empty", "idle"} : UpdateOrGoto(pc)
        /\ UNCHANGED processor
     \/ Xrun("empty")
  /\ UNCHANGED <<handler, task>> /\ NotIso

\* generatePacketData: the frames leave room for more, or there are too few.
getPacket_payload ==
  /\ iso.pc = "payload"
  /\ \/ /\ Goto("idle")
        /\ period' \in {period, TRUE}
        /\ UNCHANGED <<m_state, m_next_state, m_cycle_to_switch_state, m_in_xrun, m_transparent>>
     \/ Xrun("empty")
  /\ UNCHANGED <<handler, task>> /\ NotIso

\* send_empty_packet
getPacket_empty ==
  /\ iso.pc = "empty"
  /\ UpdateOrGoto("idle")
  /\ UNCHANGED <<processor, handler, task>> /\ NotIso

Packet ==
  \/ putPacket \/ putPacket_dropped \/ putPacket_invalid \/ putPacket_valid \/ putPacket_data
  \/ getPacket \/ getPacket_state \/ getPacket_silent \/ getPacket_generate
  \/ getPacket_payload \/ getPacket_empty

(***************************************************************************)
(* The iso thread: the handler.                                            *)
(***************************************************************************)
\* IsoTask::updateShadowMapHelper with IsoHandler::updateState and enable.  One
\* request is acknowledged; there may be more.
updateShadowMap ==
  /\ iso.pc = "idle" /\ request_update
  /\ request_update' \in BOOLEAN
  /\ \/ /\ m_in_busreset
        /\ shadow' = FALSE
        /\ UNCHANGED <<iso, handler>>
     \/ /\ ~m_in_busreset /\ h_State = "Running" /\ h_NextState = "Stopped"
        /\ iso' = [iso EXCEPT !.pc = "disable", !.ret = "idle"]
        /\ UNCHANGED <<handler, shadow>>
     \/ /\ ~m_in_busreset /\ ~(h_State = "Running" /\ h_NextState = "Stopped")
        /\ h_State' = h_NextState
        /\ shadow' = (h_NextState = "Running")
        /\ UNCHANGED <<iso, h_NextState>>
  /\ UNCHANGED <<processor, m_in_busreset, m_running>> /\ NotIso

\* IsoTask::Execute finds that the handler saw no packet for two seconds:
\* IsoHandler::notifyOfDeath.
notifyOfDeath ==
  /\ iso.pc = "idle" /\ shadow /\ h_State = "Running" /\ deaths < MaxDeaths
  /\ deaths' = deaths + 1
  /\ iso' = [iso EXCEPT !.pc = "disable", !.ret = "died"]
  /\ UNCHANGED <<processor, handler, task, manager, client, busreset, m_processor_type, resets>>

\* IsoHandler::disable: m_State, then m_NextState, then the client's packetsStopped,
\* which sets m_state, then m_next_state.
disable ==
  /\ iso.pc = "disable"
  /\ h_State' = "Stopped"
  /\ Goto("disable_next")
  /\ UNCHANGED <<processor, h_NextState, task>> /\ NotIso

disable_next ==
  /\ iso.pc = "disable_next"
  /\ h_NextState' = "Stopped"
  /\ Goto("packetsStopped")
  /\ UNCHANGED <<processor, h_State, task>> /\ NotIso

packetsStopped ==
  /\ iso.pc = "packetsStopped"
  /\ m_state' = "Stopped"
  /\ Goto("packetsStopped_next")
  /\ UNCHANGED <<m_next_state, m_cycle_to_switch_state, m_in_xrun, m_transparent, period>>
  /\ UNCHANGED <<handler, task>> /\ NotIso

packetsStopped_next ==
  /\ iso.pc = "packetsStopped_next"
  /\ m_next_state' = "Stopped"
  /\ Goto(iso.ret)
  /\ shadow' = (shadow /\ iso.ret = "died")
  /\ UNCHANGED <<m_state, m_cycle_to_switch_state, m_in_xrun, m_transparent, period>>
  /\ UNCHANGED <<handler, request_update, m_in_busreset, m_running>> /\ NotIso

\* StreamProcessor::handlerDied, and the m_running = false of Execute.
handlerDied ==
  /\ iso.pc = "died"
  /\ m_state' = "Stopped"
  /\ m_in_xrun' = TRUE
  /\ m_running' = FALSE
  /\ Goto("idle")
  /\ UNCHANGED <<m_next_state, m_cycle_to_switch_state, m_transparent, period>>
  /\ UNCHANGED <<handler, request_update, shadow, m_in_busreset>> /\ NotIso

Handler == \/ updateShadowMap \/ notifyOfDeath \/ disable \/ disable_next
           \/ packetsStopped \/ packetsStopped_next \/ handlerDied

(***************************************************************************)
(* The client thread: the StreamProcessorManager and the schedule*         *)
(* functions it calls.                                                     *)
(***************************************************************************)
ClientGoto(pc) == client' = [client EXCEPT !.pc = pc]

NotClient == UNCHANGED <<iso, busreset, rest>>

\* The call of scheduleStateTransition(to, now + lead).
Schedule(pc, to, ret) ==
  \E lead \in 1..MaxLead : client' = [pc |-> pc, to |-> to, ret |-> ret, lead |-> lead]

\* StreamProcessor::prepare, before any packet: doStop from Created.
prepare ==
  /\ client.pc = "new"
  /\ m_next_state' = "Stopped"
  /\ m_state' = IF m_state = "Created" THEN "Stopped" ELSE m_state
  /\ ClientGoto("idle")
  /\ UNCHANGED <<m_cycle_to_switch_state, m_in_xrun, m_transparent, period>>
  /\ UNCHANGED <<handler, task, manager>> /\ NotClient

\* startDryRunning, from start or handleXrun: scheduleStartDryRunning where the
\* state allows it.  In Stopped this needs requestEnable to accept.  It may fail.
startDryRunning ==
  /\ client.pc \in {"idle", "stopped"}
  /\ \/ /\ m_state = "Stopped" /\ h_State = "Stopped"
        /\ h_NextState' = "Running"
        /\ Schedule("enable", "WaitingForStream", "wait_dry")
     \/ /\ m_state = "Running"
        /\ Schedule("time", "WaitingForStreamDisable", "wait_dry")
        /\ UNCHANGED h_NextState
     \/ /\ m_state = "WaitingForStreamEnable"
        /\ Schedule("time", "DryRunning", "wait_dry")
        /\ UNCHANGED h_NextState
     \/ /\ m_state \in {"DryRunning", "WaitingForStreamDisable"}
        /\ ClientGoto("wait_dry")
        /\ UNCHANGED h_NextState
     \/ /\ \/ m_state \in {"Created", "WaitingForStream", "Error"}
           \/ m_state = "Stopped" /\ h_State = "Running"
        /\ ClientGoto("idle")
        /\ UNCHANGED h_NextState
  /\ UNCHANGED <<processor, h_State, task, manager>> /\ NotClient

\* startHandlerForStream: requestShadowMapUpdate after requestEnable.
requestShadowMapUpdate ==
  /\ client.pc = "enable"
  /\ request_update' = TRUE
  /\ ClientGoto("time")
  /\ UNCHANGED <<processor, handler, shadow, m_in_busreset, m_running, manager>> /\ NotClient

\* Mutant: the state is requested before the time is set.
scheduleStateTransition_late ==
  /\ \/ /\ client.pc = "time"
        /\ m_next_state' = client.to
        /\ ClientGoto("next")
        /\ UNCHANGED m_cycle_to_switch_state
     \/ /\ client.pc = "next"
        /\ m_cycle_to_switch_state' = client.lead
        /\ ClientGoto(client.ret)
        /\ UNCHANGED m_next_state
  /\ UNCHANGED <<m_state, m_in_xrun, m_transparent, period>>
  /\ UNCHANGED <<handler, task, manager>> /\ NotClient

scheduleStateTransition ==
  /\ \/ /\ client.pc = "time"
        /\ m_cycle_to_switch_state' = client.lead
        /\ ClientGoto("next")
        /\ UNCHANGED m_next_state
     \/ /\ client.pc = "next"
        /\ m_next_state' = client.to
        /\ ClientGoto(client.ret)
        /\ UNCHANGED m_cycle_to_switch_state
  /\ UNCHANGED <<m_state, m_in_xrun, m_transparent, period>>
  /\ UNCHANGED <<handler, task, manager>> /\ NotClient

\* The polling loops end well: all dry-running, then running.
dry_running ==
  /\ client.pc = "wait_dry" /\ m_state = "DryRunning"
  /\ ClientGoto("sync")
  /\ UNCHANGED <<processor, handler, task, manager>> /\ NotClient

\* syncStartAll: scheduleStartRunning.
syncStartAll ==
  /\ client.pc = "sync"
  /\ Schedule("time", "WaitingForStreamEnable", "wait_run")
  /\ UNCHANGED <<processor, handler, task, manager>> /\ NotClient

started ==
  /\ client.pc = "wait_run" /\ m_state = "Running"
  /\ ClientGoto("run")
  /\ UNCHANGED <<processor, handler, task, manager>> /\ NotClient

\* waitForPeriod takes the wait lock, unless a shutdown is needed.
waitForPeriod ==
  /\ client.pc = "run"
  /\ IF m_shutdown_needed THEN ClientGoto("idle") /\ UNCHANGED m_WaitLock
     ELSE m_WaitLock = "none" /\ m_WaitLock' = "client" /\ ClientGoto("wait")
  /\ UNCHANGED <<processor, handler, task, m_shutdown_needed>> /\ NotClient

\* canConsumePeriod of a receive, canProducePeriod of a transmit stream.
PeriodReady == m_in_xrun \/ (m_state = "Running" /\ m_next_state = "Running" /\ period)

\* The wait loop ends: with a period to transfer, or to recover from an xrun.
\* The lock is held for as long as it lasts.
wait_ends ==
  /\ client.pc = "wait"
  /\ PeriodReady \/ m_state = "Error"
  /\ m_shutdown_needed' = (m_shutdown_needed \/ m_state = "Error")
  /\ m_WaitLock' = "none"
  /\ ClientGoto(IF m_in_xrun THEN "idle" ELSE "run")
  /\ period' = (period /\ m_in_xrun)
  /\ UNCHANGED <<m_state, m_next_state, m_cycle_to_switch_state, m_in_xrun, m_transparent>>
  /\ UNCHANGED <<handler, task>> /\ NotClient

\* "wait extended since period not ready...", and the same in the polling loops.
poll_again ==
  /\ \/ client.pc = "wait" /\ ~(PeriodReady \/ m_state = "Error")
     \/ client.pc = "wait_dry" /\ m_state # "DryRunning"
     \/ client.pc = "wait_run" /\ m_state # "Running"
     \/ client.pc = "wait_disabled"
        /\ m_state \notin {"DryRunning", "Stopped", "WaitingForStream", "Error"}
     \/ client.pc = "wait_stopped" /\ m_state \notin {"Stopped", "Error"}
  /\ UNCHANGED vars

\* stop: scheduleStopRunning if the stream is running.
stop ==
  /\ client.pc \in {"idle", "run"}
  /\ IF m_state = "Running" THEN Schedule("time", "WaitingForStreamDisable", "wait_disabled")
     ELSE ClientGoto("wait_disabled")
  /\ UNCHANGED <<processor, handler, task, manager>> /\ NotClient

\* Mutant: a stream that is dry-running already is taken to be on its way.
stop_disabled_unasked ==
  /\ client.pc = "wait_disabled"
  /\ \/ /\ m_state \in {"Stopped", "WaitingForStream"}
        /\ Schedule("time", "Stopped", "wait_stopped")
     \/ m_state \in {"DryRunning", "Error"} /\ ClientGoto("wait_stopped")
  /\ UNCHANGED <<processor, handler, task, manager>> /\ NotClient

\* stop: scheduleStopDryRunning once the stream is no longer running.
stop_disabled ==
  /\ client.pc = "wait_disabled"
  /\ \/ /\ m_state \in {"DryRunning", "Stopped", "WaitingForStream"}
        /\ Schedule("time", "Stopped", "wait_stopped")
     \/ m_state = "Error" /\ ClientGoto("wait_stopped")
  /\ UNCHANGED <<processor, handler, task, manager>> /\ NotClient

\* stop returns true.
stopped ==
  /\ client.pc = "wait_stopped" /\ m_state \in {"Stopped", "Error"}
  /\ ClientGoto("stopped")
  /\ UNCHANGED <<processor, handler, task, manager>> /\ NotClient

\* A polling loop has counted down to zero.
timeout ==
  /\ Timeouts
  /\ client.pc \in {"wait_dry", "wait_run", "wait_disabled", "wait_stopped"}
  /\ ClientGoto("idle")
  /\ UNCHANGED <<processor, handler, task, manager>> /\ NotClient

\* What the client does by itself, and what it is told to do.
Manager == \/ prepare \/ requestShadowMapUpdate \/ scheduleStateTransition
           \/ dry_running \/ syncStartAll \/ started
           \/ waitForPeriod \/ wait_ends \/ stop_disabled \/ stopped

Caller == startDryRunning \/ stop \/ timeout \/ poll_again

(***************************************************************************)
(* The bus reset thread: IsoTask::handleBusReset, IsoHandler::             *)
(* handleBusReset and StreamProcessor::handleBusReset.                     *)
(***************************************************************************)
BusResetGoto(pc) == busreset' = pc

handleBusReset ==
  /\ busreset = "idle" /\ resets < MaxResets /\ m_running
  /\ resets' = resets + 1
  /\ m_in_busreset' = TRUE
  /\ request_update' = TRUE
  /\ BusResetGoto("lock")
  /\ UNCHANGED <<processor, handler, shadow, m_running, manager, iso, client>>
  /\ UNCHANGED <<m_processor_type, deaths>>

lockWaitLoop ==
  /\ busreset = "lock" /\ m_WaitLock = "none"
  /\ m_WaitLock' = "busreset"
  /\ BusResetGoto("error")
  /\ UNCHANGED <<processor, handler, task, m_shutdown_needed, iso, client, rest>>

\* handleBusResetDo, and the unlock after it.
handleBusResetDo ==
  /\ \/ /\ busreset = "error"
        /\ m_state' = "Error"
        /\ BusResetGoto("xrun")
        /\ UNCHANGED <<m_in_xrun, m_WaitLock>>
     \/ /\ busreset = "xrun"
        /\ m_in_xrun' = TRUE
        /\ m_WaitLock' = "none"
        /\ BusResetGoto("resume")
        /\ UNCHANGED m_state
  /\ UNCHANGED <<m_next_state, m_cycle_to_switch_state, m_transparent, period>>
  /\ UNCHANGED <<handler, task, m_shutdown_needed, iso, client, rest>>

\* "re-enable processing"
resume ==
  /\ busreset = "resume"
  /\ m_in_busreset' = FALSE
  /\ request_update' = TRUE
  /\ BusResetGoto("idle")
  /\ UNCHANGED <<processor, handler, shadow, m_running, manager, iso, client, rest>>

BusReset == lockWaitLoop \/ handleBusResetDo \/ resume

Next == \/ Transition \/ Packet \/ iterate \/ Handler
        \/ Manager \/ Caller
        \/ handleBusReset \/ BusReset

Spec == Init /\ [][Next]_vars

(***************************************************************************)
(* Fairness.  No thread stops in the middle of its work; the bus delivers  *)
(* a packet in every cycle while the handler runs, and valid ones among    *)
(* them; the iso thread gets round to a requested update; the polling      *)
(* loops of the client are counted down.                                   *)
(***************************************************************************)
Fairness == /\ WF_vars(Transition) /\ WF_vars(Packet) /\ WF_vars(iterate)
            /\ SF_vars(putPacket_valid)
            /\ SF_vars(updateShadowMap)
            /\ WF_vars(disable \/ disable_next \/ packetsStopped \/ packetsStopped_next
                       \/ handlerDied)
            /\ WF_vars(Manager) /\ WF_vars(timeout)
            /\ WF_vars(BusReset)

FairSpec == Spec /\ Fairness

(***************************************************************************)
(* Properties.                                                             *)
(***************************************************************************)
IsoPcs == {"idle", "set", "load", "enter", "commit",
           "put", "dropped", "header", "data",
           "get", "state", "silent", "generate", "payload", "empty",
           "disable", "disable_next", "packetsStopped", "packetsStopped_next", "died"}

ClientPcs == {"new", "idle", "enable", "time", "next", "wait_dry", "sync", "wait_run",
              "run", "wait", "wait_disabled", "wait_stopped", "stopped"}

IsoRets == {"idle", "dropped", "header", "data", "silent", "payload", "empty", "died"}

ClientRets == {"idle", "wait_dry", "wait_run", "wait_disabled", "wait_stopped"}

Flags ==
  /\ m_in_xrun \in BOOLEAN /\ m_transparent \in BOOLEAN /\ period \in BOOLEAN
  /\ request_update \in BOOLEAN /\ shadow \in BOOLEAN
  /\ m_in_busreset \in BOOLEAN /\ m_running \in BOOLEAN
  /\ m_shutdown_needed \in BOOLEAN

\* Type invariant.
TypeOK ==
  /\ Flags
  /\ m_processor_type \in Types
  /\ m_state \in States
  /\ m_next_state \in States \ {"Error"}
  /\ m_cycle_to_switch_state \in 0..MaxLead
  /\ h_State \in {"Stopped", "Running"} /\ h_NextState \in {"Stopped", "Running"}
  /\ m_WaitLock \in {"none", "client", "busreset"}
  /\ iso \in [pc : IsoPcs, to : States \ {"Error"}, ret : IsoRets, dropped : BOOLEAN]
  /\ client \in [pc : ClientPcs, to : States \ {"Error"}, ret : ClientRets, lead : 0..MaxLead]
  /\ busreset \in {"idle", "lock", "error", "xrun", "resume"}
  /\ resets \in 0..MaxResets /\ deaths \in 0..MaxDeaths

\* While a stream is Running, and until it is really disabled, its buffer keeps the
\* frames it is given, whatever the bus reset thread and the client did while the
\* iso thread was entering or leaving the state (doRunning, doDryRunning, doStop).
RunningKeepsFrames ==
  m_state \in {"Running", "WaitingForStreamDisable"} =>
     ~m_transparent \/ (iso.pc = "commit" /\ iso.to \in {"DryRunning", "Stopped"})

Active == {"WaitingForStream", "DryRunning", "WaitingForStreamEnable", "Running",
           "WaitingForStreamDisable"}

\* A stream in an active state has a handler that delivers packets to it, except
\* during IsoHandler::disable: no stream waits for packets that cannot come.
ActiveHasHandler ==
  m_state \in Active => h_State = "Running" \/ iso.pc \in {"disable_next", "packetsStopped"}

\* A stream does not start running before the cycle it was scheduled for, although
\* the cycle and the requested state are two separate writes of the client
\* (scheduleStateTransition) that the packet functions may see one without the other.
RunsOnTime ==
  iso.pc \in {"enter", "commit"} /\ iso.to = "Running" /\ client.to = "WaitingForStreamEnable"
     => client.lead = 0

\* An xrun that happens while the client is in its period loop stays flagged until
\* the client has left the loop to recover: the iso thread does not take it back on
\* the stream's way through the other states.
XrunKept == [][client.pc \in {"run", "wait"} /\ m_in_xrun => m_in_xrun']_vars

Diagram == INSTANCE StreamDiagram WITH state <- m_state

\* Without bus resets, m_state only moves along the diagram that updateState
\* enforces, although it is read, worked upon and written in separate steps.
IsDiagram == Diagram!Spec

\* The client does not stay in the period loop with a stream that has left Running,
\* for whatever reason: an xrun, a dead handler or a request.
LeavesPeriodLoop == (client.pc = "wait" /\ m_state # "Running") ~> (client.pc # "wait")

\* stop, called on a stream that is Running, returns with the stream stopped, even
\* if an xrun or the death of the handler overtakes the requests it makes.
RunningStops ==
  (client.pc = "time" /\ client.ret = "wait_disabled") ~> (client.pc = "stopped")

(***************************************************************************)
(* The inductive invariant behind the safety properties.                   *)
(***************************************************************************)

\* Until prepare nothing runs, and only until then the stream is Created.
Fresh ==
  /\ client.pc = "new" =>
       /\ iso.pc = "idle"
       /\ m_state \in {"Created", "Error"}
       /\ h_State = "Stopped" /\ h_NextState = "Stopped"
  /\ m_state = "Created" => client.pc = "new"

Stopping == {"disable", "disable_next", "packetsStopped", "packetsStopped_next"}

\* Packets are only handled, and a handler is only disabled, while it is running;
\* a handler that is being disabled goes on to nothing but the end of that.
Serving ==
  /\ iso.pc \notin {"idle", "died"} \cup (Stopping \ {"disable"}) => h_State = "Running"
  /\ iso.pc \in Stopping => iso.ret \in {"idle", "died"}

\* A transition under way was allowed when it was begun, and only a bus reset has
\* changed the state since; the iso thread requests these states only.
Entering ==
  /\ iso.pc \in {"enter", "commit"} =>
       \/ <<m_state, iso.to>> \in Transitions
       \/ m_state = "Error" /\ iso.to # "Created"
  /\ iso.pc = "set" => iso.to \in {"DryRunning", "Running", "WaitingForStreamDisable"}

\* On the way into Running the buffer keeps its frames already.
KeepsFrames ==
  iso.pc = "commit" /\ iso.to \in {"Running", "WaitingForStreamDisable"} => ~m_transparent

\* While the client is in its period loop, the stream is not restarted.
NoRestart ==
  client.pc \in {"run", "wait"} =>
    /\ m_state # "WaitingForStreamEnable"
    /\ iso.pc \in {"enter", "commit"} => iso.to # "WaitingForStreamEnable"
    /\ \/ m_state = "DryRunning"
       \/ iso.pc \in {"enter", "commit"} /\ iso.to = "DryRunning"
       => m_next_state # "WaitingForStreamEnable"

\* What the three threads maintain between them: the reason why the safety
\* properties hold although no lock protects the state.
IInv == /\ TypeOK
        /\ RunningKeepsFrames /\ ActiveHasHandler
        /\ Fresh /\ Serving /\ Entering /\ KeepsFrames /\ NoRestart

(***************************************************************************)
(* The inductive invariant behind RunsOnTime, where no wait times out and  *)
(* no handler dies.                                                        *)
(***************************************************************************)
Calling == client.pc \in {"enable", "time", "next"}

\* scheduleStartRunning is under way, or the client waits for what it requested.
Asks == client.pc \in {"time", "next"} /\ client.to = "WaitingForStreamEnable"
Waits == client.pc = "wait_run"

\* The client has found the stream dry-running, and its cycle has not come.
Early == client.pc = "sync" \/ Asks \/ (Waits /\ client.lead > 0)

\* The iso thread executes the transition to s.
Going(s) == iso.pc \in {"enter", "commit"} /\ iso.to = s

\* What the client calls scheduleStateTransition for, and what it waits for then.
CallsPaired ==
  /\ Calling => <<client.to, client.ret>> \in
       { <<"WaitingForStream", "wait_dry">>, <<"DryRunning", "wait_dry">>,
         <<"WaitingForStreamDisable", "wait_dry">>, <<"WaitingForStreamEnable", "wait_run">>,
         <<"WaitingForStreamDisable", "wait_disabled">>, <<"Stopped", "wait_stopped">> }
  /\ client.pc = "enable" => client.to = "WaitingForStream"
  /\ client.to = "WaitingForStreamEnable" /\ ~Asks /\ ~Waits => client.lead = 0

\* The stream is enabled only while the client waits for it to run.
EnableAsked ==
  /\ ~Waits => /\ m_state # "WaitingForStreamEnable" /\ m_next_state # "WaitingForStreamEnable"
               /\ ~Going("WaitingForStreamEnable")
  /\ m_state = "Running" \/ Going("Running") => m_next_state # "WaitingForStreamEnable"

\* Running is requested by the packet functions, of a stream that was enabled.
RunningAsked ==
  /\ iso.pc = "set" /\ iso.to = "Running" => Waits /\ m_state \in {"WaitingForStreamEnable", "Error"}
  /\ m_next_state = "Running" =>
       /\ \/ m_state \in {"WaitingForStreamEnable", "Running", "Error"}
          \/ m_state = "Stopped" /\ iso.pc = "packetsStopped_next"
       /\ iso.pc \in {"enter", "commit"} => iso.to = "Running"

\* Only a stream that was Running sends its frames, or is found in an xrun.
DisableAsked ==
  /\ iso.pc = "generate" => m_state \in {"Running", "Error"}
  /\ iso.pc = "payload" => m_state \in {"Running", "WaitingForStreamDisable", "Error"}
  /\ iso.pc \in {"load", "enter", "commit"} /\ iso.ret = "payload" => m_state \in {"Running", "Error"}
  /\ iso.pc \in {"enter", "commit"} /\ iso.ret = "payload" => iso.to = "WaitingForStreamDisable"
  /\ iso.pc = "set" => iso.ret # "payload"
  /\ iso.pc = "set" /\ iso.to = "WaitingForStreamDisable" =>
       m_state \in {"Running", "WaitingForStreamDisable", "Error"}

\* The cycle to switch on is the client's, from its write of it until the cycle comes.
CountsTogether ==
  /\ (Waits \/ (Asks /\ client.pc = "next")) /\ client.lead > 0 =>
       m_cycle_to_switch_state = client.lead
  /\ \/ m_next_state = "Running"
     \/ iso.pc = "set" /\ iso.to = "Running"
     \/ Going("Running")
     => (Waits => client.lead = 0)

\* Before that cycle nothing leads to Running, and no xrun moves the cycle.
NotRunningYet ==
  Early => /\ m_state \notin {"Running", "WaitingForStreamDisable"} /\ m_transparent
           /\ m_next_state # "Running"
           /\ iso.pc \notin {"generate", "payload"}
           /\ iso.pc = "set" => iso.to \notin {"Running", "WaitingForStreamDisable"}
           /\ ~Going("Running") /\ ~Going("WaitingForStreamDisable")

\* A stream that is not, and was not just, Running discards its frames.
DryIsTransparent ==
  /\ m_state \in {"Created", "Stopped", "WaitingForStream", "DryRunning", "WaitingForStreamEnable"} =>
       m_transparent \/ (iso.pc = "commit" /\ iso.to = "Running")
  /\ iso.pc = "commit" /\ iso.to \in {"DryRunning", "WaitingForStream", "Stopped", "WaitingForStreamEnable"} =>
       m_transparent

\* The handler is to be disabled.
ToDisable == (h_State = "Running" /\ h_NextState = "Stopped") \/ iso.pc = "disable"

\* It is disabled for a stream that has been stopped, and is not started again before that.
StopsClean ==
  /\ iso.pc # "died" /\ iso.ret # "died"
  /\ ToDisable \/ iso.pc \in Stopping =>
       /\ m_transparent
       /\ \/ m_state \in {"Stopped", "Error"}
          \/ m_state = "DryRunning" /\ iso.pc = "commit" /\ iso.to = "Stopped"
       /\ iso.pc # "enter" /\ (iso.pc = "commit" => iso.to = "Stopped")
  /\ ToDisable => m_next_state # "WaitingForStream"
  /\ iso.pc \in Stopping \ {"disable"} => h_State = "Stopped"

\* A start is requested of a stream that is stopped, with its handler enabled or to be.
StartAsked ==
  /\ Calling /\ client.to = "WaitingForStream" =>
       /\ m_state \in {"Stopped", "Error"} /\ m_next_state # "WaitingForStream"
       /\ iso.pc \notin {"enter", "commit"} /\ ~ToDisable
  /\ m_next_state = "WaitingForStream" =>
       /\ client.pc = "wait_dry" /\ m_state \in {"Stopped", "WaitingForStream", "Error"}
       /\ iso.pc \in {"enter", "commit"} => iso.to = "WaitingForStream"

OnTimeInv == /\ CallsPaired /\ EnableAsked /\ RunningAsked /\ DisableAsked /\ CountsTogether
             /\ NotRunningYet /\ DryIsTransparent /\ StopsClean /\ StartAsked

(***************************************************************************)
(* What comments in the code say, and the code does not do.                *)
(***************************************************************************)

\* StreamProcessor::handleBusReset: "we are sure that we're not iterated since this
\* is called from within the ISO manager thread".  Then only the end of the packets
\* could end the Error state.
ErrorSticks == [][m_state = "Error" => m_state' \in {"Error", "Stopped"}]_vars

\* getFramesDry: "there is do data put into the ringbuffer in the dry-running state".
DryDiscards == m_state = "DryRunning" => m_transparent

\* StreamProcessorManager::start: "ensure stream processors and their handlers are in
\* the stopped state".  stop returned true, no update is on its way, and the stream
\* is stopped: so is its handler.
StoppedHandler ==
  client.pc = "stopped" /\ iso.pc = "idle" /\ ~request_update /\ m_state = "Stopped"
     => h_State = "Stopped"

\* The same comment, for the stream: once stop waits for the stream to stop, having
\* requested it, the stream does stop, if not before the countdown then after it,
\* unless the next call of the client comes first.
StopStops ==
  (client.pc = "wait_stopped")
     ~> (m_state \in {"Stopped", "Error"} \/ client.pc \notin {"wait_stopped", "idle"})

\* StreamProcessor::handleBusResetDo: "this will result in the SPM dying".
BusResetHandled == (busreset = "lock") ~> (busreset = "idle")
==============================================================================
