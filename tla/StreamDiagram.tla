---------------------------- MODULE StreamDiagram ----------------------------
(***************************************************************************)
(* What the rest of the library may assume of a stream processor: its      *)
(* state moves along the edges that StreamProcessor::updateState allows,   *)
(* falls back to Stopped when its packets stop, and once a bus reset has   *)
(* put it in Error it can only be stopped.                                 *)
(***************************************************************************)
VARIABLE state

Transitions == { <<"Created", "Stopped">>,
                 <<"Stopped", "WaitingForStream">>,
                 <<"WaitingForStream", "DryRunning">>,
                 <<"DryRunning", "Stopped">>,
                 <<"DryRunning", "WaitingForStreamEnable">>,
                 <<"WaitingForStreamEnable", "DryRunning">>,
                 <<"WaitingForStreamEnable", "Running">>,
                 <<"Running", "WaitingForStreamDisable">>,
                 <<"WaitingForStreamDisable", "DryRunning">> }

Init == state = "Created"

Advance == \E e \in Transitions : state = e[1] /\ state' = e[2]

PacketsStop == state # "Created" /\ state' = "Stopped"

BusReset == state' = "Error"

Next == Advance \/ PacketsStop \/ BusReset

Spec == Init /\ [][Next]_state
==============================================================================
