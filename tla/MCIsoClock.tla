----------------------------- MODULE MCIsoClock -----------------------------
(* The isochronous side: one handler on the clock of the bus, and the         *)
(* handlers as the threads share them.  A behaviour is about one of the two;  *)
(* the other is off.                                                          *)
EXTENDS IsoClock, IsoHandlers

VARIABLE subject

Session(types_, ops, faults) == [types |-> types_, ops |-> ops, faults |-> faults]
MCSessions == {Session(<<"Receive">>, 4, 1), Session(<<"Receive">>, 2, 2),
               Session(<<"Receive", "Transmit">>, 2, 1), Session(<<"Receive", "Receive">>, 2, 1)}

ClockOff ==
    /\ time = Start /\ wire = <<>> /\ pc = "off" /\ polled = Start /\ m_State = "Stopped" /\ last = -1
    /\ m_last_now = NoCTR /\ m_last_cycle = -1 /\ m_last_packet_handled_at = NoCTR
    /\ m_cycle_to_switch_state = 0 /\ switch_at = -1
HandlersOff ==
    /\ types = <<>> /\ m_IsoHandlers = <<>> /\ hd = <<>> /\ tsk = [t \in IsoTasks |-> Fresh] /\ cli = Idle
    /\ rst = [pc |-> "idle"] /\ budget = <<>> /\ undefined = "off"

IsoInit ==
    \/ subject = "clock" /\ Init /\ HandlersOff
    \/ subject = "handlers" /\ IhmInit /\ ClockOff
IsoNext ==
    \/ subject = "clock" /\ Next /\ UNCHANGED <<subject, ihmVars>>
    \/ subject = "handlers" /\ IhmNext /\ UNCHANGED <<subject, vars>>
IsoSpec == IsoInit /\ [][IsoNext]_<<subject, vars, ihmVars>> /\ IhmFair
=============================================================================
