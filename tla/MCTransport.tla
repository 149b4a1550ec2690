----------------------------- MODULE MCTransport -----------------------------
(* What carries the samples: the ring buffer, the time-stamped buffer around *)
(* it, the packets that are filled from it, the events in them, the cycle    *)
(* timer they are timed with, and the blocks that reach another process.  A  *)
(* behaviour is about one subject; the others rest in an initial state.      *)
EXTENDS RingBuffer, TimestampedBuffer, TransmitPackets, StreamEvents, CycleTimerHelper, IpcRingBuffer

CONSTANT TransportSubjects  \* of {"ring", "buffer", "packets", "events", "timer", "ipc"}
VARIABLE subject

MCJitter == {-4, 0, 4}
MCDllScenarios ==
    {[jitter |-> {-1, 1}, bogus |-> {20}, late |-> {0, 2}, updates |-> 3, resets |-> 0],
     [jitter |-> {0}, bogus |-> {0}, late |-> {3, 6}, updates |-> 4, resets |-> 1]}
MCIpcSetups ==
    [blocks : {2, 3}, messages : {2}, writer : {"waits"}, reader : {"server"}]
    \cup [blocks : {3}, messages : {2}, writer : {"writes"}, reader : {"blocking"}]
    \cup [blocks : {4}, messages : {2}, writer : {"writes", "server"}, reader : {"blocking", "server"}]

RingOff == Init /\ buf = [i \in Cells |-> CHOOSE d \in Data : TRUE]
BufOff == BufInit /\ m_type = "Receive" /\ capacity = m_buffer_size - 1
TxOff == TxInit /\ kind = "motu"
EvOff == EvInit /\ family = "motu"
DllOff == DllInit /\ scenario.resets = 0
IpcOff == IpcInit /\ setup.blocks = 2

TransportInit ==
    /\ subject \in TransportSubjects
    /\ \/ subject = "ring" /\ Init /\ BufOff /\ TxOff /\ EvOff /\ DllOff /\ IpcOff
       \/ subject = "buffer" /\ RingOff /\ BufInit /\ TxOff /\ EvOff /\ DllOff /\ IpcOff
       \/ subject = "packets" /\ RingOff /\ BufOff /\ TxInit /\ EvOff /\ DllOff /\ IpcOff
       \/ subject = "events" /\ RingOff /\ BufOff /\ TxOff /\ EvInit /\ DllOff /\ IpcOff
       \/ subject = "timer" /\ RingOff /\ BufOff /\ TxOff /\ EvOff /\ DllInit /\ IpcOff
       \/ subject = "ipc" /\ RingOff /\ BufOff /\ TxOff /\ EvOff /\ DllOff /\ IpcInit
TransportNext ==
    \/ subject = "ring" /\ Next /\ UNCHANGED <<subject, bufVars, txVars, evVars, dllVars, ipcVars>>
    \/ subject = "buffer" /\ BufNext /\ UNCHANGED <<subject, vars, txVars, evVars, dllVars, ipcVars>>
    \/ subject = "packets" /\ TxNext /\ UNCHANGED <<subject, vars, bufVars, evVars, dllVars, ipcVars>>
    \/ subject = "events" /\ EvNext /\ UNCHANGED <<subject, vars, bufVars, txVars, dllVars, ipcVars>>
    \/ subject = "timer" /\ DllNext /\ UNCHANGED <<subject, vars, bufVars, txVars, evVars, ipcVars>>
    \/ subject = "ipc" /\ IpcNext /\ UNCHANGED <<subject, vars, bufVars, txVars, evVars, dllVars>>
TransportSpec ==
    TransportInit /\ [][TransportNext]_<<subject, vars, bufVars, txVars, evVars, dllVars, ipcVars>>
=============================================================================
