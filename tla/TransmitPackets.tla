--------------------------- MODULE TransmitPackets ---------------------------
(***************************************************************************)
(* The packets of a transmit stream: StreamProcessor::getPacket and the    *)
(* packet headers of the AMDTP, MOTU, RME and Digidesign processors.       *)
(* Every bus cycle the iso thread asks for a packet.  From the time at     *)
(* which the first frame of the buffer is to be presented the processor    *)
(* decides whether to send its frames, to send none, to have the packet    *)
(* asked for again, or that it is too late.                                *)
(*                                                                         *)
(* The unit of time is a frame at 48 kHz, 512 ticks: it divides all of the *)
(* times of the code but for the 44.1 kHz family, so that nothing is       *)
(* rounded.  now and head are true times, which do not wrap; the code sees *)
(* them through the cycle timer.                                           *)
(***************************************************************************)
EXTENDS CycleTimer

CONSTANTS TxKinds,       \* of the processors of config.h
          DBC,           \* the values of the data block counter: 256
          m_period,      \* frames that the client writes at once
          TxBuffer,      \* frames of the buffer
          TxPrestart,    \* cycles from the start of the stream to the first frame
          TxStart,       \* the cycle in which the model begins
          TxHorizon      \* bound: the last cycle

ASSUME TransmitPacketsAssumption ==
  /\ TxKinds \subseteq {"amdtp", "motu", "rme", "digidesign"}
  /\ DBC \in Nat \ {0} /\ m_period \in Nat \ {0} /\ TxBuffer \in Nat
  /\ TxPrestart \in Nat /\ TxStart \in Nat /\ TxHorizon \in Nat
  /\ TICKS_PER_CYCLE = 6
  /\ 2 <= TxPrestart /\ 2 * (TxPrestart + 1) < CYCLES_PER_SECOND /\ 24 <= CYCLES_PER_SECOND

VARIABLES
  kind,               \* whose stream it is
  m_send_nodata_payload,
  now,                \* the cycle of the next packet
  m_cycle_to_switch_state,
  m_state,            \* "Enable", "Running", "Disable", "DryRunning": WaitingForStreamEnable, ...
  m_next_state,
  fc, head,           \* the frames in the buffer and the time of the first
  m_last_timestamp,   \* as the code has it, wrapped
  m_dbc,
  streaming_has_run,  \* of the RME processor
  sent,               \* the last packet and the one before: counter, events, payload
  result,             \* of getPacket: "OK", "DEFER", "ERROR"
  starved, xrun       \* history, of the run: the client, or the bus, was late; an xrun

stream == <<kind, m_send_nodata_payload>>
txVars == <<stream, now, m_cycle_to_switch_state, m_state, m_next_state, fc, head, m_last_timestamp, m_dbc,
            streaming_has_run, sent, result, starved, xrun>>

\* *_TRANSMIT_TRANSFER_DELAY, of 8704, 0, 3 * 3072 and 0 ticks.
TransferDelay == [amdtp |-> 17, motu |-> 0, rme |-> 18, digidesign |-> 0]
\* *_MIN_CYCLES_BEFORE_PRESENTATION.
MinBefore == [amdtp |-> 1, motu |-> 0, rme |-> 1, digidesign |-> 0]
\* *_MAX_CYCLES_TO_TRANSMIT_EARLY.
MaxEarly == [amdtp |-> 1, motu |-> 2, rme |-> 5, digidesign |-> 2]
\* getNominalFramesPerPacket at 48 kHz (the Digidesign driver is a stub).
FramesPerPacket == [amdtp |-> 8, motu |-> 8, rme |-> 7, digidesign |-> 0]

Nevents == FramesPerPacket[kind]

NoPacket == [dbc |-> 0, events |-> 0, data |-> FALSE, cycle |-> 0, presented |-> 0]

TxInit ==
  /\ kind \in TxKinds
  /\ m_send_nodata_payload \in BOOLEAN /\ (kind # "amdtp" => ~m_send_nodata_payload)
  /\ now = TxStart /\ m_cycle_to_switch_state = 0
  /\ m_state = "DryRunning" /\ m_next_state = "DryRunning"
  /\ fc = 0 /\ head = 0 /\ m_last_timestamp = 0 /\ m_dbc = 0 /\ streaming_has_run = FALSE
  /\ sent = <<NoPacket, NoPacket>> /\ result = "OK"
  /\ starved = FALSE /\ xrun = FALSE

\* wrapAtMinTicks.
substractTicks(x, y) == IF x < y THEN x - y + WrapTicks ELSE x - y

\* What generatePacketHeader and generateSilentPacketHeader compute from a presentation
\* time: the cycles until it, and until the packet is to be sent.
cycles_until_presentation(time) == diffCycles(TICKS_TO_CYCLES(time), now % CYCLES_PER_SECOND)
cycles_until_transmit(time) ==
  diffCycles(TICKS_TO_CYCLES(substractTicks(time, TransferDelay[kind])), now % CYCLES_PER_SECOND)

\* Mutant: a packet that cannot be sent as early as it should be is an xrun at once.
Timing_strict(time) ==
  IF cycles_until_transmit(time) < 0 THEN "XRun"
  ELSE IF cycles_until_transmit(time) <= MaxEarly[kind] THEN "Packet"
  ELSE "EmptyPacket"

\* The decision about frames that are there.
Timing(time) ==
  IF cycles_until_transmit(time) < 0
  THEN IF cycles_until_presentation(time) >= MinBefore[kind] THEN "Packet" ELSE "XRun"
  ELSE IF cycles_until_transmit(time) <= MaxEarly[kind] THEN "Packet"
  ELSE "EmptyPacket"

\* generatePacketHeader of the AMDTP processor.  A packet that is late may be deferred.
generatePacketHeader_amdtp(time) ==
  IF fc < Nevents
  THEN IF cycles_until_presentation(time) <= MinBefore[kind] THEN "XRun" ELSE "Again"
  ELSE IF Timing(time) = "Packet" /\ cycles_until_transmit(time) < 0 /\ fc < 2 * Nevents
       THEN "Defer"
  ELSE Timing(time)

\* generatePacketHeader of the MOTU, RME and Digidesign processors.
generatePacketHeader_motu(time) ==
  IF fc < Nevents
  THEN IF cycles_until_presentation(time) <= MinBefore[kind] THEN "XRun" ELSE "Again"
  ELSE Timing(time)

generatePacketHeader_rme(time) == generatePacketHeader_motu(time)
generatePacketHeader_digidesign(time) == generatePacketHeader_motu(time)

generatePacketHeader(time) ==
  CASE kind = "amdtp" -> generatePacketHeader_amdtp(time)
    [] kind = "motu" -> generatePacketHeader_motu(time)
    [] kind = "rme" -> generatePacketHeader_rme(time)
    [] kind = "digidesign" -> generatePacketHeader_digidesign(time)

\* generateSilentPacketHeader: the AMDTP processor sends a packet without data, the
\* others go on from the last time stamp, and only the RME processor is never too late.
generateSilentPacketHeader_motu(time) == Timing(time)
generateSilentPacketHeader_rme(time) ==
  IF Timing(time) = "XRun" THEN "Packet" ELSE Timing(time)
generateSilentPacketHeader_digidesign(time) == Timing(time)

generateSilentPacketHeader(time) ==
  CASE kind = "amdtp" -> "Packet"
    [] kind = "motu" -> generateSilentPacketHeader_motu(time)
    [] kind = "rme" -> generateSilentPacketHeader_rme(time)
    [] kind = "digidesign" -> generateSilentPacketHeader_digidesign(time)

Count(n) == (m_dbc + n) % DBC

Sends(p) == sent' = <<[NoPacket EXCEPT !.dbc = sent[2].dbc, !.events = sent[2].events], p>>
Packet(dbc, events, data, time) ==
  [dbc |-> dbc, events |-> events, data |-> data, cycle |-> now, presented |-> time]

\* Mutant: the counter goes on before it is written.
fillDataPacketHeader_amdtp_late(data, time) ==
  /\ m_dbc' = Count(Nevents)
  /\ Sends(Packet(m_dbc', Nevents, data, time))

\* The header of a packet with Nevents events.  The AMDTP counter is that of the first
\* event of a packet, ...
fillDataPacketHeader_amdtp(data, time) ==
  /\ m_dbc' = Count(Nevents)
  /\ Sends(Packet(m_dbc, Nevents, data, time))

\* ... the MOTU one is that of the event after the last ...
fillDataPacketHeader_motu(data, time) ==
  /\ m_dbc' = Count(Nevents)
  /\ Sends(Packet(m_dbc', Nevents, data, time))

\* ... and the others have none: no header, and a header without a counter.
fillDataPacketHeader_rme(data, time) ==
  /\ m_dbc' = Count(Nevents)
  /\ Sends(Packet(0, Nevents, data, time))

fillDataPacketHeader_digidesign(data, time) ==
  /\ UNCHANGED m_dbc
  /\ Sends(Packet(0, Nevents, data, time))

fillDataPacketHeader(data, time) ==
  \/ kind = "amdtp" /\ fillDataPacketHeader_amdtp(data, time)
  \/ kind = "motu" /\ fillDataPacketHeader_motu(data, time)
  \/ kind = "rme" /\ fillDataPacketHeader_rme(data, time)
  \/ kind = "digidesign" /\ fillDataPacketHeader_digidesign(data, time)

\* The NODATA packet of the AMDTP processor, with or without payload.
fillNoDataPacketHeader_amdtp ==
  LET n == IF m_send_nodata_payload THEN Nevents ELSE 0 IN
  m_dbc' = Count(n) /\ Sends(Packet(m_dbc, n, FALSE, 0))

\* The RME processor sends full packets of zeros until the stream has run.
generateEmptyPacketHeader_rme ==
  /\ UNCHANGED m_dbc
  /\ Sends(Packet(0, IF streaming_has_run THEN 0 ELSE Nevents, FALSE, 0))

fillNoDataPacketHeader_motu == UNCHANGED m_dbc /\ Sends(Packet(m_dbc, 0, FALSE, 0))
fillNoDataPacketHeader_digidesign == UNCHANGED m_dbc /\ Sends(Packet(0, 0, FALSE, 0))

generateEmptyPacketHeader ==
  \/ kind = "amdtp" /\ fillNoDataPacketHeader_amdtp
  \/ kind = "motu" /\ fillNoDataPacketHeader_motu
  \/ kind = "rme" /\ generateEmptyPacketHeader_rme
  \/ kind = "digidesign" /\ fillNoDataPacketHeader_digidesign

sendEmpty(disposition, state) ==
  /\ generateEmptyPacketHeader
  /\ result' = disposition
  /\ m_state' = state /\ m_next_state' = state
  /\ UNCHANGED <<fc, head, m_last_timestamp, streaming_has_run>>

\* The rest of getPacket: send_empty_packet, with the state that is asked for.
send_empty_packet == sendEmpty("OK", m_next_state)

\* generatePacketData, and the header before it.
generatePacketData(disposition) ==
  /\ fillDataPacketHeader(TRUE, head)
  /\ m_last_timestamp' = head % WrapTicks
  /\ fc' = fc - Nevents /\ head' = head + Nevents
  /\ streaming_has_run' = (streaming_has_run \/ kind = "rme")
  /\ result' = disposition
  /\ m_state' = m_next_state /\ UNCHANGED m_next_state

\* The frames of a packet are not there in the last cycle in which it can be sent.
Starving == fc < Nevents /\ (head \div TICKS_PER_CYCLE) - now <= MinBefore[kind]

\* getPacket of a running stream.
getPacket_running ==
  /\ m_state = "Running"
  /\ LET res == generatePacketHeader(head % WrapTicks) IN
     /\ starved' = (starved \/ Starving)
     /\ xrun' = (xrun \/ res = "XRun")
     /\ IF res = "XRun" THEN m_cycle_to_switch_state' = (now % CYCLES_PER_SECOND) + 1
        ELSE UNCHANGED m_cycle_to_switch_state
     /\ \/ res = "Packet" /\ generatePacketData("OK")
        \/ res = "Defer" /\ generatePacketData("DEFER")
        \/ res = "Again" /\ sendEmpty("DEFER", m_next_state)
        \/ res = "EmptyPacket" /\ send_empty_packet
        \/ res = "XRun" /\ sendEmpty("OK", "Disable")
  /\ now' = now + 1

\* getPacket of a running stream after a cycle was lost.
getPacket_dropped ==
  /\ m_state = "Running"
  /\ now' = now + 2
  /\ starved' = TRUE /\ xrun' = TRUE
  /\ m_cycle_to_switch_state' = ((now + 1) % CYCLES_PER_SECOND) + 1
  /\ sendEmpty("OK", "Disable")

\* The test for a scheduled switch.
Due == diffCycles(now % CYCLES_PER_SECOND, m_cycle_to_switch_state) >= 0

\* getPacket of a stream that is to stop: a silent packet; if it is time the stream runs
\* dry, and its buffer is cleared.
getPacket_disable ==
  /\ m_state = "Disable"
  /\ IF Due THEN m_state' = "DryRunning" /\ m_next_state' = "DryRunning" /\ fc' = 0
     ELSE UNCHANGED <<m_state, m_next_state, fc>>
  /\ LET time == addTicks(m_last_timestamp, Nevents)
         res == generateSilentPacketHeader(time) IN
     \/ /\ res = "Packet" /\ result' = "OK"
        /\ IF kind = "amdtp" THEN fillNoDataPacketHeader_amdtp /\ UNCHANGED m_last_timestamp
           ELSE fillDataPacketHeader(FALSE, time) /\ m_last_timestamp' = time
     \/ res = "EmptyPacket" /\ result' = "OK"
          /\ generateEmptyPacketHeader /\ UNCHANGED m_last_timestamp
     \/ res = "XRun" /\ result' = "ERROR" /\ UNCHANGED <<m_dbc, sent, m_last_timestamp>>
  /\ now' = now + 1
  /\ UNCHANGED <<m_cycle_to_switch_state, head, streaming_has_run, starved, xrun>>

\* getPacket of a stream that is dry, or waits for its time to start.
getPacket_dry ==
  /\ m_state \in {"DryRunning", "Enable"}
  /\ IF m_state = "Enable" /\ Due THEN sendEmpty("OK", "Running") ELSE send_empty_packet
  /\ now' = now + 1
  /\ UNCHANGED <<m_cycle_to_switch_state, starved, xrun>>

(***************************************************************************)
(* The client and the manager.                                             *)
(***************************************************************************)

\* syncStartAll: the time of the first frame, the frames before the client's, and the
\* switch, TxPrestart cycles before.  resetForStreaming forgets that the stream has run.
start ==
  /\ m_state = "DryRunning" /\ m_next_state = "DryRunning" /\ head <= now * TICKS_PER_CYCLE
  /\ \E offset \in 0..TICKS_PER_CYCLE - 1 :
       LET time == (now + TxPrestart + 1) * TICKS_PER_CYCLE + offset IN
       /\ head' = time
       /\ m_cycle_to_switch_state' =
            TICKS_TO_CYCLES(substractTicks(time % WrapTicks, TxPrestart * TICKS_PER_CYCLE))
  /\ fc' = TxBuffer
  /\ m_next_state' = "Enable"
  /\ starved' = FALSE /\ xrun' = FALSE /\ streaming_has_run' = FALSE
  /\ UNCHANGED <<stream, now, m_state, m_last_timestamp, m_dbc, sent, result>>

\* scheduleStopRunning, of a running stream, now or a cycle ahead.
stop ==
  /\ m_state = "Running" /\ m_next_state = "Running"
  /\ m_next_state' = "Disable"
  /\ \E lead \in 0..1 : m_cycle_to_switch_state' = (now + lead) % CYCLES_PER_SECOND
  /\ UNCHANGED <<stream, now, m_state, fc, head, m_last_timestamp, m_dbc, streaming_has_run,
                 sent, result, starved, xrun>>

\* putFrames: the client writes a period.
putFrames ==
  /\ m_state = "Running" /\ fc + m_period <= TxBuffer
  /\ fc' = fc + m_period
  /\ UNCHANGED <<stream, now, m_cycle_to_switch_state, m_state, m_next_state, head,
                 m_last_timestamp, m_dbc, streaming_has_run, sent, result, starved, xrun>>

TxNext ==
  \/ /\ now < TxHorizon /\ UNCHANGED stream
     /\ \/ getPacket_running \/ getPacket_dropped \/ getPacket_disable \/ getPacket_dry
  \/ now < TxHorizon - TxPrestart /\ (start \/ stop)
  \/ putFrames

TxSpec == TxInit /\ [][TxNext]_txVars

(***************************************************************************)
(* Properties.                                                             *)
(***************************************************************************)

\* The frames of a stream reach the device before they are to be presented, and not so
\* early that it has to keep them, though cycles and seconds wrap in between.  And the
\* stream has an xrun only if frames were missing in the last cycle in which they could
\* be sent, or a cycle was lost: a shortage that the client makes up for before is
\* caught up with, one packet in a cycle.
FedInTime ==
  /\ sent[2].data =>
       /\ sent[2].presented \div TICKS_PER_CYCLE >= sent[2].cycle + MinBefore[kind]
       /\ (sent[2].presented - TransferDelay[kind]) \div TICKS_PER_CYCLE
            <= sent[2].cycle + MaxEarly[kind]
  /\ xrun /\ Nevents > 0 => starved

\* The device can tell from the data block counter that it has missed a packet: the
\* counters of consecutive packets differ by the blocks of events between them, those
\* that an AMDTP packet without data carries as a dummy payload included, whichever of
\* the data, silent and empty packets follow each other when the stream starts, stops, or
\* is asked for a packet again.
BlocksCounted ==
  /\ kind = "amdtp" => sent[2].dbc = (sent[1].dbc + sent[1].events) % DBC
  /\ kind = "motu" => sent[2].dbc = (sent[1].dbc + sent[2].events) % DBC

\* "no-data packets have syt=0xFFFF and (can) have the usual amount of events as dummy data.
\* DBC is not increased": after such a packet the counter is the one that it has carried.
NoDataUncounted == kind = "amdtp" /\ ~sent[2].data => m_dbc = sent[2].dbc

(***************************************************************************)
(* The inductive invariant.  The first frame of a running stream is never  *)
(* so far from the present cycle that the differences of cycles, which are *)
(* taken modulo a second, could be those of another second; and the stream *)
(* keeps ahead of its presentation times until it is starved.              *)
(***************************************************************************)
Cycle(time) == time \div TICKS_PER_CYCLE

\* The farthest that a packet sent early leaves the next frame ahead.
TxLead == 9

TxPackets == [dbc : Nat, events : Nat, data : BOOLEAN, cycle : Nat, presented : Nat]

TxTypeOK ==
  /\ kind \in TxKinds /\ m_send_nodata_payload \in BOOLEAN
  /\ now \in Nat /\ m_cycle_to_switch_state \in Nat /\ fc \in Int /\ head \in Nat
  /\ m_last_timestamp \in Nat /\ m_dbc \in 0..DBC - 1
  /\ <<m_state, m_next_state>> \in
       {<<"DryRunning", "DryRunning">>, <<"DryRunning", "Enable">>, <<"Enable", "Enable">>,
        <<"Running", "Running">>, <<"Running", "Disable">>, <<"Disable", "Disable">>}
  /\ sent \in TxPackets \X TxPackets
  /\ {starved, xrun, streaming_has_run} \subseteq BOOLEAN

\* A stream that starts is switched in the cycle after the next, in time for its first frame.
Starting ==
  /\ m_state = "DryRunning" /\ m_next_state = "Enable" =>
       Cycle(head) = now + TxPrestart + 1 /\ m_cycle_to_switch_state = (now + 1) % CYCLES_PER_SECOND
  /\ m_state = "Enable" =>
       Cycle(head) = now + TxPrestart /\ m_cycle_to_switch_state = now % CYCLES_PER_SECOND

Near ==
  m_state = "Running" =>
    /\ now - 1 <= Cycle(head)
    /\ Cycle(head) <= now + TxLead \/ Cycle(head) <= now + TxPrestart
    /\ ~starved /\ Nevents > 0 => now + MinBefore[kind] <= Cycle(head)

\* The counter that the next packet continues.
Counter ==
  /\ kind = "amdtp" => m_dbc = (sent[2].dbc + sent[2].events) % DBC
  /\ kind = "motu" => m_dbc = sent[2].dbc

TxIInv == TxTypeOK /\ Starting /\ Near /\ Counter /\ BlocksCounted /\ FedInTime
=============================================================================
