---------------------------- MODULE StreamEvents ----------------------------
(***************************************************************************)
(* What the frames of a stream carry: samples and MIDI bytes.  A block of  *)
(* frames is written into the ring buffer of a transmit stream and read    *)
(* out of that of a receive stream piecewise, where the ring buffer wraps  *)
(* (blockProcessWriteFrames, blockProcessReadFrames), and every piece is   *)
(* given to the processor (processWriteBlock, processReadBlock), which     *)
(* puts the MIDI bytes at certain frames of it, or takes them from there.  *)
(* Here the transmitted frames are received again, as a device would loop  *)
(* them back: what is in the slots of the ports.  MIDI bytes are numbered  *)
(* in the order in which the client sends them to a port.                  *)
(***************************************************************************)
EXTENDS Integers, Sequences, FiniteSets

CONSTANTS Cluster,       \* bytes of a frame
          RingBytes,     \* of the ring buffers: a power of two
          Period,        \* frames that are written at once, a multiple of 8
          MIDIBUFFER,    \* entries of a MIDI buffer, one of which stays free
          midi_tx_period,\* frames of a MIDI byte on the cable: 16 at 48 kHz
          BITS,          \* of a sample: 24
          MaxPeriods     \* bound: periods written to one port, half as many to two

ASSUME StreamEventsAssumption ==
  /\ Cluster \in Nat \ {0} /\ RingBytes \in Nat /\ MaxPeriods \in Nat
  /\ Period \in Nat \ {0} /\ Period % 8 = 0 /\ Period * Cluster < RingBytes
  /\ MIDIBUFFER \in Nat /\ MIDIBUFFER > 1 /\ midi_tx_period \in Nat
  /\ BITS \in Nat /\ BITS > 2

VARIABLES
  family,         \* "amdtp", "motu", "rme"
  ports,          \* the MIDI ports: the channel of the frame, and which of 8 frames is their own
  periods,        \* written so far
  wpos, rpos,     \* bytes from the start of the ring buffer
  wleft, rleft,   \* frames of the period that are not processed
  wblock, rblock, \* the piece that is processed: its first frame and its frames
  wj, rj, rport,  \* the frame of the piece, and the port it is decoded for
  client,         \* the client's MIDI buffers: the frames with a byte
  given,          \* the bytes of the periods before
  wqueue, rqueue, \* midibuffer of the processors
  midi_lock,
  wire,           \* the frames between the two: a byte of every channel
  heard,          \* the bytes that came out, on the wire (RME) or at the client's port
  lost,           \* bytes that a full buffer has lost
  level, coded    \* a sample, in quarters of its last bit, and what is on the wire

wState == <<periods, wpos, wleft, wblock, wj, client, given, wqueue, midi_lock>>
rState == <<rpos, rleft, rblock, rj, rport, rqueue>>
evVars == <<family, ports, wState, rState, wire, heard, lost, level, coded>>

FRAMES_PER_PROCESS_BLOCK == 8
m_process_block_size == FRAMES_PER_PROCESS_BLOCK * Cluster

NoBlock == [offset |-> 0, frames |-> 0]

FULL == 2 ^ (BITS - 1) - 1
Levels == {4 * k + q : k \in -FULL - 2..FULL + 2, q \in 0..3}

Port(c, l) == [position |-> c, location |-> l]
Channels == {ports[i].position : i \in DOMAIN ports}

\* A byte is that of a port, and numbered.
NoByte == <<0, 0>>

\* One port in a slot, or two: on one channel, or on channels of their own.
PortSets == {<<Port(0, 0)>>, <<Port(0, 1)>>, <<Port(0, 7)>>,
             <<Port(0, 0), Port(0, 1)>>, <<Port(0, 0), Port(1, 0)>>, <<Port(0, 1), Port(1, 1)>>}

EvInit ==
  /\ family \in {"amdtp", "motu", "rme"}
  /\ ports \in IF family = "amdtp" THEN PortSets ELSE {<<Port(0, 0)>>}
  /\ periods = 0 /\ wpos = 0 /\ rpos = 0 /\ wleft = 0 /\ rleft = 0
  /\ wblock = NoBlock /\ rblock = NoBlock /\ wj = 0 /\ rj = 0 /\ rport = 1
  /\ client = [i \in DOMAIN ports |-> {}] /\ given = [i \in DOMAIN ports |-> 0]
  /\ wqueue = <<>> /\ rqueue = <<>> /\ midi_lock = 0
  /\ wire = <<>> /\ heard = [i \in DOMAIN ports |-> <<>>] /\ lost = 0
  /\ level = 0 /\ coded = 0

\* Mutant: around the wrap frames are processed one by one.
Piece_single(pos, left) ==
  IF RingBytes - pos < Cluster THEN 1
  ELSE IF left * Cluster > RingBytes - pos THEN (RingBytes - pos) \div Cluster
  ELSE left

\* The frames of the next piece: as many blocks of 8 frames as there are up to the end of
\* the ring buffer, or the one block that goes around it.
Piece(pos, left) ==
  LET len == RingBytes - pos IN
  IF len < m_process_block_size THEN FRAMES_PER_PROCESS_BLOCK
  ELSE IF left * Cluster > len
       THEN (len - (len % m_process_block_size)) \div Cluster
  ELSE left

\* A byte is put into a MIDI buffer; the oldest is dropped if it is full.
Enqueue(q, b) == IF Len(q) < MIDIBUFFER - 1 THEN Append(q, b) ELSE Append(Tail(q), b)
Full(q) == Len(q) = MIDIBUFFER - 1

(***************************************************************************)
(* The transmit side.                                                      *)
(***************************************************************************)

\* putFrames: the client has a byte in some of every eighth frames of its buffers.  The
\* ring buffers have room for one period.
putPeriod ==
  /\ level = 0 /\ periods * Len(ports) < MaxPeriods /\ wleft = 0 /\ wire = <<>> /\ rleft = 0
  /\ periods' = periods + 1 /\ wleft' = Period /\ wblock' = NoBlock /\ wj' = 0
  /\ given' = [i \in DOMAIN ports |-> given[i] + Cardinality(client[i])]
  /\ client' \in [DOMAIN ports -> SUBSET {8 * k : k \in 0..(Period \div 8) - 1}]
  /\ UNCHANGED <<family, ports, wpos, wqueue, midi_lock, rState, wire, heard, lost, level, coded>>

\* blockProcessWriteFrames: the next piece.
blockProcessWriteFrames ==
  /\ wleft > 0 /\ wj = wblock.frames
  /\ wblock' = [offset |-> Period - wleft, frames |-> Piece(wpos, wleft)]
  /\ wj' = 0
  /\ wpos' = (wpos + Piece(wpos, wleft) * Cluster) % RingBytes
  /\ UNCHANGED <<family, ports, periods, wleft, client, given, wqueue, midi_lock, rState, wire,
                 heard, lost, level, coded>>

\* The frame is written.
Send(frame) ==
  /\ wj' = wj + 1 /\ wleft' = wleft - 1
  /\ wire' = Append(wire, frame)
  /\ UNCHANGED <<family, ports, periods, wpos, wblock, client, given, rState, level, coded>>

Writing == wleft > 0 /\ wj < wblock.frames

\* The byte of the client's frame f for port i.
Byte(i, f) ==
  IF f \in client[i] THEN <<i, given[i] + Cardinality({g \in client[i] : g <= f})>> ELSE NoByte

\* encodeMidiPorts: a frame of a port's location has the byte of the client's frame
\* that is as far from the start of the piece as it is from the location.
encodeMidiPorts ==
  /\ family = "amdtp" /\ Writing
  /\ Send([c \in Channels |->
             LET here == {i \in DOMAIN ports : ports[i] = Port(c, wj % 8)} IN
             IF here = {} THEN NoByte
             ELSE Byte(CHOOSE i \in here : TRUE, wblock.offset + wj - (wj % 8))])
  /\ UNCHANGED <<wqueue, midi_lock, heard, lost>>

\* The client's byte is queued, and the first of the queue is sent if the cable has had
\* the time for the last one.
QueueAndSend ==
  LET byte == Byte(1, wblock.offset + wj)
      q == IF byte # NoByte THEN Enqueue(wqueue, byte) ELSE wqueue
      lock == IF midi_lock > 0 THEN midi_lock - 1 ELSE 0
      now == q # <<>> /\ lock = 0 IN
  /\ Writing
  /\ lost' = IF byte # NoByte /\ Full(wqueue) THEN lost + 1 ELSE lost
  /\ Send([c \in Channels |-> IF now THEN Head(q) ELSE NoByte])
  /\ wqueue' = IF now THEN Tail(q) ELSE q
  /\ midi_lock' = IF now THEN midi_tx_period ELSE lock
  /\ heard' = IF family = "rme" /\ now THEN [heard EXCEPT ![1] = Append(@, Head(q))] ELSE heard

encodePortToMotuMidiEvents == family = "motu" /\ QueueAndSend

encodePortToRmeMidiEvents == family = "rme" /\ QueueAndSend

(***************************************************************************)
(* The receive side.                                                       *)
(***************************************************************************)

\* getFrames, when a period is there.
getFrames ==
  /\ rleft = 0 /\ Len(wire) = Period
  /\ rleft' = Period /\ rblock' = NoBlock /\ rj' = 0
  /\ UNCHANGED <<family, ports, wState, rpos, rport, rqueue, wire, heard, lost, level, coded>>

\* blockProcessReadFrames: the next piece.
blockProcessReadFrames ==
  /\ rleft > 0 /\ rj = rblock.frames
  /\ rblock' = [offset |-> Period - rleft, frames |-> Piece(rpos, rleft)]
  /\ rj' = 0
  /\ rpos' = (rpos + Piece(rpos, rleft) * Cluster) % RingBytes
  /\ UNCHANGED <<family, ports, wState, rleft, rport, rqueue, wire, heard, lost, level, coded>>

Reading == rleft > 0 /\ rj < rblock.frames

\* The next frame of the piece, the next port, or the end of the piece.
NextFrame ==
  /\ IF rj + 1 < rblock.frames
     THEN rj' = rj + 1 /\ UNCHANGED <<rport, rleft, wire>>
     ELSE IF rport < Len(ports)
     THEN rj' = 0 /\ rport' = rport + 1 /\ UNCHANGED <<rleft, wire>>
     ELSE /\ rj' = rblock.frames /\ rport' = 1 /\ rleft' = rleft - rblock.frames
          /\ wire' = IF rleft' = 0 THEN <<>> ELSE wire
  /\ UNCHANGED <<family, ports, wState, rpos, rblock, level, coded>>

\* A byte in the channel of the port is queued, whichever port's slot the frame is, in the
\* one queue of the processor, and every eighth frame of the piece gets the first of the
\* queue.
QueueAndDeliver ==
  LET byte == wire[rblock.offset + rj + 1][ports[rport].position]
      q == IF byte # NoByte THEN Enqueue(rqueue, byte) ELSE rqueue
      now == rj % 8 = 0 /\ q # <<>> IN
  /\ lost' = IF byte # NoByte /\ Full(rqueue) THEN lost + 1 ELSE lost
  /\ rqueue' = IF now THEN Tail(q) ELSE q
  /\ heard' = IF now THEN [heard EXCEPT ![rport] = Append(@, Head(q))] ELSE heard

\* decodeMidiPorts: port after port.
decodeMidiPorts == family = "amdtp" /\ Reading /\ QueueAndDeliver /\ NextFrame

decodeMotuMidiEventsToPort == family = "motu" /\ Reading /\ QueueAndDeliver /\ NextFrame

\* decodeRmeMidiEventsToPort finds no bytes.
decodeRmeMidiEventsToPort ==
  family = "rme" /\ Reading /\ NextFrame /\ UNCHANGED <<rqueue, heard, lost>>

(***************************************************************************)
(* Samples.                                                                *)
(***************************************************************************)

\* A number of BITS bits on the wire.
Masked(v) == v % (2 * (FULL + 1))

Magnitude(x) == IF x < 0 THEN -x ELSE x
Signed(x, n) == IF x < 0 THEN -n ELSE n

\* encodeAudioPortsFloat, for AMDTP: clipped, and the fraction cut off.
encodeAudioPortsFloat(x) ==
  IF x > 4 * FULL THEN Masked(FULL)
  ELSE IF x < -4 * FULL THEN Masked(-FULL)
  ELSE Masked(Signed(x, Magnitude(x) \div 4))

\* encodePortToMotuEvents: clipped, and rounded to even.
encodePortToMotuEvents(x) ==
  LET in == IF x > 4 * FULL THEN 4 * FULL ELSE IF x < -4 * FULL THEN -4 * FULL ELSE x
      m == Magnitude(in)
      up == m % 4 = 3 \/ (m % 4 = 2 /\ (m \div 4) % 2 = 1)
  IN Masked(Signed(in, IF up THEN (m \div 4) + 1 ELSE m \div 4))

encodePortToRmeEvents(x) == encodePortToMotuEvents(x)

\* The sign is extended.
decodeMotuEventsToPort(v) == IF v > FULL THEN v - 2 * (FULL + 1) ELSE v

decodeRmeEventsToPort(v) == decodeMotuEventsToPort(v)
decodeAudioPortsFloat(v) == decodeMotuEventsToPort(v)

\* A sample is looked at by itself, not along with the bytes.
encode ==
  /\ periods = 0 /\ level' \in Levels
  /\ coded' = CASE family = "amdtp" -> encodeAudioPortsFloat(level')
                [] family = "motu" -> encodePortToMotuEvents(level')
                [] family = "rme" -> encodePortToRmeEvents(level')
  /\ UNCHANGED <<family, ports, wState, rState, wire, heard, lost>>

EvNext ==
  \/ putPeriod \/ blockProcessWriteFrames
  \/ encodeMidiPorts \/ encodePortToMotuMidiEvents \/ encodePortToRmeMidiEvents
  \/ getFrames \/ blockProcessReadFrames \/ decodeMidiPorts
  \/ decodeMotuMidiEventsToPort \/ decodeRmeMidiEventsToPort
  \/ encode

EvSpec == EvInit /\ [][EvNext]_evVars

(***************************************************************************)
(* Properties.                                                             *)
(***************************************************************************)

\* The frames of the wire that have been decoded for port i.
Decoded(i) ==
  IF rleft = 0 THEN 0
  ELSE IF ~Reading THEN Period - rleft
  ELSE rblock.offset + (IF i < rport THEN rblock.frames ELSE IF i = rport THEN rj ELSE 0)

\* The bytes of port i that came out of it, and those on their way, in their order.
BytesOf(i) ==
  LET frames == SubSeq(wire, Decoded(i) + 1, Len(wire))
      sent == [k \in DOMAIN frames |-> frames[k][ports[i].position]]
      way == (IF family = "rme" THEN <<>> ELSE rqueue \o sent) \o wqueue
  IN heard[i] \o SelectSeq(way, LAMBDA b : b # NoByte /\ b[1] = i)

\* The one queue of the receiving processor serves one port, or ports on channels of their
\* own that send in the first of eight frames.
OneQueueDoes ==
  \/ Len(ports) = 1
  \/ \A i, j \in DOMAIN ports :
       ports[i].location = 0 /\ (i # j => ports[i].position # ports[j].position)

\* Every MIDI byte that a client sends comes out at the port once and in its order,
\* wherever the ring buffers wrap within its period, unless it was dropped from a full
\* buffer.  An AMDTP stream never drops one, and holds back no more than one.
MidiArrives ==
  \A i \in DOMAIN ports :
    LET bytes == BytesOf(i) IN
    /\ \A k \in DOMAIN bytes : bytes[k][1] = i
    /\ \A k \in 1..Len(bytes) - 1 : bytes[k][2] < bytes[k + 1][2]
    /\ wleft = 0 => Len(bytes) + lost = given[i] + Cardinality(client[i])
    /\ family = "amdtp" => lost = 0 /\ Len(rqueue) <= 1

MidiSurvives == OneQueueDoes => MidiArrives

\* A sample is received as it was sent, clipped to the full scale and to less than one
\* step of the last bit, on both sides of zero and of full scale.
SampleSurvives ==
  LET clipped == IF level > 4 * FULL THEN 4 * FULL
                 ELSE IF level < -4 * FULL THEN -4 * FULL ELSE level
      decoded == 4 * CASE family = "amdtp" -> decodeAudioPortsFloat(coded)
                     [] family = "motu" -> decodeMotuEventsToPort(coded)
                     [] family = "rme" -> decodeRmeEventsToPort(coded)
  IN decoded - clipped < 4 /\ clipped - decoded < 4

\* What a client puts into a stream comes out of it: the bytes of a MIDI port, each once
\* and in order, where one queue does for the ports, and its samples, to the last bit.
EventsSurvive == MidiSurvives /\ SampleSurvives
=============================================================================
