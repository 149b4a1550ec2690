---------------------------- MODULE IpcRingBuffer ----------------------------
(***************************************************************************)
(* The ring buffer between the ALSA plugin and the streaming server, which *)
(* are two processes (IpcRingBuffer.cpp, PosixMessageQueue.cpp): blocks in *)
(* shared memory, a queue of messages that name the blocks written and one *)
(* of their acknowledgements.  The writer learns of an acknowledgement by  *)
(* a notification of the system, which comes once, when a message arrives  *)
(* at the empty queue, and has to be asked for again.                      *)
(*                                                                         *)
(* A block has two halves and the number of the write as its contents.     *)
(***************************************************************************)
EXTENDS Integers, Sequences

CONSTANTS
    IpcSetups,     \* [blocks, messages (of a queue: 10), writer, reader]; see Setups
    MaxIpcWrites,  \* bound on the blocks written
    MaxIpcFaults   \* bound on timeouts and on restarts of the reader

\* The plugin waits before it writes; a client of Write does not; the server does not block.
Setups == [blocks : Nat, messages : Nat, writer : {"waits", "writes", "server"}, reader : {"blocking", "server"}]
ASSUME IpcRingBufferAssumption ==
    IpcSetups \subseteq {s \in Setups : s.blocks > 1 /\ s.messages > 0}

VARIABLES
    setup,
    m_memblock,          \* the halves of every block
    ping, pong,          \* the queues
    registered,          \* the system will notify of a message at the empty pong queue
    callbacks,           \* notifications on their way, each a thread
    noticing,            \* the one in notificationHandler: "no", "enable", "drain"
    writer,              \* [at, m_next_block, m_idx]
    m_last_block_ack,
    m_activity,          \* the semaphore
    ipcReader,           \* [at, its message, what it copied, m_next_block, m_idx]
    faults

ipcVars == <<setup, m_memblock, ping, pong, registered, callbacks, noticing, writer, m_last_block_ack, m_activity,
             ipcReader, faults>>

m_blocks == setup.blocks
Blocking == setup.writer # "server"
Following(b) == IF b + 1 = m_blocks THEN 0 ELSE b + 1

-----------------------------------------------------------------------------
\* A queue: full, a send has to wait, for its timeout at most, or returns at once.
canSend(q) == Len(q) < setup.messages
canReceive(q) == Len(q) > 0
\* A message at the empty queue uses up the registration and starts a thread.
Send_pong(m) ==
    /\ pong' = Append(pong, m)
    /\ IF registered /\ pong = <<>> THEN registered' = FALSE /\ callbacks' = callbacks + 1
       ELSE UNCHANGED <<registered, callbacks>>

getBufferFill ==
    writer.m_next_block - m_last_block_ack - 1 + (IF writer.m_next_block <= m_last_block_ack THEN m_blocks ELSE 0)

-----------------------------------------------------------------------------
\* init of both ends: block 0 counts as acknowledged.
IpcInit ==
    /\ setup \in IpcSetups
    /\ m_memblock = [b \in 0..m_blocks - 1 |-> <<0, 0>>]
    /\ ping = <<>> /\ pong = <<>> /\ registered = TRUE /\ callbacks = 0 /\ noticing = "no"
    /\ writer = [at |-> "start", m_next_block |-> 1, m_idx |-> 1]
    /\ m_last_block_ack = 0 /\ m_activity = 0
    /\ ipcReader = [at |-> "start", m_next_block |-> 1, m_idx |-> 1]
    /\ faults = 0

\* Mutant: a writer counts on a free block more than there is.
WaitsForSpace_late == getBufferFill >= m_blocks
WaitsForSpace == getBufferFill >= m_blocks - 1
\* waitForWrite: as long as there is no free block, one count of the semaphore and another look.
waitForWrite ==
    /\ writer.at = "start" /\ setup.writer = "waits"
    /\ writer.m_idx <= MaxIpcWrites
    /\ \/ ~WaitsForSpace /\ writer' = [writer EXCEPT !.at = "request"] /\ UNCHANGED m_activity
       \/ WaitsForSpace /\ m_activity > 0 /\ m_activity' = m_activity - 1 /\ UNCHANGED writer
    /\ UNCHANGED <<setup, m_memblock, ping, pong, registered, callbacks, noticing, m_last_block_ack, ipcReader, faults>>

\* requestBlockForWrite.  The fill is never as large as m_blocks: nothing waits here.  The
\* oldest block without acknowledgement counts as acknowledged when it is to be overwritten.
requestBlockForWrite ==
    /\ writer.at = (IF setup.writer = "waits" THEN "request" ELSE "start")
    /\ writer.m_idx <= MaxIpcWrites
    /\ getBufferFill < m_blocks
    /\ Blocking \/ canSend(ping)
    /\ writer' = [writer EXCEPT !.at = "fill"]
    /\ m_last_block_ack' = IF writer.m_next_block = m_last_block_ack THEN Following(m_last_block_ack) ELSE m_last_block_ack
    /\ UNCHANGED <<setup, m_memblock, ping, pong, registered, callbacks, noticing, m_activity, ipcReader, faults>>

\* The client fills the block in place.
Fill ==
    /\ writer.at \in {"fill", "fill2"}
    /\ LET half == IF writer.at = "fill" THEN 1 ELSE 2
       IN  /\ m_memblock' = [m_memblock EXCEPT ![writer.m_next_block][half] = writer.m_idx]
           /\ writer' = [writer EXCEPT !.at = IF half = 1 THEN "fill2" ELSE "release"]
    /\ UNCHANGED <<setup, ping, pong, registered, callbacks, noticing, m_last_block_ack, m_activity, ipcReader, faults>>

\* releaseBlockForWrite: the message, or for want of space a timeout or an error, after which
\* the same block and number are written again.
releaseBlockForWrite ==
    /\ writer.at = "release"
    /\ \/ /\ canSend(ping)
          /\ ping' = Append(ping, [id |-> writer.m_next_block, idx |-> writer.m_idx])
          /\ writer' = [at |-> "start", m_next_block |-> Following(writer.m_next_block), m_idx |-> writer.m_idx + 1]
          /\ UNCHANGED faults
       \/ /\ ~canSend(ping)
          /\ Blocking => faults < MaxIpcFaults
          /\ faults' = IF Blocking THEN faults + 1 ELSE faults
          /\ writer' = [writer EXCEPT !.at = "start"]
          /\ UNCHANGED ping
    /\ UNCHANGED <<setup, m_memblock, pong, registered, callbacks, noticing, m_last_block_ack, m_activity, ipcReader>>

-----------------------------------------------------------------------------
\* requestBlockForRead takes a message; the block is the one it names, whatever was expected.
requestBlockForRead ==
    /\ ipcReader.at = "start"
    /\ canReceive(ping)
    /\ ipcReader' = [at |-> "copy", message |-> Head(ping), copied |-> <<>>,
                     m_next_block |-> ipcReader.m_next_block, m_idx |-> ipcReader.m_idx]
    /\ ping' = Tail(ping)
    /\ UNCHANGED <<setup, m_memblock, pong, registered, callbacks, noticing, writer, m_last_block_ack, m_activity, faults>>
Copy ==
    /\ ipcReader.at = "copy"
    /\ LET half == Len(ipcReader.copied) + 1
       IN  ipcReader' = [ipcReader EXCEPT !.copied = Append(@, m_memblock[ipcReader.message.id][half]),
                                          !.at = IF half = 2 THEN "release" ELSE "copy"]
    /\ UNCHANGED <<setup, m_memblock, ping, pong, registered, callbacks, noticing, writer, m_last_block_ack, m_activity, faults>>
\* releaseBlockForRead: the acknowledgement; where it finds no space it is lost.
releaseBlockForRead ==
    /\ ipcReader.at = "release"
    /\ LET m == ipcReader.message
           next == [at |-> "start", m_next_block |-> Following(m.id), m_idx |-> m.idx + 1]
           same == [at |-> "start", m_next_block |-> ipcReader.m_next_block, m_idx |-> ipcReader.m_idx]
       IN  \/ canSend(pong) /\ Send_pong(m) /\ ipcReader' = next /\ UNCHANGED faults
           \/ /\ ~canSend(pong) /\ (setup.reader = "blocking" => faults < MaxIpcFaults)
              /\ faults' = IF setup.reader = "blocking" THEN faults + 1 ELSE faults
              /\ ipcReader' = same
              /\ UNCHANGED <<pong, registered, callbacks>>
    /\ UNCHANGED <<setup, m_memblock, ping, noticing, writer, m_last_block_ack, m_activity>>

\* A reader that is restarted, as a plugin is for every client: init clears the queue.
RestartReader ==
    /\ faults < MaxIpcFaults
    /\ faults' = faults + 1
    /\ ipcReader' = [at |-> "start", m_next_block |-> 1, m_idx |-> 1]
    /\ ping' = <<>>
    /\ UNCHANGED <<setup, m_memblock, pong, registered, callbacks, noticing, writer, m_last_block_ack, m_activity>>

-----------------------------------------------------------------------------
\* notificationHandler, of one thread at a time: it asks for the next notification, which fails
\* where that is asked for already, and then reads until the queue is empty.
notifyCallback ==
    /\ noticing = "no" /\ callbacks > 0
    /\ callbacks' = callbacks - 1
    /\ noticing' = "enable"
    /\ UNCHANGED <<setup, m_memblock, ping, pong, registered, writer, m_last_block_ack, m_activity, ipcReader, faults>>
enableNotification ==
    /\ noticing = "enable"
    /\ registered' = TRUE
    /\ noticing' = "drain"
    /\ UNCHANGED <<setup, m_memblock, ping, pong, callbacks, writer, m_last_block_ack, m_activity, ipcReader, faults>>
Drain ==
    /\ noticing = "drain"
    /\ \/ /\ canReceive(pong)
          /\ pong' = Tail(pong)
          /\ m_last_block_ack' = Head(pong).id
          /\ m_activity' = IF Blocking THEN m_activity + 1 ELSE m_activity
          /\ UNCHANGED noticing
       \/ ~canReceive(pong) /\ noticing' = "no" /\ UNCHANGED <<pong, m_last_block_ack, m_activity>>
    /\ UNCHANGED <<setup, m_memblock, ping, registered, callbacks, writer, ipcReader, faults>>

IpcNext ==
    \/ waitForWrite \/ requestBlockForWrite \/ Fill \/ releaseBlockForWrite
    \/ requestBlockForRead \/ Copy \/ releaseBlockForRead \/ RestartReader
    \/ notifyCallback \/ enableNotification \/ Drain
IpcSpec == IpcInit /\ [][IpcNext]_ipcVars

-----------------------------------------------------------------------------
(* What a reader has copied is, whole, the block its message speaks of,    *)
(* for a writer that calls waitForWrite, and for any writer when there are *)
(* two blocks more than messages (waitForWrite, getBufferFill, request-    *)
(* BlockForWrite, which itself holds nobody back).                         *)
BlockIsWhole ==
    (setup.writer = "waits" \/ m_blocks >= setup.messages + 2) /\ ipcReader.at = "release"
        => ipcReader.copied = <<ipcReader.message.idx, ipcReader.message.idx>>

(* No acknowledgement lies unread in the queue without a thread that will  *)
(* read it: "we either read or get notified of any message that arrives    *)
(* while this handler is running" (notificationHandler).                   *)
AckIsNoticed ==
    /\ pong # <<>> => callbacks > 0 \/ noticing # "no"
    /\ registered \/ callbacks > 0 \/ noticing # "no"

(* Both: what is handed over is whole, and its return is not missed.       *)
BlocksHandedOver == BlockIsWhole /\ AckIsNoticed

(* requestBlockForWrite: "we can send when: - we are not overwriting".     *)
NotOverwriting ==
    setup.writer = "writes" /\ ipcReader.at = "release"
        => ipcReader.copied = <<ipcReader.message.idx, ipcReader.message.idx>>

-----------------------------------------------------------------------------
(* The inductive invariant.  The number of a write tells its block; the    *)
(* queue of the blocks written holds the last numbers, the reader the one  *)
(* before them, the queue of acknowledgements older ones.                  *)
Messages == [id : 0..m_blocks - 1, idx : Nat]
IpcTypeOK ==
    /\ setup \in IpcSetups
    /\ m_memblock \in [0..m_blocks - 1 -> [1..2 -> Nat]]
    /\ ping \in Seq(Messages) /\ pong \in Seq(Messages)
    /\ registered \in BOOLEAN /\ callbacks \in Nat /\ noticing \in {"no", "enable", "drain"}
    /\ writer \in [at : {"start", "request", "fill", "fill2", "release"}, m_next_block : 0..m_blocks - 1, m_idx : Nat \ {0}]
    /\ m_last_block_ack \in 0..m_blocks - 1 /\ m_activity \in Nat /\ faults \in Nat
    /\ ipcReader \in [at : {"start"}, m_next_block : 0..m_blocks - 1, m_idx : Nat]
                   \cup [at : {"copy", "release"}, message : Messages, copied : Seq(Nat),
                         m_next_block : 0..m_blocks - 1, m_idx : Nat]
    /\ ipcReader.at = "copy" => Len(ipcReader.copied) \in {0, 1}

\* The number of the oldest write that has not been taken by the reader, or is being read.
Oldest == writer.m_idx - Len(ping) - (IF ipcReader.at = "start" THEN 0 ELSE 1)
\* The number of the last write that the writer takes for acknowledged.
Acked == writer.m_idx - getBufferFill - 1

Numbered ==
    /\ writer.m_next_block = writer.m_idx % m_blocks
    /\ Len(ping) <= setup.messages
    /\ \A i \in 1..Len(ping) : /\ ping[i].idx = writer.m_idx - Len(ping) + i - 1
                               /\ ping[i].id = ping[i].idx % m_blocks
    /\ \A i \in 1..Len(pong) : /\ pong[i].idx < Oldest
                               /\ pong[i].id = pong[i].idx % m_blocks
                               /\ \A j \in 1..(i - 1) : pong[j].idx < pong[i].idx
    /\ ipcReader.at # "start" => ipcReader.message.idx = Oldest /\ ipcReader.message.id = Oldest % m_blocks

\* A writer that waits is never a whole round ahead of what was acknowledged.
AckedFirst ==
    setup.writer = "waits" =>
        /\ Acked < Oldest /\ \A i \in 1..Len(pong) : Acked < pong[i].idx
        /\ writer.at # "start" => ~WaitsForSpace

\* A block on its way holds the write it is named after, and so does what was copied of it.
Holds(b, n) == m_memblock[b][1] = n /\ m_memblock[b][2] = n
Handed ==
    (setup.writer = "waits" \/ m_blocks >= setup.messages + 2) =>
        /\ writer.at \in {"fill2", "release"} => m_memblock[writer.m_next_block][1] = writer.m_idx
        /\ writer.at = "release" => m_memblock[writer.m_next_block][2] = writer.m_idx
        /\ \A i \in 1..Len(ping) : Holds(ping[i].id, ping[i].idx)
        /\ ipcReader.at # "start" => Holds(ipcReader.message.id, ipcReader.message.idx)
        /\ ipcReader.at = "copy" => ipcReader.copied \in {<<>>, <<ipcReader.message.idx>>}
        /\ ipcReader.at = "release" => ipcReader.copied = <<ipcReader.message.idx, ipcReader.message.idx>>

Noticed == AckIsNoticed /\ (noticing = "drain" => registered \/ callbacks > 0)

IpcIInv == IpcTypeOK /\ Numbered /\ AckedFirst /\ Handed /\ Noticed
=============================================================================
