--------------------------- MODULE FcpTransaction ---------------------------
(***************************************************************************)
(* AVCCommand::fire and the FCP transaction of Ieee1394Service below it.   *)
(* Several threads of the process (the client, the control server, the     *)
(* bus reset thread) fire commands at one device; m_handle_lock serialises *)
(* them.  A response names neither the request nor the try it belongs to,  *)
(* so a late or repeated response meets whatever is being asked when it    *)
(* arrives.  The node and the wire are the environment: responses stay in  *)
(* order, and get lost when nobody listens.                                *)
(***************************************************************************)
EXTENDS EfcCodec, FiniteSets

CONSTANTS
    Threads,      \* the threads that fire commands
    Commands,     \* id -> [ask |-> the command object, answer |-> the object the device returns]
    Scripts,      \* the sequences of ids the threads fire: a set of functions of Threads
    IEEE1394SERVICE_FCP_MAX_TRIES,
    MaxFaults,    \* bound on failed calls, repeated, interim and unusual responses
    MayVanish,    \* the device may leave the bus
    Nobody

ASSUME TriesAssumption == IEEE1394SERVICE_FCP_MAX_TRIES \in Nat \ {0}
ASSUME NobodyAssumption == Nobody \notin Threads
ASSUME ScriptsAssumption == Scripts \subseteq [Threads -> Seq(DOMAIN Commands)]

eFS_Empty == "empty"
eFS_Waiting == "waiting"
eFS_Responded == "responded"
FCP_RESPONSE_INTERIM == 15
eR_Rejected == 10
eR_NotImplemented == 8
eR_Implemented == 12
eR_InTransition == 11
eERV_Ok == 0

VARIABLES
    script,    \* the commands each thread still has to fire
    pc,        \* where each thread is in fire()
    object,    \* the command object of each thread
    frame,     \* m_fcpFrame, the serialised request of each thread
    tries,     \* the tries of doFcpTransaction that are over
    result,    \* what the last fire() of each thread returned, with its ghost
    lock,      \* the thread that owns m_handle_lock
    block,     \* m_fcp_block: request, response, status
    last,      \* fcp_block_last.response of the duplicate filter
    filter,    \* m_filterFCPResponse
    listening, \* raw1394_start_fcp_listen is in force
    seqnum,    \* EfcCmd::m_seqnum
    asked,     \* requests the device has not handled yet
    wire,      \* responses on their way: the bytes and the request they answer
    gone,      \* the configuration ROM says INVALID_NODE_ID
    faults,    \* faults so far
    doubt      \* history: "none", "same" once a response may be left over that equals the one
               \* its transaction took, "other" once one may be left over that does not

command == <<script, pc, object, frame, tries, result>>
service == <<lock, block, last, filter, listening>>
device  == <<asked, wire, gone>>
vars == <<command, service, device, seqnum, faults, doubt>>

-----------------------------------------------------------------------------
\* The virtual serialize and deserialize of the command classes.
serialize(o, n) ==
    CASE o.kind = "unit"         -> UnitInfoCmd_serialize(o)
      [] o.kind = "subunit"      -> SubUnitInfoCmd_serialize(o)
      [] o.kind = "signalFormat" -> PlugSignalFormatCmd_serialize(o)
      [] o.kind = "plugInfo"     -> PlugInfoCmd_serialize(o)
      [] o.kind = "extSubunit"   -> ExtendedSubunitInfoCmd_serialize(o)
      [] o.kind = "signalSource" -> SignalSourceCmd_serialize(o)
      [] o.kind = "extPlug"      -> ExtendedPlugInfoCmd_serialize(o)
      [] o.kind = "streamFormat" -> ExtendedStreamFormatCmd_serialize(o)
      [] o.kind = "function"     -> FunctionBlockCmd_serialize(o)
      [] o.kind = "open"         -> OpenDescriptorCmd_serialize(o)
      [] o.kind = "read"         -> ReadDescriptorCmd_serialize(o)
      [] o.kind = "efc"          -> EfcOverAVCCmd_serialize(o, n)

deserialize(s) ==
    CASE s.o.kind = "unit"         -> UnitInfoCmd_deserialize(s)
      [] s.o.kind = "subunit"      -> SubUnitInfoCmd_deserialize(s)
      [] s.o.kind = "signalFormat" -> InputPlugSignalFormatCmd_deserialize(s)
      [] s.o.kind = "plugInfo"     -> PlugInfoCmd_deserialize(s)
      [] s.o.kind = "extSubunit"   -> ExtendedSubunitInfoCmd_deserialize(s)
      [] s.o.kind = "signalSource" -> SignalSourceCmd_deserialize(s)
      [] s.o.kind = "extPlug"      -> ExtendedPlugInfoCmd_deserialize(s)
      [] s.o.kind = "streamFormat" -> ExtendedStreamFormatCmd_deserialize(s)
      [] s.o.kind = "function"     -> FunctionBlockCmd_deserialize(s)
      [] s.o.kind = "open"         -> OpenDescriptorCmd_deserialize(s)
      [] s.o.kind = "read"         -> ReadDescriptorCmd_deserialize(s)
      [] s.o.kind = "efc"          -> EfcOverAVCCmd_deserialize(s)

\* What a device sends: the layout deserialize expects.  It differs from the request where
\* the data of a descriptor or the answering words of an EFC command follow.
DeviceFrame(o) ==
    CASE o.kind = "read" -> serialize(o, 0) \o o.data
      [] o.kind = "efc"  -> VendorDependentCmd_serialize(o) \o <<o.dummy_1, o.dummy_2>>
                            \o EfcCmd_serialize([o.cmd EXCEPT !.efc = "answer"], 1)
                            \o writes32(o.cmd, Words(o.cmd).in)
      [] OTHER           -> serialize(o, 0)

\* (A definition of its own, so that TLC evaluates the constant once.)
Table == Commands
serializes(o) == o.kind = "function" => FunctionBlockCmd_serializes(o)
\* A device answers with bytes, of which the first is the response code.
AnswerOf(id) == DeviceFrame(Table[id].answer)
ASSUME AnswersAssumption ==
    \A id \in DOMAIN Table : serializes(Table[id].ask) => AnswerOf(id) \in Seq(Nat) /\ AnswerOf(id) # <<>>
NoResult == [id |-> 0, ok |-> FALSE, code |-> 0, got |-> <<>>, ask |-> <<>>, for |-> <<>>]
NoBlock == [request |-> <<>>, response |-> <<>>, status |-> eFS_Empty, for |-> <<>>]

Init ==
    /\ script \in Scripts
    /\ pc = [t \in Threads |-> "idle"]
    /\ object = [t \in Threads |-> <<>>] /\ frame = [t \in Threads |-> <<>>]
    /\ tries = [t \in Threads |-> 0]
    /\ result = [t \in Threads |-> NoResult]
    /\ lock = Nobody /\ block = NoBlock /\ last = <<>> /\ listening = FALSE
    /\ filter \in BOOLEAN
    /\ seqnum = 0 /\ asked = <<>> /\ wire = <<>> /\ gone = FALSE /\ faults = 0 /\ doubt = "none"

goto(t, label) == pc' = [pc EXCEPT ![t] = label]
Fault == faults < MaxFaults /\ faults' = faults + 1

-----------------------------------------------------------------------------
\* fire(): the frame is built before the lock is asked for.  A command that does not
\* serialize is never sent.
Fire(t) ==
    LET o == Table[Head(script[t])].ask IN
    /\ pc[t] = "idle" /\ script[t] # <<>>
    /\ object' = [object EXCEPT ![t] = o]
    /\ seqnum' = IF o.kind = "efc" THEN seqnum + 1 ELSE seqnum
    /\ IF ~serializes(o)
       THEN /\ script' = [script EXCEPT ![t] = Tail(@)]
            /\ result' = [result EXCEPT ![t] = [NoResult EXCEPT !.id = Head(script[t])]]
            /\ UNCHANGED <<pc, frame>>
       ELSE /\ frame' = [frame EXCEPT ![t] = serialize(o, seqnum)]
            /\ goto(t, IF gone THEN "null" ELSE "lock") /\ UNCHANGED <<script, result>>
    /\ UNCHANGED <<tries, service, device, faults, doubt>>

\* transactionBlock takes the lock and keeps it, whether it returns a response or NULL.
Lock_missing(t) == lock' = t
Lock(t) == lock = Nobody /\ lock' = t
transactionBlock(t) ==
    /\ pc[t] = "lock" /\ Lock(t)
    /\ block' = [NoBlock EXCEPT !.request = frame[t]]
    /\ tries' = [tries EXCEPT ![t] = 0]
    /\ goto(t, "listen")
    /\ UNCHANGED <<script, object, frame, result, last, filter, listening, seqnum, device, faults, doubt>>

\* doFcpTransactionTry, up to the write of the request.
StartListen(t) ==
    /\ pc[t] = "listen"
    /\ \/ /\ listening' = TRUE /\ block' = [block EXCEPT !.status = eFS_Waiting]
          /\ goto(t, "write") /\ UNCHANGED faults
       \/ Fault /\ goto(t, "fail") /\ UNCHANGED <<listening, block>>
    /\ UNCHANGED <<script, object, frame, tries, result, lock, last, filter, seqnum, device, doubt>>

\* A failed write may have reached the device nevertheless.
WriteRequest(t) ==
    LET request == [frame |-> block.request, id |-> Head(script[t])] IN
    /\ pc[t] = "write"
    /\ \/ asked' = Append(asked, request) /\ goto(t, "wait") /\ UNCHANGED <<faults, doubt>>
       \/ /\ Fault /\ goto(t, "fail")
          /\ asked' \in {asked, Append(asked, request)}
          /\ doubt' = IF doubt = "none" THEN "same" ELSE doubt
    /\ UNCHANGED <<script, object, frame, tries, result, service, wire, gone, seqnum>>

\* The duplicate filter compares as many bytes as the new response has.
IsRepeated_never(data) == FALSE
IsRepeated(data) ==
    filter /\ \A i \in DOMAIN data : data[i] = IF i \in DOMAIN last THEN last[i] ELSE 0

\* handleFcpResponse: INTERIM responses and those with another subunit or opcode are ignored.
handleFcpResponse(t) ==
    LET r == Head(wire)
        matches == /\ r.data[1] # FCP_RESPONSE_INTERIM
                   /\ SubSeq(r.data, 2, 3) = SubSeq(block.request, 2, 3)
    IN
    /\ pc[t] = "wait" /\ block.status = eFS_Waiting /\ wire # <<>>
    /\ wire' = Tail(wire)
    /\ IF matches /\ ~IsRepeated(r.data)
       THEN /\ block' = [block EXCEPT !.response = r.data, !.status = eFS_Responded, !.for = r.for]
            /\ last' = IF filter THEN r.data \o SubSeq(last, Len(r.data) + 1, Len(last)) ELSE last
       ELSE UNCHANGED <<block, last>>
    /\ UNCHANGED <<command, lock, filter, listening, seqnum, asked, gone, faults, doubt>>

\* The wait is over: a response, or the time is up.
EndWait(t) ==
    /\ pc[t] = "wait"
    /\ goto(t, IF block.status = eFS_Responded THEN "out" ELSE "fail")
    /\ doubt' = IF block.status # eFS_Responded /\ doubt = "none" THEN "same" ELSE doubt
    /\ UNCHANGED <<script, object, frame, tries, result, service, device, seqnum, faults>>

TriesLeft(t) == tries[t] + 1 < IEEE1394SERVICE_FCP_MAX_TRIES

\* The end of a try and the loop of doFcpTransaction around it.
StopListen(t) ==
    /\ pc[t] \in {"out", "fail"}
    /\ \E stopped \in BOOLEAN :
          LET good == stopped /\ pc[t] = "out"
              more == TriesLeft(t)
          IN  /\ stopped \/ faults < MaxFaults
              /\ faults' = IF stopped THEN faults ELSE faults + 1
              /\ tries' = [tries EXCEPT ![t] = @ + 1]
              /\ goto(t, IF good THEN "answer" ELSE IF more THEN "listen" ELSE "none")
              /\ doubt' = IF good THEN doubt
                          ELSE IF more THEN IF doubt = "none" THEN "same" ELSE doubt
                          ELSE "other"
    /\ listening' = FALSE
    /\ block' = [block EXCEPT !.status = eFS_Empty]
    /\ UNCHANGED <<script, object, frame, result, lock, last, filter, device, seqnum>>

\* Unlocking a mutex that another thread owns: undefined; it opens the lock or is refused.
transactionBlockClose(t) == lock' \in (IF lock \in {t, Nobody} THEN {Nobody} ELSE {lock, Nobody})

Return(t, r) ==
    /\ result' = [result EXCEPT ![t] = r]
    /\ script' = [script EXCEPT ![t] = Tail(@)]
    /\ goto(t, "idle")

\* The rest of fire(): the response code decides, the object is filled in any case.
\* For the log the object is serialised once more, which takes a sequence number.
TakeResponse(t) ==
    LET code == block.response[1]
        known == code \in {eR_Accepted, eR_Implemented, eR_Rejected, eR_NotImplemented}
    IN
    /\ pc[t] = "answer"
    /\ \E d \in {deserialize([o |-> object[t], b |-> block.response, ok |-> TRUE])} :
          /\ object' = [object EXCEPT ![t] = d.o]
          /\ Return(t, [id |-> Head(script[t]), ok |-> known /\ d.ok, code |-> code, got |-> d.o,
                        ask |-> block.request, for |-> block.for])
    /\ seqnum' = IF known /\ object[t].kind = "efc" THEN seqnum + 1 ELSE seqnum
    /\ transactionBlockClose(t)
    /\ UNCHANGED <<frame, tries, block, last, filter, listening, device, faults, doubt>>

\* No response: transactionBlockClose all the same, also for a node id that is not valid,
\* for which transactionBlock returned before it took the lock.
NoResponse(t) ==
    /\ pc[t] \in {"none", "null"}
    /\ Return(t, [NoResult EXCEPT !.id = Head(script[t])])
    /\ transactionBlockClose(t)
    /\ UNCHANGED <<object, frame, tries, block, last, filter, listening, device, seqnum, faults, doubt>>

-----------------------------------------------------------------------------
\* The device answers the oldest request: not at all, once, after an INTERIM, with a
\* response code of its own, or twice.
DeviceAnswers ==
    LET q == Head(asked)
        msg(data) == [data |-> data, for |-> q.frame]
    IN
    /\ asked # <<>>
    /\ asked' = Tail(asked)
    /\ \E a \in {AnswerOf(q.id)} :
       \/ wire' = Append(wire, msg(a)) /\ UNCHANGED <<faults, doubt>>
       \/ Fault /\ UNCHANGED <<wire, doubt>>
       \/ Fault /\ wire' = wire \o <<msg([a EXCEPT ![1] = FCP_RESPONSE_INTERIM]), msg(a)>> /\ UNCHANGED doubt
       \/ Fault /\ wire' = Append(wire, msg([a EXCEPT ![1] = eR_InTransition])) /\ doubt' = "other"
       \/ /\ Fault /\ wire' = wire \o <<msg(a), msg(a)>>
          /\ doubt' = IF doubt = "none" THEN "same" ELSE doubt
    /\ UNCHANGED <<command, service, seqnum, gone>>

\* A response that arrives while nobody listens is thrown away.
LoseResponse ==
    /\ wire # <<>> /\ ~listening
    /\ wire' = Tail(wire)
    /\ UNCHANGED <<command, service, seqnum, asked, gone, faults, doubt>>

\* After a bus reset the ROM of a device that has left gets INVALID_NODE_ID.
Vanish ==
    /\ MayVanish /\ ~gone
    /\ gone' = TRUE
    /\ UNCHANGED <<command, service, seqnum, asked, wire, faults, doubt>>

Step(t) ==
    \/ Fire(t) \/ transactionBlock(t) \/ StartListen(t) \/ WriteRequest(t)
    \/ handleFcpResponse(t) \/ EndWait(t) \/ StopListen(t) \/ TakeResponse(t) \/ NoResponse(t)
\* All commands are over; any other state without a step is a thread that hangs.
Finished == (\A t \in Threads : pc[t] = "idle" /\ script[t] = <<>>) /\ UNCHANGED vars
Next == (\E t \in Threads : Step(t)) \/ DeviceAnswers \/ LoseResponse \/ Vanish \/ Finished

Spec == Init /\ [][Next]_vars

-----------------------------------------------------------------------------
InTransaction(t) == pc[t] \in {"listen", "write", "wait", "out", "fail", "answer", "none"}

PcType == pc \in [Threads -> {"idle", "lock", "listen", "write", "wait", "out", "fail", "answer", "none", "null"}]
TypeOK ==
    /\ PcType
    /\ tries \in [Threads -> 0..IEEE1394SERVICE_FCP_MAX_TRIES]
    /\ lock \in Threads \cup {Nobody}
    /\ block.status \in {eFS_Empty, eFS_Waiting, eFS_Responded}
    /\ filter \in BOOLEAN /\ listening \in BOOLEAN /\ gone \in BOOLEAN
    /\ seqnum \in Nat /\ faults \in 0..MaxFaults
    /\ doubt \in {"none", "same", "other"}

Exclusive ==
    /\ \A t \in Threads : InTransaction(t) => lock = t
    /\ listening => \E t \in Threads : InTransaction(t)

\* Its inductive form: nobody has passed the lock by, and the listener is in force only
\* between its start and its stop.
LockInv ==
    \/ gone
    \/ /\ \A t \in Threads : pc[t] # "null" /\ (InTransaction(t) => lock = t)
       /\ listening => \E t \in Threads : pc[t] \in {"write", "wait", "out", "fail"}

\* The request and response memory and the FCP listener have one user at a time, who holds
\* m_handle_lock: what the note in doFcpTransactionTry says.
LockProtects == Exclusive
\* So it is as long as the device stays on the bus: a failed listen, write or wait, a retry
\* and a command that does not serialize all leave the lock as they should.
OneTransaction == gone \/ Exclusive

\* All EFC commands share one AV/C opcode; what keeps the answer to another command out,
\* even one left over from a failed transaction, is the category and the command.
EfcAnswerIsMine(r) ==
    r.ok /\ r.id # 0 /\ Table[r.id].ask.kind = "efc" =>
        SubSeq(r.for, 21, 28) = SubSeq(r.ask, 21, 28)

\* A command that succeeds was answered with the response to its own request, although the
\* handler only compares subunit and opcode: a plain service may take a response that is
\* left over from an earlier request only after a try went wrong or the device repeated
\* itself; with the duplicate filter only after a whole transaction failed or the device
\* answered the tries of one transaction differently; an EFC command never takes the answer
\* to another command.
Undoubted == doubt = "none" \/ (filter /\ doubt = "same")
OwnAnswer == Undoubted => \A t \in Threads : result[t].ok => result[t].for = result[t].ask
AnswersMyRequest == OwnAnswer /\ \A t \in Threads : EfcAnswerIsMine(result[t])

\* Its inductive form.  Whoever is in fire() has a command that serializes; responses are
\* bytes; a request is written while its thread waits.
InFire ==
    /\ script \in [Threads -> Seq(DOMAIN Table)]
    /\ \A t \in Threads : pc[t] # "idle" =>
          script[t] # <<>> /\ serializes(Table[Head(script[t])].ask)
Bytes ==
    /\ last \in Seq(Nat)
    /\ \A i \in DOMAIN wire : wire[i].data \in Seq(Nat) /\ wire[i].data # <<>>
    /\ \A i \in DOMAIN asked : asked[i].id \in DOMAIN Table /\ serializes(Table[asked[i].id].ask)
Listens == \A t \in Threads : pc[t] = "write" => block.status = eFS_Waiting
\* The response that was taken answers the request.
TakenIsOwn ==
    /\ Undoubted
    /\ block.status = eFS_Responded \/ \E t \in Threads : pc[t] \in {"out", "answer"}
    => block.for = block.request
\* While nothing went wrong, only the one who waits has something under way.
NothingLeft ==
    doubt = "none" =>
       \/ asked = <<>> /\ wire = <<>>
       \/ /\ block.status = eFS_Waiting /\ \E t \in Threads : pc[t] = "wait"
          /\ \/ Len(asked) = 1 /\ wire = <<>> /\ asked[1].frame = block.request
             \/ asked = <<>> /\ Len(wire) = 1 /\ wire[1].for = block.request
             \/ /\ asked = <<>> /\ Len(wire) = 2
                /\ wire[1].data[1] = FCP_RESPONSE_INTERIM /\ wire[2].for = block.request
\* With the filter: what is under way comes from the tries of the transaction that is
\* asking, behind what repeats the last response that was taken.
Asking(t) == pc[t] \in {"listen", "write", "wait", "fail"} /\ block.status # eFS_Responded
Ignored(m) == m.data[1] = FCP_RESPONSE_INTERIM \/ IsRepeated(m.data)
ToIgnore(q) == IsRepeated(AnswerOf(q.id))
Current(m) ==
    \E t \in Threads : /\ Asking(t) /\ m.for = block.request
                       /\ m.data[1] = FCP_RESPONSE_INTERIM \/ m.data = AnswerOf(Head(script[t]))
ToAnswer(q) == \E t \in Threads : Asking(t) /\ q.frame = block.request /\ q.id = Head(script[t])
RepeatsThenCurrent ==
    /\ \A i, j \in DOMAIN wire : i <= j => Ignored(wire[i]) \/ Current(wire[j])
    /\ \A i \in DOMAIN wire, j \in DOMAIN asked : Ignored(wire[i]) \/ ToAnswer(asked[j])
    /\ \A i, j \in DOMAIN asked : i <= j => ToIgnore(asked[i]) \/ ToAnswer(asked[j])
AnswerInv ==
    \/ gone
    \/ /\ InFire /\ Bytes /\ Listens /\ TakenIsOwn /\ NothingLeft /\ OwnAnswer
       /\ filter /\ doubt # "other" => RepeatsThenCurrent

Matches(got, want) == \A f \in DOMAIN want : f \in DOMAIN got /\ got[f] = want[f]
Wanted(id) == LET a == Table[id].answer IN [f \in DOMAIN a \ {"cmd"} |-> a[f]]

\* The members of a command whose own response was accepted are those the device sent,
\* for every class of command: serialize and deserialize agree about the frame.
ObjectIsAnswer ==
    \A t \in Threads :
        result[t].ok /\ result[t].for = result[t].ask =>
            /\ Matches(result[t].got, [Wanted(result[t].id) EXCEPT !.ctype = result[t].code])
            /\ "cmd" \in DOMAIN Table[result[t].id].answer =>
                  Matches(result[t].got.cmd, Table[result[t].id].answer.cmd)

=============================================================================
