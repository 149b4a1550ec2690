------------------------- MODULE TransactionProofs -------------------------
(***************************************************************************)
(* Proofs about what is sent to a device: about FcpTransaction, for any    *)
(* number of threads, scripts of commands, tries and faults; and about     *)
(* Firmware, for images of every size, erase blocks of every size and any  *)
(* number of runs and faults.                                              *)
(***************************************************************************)
EXTENDS FcpTransaction, Firmware, SequenceTheorems, TLAPS

-----------------------------------------------------------------------------
\* One transaction at a time.
FcpLock == PcType /\ LockInv

LEMMA FcpLockInit == Init => FcpLock
BY DEF Init, FcpLock, PcType, LockInv, InTransaction

\* A step of one thread to another label.
LEMMA Goto ==
  ASSUME PcType, NEW t \in Threads, NEW label, goto(t, label),
         label \in {"idle", "lock", "listen", "write", "wait", "out", "fail", "answer", "none", "null"}
  PROVE  PcType' /\ pc'[t] = label /\ \A u \in Threads : u # t => pc'[u] = pc[u]
BY DEF PcType, goto

\* Inside the transaction the lock stays where it is.
LEMMA InsideStep ==
  ASSUME FcpLock, NEW t \in Threads, NEW label, goto(t, label), UNCHANGED <<lock, gone>>, InTransaction(t),
         label \in {"listen", "write", "wait", "out", "fail", "answer", "none"},
         listening' => label \in {"write", "wait", "out", "fail"}
  PROVE  FcpLock'
<1>1. PcType' /\ pc'[t] = label /\ \A u \in Threads : u # t => pc'[u] = pc[u] BY Goto DEF FcpLock
<1>2. ASSUME ~gone PROVE LockInv'
  BY <1>1, <1>2 DEF FcpLock, LockInv, InTransaction
<1> QED BY <1>1, <1>2 DEF FcpLock, LockInv

\* Out of the transaction, with the lock.
LEMMA LeaveStep ==
  ASSUME FcpLock, NEW t \in Threads, goto(t, "idle"), pc[t] \in {"answer", "none", "null"}, transactionBlockClose(t),
         UNCHANGED <<gone, listening>>
  PROVE  FcpLock'
<1>1. PcType' /\ pc'[t] = "idle" /\ \A u \in Threads : u # t => pc'[u] = pc[u] BY Goto DEF FcpLock
<1>2. ASSUME ~gone PROVE LockInv'
  <2>1. InTransaction(t) /\ lock = t BY <1>2 DEF FcpLock, LockInv, InTransaction
  <2>2. \A u \in Threads : InTransaction(u) => u = t BY <1>2, <2>1 DEF FcpLock, LockInv
  <2>3. \A u \in Threads : ~InTransaction(u)' BY <1>1, <2>2 DEF InTransaction
  <2>4. ~listening BY <1>2, <2>2 DEF FcpLock, LockInv, InTransaction
  <2> QED BY <1>1, <1>2, <2>3, <2>4 DEF FcpLock, LockInv
<1> QED BY <1>1, <1>2 DEF FcpLock, LockInv

LEMMA SameLock ==
  ASSUME FcpLock, UNCHANGED <<pc, lock, listening>>, gone => gone'
  PROVE  FcpLock'
BY DEF FcpLock, PcType, LockInv, InTransaction

LEMMA FcpLockStep == ASSUME FcpLock, [Next]_vars PROVE FcpLock'
<1> USE DEF service, device, command
<1>1. ASSUME NEW t \in Threads, Step(t) PROVE FcpLock'
  <2>1. CASE Fire(t)
    <3>1. UNCHANGED <<lock, listening, gone>> BY <2>1 DEF Fire
    <3>2. CASE UNCHANGED pc BY <3>1, <3>2, SameLock
    <3>3. CASE goto(t, IF gone THEN "null" ELSE "lock")
      <4>1. CASE gone BY <3>1, <3>3, <4>1, Goto DEF FcpLock, LockInv
      <4>2. CASE ~gone
        <5>1. PcType' /\ pc'[t] = "lock" /\ \A u \in Threads : u # t => pc'[u] = pc[u] BY <3>3, <4>2, Goto DEF FcpLock
        <5>2. pc[t] = "idle" BY <2>1 DEF Fire
        <5> QED BY <3>1, <4>2, <5>1, <5>2 DEF FcpLock, LockInv, InTransaction
      <4> QED BY <4>1, <4>2
    <3> QED BY <2>1, <3>2, <3>3 DEF Fire
  <2>2. CASE transactionBlock(t)
    <3>1. /\ pc[t] = "lock" /\ lock = Nobody /\ lock' = t /\ goto(t, "listen") /\ UNCHANGED <<listening, gone>>
      BY <2>2 DEF transactionBlock, Lock
    <3>2. PcType' /\ pc'[t] = "listen" /\ \A u \in Threads : u # t => pc'[u] = pc[u] BY <3>1, Goto DEF FcpLock
    <3>3. ASSUME ~gone PROVE LockInv'
      <4>1. \A u \in Threads : ~InTransaction(u) BY <3>1, <3>3, NobodyAssumption DEF FcpLock, LockInv
      <4>2. ~listening BY <3>3, <4>1 DEF FcpLock, LockInv, InTransaction
      <4> QED BY <3>1, <3>2, <3>3, <4>1, <4>2 DEF FcpLock, LockInv, InTransaction
    <3> QED BY <3>1, <3>2, <3>3 DEF FcpLock, LockInv
  <2>3. CASE StartListen(t)
    <3>1. pc[t] = "listen" /\ InTransaction(t) /\ UNCHANGED <<lock, gone>> BY <2>3 DEF StartListen, InTransaction
    <3>2. CASE goto(t, "write") BY <3>1, <3>2, InsideStep
    <3>3. CASE goto(t, "fail") BY <3>1, <3>3, InsideStep
    <3> QED BY <2>3, <3>2, <3>3 DEF StartListen
  <2>4. CASE WriteRequest(t)
    <3>1. InTransaction(t) /\ UNCHANGED <<lock, gone, listening>> BY <2>4 DEF WriteRequest, InTransaction
    <3>2. CASE goto(t, "wait") BY <3>1, <3>2, InsideStep
    <3>3. CASE goto(t, "fail") BY <3>1, <3>3, InsideStep
    <3> QED BY <2>4, <3>2, <3>3 DEF WriteRequest
  <2>5. CASE handleFcpResponse(t)
    <3>1. UNCHANGED <<pc, lock, listening, gone>> BY <2>5 DEF handleFcpResponse
    <3> QED BY <3>1, SameLock
  <2>6. CASE EndWait(t)
    <3>1. InTransaction(t) /\ UNCHANGED <<lock, gone, listening>> BY <2>6 DEF EndWait, InTransaction
    <3>2. CASE block.status = eFS_Responded BY <2>6, <3>1, <3>2, InsideStep DEF EndWait
    <3>3. CASE block.status # eFS_Responded BY <2>6, <3>1, <3>3, InsideStep DEF EndWait
    <3> QED BY <3>2, <3>3
  <2>7. CASE StopListen(t)
    <3>1. InTransaction(t) /\ UNCHANGED <<lock, gone>> /\ listening' = FALSE BY <2>7 DEF StopListen, InTransaction
    <3>2. PICK stopped \in BOOLEAN :
            goto(t, IF stopped /\ pc[t] = "out" THEN "answer" ELSE IF TriesLeft(t) THEN "listen" ELSE "none")
      BY <2>7 DEF StopListen
    <3>3. PICK label \in {"answer", "listen", "none"} : goto(t, label) BY <3>2
    <3> QED BY <3>1, <3>3, InsideStep
  <2>8. CASE TakeResponse(t)
    <3>1. /\ pc[t] = "answer" /\ transactionBlockClose(t) /\ goto(t, "idle") /\ UNCHANGED <<listening, gone>>
      BY <2>8 DEF TakeResponse, Return
    <3> QED BY <3>1, LeaveStep
  <2>9. CASE NoResponse(t)
    <3>1. /\ pc[t] \in {"none", "null"} /\ transactionBlockClose(t) /\ goto(t, "idle") /\ UNCHANGED <<listening, gone>>
      BY <2>9 DEF NoResponse, Return
    <3> QED BY <3>1, LeaveStep
  <2> QED BY <1>1, <2>1, <2>2, <2>3, <2>4, <2>5, <2>6, <2>7, <2>8, <2>9 DEF Step
<1>2. CASE DeviceAnswers \/ LoseResponse \/ Vanish \/ UNCHANGED vars
  <2>1. UNCHANGED <<pc, lock, listening>> /\ (gone => gone')
    <3>1. CASE DeviceAnswers BY <3>1 DEF DeviceAnswers
    <3>2. CASE LoseResponse BY <3>2 DEF LoseResponse
    <3>3. CASE Vanish BY <3>3 DEF Vanish
    <3>4. CASE UNCHANGED vars BY <3>4 DEF vars
    <3> QED BY <1>2, <3>1, <3>2, <3>3, <3>4
  <2> QED BY <2>1, SameLock
<1> QED BY <1>1, <1>2 DEF Next, Finished

\* The request and response memory and the FCP listener have one user at a time, who
\* holds m_handle_lock, as long as the device stays on the bus: for any number of
\* threads and commands, whatever calls fail and however often a try is repeated.
THEOREM AlwaysOneTransaction == Spec => []OneTransaction
<1>1. FcpLock /\ [Next]_vars => FcpLock' BY FcpLockStep
<1>2. FcpLock => OneTransaction BY DEF FcpLock, LockInv, OneTransaction, Exclusive, InTransaction
<1> QED BY <1>1, <1>2, FcpLockInit, PTL DEF Spec

-----------------------------------------------------------------------------
\* What is under way is a sequence, of whatever; its ends.
IsSeq(s) == \E S : s \in Seq(S)

LEMMA AppendSeq ==
  ASSUME NEW s, IsSeq(s), NEW e
  PROVE  /\ IsSeq(Append(s, e)) /\ Len(s) \in Nat /\ DOMAIN s = 1..Len(s)
         /\ DOMAIN Append(s, e) = 1..(Len(s) + 1) /\ Len(Append(s, e)) = Len(s) + 1
         /\ Append(s, e)[Len(s) + 1] = e /\ \A i \in 1..Len(s) : Append(s, e)[i] = s[i]
<1>1. PICK S : s \in Seq(S) BY DEF IsSeq
<1>2. s \in Seq(S \cup {e}) BY <1>1
<1>3. Append(s, e) \in Seq(S \cup {e}) BY <1>2
<1> QED BY <1>2, <1>3 DEF IsSeq

LEMMA ConcatSeq ==
  ASSUME NEW s, IsSeq(s), NEW a, NEW b
  PROVE  s \o <<a, b>> = Append(Append(s, a), b)
<1>1. PICK S : s \in Seq(S) BY DEF IsSeq
<1>2. s \in Seq(S \cup {a, b}) /\ a \in S \cup {a, b} /\ b \in S \cup {a, b} BY <1>1
<1> QED BY <1>2

LEMMA TailSeq ==
  ASSUME NEW s, IsSeq(s), s # <<>>
  PROVE  /\ IsSeq(Tail(s)) /\ Head(s) = s[1] /\ Len(s) \in Nat /\ Len(s) >= 1
         /\ DOMAIN s = 1..Len(s) /\ DOMAIN Tail(s) = 1..(Len(s) - 1) /\ Len(Tail(s)) = Len(s) - 1
         /\ \A i \in 1..(Len(s) - 1) : Tail(s)[i] = s[i + 1]
         /\ (Len(s) = 1 => Tail(s) = <<>>)
<1>1. PICK S : s \in Seq(S) BY DEF IsSeq
<1>2. Tail(s) \in Seq(S) /\ Len(s) \in Nat /\ Len(s) >= 1 /\ Len(Tail(s)) = Len(s) - 1 BY <1>1
<1>3. Len(s) = 1 => Len(Tail(s)) = 0 BY <1>2
<1>4. Len(s) = 1 => Tail(s) = <<>> BY <1>2, <1>3, EmptySeq, Zenon
<1> QED BY <1>1, <1>2, <1>4 DEF IsSeq

\* Two threads are never both in a transaction.
LEMMA OneUser ==
  ASSUME FcpLock, ~gone, NEW t \in Threads, InTransaction(t)
  PROVE  lock = t /\ \A u \in Threads : InTransaction(u) => u = t
BY DEF FcpLock, LockInv

\* The parts of the invariant in steps that leave what is under way alone.
LEMMA KeepRepeats ==
  ASSUME RepeatsThenCurrent, UNCHANGED <<wire, asked, last, filter>>,
         \A u \in Threads : Asking(u) => Asking(u)' /\ script'[u] = script[u] /\ block'.request = block.request
  PROVE  RepeatsThenCurrent'
<1>1. \A m : Ignored(m)' <=> Ignored(m) BY DEF Ignored, IsRepeated
<1>2. \A q : ToIgnore(q)' <=> ToIgnore(q) BY DEF ToIgnore, IsRepeated
<1>3. \A m : Current(m) => Current(m)' BY DEF Current
<1>4. \A q : ToAnswer(q) => ToAnswer(q)' BY DEF ToAnswer
<1> QED BY <1>1, <1>2, <1>3, <1>4 DEF RepeatsThenCurrent

LEMMA KeepBytes == ASSUME Bytes, UNCHANGED <<wire, asked, last>> PROVE Bytes'
BY DEF Bytes

LEMMA KeepOwn == ASSUME OwnAnswer, UNCHANGED result, Undoubted' => Undoubted PROVE OwnAnswer'
BY DEF OwnAnswer

LEMMA KeepInFire ==
  ASSUME InFire, UNCHANGED script, NEW t \in Threads, pc[t] # "idle",
         \A u \in Threads : u # t => pc'[u] = pc[u]
  PROVE  InFire'
BY DEF InFire

\* History only gets worse.
LEMMA KeepDoubt ==
  ASSUME doubt \in {"none", "same", "other"}, UNCHANGED filter,
         doubt' = doubt \/ doubt' = "other" \/ (doubt' = "same" /\ doubt \in {"none", "same"})
  PROVE  (Undoubted' => Undoubted) /\ (doubt' # "other" => doubt # "other") /\ (doubt' = "none" => doubt = "none")
BY DEF Undoubted

Shapes == DOMAIN block = {"request", "response", "status", "for"} /\ DOMAIN result = Threads
AnswerBody ==
    /\ Shapes
    /\ doubt \in {"none", "same", "other"}
    /\ IsSeq(asked) /\ IsSeq(wire)
    /\ InFire /\ Bytes /\ Listens /\ TakenIsOwn /\ NothingLeft /\ OwnAnswer
    /\ filter /\ doubt # "other" => RepeatsThenCurrent
AnswerIInv == FcpLock /\ (gone \/ AnswerBody)

LEMMA AnswerInit == Init => AnswerIInv
<1> SUFFICES ASSUME Init PROVE AnswerIInv OBVIOUS
<1>1. FcpLock BY FcpLockInit
<1>2. asked = <<>> /\ wire = <<>> /\ IsSeq(asked) /\ IsSeq(wire) BY DEF Init, IsSeq
<1>3. InFire BY ScriptsAssumption DEF Init, InFire, Table
<1>4. last \in Seq(Nat) BY DEF Init
<1>5. Bytes BY <1>2, <1>4 DEF Bytes
<1>6. Listens /\ TakenIsOwn /\ NothingLeft
  BY <1>2 DEF Init, Listens, TakenIsOwn, NothingLeft, NoBlock, eFS_Empty, eFS_Responded
<1>7. OwnAnswer BY DEF Init, OwnAnswer, NoResult
<1>8. RepeatsThenCurrent BY <1>2 DEF RepeatsThenCurrent
<1>9. Shapes BY DEF Init, Shapes, NoBlock
<1> QED BY <1>1, <1>2, <1>3, <1>5, <1>6, <1>7, <1>8, <1>9 DEF Init, AnswerIInv, AnswerBody

LEMMA AnswerFire ==
  ASSUME FcpLock, AnswerBody, ~gone, NEW t \in Threads, Fire(t)
  PROVE  AnswerBody'
<1>1. /\ pc[t] = "idle" /\ script[t] # <<>>
      /\ UNCHANGED <<asked, wire, last, filter, block, doubt>>
  BY DEF Fire, service, device
<1>2. \A u \in Threads : pc'[u] # pc[u] => u = t /\ pc'[u] = "lock"
  BY DEF Fire, goto, FcpLock, PcType
<1>3. \A u \in Threads : script'[u] # script[u] => u = t
  BY DEF Fire, AnswerBody, InFire
<1>4. InFire'
  <2>1. CASE ~serializes(Table[Head(script[t])].ask)
    <3>1. script' = [script EXCEPT ![t] = Tail(@)] /\ UNCHANGED pc BY <2>1 DEF Fire
    <3>2. Tail(script[t]) \in Seq(DOMAIN Table) BY <1>1 DEF AnswerBody, InFire
    <3> QED BY <1>1, <3>1, <3>2 DEF AnswerBody, InFire
  <2>2. CASE serializes(Table[Head(script[t])].ask)
    <3>1. UNCHANGED script BY <2>2 DEF Fire
    <3> QED BY <1>1, <1>2, <2>2, <3>1 DEF AnswerBody, InFire
  <2> QED BY <2>1, <2>2
<1>5. Listens' /\ TakenIsOwn' /\ NothingLeft'
  BY <1>1, <1>2 DEF AnswerBody, Listens, TakenIsOwn, NothingLeft, Undoubted
<1>6. OwnAnswer'
  BY <1>1 DEF Fire, AnswerBody, OwnAnswer, Undoubted, NoResult, Shapes
<1>7. \A u \in Threads : Asking(u) => Asking(u)' /\ script'[u] = script[u]
  BY <1>1, <1>2, <1>3 DEF Asking
<1>8. filter' /\ doubt' # "other" => RepeatsThenCurrent' BY <1>1, <1>7, KeepRepeats DEF AnswerBody
<1>9. Shapes' BY <1>1 DEF Fire, AnswerBody, Shapes
<1> QED BY <1>1, <1>4, <1>5, <1>6, <1>8, <1>9, KeepBytes DEF AnswerBody

LEMMA AnswerLock ==
  ASSUME FcpLock, AnswerBody, ~gone, NEW t \in Threads, transactionBlock(t)
  PROVE  AnswerBody'
<1>1. /\ pc[t] = "lock" /\ goto(t, "listen") /\ lock = Nobody
      /\ UNCHANGED <<script, asked, wire, last, filter, doubt, result>>
      /\ block'.status = eFS_Empty
  BY DEF transactionBlock, Lock, device, NoBlock
<1>2. pc'[t] = "listen" /\ \A u \in Threads : u # t => pc'[u] = pc[u] BY <1>1, Goto DEF FcpLock
<1>3. \A u \in Threads : ~InTransaction(u) BY <1>1, NobodyAssumption DEF FcpLock, LockInv
<1>4. InFire' BY <1>1, <1>2, KeepInFire DEF AnswerBody
<1>5. Listens' /\ TakenIsOwn' /\ NothingLeft'
  BY <1>1, <1>2, <1>3 DEF AnswerBody, Listens, TakenIsOwn, NothingLeft, Undoubted, InTransaction, eFS_Empty, eFS_Responded
<1>6. OwnAnswer' BY <1>1, KeepOwn DEF AnswerBody, Undoubted
<1>7. \A u \in Threads : ~Asking(u) BY <1>3 DEF Asking, InTransaction
<1>8. filter' /\ doubt' # "other" => RepeatsThenCurrent' BY <1>1, <1>7, KeepRepeats DEF AnswerBody
<1>9. Shapes' BY <1>1 DEF transactionBlock, AnswerBody, Shapes, NoBlock
<1> QED BY <1>1, <1>4, <1>5, <1>6, <1>8, <1>9, KeepBytes DEF AnswerBody

LEMMA AnswerListen ==
  ASSUME FcpLock, AnswerBody, ~gone, NEW t \in Threads, StartListen(t)
  PROVE  AnswerBody'
<1>1. /\ pc[t] = "listen" /\ InTransaction(t)
      /\ UNCHANGED <<script, asked, wire, last, filter, doubt, result>>
  BY DEF StartListen, device, InTransaction
<1>2. \/ /\ goto(t, "write") /\ block' = [block EXCEPT !.status = eFS_Waiting]
      \/ goto(t, "fail") /\ block' = block
  BY DEF StartListen
<1>3. /\ \/ pc'[t] = "write" /\ block'.status = eFS_Waiting
         \/ pc'[t] = "fail" /\ block'.status = block.status
      /\ \A u \in Threads : u # t => pc'[u] = pc[u]
  BY <1>2, Goto DEF FcpLock, AnswerBody, Shapes
<1>4. \A u \in Threads : u # t => ~InTransaction(u) BY <1>1, OneUser
<1>5. InFire' BY <1>1, <1>3, KeepInFire DEF AnswerBody
<1>6. (asked = <<>> /\ wire = <<>>) \/ doubt # "none" BY <1>1, <1>4 DEF AnswerBody, NothingLeft, InTransaction
<1>7. NothingLeft' BY <1>1, <1>6 DEF NothingLeft
<1>8. block'.request = block.request /\ block'.for = block.for /\ Shapes' BY <1>1, <1>2 DEF AnswerBody, Shapes
<1>9. Listens' /\ TakenIsOwn'
  BY <1>1, <1>3, <1>4, <1>8 DEF AnswerBody, Listens, TakenIsOwn, Undoubted, InTransaction, eFS_Waiting, eFS_Responded
<1>10. OwnAnswer' BY <1>1, KeepOwn DEF AnswerBody, Undoubted
<1>11. \A u \in Threads : Asking(u) => Asking(u)' BY <1>1, <1>3, <1>4 DEF Asking, InTransaction, eFS_Waiting, eFS_Responded
<1>12. filter' /\ doubt' # "other" => RepeatsThenCurrent' BY <1>1, <1>8, <1>11, KeepRepeats DEF AnswerBody
<1> QED BY <1>1, <1>5, <1>7, <1>8, <1>9, <1>10, <1>12, KeepBytes DEF AnswerBody

\* The request joins what is under way.
LEMMA AskRepeats ==
  ASSUME RepeatsThenCurrent, IsSeq(asked), NEW q, ToAnswer(q), asked' = Append(asked, q), UNCHANGED <<wire, last, filter, script, block>>,
         \A u \in Threads : Asking(u) => Asking(u)'
  PROVE  RepeatsThenCurrent'
<1>1. \A m : Ignored(m)' <=> Ignored(m) BY DEF Ignored, IsRepeated
<1>2. \A r : ToIgnore(r)' <=> ToIgnore(r) BY DEF ToIgnore, IsRepeated
<1>3. \A m : Current(m) => Current(m)' BY DEF Current
<1>4. \A r : ToAnswer(r) => ToAnswer(r)' BY DEF ToAnswer
<1>5. /\ DOMAIN asked = 1..Len(asked) /\ Len(asked) \in Nat /\ DOMAIN asked' = 1..(Len(asked) + 1)
      /\ asked'[Len(asked) + 1] = q /\ \A i \in 1..Len(asked) : asked'[i] = asked[i]
  BY AppendSeq
<1>6. ASSUME NEW j \in DOMAIN asked'
      PROVE  (j \in DOMAIN asked /\ asked'[j] = asked[j]) \/ ToAnswer(asked[j])'
  <2>1. CASE j = Len(asked) + 1
    <3>1. asked'[j] = q BY <1>5, <2>1
    <3> QED BY <1>4, <3>1
  <2>2. CASE j # Len(asked) + 1 BY <1>5, <2>2
  <2> QED BY <2>1, <2>2
<1>8. ASSUME NEW i \in DOMAIN asked', NEW j \in DOMAIN asked', i <= j PROVE ToIgnore(asked[i])' \/ ToAnswer(asked[j])'
  <2>1. CASE j = Len(asked) + 1 BY <1>4, <1>5, <2>1
  <2>2. CASE j # Len(asked) + 1
    <3>1. i \in DOMAIN asked /\ j \in DOMAIN asked BY <1>5, <1>8, <2>2
    <3> QED BY <1>2, <1>4, <1>5, <1>8, <3>1 DEF RepeatsThenCurrent
  <2> QED BY <2>1, <2>2
<1> QED BY <1>1, <1>3, <1>4, <1>6, <1>8 DEF RepeatsThenCurrent

LEMMA AnswerWrite ==
  ASSUME FcpLock, AnswerBody, ~gone, NEW t \in Threads, WriteRequest(t)
  PROVE  AnswerBody'
<1> DEFINE q == [frame |-> block.request, id |-> Head(script[t])]
<1>1. /\ pc[t] = "write" /\ InTransaction(t) /\ block.status = eFS_Waiting
      /\ UNCHANGED <<script, wire, last, filter, result, block>>
  BY DEF WriteRequest, service, InTransaction, AnswerBody, Listens
<1>2. \/ asked' = Append(asked, q) /\ goto(t, "wait") /\ doubt' = doubt
      \/ /\ goto(t, "fail") /\ asked' \in {asked, Append(asked, q)}
         /\ doubt' = IF doubt = "none" THEN "same" ELSE doubt
  BY DEF WriteRequest
<1>3. (pc'[t] = "wait" \/ pc'[t] = "fail") /\ \A u \in Threads : u # t => pc'[u] = pc[u]
  BY <1>2, Goto DEF FcpLock
<1>4. \A u \in Threads : u # t => ~InTransaction(u) BY <1>1, OneUser
<1>5. InFire' BY <1>1, <1>3, KeepInFire DEF AnswerBody
<1>6. (asked = <<>> /\ wire = <<>>) \/ doubt # "none" BY <1>1, <1>4 DEF AnswerBody, NothingLeft, InTransaction
<1>7. NothingLeft'
  <2>1. CASE asked' = Append(asked, q) /\ goto(t, "wait") /\ doubt' = doubt
    <3>1. pc'[t] = "wait" BY <2>1, Goto DEF FcpLock
    <3>2. doubt = "none" => Len(asked') = 1 /\ asked'[1].frame = block.request BY <1>6, <2>1
    <3> QED BY <1>1, <1>6, <2>1, <3>1, <3>2 DEF NothingLeft
  <2>2. CASE doubt' # "none" BY <2>2 DEF NothingLeft
  <2> QED BY <1>2, <2>1, <2>2
<1>8. Listens' /\ TakenIsOwn'
  BY <1>1, <1>2, <1>3, <1>4 DEF AnswerBody, Listens, TakenIsOwn, Undoubted, InTransaction, eFS_Waiting, eFS_Responded
<1>9. /\ OwnAnswer' /\ doubt' \in {"none", "same", "other"} /\ (doubt' # "other" => doubt # "other")
  BY <1>1, <1>2, KeepOwn DEF AnswerBody, Undoubted
<1>10. \A u \in Threads : Asking(u) => Asking(u)' BY <1>1, <1>3, <1>4 DEF Asking, InTransaction
<1>11. ToAnswer(q) BY <1>1 DEF ToAnswer, Asking, eFS_Waiting, eFS_Responded
<1>12. filter' /\ doubt' # "other" => RepeatsThenCurrent'
  <2>1. CASE asked' = Append(asked, q) BY <1>1, <1>9, <1>10, <1>11, <2>1, AskRepeats DEF AnswerBody
  <2>2. CASE asked' = asked BY <1>1, <1>9, <1>10, <2>2, KeepRepeats DEF AnswerBody
  <2> QED BY <1>2, <2>1, <2>2
<1>13. Bytes' /\ IsSeq(asked')
  <2>1. CASE asked' = asked BY <1>1, <2>1, KeepBytes DEF AnswerBody
  <2>2. CASE asked' = Append(asked, q)
    <3>1. Head(script[t]) \in DOMAIN Table /\ serializes(Table[Head(script[t])].ask)
      BY <1>1 DEF AnswerBody, InFire
    <3>2. \A i \in DOMAIN asked' : (i \in DOMAIN asked /\ asked'[i] = asked[i]) \/ asked'[i] = q
      BY <2>2, AppendSeq DEF AnswerBody
    <3>3. IsSeq(asked') BY <2>2, AppendSeq DEF AnswerBody
    <3> QED BY <1>1, <3>1, <3>2, <3>3 DEF AnswerBody, Bytes
  <2> QED BY <1>2, <2>1, <2>2
<1>14. Shapes' BY <1>1 DEF AnswerBody, Shapes
<1> QED BY <1>1, <1>5, <1>7, <1>8, <1>9, <1>12, <1>13, <1>14 DEF AnswerBody

\* The oldest response is ignored, or lost.
LEMMA DropRepeats ==
  ASSUME RepeatsThenCurrent, IsSeq(wire), wire # <<>>, wire' = Tail(wire),
         UNCHANGED <<asked, last, filter, script, block, pc>>
  PROVE  RepeatsThenCurrent'
<1>1. \A m : (Ignored(m)' <=> Ignored(m)) /\ (Current(m) <=> Current(m)')
  BY DEF Ignored, IsRepeated, Current, Asking
<1>2. \A q : (ToIgnore(q)' <=> ToIgnore(q)) /\ (ToAnswer(q) <=> ToAnswer(q)')
  BY DEF ToIgnore, IsRepeated, ToAnswer, Asking
<1>3. \A i \in DOMAIN wire' : i \in Int /\ i + 1 \in DOMAIN wire /\ wire'[i] = wire[i + 1] BY TailSeq
<1>4. ASSUME NEW i \in DOMAIN wire', NEW j \in DOMAIN wire', i <= j PROVE Ignored(wire[i])' \/ Current(wire[j])'
  <2>1. i + 1 <= j + 1 BY <1>3, <1>4
  <2>2. Ignored(wire[i + 1]) \/ Current(wire[j + 1]) BY <1>3, <1>4, <2>1 DEF RepeatsThenCurrent
  <2> QED BY <1>1, <1>3, <1>4, <2>2
<1>5. ASSUME NEW i \in DOMAIN wire', NEW j \in DOMAIN asked' PROVE Ignored(wire[i])' \/ ToAnswer(asked[j])'
  <2>1. Ignored(wire[i + 1]) \/ ToAnswer(asked[j]) BY <1>3, <1>5 DEF RepeatsThenCurrent
  <2> QED BY <1>1, <1>2, <1>3, <1>5, <2>1
<1>6. (\A i, j \in DOMAIN asked : i <= j => ToIgnore(asked[i]) \/ ToAnswer(asked[j]))'
  BY <1>2 DEF RepeatsThenCurrent
<1> QED BY <1>4, <1>5, <1>6 DEF RepeatsThenCurrent

\* The device turns the oldest request into n responses.
LEMMA MoveRepeats ==
  ASSUME RepeatsThenCurrent, IsSeq(wire), IsSeq(asked), asked # <<>>, asked' = Tail(asked), NEW n \in Nat,
         DOMAIN wire' = 1..(Len(wire) + n), \A i \in 1..Len(wire) : wire'[i] = wire[i],
         \A i \in (Len(wire) + 1)..(Len(wire) + n) :
             (ToIgnore(asked[1]) => Ignored(wire'[i])) /\ (ToAnswer(asked[1]) => Current(wire'[i])),
         UNCHANGED <<last, filter, script, block, pc>>
  PROVE  RepeatsThenCurrent'
<1>1. \A m : (Ignored(m)' <=> Ignored(m)) /\ (Current(m) <=> Current(m)')
  BY DEF Ignored, IsRepeated, Current, Asking
<1>2. \A q : (ToIgnore(q)' <=> ToIgnore(q)) /\ (ToAnswer(q) <=> ToAnswer(q)')
  BY DEF ToIgnore, IsRepeated, ToAnswer, Asking
<1>3. /\ \A i \in DOMAIN asked' : i \in Int /\ i >= 1 /\ i + 1 \in DOMAIN asked /\ asked'[i] = asked[i + 1]
      /\ 1 \in DOMAIN asked
  BY TailSeq
<1>4. Len(wire) \in Nat /\ DOMAIN wire = 1..Len(wire) BY AppendSeq
<1> DEFINE New(i) == i \in (Len(wire) + 1)..(Len(wire) + n)
<1>5. ASSUME NEW i \in DOMAIN wire' PROVE (i \in DOMAIN wire /\ wire'[i] = wire[i]) \/ New(i)
  BY <1>4, <1>5
<1>6. ToIgnore(asked[1]) \/ ToAnswer(asked[1]) BY <1>3 DEF RepeatsThenCurrent
<1>7. ASSUME NEW i \in DOMAIN wire', NEW j \in DOMAIN wire', i <= j PROVE Ignored(wire'[i]) \/ Current(wire'[j])
  <2>1. CASE New(i)
    <3>1. New(j) BY <1>4, <1>7, <2>1
    <3> QED BY <1>6, <2>1, <3>1
  <2>2. CASE ~New(i) /\ New(j)
    <3>1. i \in DOMAIN wire /\ wire'[i] = wire[i] BY <1>5, <1>7, <2>2
    <3>2. Ignored(wire[i]) \/ ToAnswer(asked[1]) BY <1>3, <3>1 DEF RepeatsThenCurrent
    <3> QED BY <2>2, <3>1, <3>2
  <2>3. CASE ~New(i) /\ ~New(j)
    <3>1. i \in DOMAIN wire /\ wire'[i] = wire[i] /\ j \in DOMAIN wire /\ wire'[j] = wire[j] BY <1>5, <1>7, <2>3
    <3> QED BY <1>7, <3>1 DEF RepeatsThenCurrent
  <2> QED BY <2>1, <2>2, <2>3
<1>8. ASSUME NEW i \in DOMAIN wire', NEW j \in DOMAIN asked' PROVE Ignored(wire'[i]) \/ ToAnswer(asked'[j])
  <2>1. CASE New(i)
    <3>1. ToIgnore(asked[1]) \/ ToAnswer(asked[j + 1]) BY <1>3, <1>8 DEF RepeatsThenCurrent
    <3> QED BY <1>3, <1>8, <2>1, <3>1
  <2>2. CASE ~New(i)
    <3>1. i \in DOMAIN wire /\ wire'[i] = wire[i] BY <1>5, <1>8, <2>2
    <3> QED BY <1>3, <1>8, <3>1 DEF RepeatsThenCurrent
  <2> QED BY <2>1, <2>2
<1>9. ASSUME NEW i \in DOMAIN asked', NEW j \in DOMAIN asked', i <= j PROVE ToIgnore(asked'[i]) \/ ToAnswer(asked'[j])
  <2>1. i + 1 <= j + 1 BY <1>3, <1>9
  <2> QED BY <1>3, <1>9, <2>1 DEF RepeatsThenCurrent
<1>10. \A i, j \in DOMAIN wire' : i <= j => Ignored(wire[i])' \/ Current(wire[j])' BY <1>1, <1>7
<1>11. \A i \in DOMAIN wire', j \in DOMAIN asked' : Ignored(wire[i])' \/ ToAnswer(asked[j])' BY <1>1, <1>2, <1>8
<1>12. \A i, j \in DOMAIN asked' : i <= j => ToIgnore(asked[i])' \/ ToAnswer(asked[j])' BY <1>2, <1>9
<1> QED BY <1>10, <1>11, <1>12 DEF RepeatsThenCurrent

\* A response that has been taken is recognised when it comes again.
LEMMA TakenRepeats ==
  ASSUME NEW data \in Seq(Nat), last \in Seq(Nat), filter, filter' = filter,
         last' = data \o SubSeq(last, Len(data) + 1, Len(last))
  PROVE  IsRepeated(data)'
<1>1. SubSeq(last, Len(data) + 1, Len(last)) \in Seq(Nat) BY SubSeqProperties
<1>2. \A i \in DOMAIN data : i \in DOMAIN last' /\ last'[i] = data[i] BY <1>1
<1> QED BY <1>2 DEF IsRepeated

LEMMA AnswerHandle ==
  ASSUME FcpLock, AnswerBody, ~gone, NEW t \in Threads, handleFcpResponse(t)
  PROVE  AnswerBody'
<1> DEFINE r == wire[1]
<1>1. /\ pc[t] = "wait" /\ block.status = eFS_Waiting /\ wire # <<>> /\ wire' = Tail(wire) /\ Head(wire) = r
      /\ UNCHANGED <<script, pc, result, filter, asked, doubt>>
  BY TailSeq DEF handleFcpResponse, command, AnswerBody
<1>2. /\ IsSeq(wire') /\ Len(wire) \in Nat /\ DOMAIN wire = 1..Len(wire) /\ Len(wire) >= 1 /\ Len(wire') = Len(wire) - 1
      /\ DOMAIN wire' = 1..(Len(wire) - 1)
      /\ \A i \in DOMAIN wire' : i \in Int /\ i + 1 \in DOMAIN wire /\ wire'[i] = wire[i + 1]
      /\ (Len(wire) = 1 => wire' = <<>>)
  BY <1>1, TailSeq DEF AnswerBody
<1>3. r.data \in Seq(Nat) /\ r.data # <<>> BY <1>2 DEF AnswerBody, Bytes
<1>4. last' \in Seq(Nat)
  <2>1. CASE last' = last BY <2>1 DEF AnswerBody, Bytes
  <2>2. CASE last' = r.data \o SubSeq(last, Len(r.data) + 1, Len(last))
    <3>1. SubSeq(last, Len(r.data) + 1, Len(last)) \in Seq(Nat)
      BY <1>3, SubSeqProperties DEF AnswerBody, Bytes
    <3> QED BY <1>3, <2>2, <3>1
  <2> QED BY <1>1, <2>1, <2>2 DEF handleFcpResponse
<1>5. Bytes' BY <1>1, <1>2, <1>4 DEF AnswerBody, Bytes
<1>6. InFire' /\ OwnAnswer' /\ Listens'
  <2>1. \A u \in Threads : pc[u] # "write" BY <1>1, OneUser DEF InTransaction
  <2> QED BY <1>1, <2>1 DEF AnswerBody, InFire, OwnAnswer, Undoubted, Listens
<1>7. CASE UNCHANGED <<block, last>>
  <2>1. TakenIsOwn' /\ Shapes' BY <1>1, <1>7 DEF AnswerBody, TakenIsOwn, Undoubted, Shapes
  <2>2. NothingLeft'
    <3>1. CASE Len(wire) = 1 BY <1>1, <1>2, <1>7, <3>1 DEF AnswerBody, NothingLeft
    <3>2. CASE Len(wire) = 2
      <4>1. Len(wire') = 1 /\ 1 \in DOMAIN wire' BY <1>2, <3>2
      <4>2. wire'[1] = wire[2] BY <1>2, <4>1
      <4> QED BY <1>1, <1>7, <3>2, <4>1, <4>2 DEF AnswerBody, NothingLeft
    <3>3. CASE Len(wire) \notin {1, 2} BY <1>1, <3>3 DEF AnswerBody, NothingLeft
    <3> QED BY <3>1, <3>2, <3>3
  <2>3. filter' /\ doubt' # "other" => RepeatsThenCurrent' BY <1>1, <1>7, DropRepeats DEF AnswerBody
  <2> QED BY <1>1, <1>2, <1>5, <1>6, <2>1, <2>2, <2>3 DEF AnswerBody
<1>8. CASE ~UNCHANGED <<block, last>>
  <2>1. /\ r.data[1] # FCP_RESPONSE_INTERIM /\ ~IsRepeated(r.data)
        /\ block' = [block EXCEPT !.response = r.data, !.status = eFS_Responded, !.for = r.for]
        /\ last' = IF filter THEN r.data \o SubSeq(last, Len(r.data) + 1, Len(last)) ELSE last
    BY <1>1, <1>8 DEF handleFcpResponse
  <2>2. Shapes' /\ block'.status = eFS_Responded /\ block'.for = r.for /\ block'.request = block.request
    BY <1>1, <2>1 DEF AnswerBody, Shapes
  <2>3. ~Ignored(r) BY <2>1 DEF Ignored
  <2>4. filter /\ doubt # "other" =>
           (\A i \in DOMAIN wire : Current(wire[i])) /\ (\A i \in DOMAIN asked : ToAnswer(asked[i]))
    BY <1>2, <2>3 DEF AnswerBody, RepeatsThenCurrent
  <2>5. doubt = "none" => Len(wire) = 1 /\ asked = <<>> /\ r.for = block.request
    BY <1>1, <2>1 DEF AnswerBody, NothingLeft
  <2>6. Undoubted => r.for = block.request
    BY <1>2, <2>4, <2>5 DEF Undoubted, Current
  <2>7. TakenIsOwn' BY <1>1, <2>2, <2>6 DEF TakenIsOwn, Undoubted
  <2>8. NothingLeft' BY <1>1, <1>2, <2>5 DEF NothingLeft
  <2>9. ASSUME filter, doubt # "other" PROVE RepeatsThenCurrent'
    <3>0. PICK a : a = AnswerOf(Head(script[t])) OBVIOUS
    <3>1. \A u \in Threads : Asking(u) => u = t BY <1>1, OneUser DEF Asking, InTransaction
    <3>2. \A i \in DOMAIN wire : wire[i].data[1] = FCP_RESPONSE_INTERIM \/ wire[i].data = a
      BY <2>4, <2>9, <3>0, <3>1 DEF Current
    <3>3. \A i \in DOMAIN asked : asked[i].id = Head(script[t]) BY <2>4, <2>9, <3>1 DEF ToAnswer
    <3>4. r.data = a BY <1>2, <2>1, <3>2
    <3>5. a \in Seq(Nat) BY <1>3, <3>4
    <3>6. last' = a \o SubSeq(last, Len(a) + 1, Len(last)) BY <2>1, <2>9, <3>4
    <3>7. last \in Seq(Nat) BY DEF AnswerBody, Bytes
    <3>8. IsRepeated(a)' BY <1>1, <2>9, <3>5, <3>6, <3>7, TakenRepeats
    <3>9. \A i \in DOMAIN wire' : wire'[i].data[1] = FCP_RESPONSE_INTERIM \/ wire'[i].data = a BY <1>2, <3>2
    <3>10. \A i \in DOMAIN wire' : Ignored(wire[i])' BY <3>8, <3>9 DEF Ignored
    <3>11. \A i \in DOMAIN asked' : AnswerOf(asked'[i].id) = a BY <1>1, <3>0, <3>3
    <3>12. \A i \in DOMAIN asked' : ToIgnore(asked[i])' BY <3>8, <3>11 DEF ToIgnore
    <3> QED BY <3>10, <3>12 DEF RepeatsThenCurrent
  <2> QED BY <1>1, <1>2, <1>5, <1>6, <2>2, <2>7, <2>8, <2>9 DEF AnswerBody
<1> QED BY <1>7, <1>8

LEMMA AnswerEndWait ==
  ASSUME FcpLock, AnswerBody, ~gone, NEW t \in Threads, EndWait(t)
  PROVE  AnswerBody'
<1> DEFINE label == IF block.status = eFS_Responded THEN "out" ELSE "fail"
<1>1. /\ pc[t] = "wait" /\ InTransaction(t) /\ goto(t, label)
      /\ doubt' = IF block.status # eFS_Responded /\ doubt = "none" THEN "same" ELSE doubt
      /\ UNCHANGED <<script, result, asked, wire, last, filter, block>>
  BY DEF EndWait, service, device, InTransaction
<1>2. pc'[t] = label /\ \A u \in Threads : u # t => pc'[u] = pc[u] BY <1>1, Goto DEF FcpLock
<1>3. \A u \in Threads : u # t => ~InTransaction(u) BY <1>1, OneUser
<1>4. InFire' BY <1>1, <1>2, KeepInFire DEF AnswerBody
<1>5. Listens' BY <1>1, <1>2 DEF AnswerBody, Listens
<1>6. /\ doubt' \in {"none", "same", "other"} /\ (doubt' # "other" => doubt # "other") /\ (Undoubted' => Undoubted)
      /\ (doubt' = "none" => doubt = "none" /\ block.status = eFS_Responded)
  BY <1>1 DEF AnswerBody, Undoubted
<1>7. TakenIsOwn'
  <2>1. CASE block.status = eFS_Responded BY <1>1, <1>6, <2>1 DEF AnswerBody, TakenIsOwn
  <2>2. CASE block.status # eFS_Responded BY <1>1, <1>2, <1>3, <1>6, <2>2 DEF AnswerBody, TakenIsOwn, InTransaction
  <2> QED BY <2>1, <2>2
<1>8. NothingLeft' BY <1>1, <1>6 DEF AnswerBody, NothingLeft, eFS_Responded, eFS_Waiting
<1>9. OwnAnswer' BY <1>1, <1>6, KeepOwn DEF AnswerBody
<1>10. \A u \in Threads : Asking(u) => Asking(u)' BY <1>1, <1>2, <1>3 DEF Asking, InTransaction
<1>11. filter' /\ doubt' # "other" => RepeatsThenCurrent' BY <1>1, <1>6, <1>10, KeepRepeats DEF AnswerBody
<1>12. Shapes' BY <1>1 DEF AnswerBody, Shapes
<1> QED BY <1>1, <1>4, <1>5, <1>6, <1>7, <1>8, <1>9, <1>11, <1>12, KeepBytes DEF AnswerBody

LEMMA AnswerStop ==
  ASSUME FcpLock, AnswerBody, ~gone, NEW t \in Threads, StopListen(t)
  PROVE  AnswerBody'
<1>1. /\ pc[t] \in {"out", "fail"} /\ InTransaction(t) /\ block' = [block EXCEPT !.status = eFS_Empty]
      /\ UNCHANGED <<script, result, asked, wire, last, filter>>
  BY DEF StopListen, device, InTransaction
<1>2. \/ pc[t] = "out" /\ goto(t, "answer") /\ doubt' = doubt
      \/ goto(t, "listen") /\ doubt' = IF doubt = "none" THEN "same" ELSE doubt
      \/ goto(t, "none") /\ doubt' = "other"
  BY DEF StopListen
<1>3. /\ \A u \in Threads : u # t => pc'[u] = pc[u]
      /\ \/ pc[t] = "out" /\ pc'[t] = "answer" /\ doubt' = doubt
         \/ pc'[t] = "listen" /\ doubt' = IF doubt = "none" THEN "same" ELSE doubt
         \/ pc'[t] = "none" /\ doubt' = "other"
  BY <1>2, Goto DEF FcpLock
<1>4. \A u \in Threads : u # t => ~InTransaction(u) BY <1>1, OneUser
<1>5. InFire' BY <1>1, <1>3, KeepInFire DEF AnswerBody
<1>6. /\ doubt' \in {"none", "same", "other"} /\ (doubt' # "other" => doubt # "other") /\ (Undoubted' => Undoubted)
      /\ (doubt' = "none" => doubt = "none")
  BY <1>1, <1>3 DEF AnswerBody, Undoubted
<1>7. /\ Shapes' /\ block'.request = block.request /\ block'.for = block.for /\ block'.status = eFS_Empty
  BY <1>1 DEF AnswerBody, Shapes
<1>8. Listens' BY <1>1, <1>3, <1>4 DEF Listens, InTransaction
<1>9. TakenIsOwn'
  BY <1>1, <1>3, <1>4, <1>6, <1>7 DEF AnswerBody, TakenIsOwn, InTransaction, eFS_Empty, eFS_Responded
<1>10. NothingLeft' BY <1>1, <1>4, <1>6 DEF AnswerBody, NothingLeft, InTransaction
<1>11. OwnAnswer' BY <1>1, <1>6, KeepOwn DEF AnswerBody
<1>12. ASSUME doubt' # "other" PROVE \A u \in Threads : Asking(u) => Asking(u)'
  BY <1>1, <1>3, <1>4, <1>7, <1>12 DEF Asking, InTransaction, eFS_Empty, eFS_Responded
<1>13. filter' /\ doubt' # "other" => RepeatsThenCurrent' BY <1>1, <1>6, <1>7, <1>12, KeepRepeats DEF AnswerBody
<1> QED BY <1>1, <1>5, <1>6, <1>7, <1>8, <1>9, <1>10, <1>11, <1>13, KeepBytes DEF AnswerBody

\* The end of fire(): a result, and out of the transaction.
LEMMA AnswerReturn ==
  ASSUME FcpLock, AnswerBody, ~gone, NEW t \in Threads, NEW res, Return(t, res), pc[t] \in {"answer", "none", "null"},
         res.ok /\ Undoubted => res.for = res.ask,
         UNCHANGED <<block, last, filter, asked, wire, doubt>>
  PROVE  AnswerBody'
<1>1. /\ goto(t, "idle") /\ script' = [script EXCEPT ![t] = Tail(@)] /\ result' = [result EXCEPT ![t] = res]
  BY DEF Return
<1>2. pc'[t] = "idle" /\ \A u \in Threads : u # t => pc'[u] = pc[u] BY <1>1, Goto DEF FcpLock
<1>3. Tail(script[t]) \in Seq(DOMAIN Table) BY DEF AnswerBody, InFire
<1>4. InFire' BY <1>1, <1>2, <1>3 DEF AnswerBody, InFire
<1>5. Listens' /\ TakenIsOwn' BY <1>2 DEF AnswerBody, Listens, TakenIsOwn, Undoubted
<1>6. NothingLeft' BY <1>2 DEF AnswerBody, NothingLeft
<1>7. OwnAnswer' /\ Shapes' BY <1>1 DEF AnswerBody, OwnAnswer, Undoubted, Shapes
<1>8. \A u \in Threads : Asking(u) => Asking(u)' /\ script'[u] = script[u]
  BY <1>1, <1>2 DEF Asking, AnswerBody, InFire
<1>9. filter' /\ doubt' # "other" => RepeatsThenCurrent' BY <1>8, KeepRepeats DEF AnswerBody
<1> QED BY <1>4, <1>5, <1>6, <1>7, <1>9, KeepBytes DEF AnswerBody

LEMMA AnswerTake ==
  ASSUME FcpLock, AnswerBody, ~gone, NEW t \in Threads, TakeResponse(t)
  PROVE  AnswerBody'
<1>1. pc[t] = "answer" /\ UNCHANGED <<block, last, filter, asked, wire, doubt>> BY DEF TakeResponse, device
<1>2. PICK ok, code, got :
        Return(t, [id |-> Head(script[t]), ok |-> ok, code |-> code, got |-> got, ask |-> block.request, for |-> block.for])
  BY DEF TakeResponse
<1>3. Undoubted => block.for = block.request BY <1>1 DEF AnswerBody, TakenIsOwn
<1> DEFINE res == [id |-> Head(script[t]), ok |-> ok, code |-> code, got |-> got, ask |-> block.request, for |-> block.for]
<1>4. res.ok /\ Undoubted => res.for = res.ask BY <1>3
<1>5. Return(t, res) BY <1>2
<1> HIDE DEF res
<1> QED BY <1>1, <1>4, <1>5, AnswerReturn

LEMMA AnswerNone ==
  ASSUME FcpLock, AnswerBody, ~gone, NEW t \in Threads, NoResponse(t)
  PROVE  AnswerBody'
<1>1. pc[t] \in {"none", "null"} /\ UNCHANGED <<block, last, filter, asked, wire, doubt>> BY DEF NoResponse, device
<1> DEFINE res == [NoResult EXCEPT !.id = Head(script[t])]
<1>2. Return(t, res) BY DEF NoResponse
<1>3. ~res.ok BY DEF NoResult
<1> HIDE DEF res
<1> QED BY <1>1, <1>2, <1>3, AnswerReturn

LEMMA AnswerDevice ==
  ASSUME FcpLock, AnswerBody, ~gone, DeviceAnswers
  PROVE  AnswerBody'
<1>1. PICK q, a : q = asked[1] /\ a = AnswerOf(q.id) OBVIOUS
<1> DEFINE msg(data) == [data |-> data, for |-> q.frame]
           interim == [a EXCEPT ![1] = FCP_RESPONSE_INTERIM]
           other == [a EXCEPT ![1] = eR_InTransition]
<1>2. /\ asked # <<>> /\ asked' = Tail(asked) /\ Head(asked) = q /\ IsSeq(asked') /\ 1 \in DOMAIN asked
      /\ DOMAIN asked' = 1..(Len(asked) - 1) /\ Len(asked) \in Nat
      /\ \A i \in DOMAIN asked' : i + 1 \in DOMAIN asked /\ asked'[i] = asked[i + 1]
      /\ (Len(asked) = 1 => asked' = <<>>)
      /\ UNCHANGED <<script, pc, result, last, filter, block>>
  BY <1>1, TailSeq DEF DeviceAnswers, AnswerBody, command, service
<1>3. \/ wire' = Append(wire, msg(a)) /\ doubt' = doubt
      \/ wire' = wire /\ doubt' = doubt
      \/ wire' = Append(Append(wire, msg(interim)), msg(a)) /\ doubt' = doubt
      \/ wire' = Append(wire, msg(other)) /\ doubt' = "other"
      \/ /\ wire' = Append(Append(wire, msg(a)), msg(a))
         /\ doubt' = IF doubt = "none" THEN "same" ELSE doubt
  <2>1. \/ wire' = Append(wire, msg(a)) /\ doubt' = doubt
        \/ wire' = wire /\ doubt' = doubt
        \/ wire' = wire \o <<msg(interim), msg(a)>> /\ doubt' = doubt
        \/ wire' = Append(wire, msg(other)) /\ doubt' = "other"
        \/ /\ wire' = wire \o <<msg(a), msg(a)>>
           /\ doubt' = IF doubt = "none" THEN "same" ELSE doubt
    BY <1>1, <1>2 DEF DeviceAnswers
  <2> HIDE DEF msg, interim, other
  <2> QED BY <2>1, ConcatSeq DEF AnswerBody
<1>4. a \in Seq(Nat) /\ a # <<>> BY <1>1, <1>2, AnswersAssumption DEF AnswerBody, Bytes
<1>5. /\ interim \in Seq(Nat) /\ interim # <<>> /\ interim[1] = FCP_RESPONSE_INTERIM
      /\ other \in Seq(Nat) /\ other # <<>>
  BY <1>4 DEF FCP_RESPONSE_INTERIM, eR_InTransition
<1>6. /\ doubt' \in {"none", "same", "other"} /\ (doubt' # "other" => doubt # "other") /\ (Undoubted' => Undoubted)
      /\ (doubt' = "none" => doubt = "none")
  BY <1>2, <1>3 DEF AnswerBody, Undoubted
<1>7. InFire' /\ Listens' /\ Shapes' BY <1>2 DEF AnswerBody, InFire, Listens, Shapes
<1>8. TakenIsOwn' BY <1>2, <1>6 DEF AnswerBody, TakenIsOwn
<1>9. OwnAnswer' BY <1>2, <1>6, KeepOwn DEF AnswerBody
<1>10. ASSUME NEW m1 PROVE
          /\ IsSeq(Append(wire, m1)) /\ Len(wire) \in Nat /\ DOMAIN wire = 1..Len(wire)
          /\ DOMAIN Append(wire, m1) = 1..(Len(wire) + 1) /\ Len(Append(wire, m1)) = Len(wire) + 1
          /\ Append(wire, m1)[Len(wire) + 1] = m1 /\ \A i \in 1..Len(wire) : Append(wire, m1)[i] = wire[i]
  BY AppendSeq DEF AnswerBody
<1>11. ASSUME NEW m1, NEW m2 PROVE
          /\ IsSeq(Append(Append(wire, m1), m2)) /\ Len(Append(Append(wire, m1), m2)) = Len(wire) + 2
          /\ DOMAIN Append(Append(wire, m1), m2) = 1..(Len(wire) + 2)
          /\ Append(Append(wire, m1), m2)[Len(wire) + 1] = m1 /\ Append(Append(wire, m1), m2)[Len(wire) + 2] = m2
          /\ \A i \in 1..Len(wire) : Append(Append(wire, m1), m2)[i] = wire[i]
  <2>1. /\ DOMAIN Append(Append(wire, m1), m2) = 1..(Len(Append(wire, m1)) + 1)
        /\ IsSeq(Append(Append(wire, m1), m2)) /\ Len(Append(Append(wire, m1), m2)) = Len(Append(wire, m1)) + 1
        /\ Append(Append(wire, m1), m2)[Len(Append(wire, m1)) + 1] = m2
        /\ \A i \in 1..Len(Append(wire, m1)) : Append(Append(wire, m1), m2)[i] = Append(wire, m1)[i]
    BY <1>10, AppendSeq
  <2> QED BY <1>10, <2>1
\* What joins the wire.
<1> DEFINE Good(m) == /\ m.for = q.frame /\ m.data \in Seq(Nat) /\ m.data # <<>>
           Sound(m) == (ToIgnore(q) => Ignored(m)) /\ (ToAnswer(q) => Current(m))
<1>12. Good(msg(a)) /\ Good(msg(interim)) /\ Good(msg(other)) /\ msg(interim).data[1] = FCP_RESPONSE_INTERIM BY <1>4, <1>5
<1>13. Sound(msg(a)) /\ Sound(msg(interim))
  <2>1. Sound(msg(a)) BY <1>1 DEF ToIgnore, Ignored, ToAnswer, Current
  <2>2. Sound(msg(interim)) BY <1>1, <1>5 DEF Ignored, ToAnswer, Current
  <2> QED BY <2>1, <2>2
<1> HIDE DEF msg, interim, other
<1>14. PICK n \in 0..2 :
          /\ IsSeq(wire') /\ DOMAIN wire' = 1..(Len(wire) + n) /\ Len(wire') = Len(wire) + n
          /\ \A i \in 1..Len(wire) : wire'[i] = wire[i]
          /\ \A i \in (Len(wire) + 1)..(Len(wire) + n) : Good(wire'[i]) /\ (doubt' = "other" \/ Sound(wire'[i]))
          /\ doubt' = "none" /\ n = 2 => wire'[Len(wire) + 1].data[1] = FCP_RESPONSE_INTERIM
  <2> HIDE DEF Good, Sound
  <2>1. CASE wire' = wire
    <3>1. IsSeq(wire) /\ DOMAIN wire = 1..Len(wire) /\ Len(wire) \in Nat BY <1>10 DEF AnswerBody
    <3> WITNESS 0 \in 0..2
    <3> QED BY <2>1, <3>1
  <2>2. ASSUME NEW m1, wire' = Append(wire, m1), Good(m1), doubt' = "other" \/ Sound(m1)
        PROVE  \E n \in 0..2 :
          /\ IsSeq(wire') /\ DOMAIN wire' = 1..(Len(wire) + n) /\ Len(wire') = Len(wire) + n
          /\ \A i \in 1..Len(wire) : wire'[i] = wire[i]
          /\ \A i \in (Len(wire) + 1)..(Len(wire) + n) : Good(wire'[i]) /\ (doubt' = "other" \/ Sound(wire'[i]))
          /\ doubt' = "none" /\ n = 2 => wire'[Len(wire) + 1].data[1] = FCP_RESPONSE_INTERIM
    <3>1. \A i \in (Len(wire) + 1)..(Len(wire) + 1) : wire'[i] = m1 BY <1>10, <2>2
    <3> WITNESS 1 \in 0..2
    <3> QED BY <1>10, <2>2, <3>1
  <2>3. ASSUME NEW m1, NEW m2, wire' = Append(Append(wire, m1), m2), Good(m1), Good(m2), Sound(m1), Sound(m2),
               doubt' = "none" => m1.data[1] = FCP_RESPONSE_INTERIM
        PROVE  \E n \in 0..2 :
          /\ IsSeq(wire') /\ DOMAIN wire' = 1..(Len(wire) + n) /\ Len(wire') = Len(wire) + n
          /\ \A i \in 1..Len(wire) : wire'[i] = wire[i]
          /\ \A i \in (Len(wire) + 1)..(Len(wire) + n) : Good(wire'[i]) /\ (doubt' = "other" \/ Sound(wire'[i]))
          /\ doubt' = "none" /\ n = 2 => wire'[Len(wire) + 1].data[1] = FCP_RESPONSE_INTERIM
    <3>1. Len(wire) \in Nat BY <1>10
    <3>2. \A i \in (Len(wire) + 1)..(Len(wire) + 2) : wire'[i] \in {m1, m2} BY <1>11, <2>3, <3>1
    <3> WITNESS 2 \in 0..2
    <3> QED BY <1>11, <2>3, <3>2
  <2>5. CASE wire' = Append(wire, msg(a)) BY <1>12, <1>13, <2>2, <2>5
  <2>6. CASE wire' = Append(wire, msg(other)) /\ doubt' = "other" BY <1>12, <2>2, <2>6
  <2>7. CASE wire' = Append(Append(wire, msg(interim)), msg(a)) BY <1>12, <1>13, <2>3, <2>7
  <2>8. CASE wire' = Append(Append(wire, msg(a)), msg(a)) /\ doubt' # "none" BY <1>12, <1>13, <2>3, <2>8
  <2> QED BY <1>3, <2>1, <2>5, <2>6, <2>7, <2>8
<1>15. filter' /\ doubt' # "other" => RepeatsThenCurrent'
  <2>1. ASSUME filter, doubt' # "other" PROVE RepeatsThenCurrent'
    <3>1. \A i \in (Len(wire) + 1)..(Len(wire) + n) : Sound(wire'[i]) BY <1>14, <2>1
    <3>2. RepeatsThenCurrent /\ IsSeq(wire) /\ IsSeq(asked) /\ n \in Nat BY <1>6, <1>14, <2>1 DEF AnswerBody
    <3> QED BY <1>1, <1>2, <1>14, <3>1, <3>2, MoveRepeats
  <2> QED BY <1>2, <2>1
<1>16. Bytes'
  <2>1. \A i \in DOMAIN wire' : (i \in DOMAIN wire /\ wire'[i] = wire[i]) \/ Good(wire'[i]) BY <1>10, <1>14
  <2> QED BY <1>2, <2>1 DEF AnswerBody, Bytes
<1>17. NothingLeft'
  <2>1. ASSUME doubt' = "none" PROVE NothingLeft'
    <3>1. /\ block.status = eFS_Waiting /\ \E t \in Threads : pc[t] = "wait"
          /\ Len(asked) = 1 /\ wire = <<>> /\ q.frame = block.request
      <4>1. Len(asked) >= 1 BY <1>2
      <4> QED BY <1>1, <1>2, <1>6, <2>1, <4>1 DEF AnswerBody, NothingLeft
    <3>2. asked' = <<>> /\ Len(wire) = 0 BY <1>2, <3>1
    <3>3. /\ Len(wire') = n /\ \A i \in 1..n : wire'[i].for = block.request
          /\ n = 2 => wire'[1].data[1] = FCP_RESPONSE_INTERIM
      BY <1>14, <2>1, <3>1, <3>2
    <3>4. n = 0 => wire' = <<>>
      <4>1. PICK S : wire' \in Seq(S) BY <1>14 DEF IsSeq
      <4> QED BY <3>3, <4>1, EmptySeq, Zenon
    <3> QED BY <1>2, <1>14, <3>1, <3>2, <3>3, <3>4 DEF NothingLeft
  <2> QED BY <2>1 DEF NothingLeft
<1> QED BY <1>2, <1>6, <1>7, <1>8, <1>9, <1>14, <1>15, <1>16, <1>17 DEF AnswerBody

LEMMA AnswerLose ==
  ASSUME FcpLock, AnswerBody, ~gone, LoseResponse
  PROVE  AnswerBody'
<1>1. wire # <<>> /\ wire' = Tail(wire) /\ UNCHANGED <<script, pc, result, last, filter, block, asked, doubt>>
  BY DEF LoseResponse, command, service
<1>2. /\ IsSeq(wire') /\ Len(wire) \in Nat /\ DOMAIN wire = 1..Len(wire) /\ Len(wire') = Len(wire) - 1
      /\ DOMAIN wire' = 1..(Len(wire) - 1) /\ Len(wire) >= 1
      /\ \A i \in DOMAIN wire' : i + 1 \in DOMAIN wire /\ wire'[i] = wire[i + 1]
      /\ (Len(wire) = 1 => wire' = <<>>)
  BY <1>1, TailSeq DEF AnswerBody
<1>3. InFire' /\ OwnAnswer' /\ Listens' /\ TakenIsOwn' /\ Shapes'
  BY <1>1 DEF AnswerBody, InFire, OwnAnswer, Undoubted, Listens, TakenIsOwn, Shapes
<1>4. Bytes' BY <1>1, <1>2 DEF AnswerBody, Bytes
<1>5. NothingLeft'
  <2>1. CASE Len(wire) = 1 BY <1>1, <1>2, <2>1 DEF AnswerBody, NothingLeft
  <2>2. CASE Len(wire) = 2
    <3>1. Len(wire') = 1 /\ 1 \in DOMAIN wire' BY <1>2, <2>2
    <3>2. wire'[1] = wire[2] BY <1>2, <3>1
    <3> QED BY <1>1, <2>2, <3>1, <3>2 DEF AnswerBody, NothingLeft
  <2>3. CASE Len(wire) \notin {1, 2} BY <1>1, <2>3 DEF AnswerBody, NothingLeft
  <2> QED BY <2>1, <2>2, <2>3
<1>6. filter' /\ doubt' # "other" => RepeatsThenCurrent' BY <1>1, DropRepeats DEF AnswerBody
<1> QED BY <1>1, <1>2, <1>3, <1>4, <1>5, <1>6 DEF AnswerBody

LEMMA AnswerStep == ASSUME AnswerIInv, [Next]_vars PROVE AnswerIInv'
<1>1. FcpLock' BY FcpLockStep DEF AnswerIInv
<1>2. CASE gone
  <2>1. gone' BY <1>2 DEF Next, Step, Fire, transactionBlock, StartListen, WriteRequest, handleFcpResponse, EndWait,
      StopListen, TakeResponse, NoResponse, DeviceAnswers, LoseResponse, Vanish, Finished, vars, device
  <2> QED BY <1>1, <2>1 DEF AnswerIInv
<1>3. CASE ~gone
  <2>1. FcpLock /\ AnswerBody BY <1>3 DEF AnswerIInv
  <2>2. ASSUME NEW t \in Threads, Step(t) PROVE AnswerBody'
    BY <1>3, <2>1, <2>2, AnswerFire, AnswerLock, AnswerListen, AnswerWrite, AnswerHandle, AnswerEndWait, AnswerStop,
       AnswerTake, AnswerNone DEF Step
  <2>3. CASE DeviceAnswers BY <1>3, <2>1, <2>3, AnswerDevice, <1>1 DEF AnswerIInv
  <2>4. CASE LoseResponse BY <1>3, <2>1, <2>4, AnswerLose, <1>1 DEF AnswerIInv
  <2>5. CASE Vanish BY <1>1, <2>5 DEF AnswerIInv, Vanish
  <2>6. CASE UNCHANGED vars
    <3>1. UNCHANGED <<script, pc, result, last, filter, block, asked, wire, doubt>> BY <2>6 DEF vars, command, service, device
    <3>2. \A u \in Threads : Asking(u) => Asking(u)' BY <3>1 DEF Asking
    <3>3. filter' /\ doubt' # "other" => RepeatsThenCurrent' BY <2>1, <3>1, <3>2, KeepRepeats DEF AnswerBody
    <3>4. InFire' /\ OwnAnswer' /\ Listens' /\ TakenIsOwn' /\ Shapes' /\ NothingLeft'
      BY <2>1, <3>1 DEF AnswerBody, InFire, OwnAnswer, Undoubted, Listens, TakenIsOwn, Shapes, NothingLeft
    <3> QED BY <1>1, <2>1, <3>1, <3>3, <3>4, KeepBytes DEF AnswerBody, AnswerIInv
  <2> QED BY <1>1, <2>2, <2>3, <2>4, <2>5, <2>6 DEF Next, Finished, AnswerIInv
<1> QED BY <1>2, <1>3

\* The invariant of the tries and the responses under way, which TLC checks as well.
THEOREM AlwaysAnswerInv == Spec => []AnswerInv
<1>1. AnswerIInv /\ [Next]_vars => AnswerIInv' BY AnswerStep
<1>2. AnswerIInv => AnswerInv BY DEF AnswerIInv, AnswerBody, AnswerInv
<1> QED BY <1>1, <1>2, AnswerInit, PTL DEF Spec

\* While the device is on the bus, a command that succeeds was answered with the response to
\* its own request, for any threads, scripts, number of tries and faults: without the
\* duplicate filter until a try goes wrong or the device repeats itself, with it until a
\* whole transaction fails or the device answers the tries of one differently.
THEOREM AlwaysOwnAnswer == Spec => [](gone \/ OwnAnswer)
<1>1. AnswerInv => gone \/ OwnAnswer BY DEF AnswerInv
<1> QED BY <1>1, AlwaysAnswerInv, PTL

-----------------------------------------------------------------------------
(***************************************************************************)
(* Firmware.                                                               *)
(***************************************************************************)
LEMMA Sizes == Pieces \in Nat /\ Pieces >= 1 /\ EraseBlock \in Nat /\ EraseBlock >= 1
BY FirmwareAssumption

LEMMA Tools == FwTools \subseteq {"bebob", "fireworks", "session", "dice"}
BY FirmwareAssumption

\* What a piece can be told from.
LEMMA PieceApart ==
  ASSUME NEW img, NEW obj, NEW p, NEW img2, NEW obj2, NEW p2
  PROVE  /\ Piece(img, obj, p) # Erased /\ Piece(img, obj, p) # Junk
         /\ Piece(img, obj, p) = Piece(img2, obj2, p2) => img = img2 /\ obj = obj2 /\ p = p2
BY DEF Piece, Erased, Junk

LEMMA ValuesIn ==
  /\ Erased \in Values /\ Junk \in Values
  /\ \A img \in Images, obj \in {"app", "cne"}, p \in Nat : Piece(img, obj, p) \in Values
BY DEF Values

\* The fields of a run after a step that moves on, and after one that is disturbed.
Kept == /\ fw'.tool = fw.tool /\ fw'.op = fw.op /\ fw'.img = fw.img /\ fw'.base = fw.base /\ fw'.obj = fw.obj
        /\ fw'.trailer = fw.trailer /\ fw'.prev = fw.prev

LEMMA ToFields ==
  ASSUME FwTypeOK, NEW label, To(label)
  PROVE  /\ Kept /\ fw'.pc = label /\ fw'.i = fw.i /\ fw'.ok = fw.ok /\ fw'.tries = fw.tries /\ fw'.left = fw.left
         /\ fw'.hurt = fw.hurt /\ fw'.calm = fw.calm /\ fw'.deaf = fw.deaf
BY DEF FwTypeOK, To, Kept

LEMMA DisturbedFields ==
  ASSUME FwTypeOK, NEW label, Disturbed(label)
  PROVE  /\ Kept /\ fw'.pc = label /\ fw'.i = fw.i /\ fw'.ok = fw.ok /\ fw'.tries = fw.tries /\ fw'.left = fw.left
         /\ fw'.hurt = fw.hurt /\ fw'.calm = FALSE /\ fw'.deaf = fw.deaf
BY DEF FwTypeOK, Disturbed, Kept

LEMMA DeafFields ==
  ASSUME FwTypeOK, NEW label, Deaf(label)
  PROVE  Kept /\ fw'.pc = label /\ fw'.calm = FALSE /\ fw'.deaf = TRUE
BY DEF FwTypeOK, Deaf, Kept

LEMMA CellsIn ==
  ASSUME FwTypeOK, NEW obj \in {"app", "cne"}, NEW p \in 1..Pieces
  PROVE  CellOf(obj, p) \in FwCells
<1>1. fw.base \in {0, 1} BY DEF FwTypeOK
<1> QED BY <1>1, Sizes DEF CellOf, FwCells

LEMMA BudgetType ==
  ASSUME FwTypeOK, FwFault \/ NoFault
  PROVE  fwBudget' \in [runs : Nat, faults : Nat]
BY DEF FwTypeOK, FwFault, NoFault

Pcs == Outcomes \cup {"check"} \cup UNION {PcsOf(t) : t \in FwTools}

\* A step that only moves the run keeps the types.
LEMMA MoveType ==
  ASSUME FwTypeOK, NEW label \in Pcs, To(label) \/ Disturbed(label) \/ Deaf(label), FwFault \/ NoFault,
         UNCHANGED <<fwFlash, fwRam>>
  PROVE  FwTypeOK'
<1>1. fwBudget' \in [runs : Nat, faults : Nat] BY BudgetType
<1>2. CASE To(label) BY <1>1, <1>2 DEF FwTypeOK, Pcs, To
<1>3. CASE Disturbed(label) BY <1>1, <1>3 DEF FwTypeOK, Pcs, Disturbed
<1>4. CASE Deaf(label) BY <1>1, <1>4 DEF FwTypeOK, Pcs, Deaf
<1> QED BY <1>2, <1>3, <1>4

LEMMA OutcomePcs == Outcomes \cup {"check"} \subseteq Pcs
BY DEF Pcs

LEMMA ToolPcs == fw.tool \in FwTools => PcsOf(fw.tool) \subseteq Pcs
BY DEF Pcs

LEMMA FwInitType == FwInit => FwTypeOK
<1> SUFFICES ASSUME FwInit PROVE FwTypeOK
  OBVIOUS
<1>1. PICK tool \in FwTools : fw = [FwIdle EXCEPT !.tool = tool]
  BY DEF FwInit
<1>2. fw \in [tool : FwTools, op : {"none", "firmware", "cne", "fireworks", "session", "dice"},
             img : Images \cup {"none"}, base : {0, 1}, pc : Pcs,
             obj : {"app", "cne"}, i : Nat, ok : BOOLEAN, tries : Nat, left : Nat, trailer : BOOLEAN,
             prev : {<<>>, <<<<"seq", Pieces>>>>} \cup [1..Pieces -> Values], hurt : SUBSET Nat, calm : BOOLEAN,
             deaf : BOOLEAN]
  BY <1>1 DEF FwIdle, Pcs, Outcomes
<1>3. fwFlash \in [FwCells -> Values] /\ fwRam \in [1..Pieces -> Values]
  BY Sizes DEF FwInit, FwCells, Values
<1>4. fwBudget \in [runs : Nat, faults : Nat]
  BY FirmwareAssumption DEF FwInit
<1> QED BY <1>2, <1>3, <1>4 DEF FwTypeOK, Pcs

(***************************************************************************)
(* The inductive invariant, action by action.                              *)
(***************************************************************************)
\* The parts of the invariant that speak of other tools hold by themselves.
LEMMA OnlyBebob == fw.tool = "bebob" => EfcInv /\ DiceInv
BY DEF EfcInv, DiceInv, Efc

LEMMA OnlyEfc == fw.tool \in Efc => BebobInv /\ DiceInv
BY DEF BebobInv, DiceInv, Efc

LEMMA OnlyDice == fw.tool = "dice" => BebobInv /\ EfcInv
BY DEF BebobInv, EfcInv, Efc

LEMMA FwInitIInv == FwInit => FwIInv
<1> SUFFICES ASSUME FwInit PROVE FwIInv
  OBVIOUS
<1>1. FwTypeOK BY FwInitType
<1>2. PICK tool \in FwTools : fw = [FwIdle EXCEPT !.tool = tool]
  BY DEF FwInit
<1>3. /\ fw.pc = "idle" /\ fw.base = 0 /\ fw.op = "none" /\ fw.obj = "app" /\ fw.calm
  BY <1>2 DEF FwIdle
<1> QED BY <1>1, <1>3 DEF FwIInv, RunInv, BebobInv, EfcInv, DiceInv, UpdateIsWhole, FlashIsImage, RetrySucceeds,
                          Outcomes, PcsOf

\* A run that ends here, disturbed, promises nothing, whatever has become of the flash.
LEMMA BrokenOff ==
  ASSUME FwIInv, fw.pc # "idle", FwTypeOK', Kept, fw'.pc = "failed", fw'.calm = FALSE
  PROVE  FwIInv'
<1> USE DEF FwIInv
<1>1. RunInv' BY DEF RunInv, Kept, Outcomes
<1>2. BebobInv' /\ EfcInv' /\ DiceInv' BY DEF BebobInv, EfcInv, DiceInv, PcsOf
<1>3. UpdateIsWhole' BY DEF UpdateIsWhole, FlashIsImage, RetrySucceeds
<1> QED BY <1>1, <1>2, <1>3

LEMMA FailedStep ==
  ASSUME FwIInv, fw.pc # "idle", Disturbed("failed"), FwFault, UNCHANGED <<fwFlash, fwRam>>
  PROVE  FwIInv'
<1>1. FwTypeOK BY DEF FwIInv
<1>2. FwTypeOK' BY <1>1, OutcomePcs, MoveType DEF Outcomes
<1> QED BY <1>1, <1>2, DisturbedFields, BrokenOff

\* A refusal, too, leaves everything to the next run.
LEMMA RefusedStep ==
  ASSUME FwIInv, fw.pc # "idle", To("refused"), NoFault, UNCHANGED <<fwFlash, fwRam>>
  PROVE  FwIInv'
<1> USE DEF FwIInv
<1>1. /\ Kept /\ fw'.pc = "refused"
  BY ToFields
<1>2. FwTypeOK' BY OutcomePcs, MoveType DEF Outcomes
<1>3. RunInv' BY <1>1 DEF RunInv, Kept, Outcomes
<1>4. BebobInv' /\ EfcInv' /\ DiceInv' BY <1>1 DEF BebobInv, EfcInv, DiceInv, PcsOf
<1>5. UpdateIsWhole' BY <1>1 DEF UpdateIsWhole, FlashIsImage, RetrySucceeds
<1> QED BY <1>2, <1>3, <1>4, <1>5

LEMMA BeginStep == ASSUME FwIInv, begin PROVE FwIInv'
<1> USE DEF FwIInv
<1>1. PICK img \in Images, op \in CASE fw.tool = "bebob" -> {"firmware", "cne"} [] OTHER -> {fw.tool},
           base \in IF fw.tool = "fireworks" THEN {0, 1} ELSE {0},
           trailer \in IF fw.tool = "fireworks" THEN BOOLEAN ELSE {FALSE} :
         fw' = [FwIdle EXCEPT !.tool = fw.tool, !.op = op, !.img = img, !.base = base, !.pc = "check",
                              !.trailer = trailer, !.obj = IF op = "cne" THEN "cne" ELSE "app"]
  BY DEF begin
<1>2. fw.tool \in FwTools /\ fw.tool \in {"bebob", "fireworks", "session", "dice"}
  BY Tools DEF FwTypeOK
<1>3. op \in {"firmware", "cne", "fireworks", "session", "dice"} /\ base \in {0, 1} /\ trailer \in BOOLEAN
  BY <1>2
<1>4. /\ fw'.tool = fw.tool /\ fw'.op = op /\ fw'.img = img /\ fw'.base = base /\ fw'.pc = "check"
      /\ fw'.obj = (IF op = "cne" THEN "cne" ELSE "app") /\ fw'.prev = <<>> /\ fw'.i = 1 /\ fw'.hurt = {} /\ fw'.deaf = FALSE
  BY <1>1 DEF FwIdle
<1>5. FwTypeOK'
  <2>1. fw' \in [tool : FwTools, op : {"none", "firmware", "cne", "fireworks", "session", "dice"},
             img : Images \cup {"none"}, base : {0, 1}, pc : Pcs,
             obj : {"app", "cne"}, i : Nat, ok : BOOLEAN, tries : Nat, left : Nat, trailer : BOOLEAN,
             prev : {<<>>, <<<<"seq", Pieces>>>>} \cup [1..Pieces -> Values], hurt : SUBSET Nat, calm : BOOLEAN,
             deaf : BOOLEAN]
    BY <1>1, <1>2, <1>3, OutcomePcs, ZenonT(40) DEF FwIdle
  <2>2. fwBudget' \in [runs : Nat, faults : Nat]
    BY DEF begin, FwTypeOK
  <2> QED BY <2>1, <2>2 DEF FwTypeOK, begin, Pcs
<1>6. RunInv' BY <1>2, <1>4 DEF RunInv, Outcomes
<1>7. BebobInv' /\ EfcInv' /\ DiceInv' BY <1>4 DEF BebobInv, EfcInv, DiceInv, PcsOf
<1>8. UpdateIsWhole' BY <1>4 DEF UpdateIsWhole, FlashIsImage, RetrySucceeds
<1> QED BY <1>5, <1>6, <1>7, <1>8

LEMMA CheckStep == ASSUME FwIInv, checkDeviceCompatibility PROVE FwIInv'
<1> USE DEF FwIInv
<1>1. CASE To("refused")
  BY <1>1, RefusedStep DEF checkDeviceCompatibility
<1>2. CASE To(CASE fw.tool = "bebob" -> "boot" [] fw.tool = "dice" -> "upload" [] OTHER -> "lock")
  <2> DEFINE label == CASE fw.tool = "bebob" -> "boot" [] fw.tool = "dice" -> "upload" [] OTHER -> "lock"
  <2>1. fw.tool \in FwTools /\ fw.tool \in {"bebob", "fireworks", "session", "dice"}
    BY Tools DEF FwTypeOK
  <2>2. label \in PcsOf(fw.tool) BY <2>1 DEF PcsOf
  <2> HIDE DEF label
  <2>3. Kept /\ fw'.pc = label /\ fw'.i = fw.i /\ fw'.hurt = fw.hurt /\ fw'.calm = fw.calm /\ fw'.deaf = fw.deaf
    BY <1>2, ToFields DEF label
  <2>4. FwTypeOK'
    BY <1>2, <2>1, <2>2, ToolPcs, MoveType DEF checkDeviceCompatibility, label
  <2>5. RunInv' BY <2>2, <2>3 DEF RunInv, Kept, checkDeviceCompatibility, label
  <2>6. BebobInv' BY <2>1, <2>3 DEF BebobInv, Kept, checkDeviceCompatibility, label, PcsOf, Whole, ImageOf, CellOf
  <2>7. EfcInv' BY <2>1, <2>3 DEF EfcInv, Efc, Kept, checkDeviceCompatibility, label
  <2>8. DiceInv' BY <2>1, <2>3, Sizes DEF DiceInv, RunInv, Kept, checkDeviceCompatibility, label
  <2>9. UpdateIsWhole' BY <2>1, <2>3 DEF UpdateIsWhole, FlashIsImage, RetrySucceeds, label
  <2> QED BY <2>4, <2>5, <2>6, <2>7, <2>8, <2>9
<1> QED BY <1>1, <1>2 DEF checkDeviceCompatibility

\* A step of a BeBoB run up to the first block: nothing but label, and perhaps calm, changes.
LEMMA BootStep ==
  ASSUME FwIInv, fw.tool = "bebob", fw.pc \in {"boot", "boot_wait", "boot_missed", "boot_info"},
         NEW label \in {"boot_wait", "boot_missed", "boot_info", "start"},
         To(label) \/ Disturbed(label), FwFault \/ NoFault, UNCHANGED <<fwFlash, fwRam>>
  PROVE  FwIInv'
<1> USE DEF FwIInv
<1>1. Kept /\ fw'.pc = label BY ToFields, DisturbedFields
<1>2. label \in PcsOf("bebob") BY DEF PcsOf
<1>3. fw.tool \in FwTools BY DEF FwTypeOK
<1>4. FwTypeOK' BY <1>2, <1>3, ToolPcs, MoveType
<1>5. RunInv' BY <1>1, <1>2 DEF RunInv, Kept, Outcomes
<1>6. BebobInv' BY <1>1 DEF BebobInv, Kept, PcsOf, Whole, ImageOf, CellOf
<1>7. EfcInv' /\ DiceInv' BY <1>1 DEF EfcInv, DiceInv, Efc, Kept
<1>8. UpdateIsWhole' BY <1>1 DEF UpdateIsWhole, FlashIsImage, RetrySucceeds
<1> QED BY <1>4, <1>5, <1>6, <1>7, <1>8

LEMMA BootActions ==
  ASSUME FwIInv, startBootloaderCmd \/ waitForBusReset \/ cacheInfoRegisters
  PROVE  FwIInv'
<1>1. CASE startBootloaderCmd
  BY <1>1, BootStep, FailedStep DEF startBootloaderCmd, Is
<1>2. CASE waitForBusReset
  BY <1>2, BootStep DEF waitForBusReset, Is
<1>3. CASE cacheInfoRegisters
  BY <1>3, BootStep, FailedStep DEF cacheInfoRegisters, Is
<1> QED BY <1>1, <1>2, <1>3

\* The cells of the two objects of a BeBoB device lie apart.
LEMMA BebobCells ==
  ASSUME FwTypeOK, RunInv, fw.tool = "bebob", NEW obj \in {"app", "cne"}
  PROVE  /\ \A p \in 1..Pieces : /\ CellOf("app", p) = p /\ CellOf("cne", p) = Pieces + p
                                 /\ p \in FwCells /\ Pieces + p \in FwCells
         /\ ObjectCells("app") = 1..Pieces
         /\ ObjectCells("cne") = (Pieces + 1)..(2 * Pieces)
<1>1. fw.base = 0 BY DEF RunInv
<1>2. \A p \in 1..Pieces : /\ CellOf("app", p) = p /\ CellOf("cne", p) = Pieces + p
                           /\ p \in FwCells /\ Pieces + p \in FwCells
  BY <1>1, Sizes DEF CellOf, FwCells
<1>3. ObjectCells("app") = 1..Pieces
  BY <1>2 DEF ObjectCells
<1>4. ObjectCells("cne") = (Pieces + 1)..(2 * Pieces)
  <2>1. ASSUME NEW c \in (Pieces + 1)..(2 * Pieces) PROVE c \in ObjectCells("cne")
    <3>1. c - Pieces \in 1..Pieces /\ Pieces + (c - Pieces) = c BY Sizes
    <3> QED BY <1>2, <3>1 DEF ObjectCells
  <2>2. ASSUME NEW c \in ObjectCells("cne") PROVE c \in (Pieces + 1)..(2 * Pieces)
    BY <1>2, Sizes DEF ObjectCells
  <2> QED BY <2>1, <2>2
<1> QED BY <1>2, <1>3, <1>4

LEMMA StartStep == ASSUME FwIInv, download_start PROVE FwIInv'
<1> USE DEF FwIInv
<1>1. CASE Fails
  BY <1>1, FailedStep DEF download_start, Is, Fails
<1>2. CASE ~Fails
  <2> DEFINE after == [c \in FwCells |-> IF c \in ObjectCells(fw.obj) THEN Erased ELSE fwFlash[c]]
  <2>1. /\ fw.tool = "bebob" /\ fw.pc = "start" /\ fwFlash' = after /\ fwRam' = fwRam
        /\ \/ fw' = [fw EXCEPT !.pc = "block", !.i = 1, !.ok = TRUE] /\ NoFault
           \/ FwFault /\ Disturbed("failed")
    BY <1>2 DEF download_start, Is
  <2>2. fwFlash' \in [FwCells -> Values]
    BY <2>1, ValuesIn DEF FwTypeOK
  <2>3. CASE FwFault /\ Disturbed("failed")
    <3>1. Kept /\ fw'.pc = "failed" /\ fw'.calm = FALSE BY <2>3, DisturbedFields
    <3>2. FwTypeOK'
      <4>1. fwBudget' \in [runs : Nat, faults : Nat] BY <2>3, BudgetType
      <4> QED BY <2>1, <2>2, <2>3, <4>1, OutcomePcs DEF FwTypeOK, Disturbed, Pcs, Outcomes
    <3> QED BY <2>1, <3>1, <3>2, BrokenOff
  <2>4. CASE fw' = [fw EXCEPT !.pc = "block", !.i = 1, !.ok = TRUE] /\ NoFault
    <3>1. /\ Kept /\ fw'.pc = "block" /\ fw'.i = 1 /\ fw'.ok = TRUE /\ fw'.calm = fw.calm
      BY <2>4 DEF FwTypeOK, Kept
    <3>2. "block" \in PcsOf(fw.tool) /\ fw.tool \in FwTools BY <2>1 DEF PcsOf, FwTypeOK
    <3>3. FwTypeOK'
      <4>1. fwBudget' \in [runs : Nat, faults : Nat] BY <2>4, BudgetType
      <4>2. "block" \in Pcs BY <3>2, ToolPcs
      <4> QED BY <2>1, <2>2, <2>4, <4>1, <4>2 DEF FwTypeOK, Pcs
    <3>4. RunInv' BY <2>1, <3>1, <3>2 DEF RunInv, Kept
    <3>5. BebobInv'
      <4>1. fw.obj \in {"app", "cne"} BY DEF FwTypeOK
      <4>2. \A p \in 1..Pieces : fwFlash'[CellOf(fw.obj, p)] = Erased
        BY <2>1, <4>1, CellsIn DEF ObjectCells
      <4>3. \A p \in 1..Pieces : CellOf(fw.obj, p)' = CellOf(fw.obj, p)
        BY <3>1 DEF Kept, CellOf
      <4>4. fw.op = "firmware" /\ fw.obj = "cne" => Whole("app")' /\ fw'.prev = ImageOf("app")'
        <5> SUFFICES ASSUME fw.op = "firmware", fw.obj = "cne" PROVE Whole("app")' /\ fw'.prev = ImageOf("app")'
          OBVIOUS
        <5>1. Whole("app") /\ fw.prev = ImageOf("app") BY <2>1 DEF BebobInv, PcsOf
        <5>2. fw'.prev = ImageOf("app")' BY <3>1, <5>1 DEF Kept, ImageOf
        <5>3. \A p \in 1..Pieces : p \in FwCells /\ p \notin ObjectCells("cne") /\ CellOf("app", p) = p
          BY <2>1, <4>1, BebobCells, Sizes
        <5>4. \A p \in 1..Pieces : fwFlash'[p] = fwFlash[p] BY <2>1, <5>3
        <5>5. \A p \in 1..Pieces : CellOf("app", p)' = p BY <3>1, <5>3 DEF Kept, CellOf
        <5> QED BY <3>1, <5>1, <5>2, <5>3, <5>4, <5>5 DEF Whole, Kept
      <4>5. ~(fw.op = "firmware" /\ fw.obj = "cne") => fw.prev = <<>>
        BY <2>1 DEF BebobInv, PcsOf
      <4> QED BY <3>1, <4>2, <4>3, <4>4, <4>5, Sizes DEF BebobInv, Kept
    <3>6. EfcInv' /\ DiceInv' BY <2>1, <3>1 DEF EfcInv, DiceInv, Efc, Kept
    <3>7. UpdateIsWhole' BY <3>1 DEF UpdateIsWhole, FlashIsImage, RetrySucceeds
    <3> QED BY <3>3, <3>4, <3>5, <3>6, <3>7
  <2> QED BY <2>1, <2>3, <2>4
<1> QED BY <1>1, <1>2

\* A cell of the object under way takes a value.
LEMMA StoresFacts ==
  ASSUME FwTypeOK, NEW v \in Values, Stores(v), fw.i \in 1..Pieces
  PROVE  /\ fwFlash' \in [FwCells -> Values]
         /\ \A c \in FwCells : c # CellOf(fw.obj, fw.i) => fwFlash'[c] = fwFlash[c]
         /\ fwFlash[CellOf(fw.obj, fw.i)] = Erased => fwFlash'[CellOf(fw.obj, fw.i)] = v
<1>1. fw.obj \in {"app", "cne"} BY DEF FwTypeOK
<1>2. CellOf(fw.obj, fw.i) \in FwCells BY <1>1, CellsIn
<1>3. Programmed(CellOf(fw.obj, fw.i), v) \in Values BY ValuesIn DEF Programmed
<1> QED BY <1>2, <1>3 DEF Stores, FwTypeOK, Programmed

\* The first object stays in place while the second one is sent.
LEMMA FirstStays ==
  ASSUME FwTypeOK, RunInv, Kept, fw.tool = "bebob", fw.obj = "cne", Whole("app"), fw.i \in 1..Pieces,
         \A c \in FwCells : c # CellOf(fw.obj, fw.i) => fwFlash'[c] = fwFlash[c]
  PROVE  Whole("app")'
<1>1. \A p \in 1..Pieces : CellOf("app", p) = p /\ p \in FwCells /\ CellOf("cne", fw.i) = Pieces + fw.i
  BY BebobCells
<1>2. \A p \in 1..Pieces : fwFlash'[p] = fwFlash[p]
  BY <1>1, Sizes
<1>3. \A p \in 1..Pieces : CellOf("app", p)' = p
  BY <1>1 DEF CellOf, Kept
<1> QED BY <1>1, <1>2, <1>3 DEF Whole, Kept

LEMMA BlockStep == ASSUME FwIInv, download_block PROVE FwIInv'
<1> USE DEF FwIInv
<1>1. /\ fw.tool = "bebob" /\ fw.pc = "block" /\ fw.i \in 1..Pieces /\ fw.obj \in {"app", "cne"} /\ fw.img \in Images
      /\ fw.tool \in FwTools /\ fwRam' = fwRam /\ fw.ok
  BY DEF download_block, Is, BebobInv, FwTypeOK, RunInv
<1> DEFINE v == Piece(fw.img, fw.obj, fw.i)
<1>2. v \in Values /\ Junk \in Values BY <1>1, ValuesIn
<1>3. {"block", "end"} \subseteq PcsOf(fw.tool) BY <1>1 DEF PcsOf
<1>4. {"block", "end"} \subseteq Pcs BY <1>1, <1>3, ToolPcs
<1> HIDE DEF v
<1>5. CASE Fails
  BY <1>1, <1>5, FailedStep DEF Fails
<1>6. ASSUME Stores(v) \/ Stores(Junk) \/ UNCHANGED fwFlash
      PROVE  /\ fwFlash' \in [FwCells -> Values]
             /\ \A c \in FwCells : c # CellOf(fw.obj, fw.i) => fwFlash'[c] = fwFlash[c]
  BY <1>1, <1>2, <1>6, StoresFacts DEF FwTypeOK
<1>7. CASE /\ fw' = [fw EXCEPT !.i = @ + 1] /\ NoFault /\ Stores(v)
  <2>1. /\ Kept /\ fw'.pc = "block" /\ fw'.i = fw.i + 1 /\ fw'.ok = fw.ok /\ fw'.calm = fw.calm
    BY <1>1, <1>7 DEF FwTypeOK, Kept
  <2>2. FwTypeOK'
    <3>1. fwBudget' \in [runs : Nat, faults : Nat] BY <1>7, BudgetType
    <3>2. fw' = [fw EXCEPT !.i = fw.i + 1] /\ fw.i + 1 \in Nat BY <1>1, <1>7 DEF FwTypeOK
    <3>3. fwFlash' \in [FwCells -> Values] /\ fwRam' = fwRam BY <1>1, <1>6, <1>7
    <3> QED BY <3>1, <3>2, <3>3, SMTT(30) DEF FwTypeOK
  <2>3. RunInv' BY <1>1, <1>3, <2>1 DEF RunInv, Kept
  <2>4. BebobInv'
    <3>1. \A p \in 1..Pieces : CellOf(fw.obj, p)' = CellOf(fw.obj, p) /\ CellOf(fw.obj, p) \in FwCells
      BY <1>1, <2>1, CellsIn DEF Kept, CellOf
    <3>2. \A p \in 1..Pieces : p # fw.i => CellOf(fw.obj, p) # CellOf(fw.obj, fw.i)
      BY <1>1, Sizes DEF CellOf, FwTypeOK
    <3>3. fw.calm => \A p \in 1..Pieces :
             fwFlash'[CellOf(fw.obj, p)] = IF p < fw.i + 1 THEN Piece(fw.img, fw.obj, p) ELSE Erased
      <4> SUFFICES ASSUME fw.calm, NEW p \in 1..Pieces
                   PROVE  fwFlash'[CellOf(fw.obj, p)] = IF p < fw.i + 1 THEN Piece(fw.img, fw.obj, p) ELSE Erased
        OBVIOUS
      <4>1. fwFlash[CellOf(fw.obj, p)] = IF p < fw.i THEN Piece(fw.img, fw.obj, p) ELSE Erased
        BY <1>1 DEF BebobInv
      <4>2. CASE p = fw.i
        BY <1>1, <1>2, <1>7, <4>1, <4>2, StoresFacts DEF v
      <4>3. CASE p # fw.i
        BY <1>1, <1>6, <1>7, <3>1, <3>2, <4>1, <4>3, Sizes
      <4> QED BY <4>2, <4>3
    <3>4. fw.op = "firmware" /\ fw.obj = "cne" => Whole("app")' /\ fw'.prev = ImageOf("app")'
      <4>1. fw.op = "firmware" /\ fw.obj = "cne" => Whole("app") /\ fw.prev = ImageOf("app")
        BY <1>1 DEF BebobInv, PcsOf
      <4> QED BY <1>1, <1>6, <1>7, <2>1, <4>1, FirstStays DEF Kept, ImageOf
    <3>5. ~(fw.op = "firmware" /\ fw.obj = "cne") => fw.prev = <<>>
      BY <1>1 DEF BebobInv, PcsOf
    <3> QED BY <1>1, <2>1, <3>1, <3>3, <3>4, <3>5, Sizes DEF BebobInv, Kept
  <2>5. EfcInv' /\ DiceInv' BY <1>1, <2>1 DEF EfcInv, DiceInv, Efc, Kept
  <2>6. UpdateIsWhole' BY <2>1 DEF UpdateIsWhole, FlashIsImage, RetrySucceeds
  <2> QED BY <2>2, <2>3, <2>4, <2>5, <2>6
<1>8. CASE \/ FwFault /\ fw' = [fw EXCEPT !.i = @ + 1, !.calm = FALSE] /\ Stores(Junk)
           \/ /\ FwFault /\ fw' = [fw EXCEPT !.pc = "end", !.ok = FALSE, !.calm = FALSE]
              /\ Stores(v) \/ UNCHANGED fwFlash
  <2>a. fwFlash' \in [FwCells -> Values] BY <1>6, <1>8
  <2>0. fwBudget' \in [runs : Nat, faults : Nat] BY <1>8, BudgetType
  <2>1. /\ FwTypeOK' /\ Kept /\ fw'.pc \in {"block", "end"} /\ fw'.i \in 1..(Pieces + 1) /\ fw'.calm = FALSE
        /\ fw'.pc = "block" => fw'.ok
    <3>1. CASE fw' = [fw EXCEPT !.i = @ + 1, !.calm = FALSE]
      <4>1. Kept /\ fw'.pc = "block" /\ fw'.i = fw.i + 1 /\ fw'.calm = FALSE /\ fw'.ok = fw.ok
        BY <1>1, <3>1 DEF FwTypeOK, Kept
      <4>2. FwTypeOK'
        <5>1. fw.i + 1 \in Nat BY DEF FwTypeOK
        <5>2. fw' = [fw EXCEPT !.i = fw.i + 1, !.calm = FALSE] BY <3>1
        <5> QED BY <1>1, <2>0, <2>a, <5>1, <5>2 DEF FwTypeOK
      <4> QED BY <1>1, <4>1, <4>2, Sizes
    <3>2. CASE fw' = [fw EXCEPT !.pc = "end", !.ok = FALSE, !.calm = FALSE]
      <4>1. Kept /\ fw'.pc = "end" /\ fw'.i = fw.i /\ fw'.calm = FALSE
        BY <1>1, <3>2 DEF FwTypeOK, Kept
      <4>2. FwTypeOK' BY <1>1, <1>4, <2>0, <2>a, <3>2 DEF FwTypeOK, Pcs
      <4> QED BY <1>1, <4>1, <4>2, Sizes
    <3> QED BY <1>8, <3>1, <3>2
  <2>3. RunInv' BY <1>1, <1>3, <2>1 DEF RunInv, Kept
  <2>4. BebobInv'
    <3>1. fw.op = "firmware" /\ fw.obj = "cne" => Whole("app")' /\ fw'.prev = ImageOf("app")'
      <4>1. fw.op = "firmware" /\ fw.obj = "cne" => Whole("app") /\ fw.prev = ImageOf("app")
        BY <1>1 DEF BebobInv, PcsOf
      <4> QED BY <1>1, <1>6, <1>8, <2>1, <4>1, FirstStays DEF Kept, ImageOf
    <3>2. ~(fw.op = "firmware" /\ fw.obj = "cne") => fw.prev = <<>>
      BY <1>1 DEF BebobInv, PcsOf
    <3> QED BY <2>1, <3>1, <3>2 DEF BebobInv, Kept
  <2>5. EfcInv' /\ DiceInv' BY <1>1, <2>1 DEF EfcInv, DiceInv, Efc, Kept
  <2>6. UpdateIsWhole' BY <2>1 DEF UpdateIsWhole, FlashIsImage, RetrySucceeds
  <2> QED BY <2>1, <2>3, <2>4, <2>5, <2>6
<1> QED BY <1>5, <1>7, <1>8 DEF download_block, v

LEMMA BlocksEndStep == ASSUME FwIInv, download_blocks_end PROVE FwIInv'
<1> USE DEF FwIInv
<1>1. /\ fw.tool = "bebob" /\ fw.pc = "block" /\ fw.i > Pieces /\ fw.tool \in FwTools /\ To("end") /\ NoFault
      /\ fwFlash' = fwFlash /\ fwRam' = fwRam /\ fw.i \in 1..(Pieces + 1) /\ fw.ok
  BY DEF download_blocks_end, Is, FwTypeOK, BebobInv
<1>2. Kept /\ fw'.pc = "end" /\ fw'.ok = fw.ok /\ fw'.calm = fw.calm BY <1>1, ToFields
<1>3. "end" \in PcsOf(fw.tool) BY <1>1 DEF PcsOf
<1>4. FwTypeOK' BY <1>1, <1>3, ToolPcs, MoveType
<1>5. RunInv' BY <1>1, <1>2, <1>3 DEF RunInv, Kept
<1>6. BebobInv'
  <2>1. fw.calm => Whole(fw.obj) BY <1>1, Sizes DEF BebobInv, Whole
  <2>2. IF fw.op = "firmware" /\ fw.obj = "cne" THEN Whole("app") /\ fw.prev = ImageOf("app") ELSE fw.prev = <<>>
    BY <1>1 DEF BebobInv, PcsOf
  <2> QED BY <1>1, <1>2, <2>1, <2>2 DEF BebobInv, Kept, Whole, ImageOf, CellOf
<1>7. EfcInv' /\ DiceInv' BY <1>1, <1>2 DEF EfcInv, DiceInv, Efc, Kept
<1>8. UpdateIsWhole' BY <1>2 DEF UpdateIsWhole, FlashIsImage, RetrySucceeds
<1> QED BY <1>4, <1>5, <1>6, <1>7, <1>8

\* An answer that passes the checks is the device's own, about the object it holds.
LEMMA AnswerIsTrue ==
  ASSUME FwIInv, fw.tool = "bebob", fw.pc = "end", NEW a \in Answered \cup Unanswered, a.valid, a.crc = ImageOf(fw.obj)
  PROVE  Whole(fw.obj)
<1> USE DEF FwIInv
<1>1. fw.obj \in {"app", "cne"} BY DEF FwTypeOK
<1>2. fw.prev # ImageOf(fw.obj)
  <2>1. CASE fw.op = "firmware" /\ fw.obj = "cne"
    <3>1. fw.prev = ImageOf("app") BY <2>1 DEF BebobInv, PcsOf
    <3>2. ImageOf("app")[1] = Piece(fw.img, "app", 1) /\ ImageOf("cne")[1] = Piece(fw.img, "cne", 1)
      BY Sizes DEF ImageOf
    <3> QED BY <2>1, <3>1, <3>2, PieceApart
  <2>2. CASE ~(fw.op = "firmware" /\ fw.obj = "cne")
    <3>1. fw.prev = <<>> BY <2>2 DEF BebobInv, PcsOf
    <3>2. DOMAIN ImageOf(fw.obj) = 1..Pieces /\ 1 \in 1..Pieces BY Sizes DEF ImageOf
    <3>3. 1 \notin DOMAIN <<>> OBVIOUS
    <3> QED BY <3>1, <3>2, <3>3
  <2> QED BY <2>1, <2>2
<1>3. a \in Answered BY <1>2 DEF Unanswered, Answer
<1>4. Content(fw.obj) = ImageOf(fw.obj) BY <1>3 DEF Answered, Answer
<1>5. \A p \in 1..Pieces : Content(fw.obj)[p] = fwFlash[CellOf(fw.obj, p)] /\ ImageOf(fw.obj)[p] = Piece(fw.img, fw.obj, p)
  BY DEF Content, ImageOf
<1> QED BY <1>4, <1>5 DEF Whole

LEMMA AnswerType ==
  ASSUME FwTypeOK, NEW a \in Answered \cup Unanswered
  PROVE  a.crc \in {<<>>, <<<<"seq", Pieces>>>>} \cup [1..Pieces -> Values] /\ a.valid \in BOOLEAN
<1>1. Content(fw.obj) \in [1..Pieces -> Values]
  BY CellsIn DEF Content, FwTypeOK
<1>2. fw.prev \in {<<>>, <<<<"seq", Pieces>>>>} \cup [1..Pieces -> Values] BY DEF FwTypeOK
<1>3. CASE a \in Answered BY <1>1, <1>3 DEF Answered, Answer
<1>4. CASE a \in Unanswered
  <2>1. CASE a = Answer(<<<<"seq", Pieces>>>>, FALSE) BY <2>1 DEF Answer
  <2>2. CASE a = Answer(<<>>, FALSE) BY <2>2 DEF Answer
  <2>3. CASE a = Answer(fw.prev, TRUE) BY <1>2, <2>3 DEF Answer
  <2> QED BY <1>4, <2>1, <2>2, <2>3 DEF Unanswered
<1> QED BY <1>3, <1>4

LEMMA EndStep == ASSUME FwIInv, download_end PROVE FwIInv'
<1> USE DEF FwIInv
<1>1. /\ fw.tool = "bebob" /\ fw.pc = "end" /\ fw.tool \in FwTools /\ fw.obj \in {"app", "cne"} /\ fw.base = 0
      /\ fwFlash' = fwFlash /\ fwRam' = fwRam /\ fw.ok \in BOOLEAN /\ fw.calm \in BOOLEAN
  BY DEF download_end, Is, FwTypeOK, RunInv
<1>2. PICK a \in Answered \cup Unanswered :
       /\ IF a \in Answered /\ (a.valid \/ Content(fw.obj) # ImageOf(fw.obj)) THEN NoFault ELSE FwFault
       /\ LET ok == fw.ok /\ a.valid /\ a.crc = ImageOf(fw.obj) IN
          fw' = [fw EXCEPT !.pc = IF ~ok THEN "failed" ELSE IF fw.op = "firmware" /\ fw.obj = "app" THEN "start" ELSE "finish",
                           !.obj = "cne", !.prev = a.crc, !.ok = ok, !.calm = @ /\ fwBudget' = fwBudget]
  BY DEF download_end
<1> DEFINE ok == fw.ok /\ a.valid /\ a.crc = ImageOf(fw.obj)
           calm == fw.calm /\ fwBudget' = fwBudget
           label == IF ~ok THEN "failed" ELSE IF fw.op = "firmware" /\ fw.obj = "app" THEN "start" ELSE "finish"
<1>3. fw' = [fw EXCEPT !.pc = label, !.obj = "cne", !.prev = a.crc, !.ok = ok, !.calm = calm]
  BY <1>2
<1>4. ok \in BOOLEAN /\ calm \in BOOLEAN /\ label \in {"failed", "start", "finish"} OBVIOUS
<1>5. ok => Whole(fw.obj) /\ Content(fw.obj) = ImageOf(fw.obj) /\ a.crc = ImageOf(fw.obj)
  BY <1>1, AnswerIsTrue DEF Whole, Content, ImageOf
<1>6. calm => ok
  <2> SUFFICES ASSUME calm PROVE ok
    OBVIOUS
  <2>1. ~FwFault BY DEF FwFault, FwTypeOK
  <2>2. fw.ok /\ Content(fw.obj) = ImageOf(fw.obj) BY <1>1 DEF BebobInv, Whole, Content, ImageOf
  <2>3. a \in Answered /\ a.valid BY <1>2, <2>1, <2>2
  <2>4. a.crc = Content(fw.obj) BY <2>3 DEF Answered, Answer
  <2> QED BY <2>2, <2>3, <2>4
<1>7. label = IF ~ok THEN "failed" ELSE IF fw.op = "firmware" /\ fw.obj = "app" THEN "start" ELSE "finish" OBVIOUS
<1> HIDE DEF ok, calm, label
<1>8. /\ fw'.tool = fw.tool /\ fw'.op = fw.op /\ fw'.img = fw.img /\ fw'.base = fw.base /\ fw'.pc = label
      /\ fw'.obj = "cne" /\ fw'.prev = a.crc /\ fw'.ok = ok /\ fw'.calm = calm
  BY <1>3 DEF FwTypeOK
<1>9. FwTypeOK'
  <2>1. fwBudget' \in [runs : Nat, faults : Nat] BY <1>2, BudgetType
  <2>2. {"failed", "start", "finish"} \subseteq Pcs BY <1>1, OutcomePcs, ToolPcs DEF PcsOf, Outcomes
  <2>3. a.crc \in {<<>>, <<<<"seq", Pieces>>>>} \cup [1..Pieces -> Values] BY AnswerType
  <2> QED BY <1>1, <1>3, <1>4, <2>1, <2>2, <2>3, ZenonT(40) DEF FwTypeOK, Pcs
<1>10. RunInv' BY <1>1, <1>4, <1>8 DEF RunInv, PcsOf, Outcomes
<1>11. \A obj : Whole(obj) => Whole(obj)'
  BY <1>1, <1>8 DEF Whole, CellOf
<1>12. ImageOf("app")' = ImageOf("app") BY <1>8 DEF ImageOf
<1>13. BebobInv'
  <2>1. CASE label = "failed" BY <1>8, <2>1 DEF BebobInv, PcsOf
  <2>2. CASE label = "start"
    <3>1. ok /\ fw.op = "firmware" /\ fw.obj = "app" BY <1>7, <2>2
    <3> QED BY <1>5, <1>8, <1>11, <1>12, <2>2, <3>1 DEF BebobInv
  <2>3. CASE label = "finish"
    <3>1. ok /\ ~(fw.op = "firmware" /\ fw.obj = "app") BY <1>7, <2>3
    <3>2. fw.op \in {"firmware", "cne"} BY <1>1 DEF RunInv
    <3>3. fw.op = "firmware" => Whole("app") BY <1>1, <3>1 DEF BebobInv, PcsOf
    <3>4. fw.op = "cne" => fw.obj = "cne" BY DEF RunInv
    <3>5. \A obj \in Objects' : Whole(obj)'
      BY <1>1, <1>5, <1>8, <1>11, <3>1, <3>2, <3>3, <3>4 DEF Objects
    <3> QED BY <1>8, <2>3, <3>5 DEF BebobInv
  <2> QED BY <1>4, <2>1, <2>2, <2>3
<1>14. EfcInv' /\ DiceInv' BY <1>1, <1>8 DEF EfcInv, DiceInv, Efc
<1>15. UpdateIsWhole'
  BY <1>4, <1>6, <1>7, <1>8 DEF UpdateIsWhole, FlashIsImage, RetrySucceeds
<1> QED BY <1>9, <1>10, <1>13, <1>14, <1>15

LEMMA ApplicationStep == ASSUME FwIInv, startApplicationCmd PROVE FwIInv'
<1> USE DEF FwIInv
<1>1. fw.tool = "bebob" /\ fw.pc = "finish" BY DEF startApplicationCmd, Is
<1>2. CASE FwFault /\ Disturbed("failed")
  BY <1>1, <1>2, FailedStep DEF startApplicationCmd
<1>3. CASE To("success") /\ NoFault
  <2>1. Kept /\ fw'.pc = "success" BY <1>3, ToFields
  <2>2. fwFlash' = fwFlash /\ fwRam' = fwRam BY DEF startApplicationCmd
  <2>3. FwTypeOK' BY <1>3, <2>2, OutcomePcs, MoveType DEF Outcomes
  <2>4. RunInv' BY <1>1, <2>1 DEF RunInv, Kept, Outcomes
  <2>5. \A obj \in Objects : Whole(obj) BY <1>1 DEF BebobInv
  <2>6. Objects' = Objects /\ \A obj : Whole(obj) => Whole(obj)'
    BY <2>1, <2>2 DEF Kept, Objects, Whole, CellOf
  <2>7. BebobInv' BY <2>1, <2>5, <2>6 DEF BebobInv, PcsOf
  <2>8. EfcInv' /\ DiceInv' BY <1>1, <2>1 DEF EfcInv, DiceInv, Efc, Kept
  <2>9. UpdateIsWhole' BY <2>1, <2>5, <2>6 DEF UpdateIsWhole, FlashIsImage, RetrySucceeds, Whole
  <2> QED BY <2>3, <2>4, <2>7, <2>8, <2>9
<1> QED BY <1>2, <1>3 DEF startApplicationCmd

LEMMA LockStep == ASSUME FwIInv, lockFlash PROVE FwIInv'
<1> USE DEF FwIInv
<1>1. fw.tool \in Efc /\ fw.pc = "lock" /\ fw.tool \in FwTools /\ fw.base \in {0, 1} /\ fw.calm \in BOOLEAN
  BY DEF lockFlash, Is, FwTypeOK
<1>2. CASE FwFault /\ Disturbed("failed")
  BY <1>1, <1>2, FailedStep DEF lockFlash
<1>3. CASE fw' = [fw EXCEPT !.pc = "erase", !.i = BlockStart(fw.base + 1), !.left = Pieces, !.ok = TRUE, !.tries = 0] /\ NoFault
  <2>1. /\ Kept /\ fw'.pc = "erase" /\ fw'.i = BlockStart(fw.base + 1) /\ fw'.left = Pieces /\ fw'.ok = TRUE
        /\ fw'.hurt = fw.hurt /\ fw'.calm = fw.calm /\ fw'.deaf = fw.deaf
    BY <1>3 DEF FwTypeOK, Kept
  <2>2. BlockStart(1) = 1 /\ BlockStart(2) \in Nat
    <3>1. 0 % EraseBlock = 0 /\ 1 % EraseBlock \in 0..1 BY Sizes
    <3> QED BY <3>1 DEF BlockStart
  <2>3. BlockStart(fw.base + 1) \in Nat
    <3>1. fw.base + 1 \in {1, 2} BY <1>1
    <3> QED BY <2>2, <3>1
  <2>4. fwFlash' = fwFlash /\ fwRam' = fwRam BY DEF lockFlash
  <2>5. "erase" \in PcsOf(fw.tool) BY <1>1 DEF PcsOf, Efc
  <2>6. FwTypeOK'
    <3>1. fwBudget' \in [runs : Nat, faults : Nat] BY <1>3, BudgetType
    <3>2. "erase" \in Pcs BY <1>1, <2>5, ToolPcs
    <3> QED BY <1>3, <2>3, <2>4, <3>1, <3>2, Sizes DEF FwTypeOK, Pcs
  <2>7. RunInv' BY <1>1, <2>1, <2>5 DEF RunInv, Kept
  <2>8. EfcInv'
    <3>1. fw.base = 0 => BlockStart(fw.base + 1) = 1 BY <2>2
    <3> QED BY <1>1, <2>1, <3>1, Sizes DEF EfcInv, Kept
  <2>9. BebobInv' /\ DiceInv' BY <1>1, <2>1 DEF BebobInv, DiceInv, Efc, Kept
  <2>10. UpdateIsWhole' BY <2>1 DEF UpdateIsWhole, FlashIsImage, RetrySucceeds
  <2> QED BY <2>6, <2>7, <2>8, <2>9, <2>10
<1> QED BY <1>2, <1>3 DEF lockFlash

\* A turn of the erase loop that went well: it moves on over what is erased.
LEMMA EraseOn ==
  ASSUME FwIInv, fw.tool \in Efc, fw.pc = "erase", FwTypeOK', Kept, fw'.hurt = fw.hurt, fw'.calm => fw.calm /\ fw'.deaf = fw.deaf,
         ~fw'.deaf => ~fw.deaf, fw.ok, fw'.ok = fw.ok,
         NEW n, n = Least(EraseBlock, fw.left), fw'.left = fw.left - n,
         fw'.i = (IF fw.left = n THEN 1 ELSE fw.i + EraseBlock),
         fw'.pc = (IF fw.left = n THEN "write" ELSE "erase"),
         \A c \in FwCells : fwFlash[c] = Erased => fwFlash'[c] = Erased,
         ~fw'.deaf => \A c \in FwCells : c \in fw.i..(fw.i + n - 1) => fwFlash'[c] = Erased
  PROVE  FwIInv'
<1> USE DEF FwIInv
<1>1. fw.left \in 1..Pieces /\ fw.i \in Nat /\ fw.calm \in BOOLEAN /\ fw.tool \in FwTools BY DEF EfcInv, FwTypeOK
<1>2. n \in 1..fw.left /\ n <= EraseBlock /\ (n # fw.left => n = EraseBlock)
  BY <1>1, Sizes DEF Least
<1>3. {"write", "erase"} \subseteq PcsOf(fw.tool) BY DEF PcsOf, Efc
<1>4. RunInv' BY <1>3 DEF RunInv, Kept
<1>5. fw.base = 0 => /\ fw.i = Pieces - fw.left + 1
                     /\ ~fw'.deaf => \A c \in 1..Pieces : c <= fw.i + n - 1 => fwFlash'[c] = Erased
  <2> SUFFICES ASSUME fw.base = 0 PROVE /\ fw.i = Pieces - fw.left + 1
                                        /\ ~fw'.deaf => \A c \in 1..Pieces : c <= fw.i + n - 1 => fwFlash'[c] = Erased
    OBVIOUS
  <2>1. fw.i = Pieces - fw.left + 1 /\ (~fw.deaf => \A c \in 1..(fw.i - 1) : fwFlash[c] = Erased) BY DEF EfcInv
  <2>2. ASSUME ~fw'.deaf, NEW c \in 1..Pieces, c <= fw.i + n - 1 PROVE fwFlash'[c] = Erased
    <3>1. c \in FwCells BY Sizes DEF FwCells
    <3>2. CASE c <= fw.i - 1
      <4>1. c \in 1..(fw.i - 1) BY <1>1, <3>2, Sizes
      <4> QED BY <2>1, <2>2, <3>1, <4>1
    <3>3. CASE ~(c <= fw.i - 1)
      <4>1. c \in fw.i..(fw.i + n - 1) BY <1>1, <1>2, <2>2, <3>3, Sizes
      <4> QED BY <2>2, <3>1, <4>1
    <3> QED BY <3>2, <3>3
  <2> QED BY <2>1, <2>2
<1>6. EfcInv'
  <2>1. CASE fw.left = n
    <3>1. fw'.pc = "write" /\ fw'.i = 1 BY <2>1
    <3>2. fw.base = 0 /\ ~fw'.deaf => \A p \in 1..Pieces : fwFlash'[p] = Erased BY <1>1, <1>5, <2>1, Sizes
    <3>3. fw'.calm => fw'.hurt = {} /\ ~fw'.deaf BY <1>1 DEF EfcInv
    <3>4. fw'.i \in 1..(Pieces + IF fw.trailer THEN 1 ELSE 0) BY <3>1, Sizes
    <3> QED BY <3>1, <3>2, <3>3, <3>4, Sizes DEF EfcInv, Kept
  <2>2. CASE fw.left # n
    <3>1. fw'.pc = "erase" /\ fw'.i = fw.i + EraseBlock /\ n = EraseBlock BY <1>2, <2>2
    <3>2. fw'.left \in 1..Pieces BY <1>1, <1>2, <2>2, Sizes
    <3>3. fw.base = 0 => fw'.i = Pieces - fw'.left + 1 BY <1>1, <1>2, <1>5, <3>1, Sizes
    <3>4. fw.base = 0 /\ ~fw'.deaf => \A c \in 1..(fw'.i - 1) : fwFlash'[c] = Erased
      BY <1>1, <1>2, <1>5, <3>1, <3>2, <3>3, Sizes
    <3>5. fw'.calm => fw'.hurt = {} /\ ~fw'.deaf BY <1>1 DEF EfcInv
    <3> QED BY <3>1, <3>2, <3>3, <3>4, <3>5 DEF EfcInv, Kept
  <2> QED BY <2>1, <2>2
<1>7. BebobInv' /\ DiceInv' BY DEF BebobInv, DiceInv, Efc, Kept
<1>8. UpdateIsWhole' BY DEF UpdateIsWhole, FlashIsImage, RetrySucceeds
<1> QED BY <1>4, <1>6, <1>7, <1>8

\* A turn that is to be repeated, in a run that is disturbed by then.
LEMMA EraseAgain ==
  ASSUME FwIInv, fw.tool \in Efc, fw.pc = "erase", FwTypeOK', Kept, fw'.calm = FALSE, ~fw'.deaf => ~fw.deaf,
         fw'.left = fw.left, fw'.i = fw.i, fw'.pc \in {"failed", "erase"},
         \A c \in FwCells : fwFlash[c] = Erased => fwFlash'[c] = Erased
  PROVE  FwIInv'
<1> USE DEF FwIInv
<1>1. CASE fw'.pc = "failed" BY <1>1, BrokenOff
<1>2. CASE fw'.pc = "erase"
  <2>1. fw.left \in 1..Pieces /\ fw.i \in Nat /\ fw.tool \in FwTools BY DEF EfcInv, FwTypeOK
  <2>2. RunInv' BY <1>2 DEF RunInv, Kept
  <2>3. fw.base = 0 => /\ fw.i = Pieces - fw.left + 1
                       /\ ~fw.deaf => \A c \in 1..(fw.i - 1) : c \in FwCells /\ fwFlash[c] = Erased
    BY <2>1, Sizes DEF EfcInv, FwCells
  <2>4. EfcInv' BY <1>2, <2>1, <2>3 DEF EfcInv, Kept
  <2>5. BebobInv' /\ DiceInv' BY DEF BebobInv, DiceInv, Efc, Kept
  <2>6. UpdateIsWhole' BY <1>2 DEF UpdateIsWhole, FlashIsImage, RetrySucceeds
  <2> QED BY <2>2, <2>4, <2>5, <2>6
<1> QED BY <1>1, <1>2

\* The run after a turn of the erase loop, as in eraseFlashBlocks.
Turn(ok, n) ==
  IF ok THEN [fw EXCEPT !.tries = 0, !.left = @ - n, !.i = IF fw.left = n THEN 1 ELSE @ + EraseBlock,
                        !.pc = IF fw.left = n THEN "write" ELSE "erase"]
  ELSE [fw EXCEPT !.ok = FALSE, !.tries = @ + 1, !.pc = IF fw.tries >= MaxEraseTries THEN "failed" ELSE "erase"]

Turned(ok, n, calm, deaf) == [Turn(ok, n) EXCEPT !.calm = calm, !.deaf = deaf]

LEMMA TurnFields ==
  ASSUME FwIInv, fw.tool \in Efc, fw.pc = "erase", NEW ok \in BOOLEAN, ok => fw.ok, NEW calm \in BOOLEAN, NEW deaf \in BOOLEAN,
         NEW n, n = Least(EraseBlock, fw.left), fw' = Turned(ok, n, calm, deaf),
         fwFlash' \in [FwCells -> Values], fwRam' = fwRam, FwFault \/ NoFault
  PROVE  /\ FwTypeOK' /\ Kept /\ fw'.hurt = fw.hurt /\ fw'.calm = calm /\ fw'.deaf = deaf
         /\ ok => /\ fw'.ok = fw.ok /\ fw'.left = fw.left - n
                  /\ fw'.i = (IF fw.left = n THEN 1 ELSE fw.i + EraseBlock)
                  /\ fw'.pc = (IF fw.left = n THEN "write" ELSE "erase")
         /\ ~ok => fw'.left = fw.left /\ fw'.i = fw.i /\ fw'.pc \in {"failed", "erase"}
<1> USE DEF FwIInv
<1>1. fw.left \in 1..Pieces /\ fw.i \in Nat /\ fw.tries \in Nat /\ fw.tool \in FwTools BY DEF EfcInv, FwTypeOK
<1>2. fw.left - n \in Nat /\ fw.i + EraseBlock \in Nat /\ fw.tries + 1 \in Nat BY <1>1, Sizes DEF Least
<1>3. {"write", "erase", "failed"} \subseteq Pcs
  <2>1. {"write", "erase"} \subseteq PcsOf(fw.tool) BY DEF PcsOf, Efc
  <2> QED BY <1>1, <2>1, ToolPcs, OutcomePcs DEF Outcomes
<1>4. fwBudget' \in [runs : Nat, faults : Nat] BY BudgetType
<1>5. CASE ok
  <2> DEFINE i == IF fw.left = n THEN 1 ELSE fw.i + EraseBlock
             label == IF fw.left = n THEN "write" ELSE "erase"
  <2>1. i \in Nat /\ label \in Pcs BY <1>2, <1>3
  <2>2. fw' = [fw EXCEPT !.tries = 0, !.left = fw.left - n, !.i = i, !.pc = label, !.calm = calm, !.deaf = deaf]
    BY <1>5 DEF Turn, Turned, FwTypeOK
  <2>3. i = (IF fw.left = n THEN 1 ELSE fw.i + EraseBlock) /\ label = (IF fw.left = n THEN "write" ELSE "erase")
    OBVIOUS
  <2> HIDE DEF i, label
  <2>4. FwTypeOK'
    <3> DEFINE g == [fw EXCEPT !.tries = 0, !.left = fw.left - n, !.i = i]
    <3>1. /\ g \in [tool : FwTools, op : {"none", "firmware", "cne", "fireworks", "session", "dice"},
             img : Images \cup {"none"}, base : {0, 1}, pc : Pcs,
             obj : {"app", "cne"}, i : Nat, ok : BOOLEAN, tries : Nat, left : Nat, trailer : BOOLEAN,
             prev : {<<>>, <<<<"seq", Pieces>>>>} \cup [1..Pieces -> Values], hurt : SUBSET Nat, calm : BOOLEAN,
             deaf : BOOLEAN]
          /\ fw' = [g EXCEPT !.pc = label, !.calm = calm, !.deaf = deaf]
      BY <1>2, <2>1, <2>2 DEF FwTypeOK, Pcs
    <3> HIDE DEF g
    <3> QED BY <1>4, <2>1, <3>1 DEF FwTypeOK, Pcs
  <2>5. Kept /\ fw'.hurt = fw.hurt /\ fw'.calm = calm /\ fw'.deaf = deaf /\ fw'.ok = fw.ok /\ fw'.left = fw.left - n /\ fw'.i = i /\ fw'.pc = label
    BY <2>2 DEF FwTypeOK, Kept
  <2> QED BY <1>5, <2>3, <2>4, <2>5
<1>6. CASE ~ok
  <2> DEFINE label == IF fw.tries >= MaxEraseTries THEN "failed" ELSE "erase"
  <2>1. label \in Pcs /\ label \in {"failed", "erase"} BY <1>3
  <2>2. fw' = [fw EXCEPT !.ok = FALSE, !.tries = fw.tries + 1, !.pc = label, !.calm = calm, !.deaf = deaf]
    BY <1>6 DEF Turn, Turned, FwTypeOK
  <2> HIDE DEF label
  <2>4. FwTypeOK' BY <1>2, <1>4, <2>1, <2>2, ZenonT(40) DEF FwTypeOK, Pcs
  <2>5. Kept /\ fw'.hurt = fw.hurt /\ fw'.calm = calm /\ fw'.deaf = deaf /\ fw'.left = fw.left /\ fw'.i = fw.i /\ fw'.pc = label
    BY <2>2 DEF FwTypeOK, Kept
  <2> QED BY <1>6, <2>1, <2>4, <2>5
<1> QED BY <1>5, <1>6

LEMMA EraseStep == ASSUME FwIInv, eraseFlashBlocks PROVE FwIInv'
<1> USE DEF FwIInv
<1>1. /\ fw.tool \in Efc /\ fw.pc = "erase" /\ fw.ok \in BOOLEAN /\ fw.calm \in BOOLEAN /\ fwRam' = fwRam
      /\ fw.deaf \in BOOLEAN /\ fw.i \in Nat /\ (fw.calm => fw.ok) /\ fw.left \in 1..Pieces /\ fwFlash \in [FwCells -> Values]
  BY DEF eraseFlashBlocks, Is, FwTypeOK, EfcInv
<1> DEFINE n == Least(EraseBlock, fw.left)
<1>2. n \in Nat /\ n <= EraseBlock BY <1>1, Sizes DEF Least
<1> DEFINE Emptied == [c \in FwCells |-> IF c \in fw.i..(fw.i + EraseBlock - 1) THEN Erased ELSE fwFlash[c]]
<1>3. CASE FwFault /\ Disturbed("failed") /\ (fwFlash' = fwFlash \/ fwFlash' = Emptied)
  <2>1. Kept /\ fw'.pc = "failed" /\ fw'.calm = FALSE BY <1>3, DisturbedFields
  <2>2. fwFlash' \in [FwCells -> Values] BY <1>1, <1>3, ValuesIn
  <2>3. fwBudget' \in [runs : Nat, faults : Nat] BY <1>3, BudgetType
  <2> HIDE DEF Emptied
  <2>4. FwTypeOK' BY <1>1, <1>3, <2>2, <2>3, OutcomePcs DEF FwTypeOK, Disturbed, Pcs, Outcomes
  <2> QED BY <1>1, <2>1, <2>4, BrokenOff
<1>4. CASE fwFlash' = Emptied /\ fw' = Turn(fw.ok, n) /\ NoFault
  <2>1. fwFlash' \in [FwCells -> Values] BY <1>1, <1>4, ValuesIn
  <2>2. fw' = Turned(fw.ok, n, fw.calm, fw.deaf) BY <1>1, <1>4 DEF Turn, Turned, FwTypeOK
  <2>3. \A c \in FwCells : fwFlash[c] = Erased => fwFlash'[c] = Erased BY <1>4
  <2>4. \A c \in FwCells : c \in fw.i..(fw.i + n - 1) => fwFlash'[c] = Erased BY <1>1, <1>2, <1>4, Sizes
  <2> HIDE DEF n, Emptied
  <2>5. n = Least(EraseBlock, fw.left) BY DEF n
  <2>6. /\ FwTypeOK' /\ Kept /\ fw'.hurt = fw.hurt /\ fw'.calm = fw.calm /\ fw'.deaf = fw.deaf
        /\ fw.ok => /\ fw'.ok = fw.ok /\ fw'.left = fw.left - n
                    /\ fw'.i = (IF fw.left = n THEN 1 ELSE fw.i + EraseBlock)
                    /\ fw'.pc = (IF fw.left = n THEN "write" ELSE "erase")
        /\ ~fw.ok => fw'.left = fw.left /\ fw'.i = fw.i /\ fw'.pc \in {"failed", "erase"}
    BY <1>1, <1>4, <2>1, <2>2, <2>5, TurnFields
  <2>7. CASE fw.ok BY <1>1, <2>3, <2>4, <2>5, <2>6, <2>7, EraseOn
  <2>8. CASE ~fw.ok BY <1>1, <2>3, <2>6, <2>8, EraseAgain
  <2> QED BY <2>7, <2>8
<1>5. CASE /\ FwFault /\ UNCHANGED fwFlash
           /\ LET empty == \A c \in fw.i..(fw.i + n - 1) : fwFlash[c] = Erased IN
              \E busy \in BOOLEAN, stalled \in BOOLEAN :
                fw' = [Turn(fw.ok /\ busy /\ (empty \/ stalled), n) EXCEPT !.calm = FALSE, !.deaf = @ \/ stalled]
  <2> DEFINE empty == \A c \in fw.i..(fw.i + n - 1) : fwFlash[c] = Erased
  <2>1. PICK busy \in BOOLEAN, stalled \in BOOLEAN :
          fw' = [Turn(fw.ok /\ busy /\ (empty \/ stalled), n) EXCEPT !.calm = FALSE, !.deaf = @ \/ stalled]
    BY <1>5
  <2>2. PICK ok \in BOOLEAN, calm \in {FALSE}, deaf \in BOOLEAN :
          /\ (ok => fw.ok) /\ (~deaf => ~fw.deaf)
          /\ ok /\ ~deaf => \A c \in fw.i..(fw.i + n - 1) : fwFlash[c] = Erased
          /\ fw' = Turned(ok, n, calm, deaf)
    <3> DEFINE k == fw.ok /\ busy /\ (empty \/ stalled)
               d == fw.deaf \/ stalled
    <3>1. /\ k \in BOOLEAN /\ (k => fw.ok) /\ (~d => ~fw.deaf) /\ d \in BOOLEAN
          /\ k /\ ~d => \A c \in fw.i..(fw.i + n - 1) : fwFlash[c] = Erased
      BY <1>1
    <3> HIDE DEF n, empty
    <3>2. fw' = Turned(k, n, FALSE, d)
      <4>1. Turn(k, n).deaf = fw.deaf BY DEF Turn, FwTypeOK
      <4> QED BY <2>1, <4>1 DEF Turned
    <3> HIDE DEF k, d
    <3> USE <3>1
    <3> WITNESS k \in BOOLEAN, FALSE \in {FALSE}, d \in BOOLEAN
    <3> QED BY <3>1, <3>2
  <2> HIDE DEF n, empty
  <2>4. n = Least(EraseBlock, fw.left) BY DEF n
  <2>5. fwFlash' = fwFlash /\ FwFault /\ fwFlash' \in [FwCells -> Values] BY <1>1, <1>5
  <2>6. /\ FwTypeOK' /\ Kept /\ fw'.hurt = fw.hurt /\ fw'.calm = calm /\ fw'.deaf = deaf
        /\ ok => /\ fw'.ok = fw.ok /\ fw'.left = fw.left - n
                 /\ fw'.i = (IF fw.left = n THEN 1 ELSE fw.i + EraseBlock)
                 /\ fw'.pc = (IF fw.left = n THEN "write" ELSE "erase")
        /\ ~ok => fw'.left = fw.left /\ fw'.i = fw.i /\ fw'.pc \in {"failed", "erase"}
    BY <1>1, <2>2, <2>4, <2>5, TurnFields
  <2>7. CASE ok BY <1>1, <2>2, <2>4, <2>5, <2>6, <2>7, EraseOn
  <2>8. CASE ~ok BY <1>1, <2>2, <2>5, <2>6, <2>8, EraseAgain
  <2> QED BY <2>7, <2>8
<1> QED BY <1>3, <1>4, <1>5 DEF eraseFlashBlocks, Turn

LEMMA WriteStep == ASSUME FwIInv, writeFlash PROVE FwIInv'
<1> USE DEF FwIInv
<1> DEFINE final == Pieces + IF fw.trailer THEN 1 ELSE 0
           c == fw.base + fw.i
           label == IF fw.i = final THEN "unlock" ELSE "write"
<1>1. /\ fw.tool \in Efc /\ fw.pc = "write" /\ fw.tool \in FwTools /\ fw.i \in 1..final /\ fw.base \in {0, 1}
      /\ fw.img \in Images /\ fw.calm \in BOOLEAN /\ fw.hurt \in SUBSET Nat /\ fwRam' = fwRam
      /\ fwFlash \in [FwCells -> Values]
  BY DEF writeFlash, Is, FwTypeOK, EfcInv, RunInv
<1>2. final \in {Pieces, Pieces + 1} /\ final \in Nat /\ fw.i \in Nat BY <1>1, Sizes
<1>3. c \in FwCells /\ c \in Nat BY <1>1, <1>2, Sizes DEF FwCells
<1>4. {"write", "unlock"} \subseteq PcsOf(fw.tool) BY <1>1 DEF PcsOf, Efc
<1>5. {"write", "unlock"} \subseteq Pcs BY <1>1, <1>4, ToolPcs
<1>6. CASE Fails BY <1>1, <1>6, FailedStep DEF Fails
<1>7. ASSUME NEW hurt \in SUBSET Nat, NEW calm \in BOOLEAN, NEW v \in Values, FwFault \/ NoFault,
             fw' = [fw EXCEPT !.i = @ + 1, !.pc = label, !.hurt = @ \cup hurt, !.calm = @ /\ calm],
             fwFlash' = [fwFlash EXCEPT ![c] = v], calm => hurt = {},
             fw.base = 0 => fw.i \in hurt \/ (fwFlash[fw.i] = Erased => v = Piece(fw.img, "app", fw.i))
      PROVE  FwIInv'
  <2>1. label \in Pcs /\ label \in {"write", "unlock"} BY <1>5
  <2>2. fw' = [fw EXCEPT !.i = fw.i + 1, !.pc = label, !.hurt = fw.hurt \cup hurt, !.calm = fw.calm /\ calm]
    BY <1>7
  <2>3. label = IF fw.i = final THEN "unlock" ELSE "write" OBVIOUS
  <2>4. fw.base = 0 => c = fw.i BY <1>1
  <2> HIDE DEF label, c
  <2>5. /\ Kept /\ fw'.pc = label /\ fw'.i = fw.i + 1 /\ fw'.hurt = fw.hurt \cup hurt /\ fw'.calm = (fw.calm /\ calm)
        /\ fw'.deaf = fw.deaf
    BY <2>2 DEF FwTypeOK, Kept
  <2>6. FwTypeOK'
    <3>1. fwBudget' \in [runs : Nat, faults : Nat] BY <1>7, BudgetType
    <3>2. fwFlash' \in [FwCells -> Values] BY <1>1, <1>3, <1>7
    <3>3. fw.i + 1 \in Nat /\ fw.hurt \cup hurt \in SUBSET Nat /\ (fw.calm /\ calm) \in BOOLEAN BY <1>1, <1>2, <1>7
    <3>4. fw' \in [tool : FwTools, op : {"none", "firmware", "cne", "fireworks", "session", "dice"},
             img : Images \cup {"none"}, base : {0, 1}, pc : Pcs,
             obj : {"app", "cne"}, i : Nat, ok : BOOLEAN, tries : Nat, left : Nat, trailer : BOOLEAN,
             prev : {<<>>, <<<<"seq", Pieces>>>>} \cup [1..Pieces -> Values], hurt : SUBSET Nat, calm : BOOLEAN,
             deaf : BOOLEAN]
      BY <2>1, <2>2, <3>3, ZenonT(40) DEF FwTypeOK, Pcs
    <3> QED BY <1>1, <3>1, <3>2, <3>4 DEF FwTypeOK, Pcs
  <2>7. RunInv' BY <1>1, <1>4, <2>1, <2>5 DEF RunInv, Kept
  <2>8. EfcInv'
    <3>1. fw'.calm => fw'.hurt = {} /\ ~fw'.deaf BY <1>1, <1>7, <2>5 DEF EfcInv
    <3>2. fw.base = 0 /\ ~fw.deaf => \A p \in 1..Pieces : IF p < fw.i + 1 THEN FlashWritten(p)' ELSE fwFlash'[p] = Erased
      <4> SUFFICES ASSUME fw.base = 0, ~fw.deaf, NEW p \in 1..Pieces
                   PROVE  IF p < fw.i + 1 THEN FlashWritten(p)' ELSE fwFlash'[p] = Erased
        OBVIOUS
      <4>1. IF p < fw.i THEN FlashWritten(p) ELSE fwFlash[p] = Erased BY <1>1 DEF EfcInv
      <4>2. p \in FwCells BY Sizes DEF FwCells
      <4>3. CASE p = fw.i
        <5>1. fwFlash'[p] = v BY <1>1, <1>7, <2>4, <4>2, <4>3
        <5>2. fwFlash[p] = Erased BY <1>2, <4>1, <4>3
        <5>3. p \in hurt \/ v = Piece(fw.img, "app", p) BY <1>7, <4>3, <5>2
        <5> QED BY <1>2, <2>5, <4>3, <5>1, <5>3 DEF FlashWritten, Kept
      <4>4. CASE p # fw.i
        <5>1. fwFlash'[p] = fwFlash[p] BY <1>1, <1>7, <2>4, <4>2, <4>4
        <5> QED BY <1>2, <2>5, <4>1, <4>4, <5>1, Sizes DEF FlashWritten, Kept
      <4> QED BY <4>3, <4>4
    <3>3. CASE label = "unlock"
      <4>1. fw.i = final BY <2>3, <3>3
      <4>2. \A p \in 1..Pieces : p < fw.i + 1 BY <1>2, <4>1, Sizes
      <4> QED BY <2>5, <3>1, <3>2, <3>3, <4>2 DEF EfcInv, Kept
    <3>4. CASE label = "write"
      <4>1. fw.i # final BY <2>3, <3>4
      <4>2. fw.i + 1 \in 1..final BY <1>1, <1>2, <4>1
      <4>3. fw.i + 1 \in 1..(Pieces + IF fw'.trailer THEN 1 ELSE 0) BY <2>5, <4>2 DEF Kept
      <4> QED BY <2>5, <3>1, <3>2, <3>4, <4>3 DEF EfcInv, Kept
    <3> QED BY <2>1, <3>3, <3>4
  <2>9. BebobInv' /\ DiceInv' BY <1>1, <2>5 DEF BebobInv, DiceInv, Efc, Kept
  <2>10. UpdateIsWhole' BY <2>1, <2>5 DEF UpdateIsWhole, FlashIsImage, RetrySucceeds
  <2> QED BY <2>6, <2>7, <2>8, <2>9, <2>10
<1>8. CASE /\ fwFlash' = [fwFlash EXCEPT ![c] = Programmed(c, Piece(fw.img, "app", fw.i))]
           /\ fw' = [fw EXCEPT !.i = @ + 1, !.pc = label, !.hurt = @ \cup {}, !.calm = @ /\ TRUE] /\ NoFault
  <2> DEFINE v == Programmed(c, Piece(fw.img, "app", fw.i))
  <2>1. v \in Values BY <1>1, <1>2, ValuesIn DEF Programmed
  <2>2. fw.base = 0 => (fwFlash[fw.i] = Erased => v = Piece(fw.img, "app", fw.i))
    BY <1>1 DEF Programmed
  <2>3. {} \in SUBSET Nat /\ TRUE \in BOOLEAN OBVIOUS
  <2> HIDE DEF v, label, c
  <2> QED BY <1>7, <1>8, <2>1, <2>2, <2>3 DEF v
<1>9. CASE /\ fwFlash' = [fwFlash EXCEPT ![c] = Junk]
           /\ fw' = [fw EXCEPT !.i = @ + 1, !.pc = label, !.hurt = @ \cup {c}, !.calm = @ /\ FALSE] /\ FwFault
  <2>1. {c} \in SUBSET Nat /\ FALSE \in BOOLEAN /\ (fw.base = 0 => fw.i \in {c}) BY <1>1, <1>3
  <2> HIDE DEF label, c
  <2> QED BY <1>7, <1>9, <2>1, ValuesIn
<1> QED BY <1>6, <1>8, <1>9 DEF writeFlash

LEMMA UnlockStep == ASSUME FwIInv, unlockFlash PROVE FwIInv'
<1> USE DEF FwIInv
<1>1. fw.tool \in Efc /\ fw.pc = "unlock" /\ fw.tool \in FwTools BY DEF unlockFlash, Is, FwTypeOK
<1>2. CASE FwFault /\ Disturbed("failed")
  BY <1>1, <1>2, FailedStep DEF unlockFlash
<1>3. CASE To(IF fw.tool = "session" THEN "success" ELSE "verify") /\ NoFault
  <2> DEFINE label == IF fw.tool = "session" THEN "success" ELSE "verify"
  <2>1. label \in Outcomes \cup PcsOf(fw.tool) /\ (label = "success" <=> fw.tool = "session") /\ label \in {"success", "verify"}
    BY <1>1 DEF PcsOf, Outcomes, Efc
  <2>2. label \in Pcs BY <1>1, <2>1, ToolPcs, OutcomePcs
  <2>3. To(label) BY <1>3
  <2> HIDE DEF label
  <2>4. Kept /\ fw'.pc = label /\ fw'.hurt = fw.hurt /\ fw'.calm = fw.calm /\ fw'.deaf = fw.deaf BY <2>3, ToFields
  <2>5. fwFlash' = fwFlash /\ fwRam' = fwRam BY DEF unlockFlash
  <2>6. FwTypeOK' BY <1>3, <2>2, <2>3, <2>5, MoveType
  <2>7. RunInv' BY <1>1, <2>1, <2>4 DEF RunInv, Kept
  <2>8. EfcInv' BY <1>1, <2>1, <2>4, <2>5 DEF EfcInv, Kept, FlashWritten
  <2>9. BebobInv' /\ DiceInv' BY <1>1, <2>4 DEF BebobInv, DiceInv, Efc, Kept
  <2>10. UpdateIsWhole'
    <3>1. CASE label = "success"
      <4>1. fw.tool = "session" /\ fw.base = 0 /\ fw.op = "session" BY <1>1, <2>1, <3>1 DEF RunInv
      <4>2. ~fw.deaf => \A p \in 1..Pieces : FlashWritten(p) BY <1>1, <4>1 DEF EfcInv
      <4>3. Objects' = {"app"} BY <2>4, <4>1 DEF Objects, Kept
      <4>4. \A p \in 1..Pieces : CellOf("app", p)' = p BY <2>4, <4>1 DEF CellOf, Kept
      <4> QED BY <2>4, <2>5, <3>1, <4>1, <4>2, <4>3, <4>4 DEF UpdateIsWhole, FlashIsImage, RetrySucceeds, FlashWritten, Kept
    <3>2. CASE label = "verify"
      BY <2>4, <3>2 DEF UpdateIsWhole, FlashIsImage, RetrySucceeds
    <3> QED BY <2>1, <3>1, <3>2
  <2> QED BY <2>6, <2>7, <2>8, <2>9, <2>10
<1> QED BY <1>2, <1>3 DEF unlockFlash

\* A run that ends undisturbed: what its outcome says is as the invariant wants it.
LEMMA OutcomeStep ==
  ASSUME FwIInv, fw.tool # "bebob", fw.pc # "idle", FwTypeOK', Kept, fw'.pc \in {"success", "failed"},
         fw'.pc = "success" /\ ~fw'.deaf => \A p \in 1..Pieces : fwFlash'[fw.base + p] = Piece(fw.img, "app", p),
         fw'.pc = "failed" /\ fw'.calm => fw.base # 0
  PROVE  FwIInv'
<1> USE DEF FwIInv
<1>1. fw.tool \in {"fireworks", "session", "dice"} BY Tools DEF FwTypeOK
<1>2. RunInv' BY DEF RunInv, Kept, Outcomes
<1>3. BebobInv' /\ EfcInv' /\ DiceInv' BY DEF BebobInv, EfcInv, DiceInv, Kept
<1>4. UpdateIsWhole'
  <2>1. Objects' = {"app"} BY <1>1 DEF Objects, Kept, RunInv
  <2>2. \A p \in 1..Pieces : CellOf("app", p)' = fw.base + p BY DEF CellOf, Kept
  <2> QED BY <2>1, <2>2 DEF UpdateIsWhole, FlashIsImage, RetrySucceeds, Kept
<1> QED BY <1>2, <1>3, <1>4

LEMMA VerifyStep == ASSUME FwIInv, verify PROVE FwIInv'
<1> USE DEF FwIInv
<1>1. fw.tool = "fireworks" /\ fw.pc = "verify" /\ fw.tool \in Efc BY DEF verify, Is, Efc
<1>2. CASE FwFault /\ \E seen \in {"failed", "success"} : Deaf(seen)
  <2>1. PICK seen \in {"failed", "success"} : Deaf(seen) BY <1>2
  <2>2. Kept /\ fw'.pc = seen /\ fw'.calm = FALSE /\ fw'.deaf = TRUE BY <2>1, DeafFields
  <2>3. FwTypeOK' BY <1>2, <2>1, OutcomePcs, MoveType DEF verify, Outcomes
  <2> QED BY <1>1, <2>2, <2>3, OutcomeStep
<1>3. CASE /\ fw' = [fw EXCEPT !.pc = IF Content("app") = ImageOf("app") THEN "success" ELSE "failed", !.deaf = FALSE]
           /\ NoFault
  <2> DEFINE label == IF Content("app") = ImageOf("app") THEN "success" ELSE "failed"
  <2>1. label \in {"success", "failed"} /\ (label = "success" <=> Content("app") = ImageOf("app")) OBVIOUS
  <2>2. label \in Pcs BY OutcomePcs DEF Outcomes
  <2>3. fw' = [fw EXCEPT !.pc = label, !.deaf = FALSE] BY <1>3
  <2> HIDE DEF label
  <2>4. Kept /\ fw'.pc = label /\ fw'.calm = fw.calm BY <2>3 DEF FwTypeOK, Kept
  <2>5. fwFlash' = fwFlash /\ fwRam' = fwRam BY DEF verify
  <2>6. FwTypeOK' BY <1>3, <2>2, <2>3, <2>5, BudgetType DEF FwTypeOK, Pcs
  <2>7. \A p \in 1..Pieces : Content("app")[p] = fwFlash[fw.base + p] /\ ImageOf("app")[p] = Piece(fw.img, "app", p)
    BY DEF Content, ImageOf, CellOf
  <2>8. label = "success" => \A p \in 1..Pieces : fwFlash'[fw.base + p] = Piece(fw.img, "app", p)
    BY <2>1, <2>5, <2>7
  <2>9. label = "failed" /\ fw.calm => fw.base # 0
    <3> SUFFICES ASSUME fw.calm, fw.base = 0 PROVE Content("app") = ImageOf("app")
      BY <2>1
    <3>1. fw.hurt = {} /\ \A p \in 1..Pieces : FlashWritten(p) BY <1>1 DEF EfcInv
    <3>2. \A p \in 1..Pieces : fwFlash[CellOf("app", p)] = Piece(fw.img, "app", p) BY <3>1 DEF FlashWritten, CellOf
    <3> QED BY <3>2 DEF Content, ImageOf
  <2> QED BY <1>1, <2>1, <2>4, <2>6, <2>8, <2>9, OutcomeStep
<1> QED BY <1>2, <1>3 DEF verify

LEMMA UploadStep == ASSUME FwIInv, upload PROVE FwIInv'
<1> USE DEF FwIInv
<1> DEFINE label == IF fw.i = Pieces THEN "stat" ELSE "upload"
<1>1. /\ fw.tool = "dice" /\ fw.pc = "upload" /\ fw.tool \in FwTools /\ fw.i \in 1..Pieces /\ fw.img \in Images
      /\ fw.calm \in BOOLEAN /\ fw.deaf \in BOOLEAN /\ fwFlash' = fwFlash /\ fwRam \in [1..Pieces -> Values] /\ fw.i \in Nat
  BY DEF upload, Is, FwTypeOK, DiceInv, RunInv
<1>2. {"stat", "upload"} \subseteq PcsOf(fw.tool) BY <1>1 DEF PcsOf
<1>3. {"stat", "upload"} \subseteq Pcs BY <1>1, <1>2, ToolPcs
<1>4. CASE FwFault /\ Disturbed("failed") /\ UNCHANGED fwRam
  BY <1>1, <1>4, FailedStep
<1>5. ASSUME FwFault \/ NoFault, NEW calm \in BOOLEAN, NEW deaf \in BOOLEAN,
             fw' = [fw EXCEPT !.i = fw.i + 1, !.pc = label, !.calm = calm, !.deaf = deaf],
             calm => fw.calm /\ (deaf = fw.deaf), fwRam' \in [1..Pieces -> Values], ~deaf => ~fw.deaf,
             ~deaf => \A p \in 1..Pieces : p # fw.i => fwRam'[p] = fwRam[p],
             ~deaf => fwRam'[fw.i] \in {Piece(fw.img, "app", fw.i)} \cup (IF calm THEN {} ELSE {Junk})
      PROVE  FwIInv'
  <2>1. label \in Pcs /\ label \in {"stat", "upload"} BY <1>3
  <2>3. label = IF fw.i = Pieces THEN "stat" ELSE "upload" OBVIOUS
  <2>2. fw' = [fw EXCEPT !.i = fw.i + 1, !.pc = label, !.calm = calm, !.deaf = deaf] BY <1>5
  <2> HIDE DEF label
  <2>4. Kept /\ fw'.pc = label /\ fw'.i = fw.i + 1 /\ fw'.calm = calm /\ fw'.deaf = deaf
    BY <2>2 DEF FwTypeOK, Kept
  <2>5. FwTypeOK'
    <3>1. fwBudget' \in [runs : Nat, faults : Nat] BY <1>5, BudgetType
    <3>3. fw.i + 1 \in Nat BY <1>1
    <3> QED BY <1>1, <1>5, <2>1, <2>2, <3>1, <3>3, ZenonT(40) DEF FwTypeOK, Pcs
  <2>6. RunInv' BY <1>1, <1>2, <2>1, <2>4 DEF RunInv, Kept
  <2>7. DiceInv'
    <3>0. calm => ~deaf BY <1>1, <1>5 DEF DiceInv
    <3>1. ASSUME ~deaf, NEW p \in 1..Pieces, p < fw.i + 1
          PROVE  fwRam'[p] \in {Piece(fw.img, "app", p)} \cup (IF calm THEN {} ELSE {Junk})
      <4>1. CASE p = fw.i BY <1>5, <3>1, <4>1
      <4>2. CASE p # fw.i
        <5>1. p < fw.i BY <1>1, <3>1, <4>2
        <5>2. fwRam[p] \in {Piece(fw.img, "app", p)} \cup (IF fw.calm THEN {} ELSE {Junk}) BY <1>1, <1>5, <3>1, <5>1 DEF DiceInv
        <5>3. fwRam'[p] = fwRam[p] BY <1>5, <3>1, <4>2
        <5> QED BY <1>1, <1>5, <5>2, <5>3
      <4> QED BY <4>1, <4>2
    <3>2. CASE label = "stat"
      <4>1. fw.i = Pieces BY <2>3, <3>2
      <4>2. \A p \in 1..Pieces : p < fw.i + 1 BY <4>1, Sizes
      <4> QED BY <2>4, <3>0, <3>1, <3>2, <4>2 DEF DiceInv, Kept
    <3>3. CASE label = "upload"
      <4>1. fw.i + 1 \in 1..Pieces BY <1>1, <2>3, <3>3, Sizes
      <4> QED BY <2>4, <3>0, <3>1, <3>3, <4>1 DEF DiceInv, Kept
    <3> QED BY <2>1, <3>2, <3>3
  <2>8. BebobInv' /\ EfcInv' BY <1>1, <2>4 DEF BebobInv, EfcInv, Efc, Kept
  <2>9. UpdateIsWhole' BY <2>1, <2>4 DEF UpdateIsWhole, FlashIsImage, RetrySucceeds
  <2> QED BY <2>5, <2>6, <2>7, <2>8, <2>9
<1>6. CASE /\ fwRam' = [fwRam EXCEPT ![fw.i] = Piece(fw.img, "app", fw.i)] /\ NoFault
           /\ fw' = [fw EXCEPT !.i = @ + 1, !.pc = label, !.calm = @ /\ TRUE]
  <2>1. Piece(fw.img, "app", fw.i) \in Values BY <1>1, ValuesIn
  <2> HIDE DEF label
  <2>2. fw' = [fw EXCEPT !.i = fw.i + 1, !.pc = label, !.calm = fw.calm, !.deaf = fw.deaf] BY <1>1, <1>6 DEF FwTypeOK
  <2> QED BY <1>1, <1>5, <1>6, <2>1, <2>2
<1>7. CASE /\ fwRam' = [fwRam EXCEPT ![fw.i] = Junk]
           /\ fw' = [fw EXCEPT !.i = @ + 1, !.pc = label, !.calm = @ /\ FALSE] /\ FwFault
  <2> HIDE DEF label
  <2>1. fw' = [fw EXCEPT !.i = fw.i + 1, !.pc = label, !.calm = FALSE, !.deaf = fw.deaf] BY <1>1, <1>7 DEF FwTypeOK
  <2>2. FALSE \in BOOLEAN OBVIOUS
  <2> QED BY <1>1, <1>5, <1>7, <2>1, <2>2, ValuesIn
<1>8. CASE /\ \E p \in 1..Pieces : \/ fwRam' = [fwRam EXCEPT ![p] = Piece(fw.img, "app", fw.i)]
                                  \/ fwRam' = [fwRam EXCEPT ![fw.i] = fwRam[p]]
           /\ fw' = [[fw EXCEPT !.i = @ + 1, !.pc = label, !.calm = @ /\ FALSE] EXCEPT !.deaf = TRUE] /\ FwFault
  <2>1. Piece(fw.img, "app", fw.i) \in Values BY <1>1, ValuesIn
  <2>2. fwRam' \in [1..Pieces -> Values] BY <1>1, <1>8, <2>1
  <2> HIDE DEF label
  <2>3. fw' = [fw EXCEPT !.i = fw.i + 1, !.pc = label, !.calm = FALSE, !.deaf = TRUE] BY <1>1, <1>8 DEF FwTypeOK
  <2>4. FALSE \in BOOLEAN /\ TRUE \in BOOLEAN OBVIOUS
  <2> QED BY <1>5, <1>8, <2>2, <2>3, <2>4
<1> QED BY <1>4, <1>6, <1>7, <1>8 DEF upload

LEMMA StatStep == ASSUME FwIInv, upload_stat PROVE FwIInv'
<1> USE DEF FwIInv
<1>1. fw.tool = "dice" /\ fw.pc = "stat" /\ fw.tool \in FwTools /\ fw.calm \in BOOLEAN BY DEF upload_stat, Is, FwTypeOK
<1> DEFINE Sent == {fwRam[p] : p \in 1..Pieces}
           File == {Piece(fw.img, "app", p) : p \in 1..Pieces}
           label == IF Sent = File THEN "confirm" ELSE "failed"
<1>2. CASE FwFault /\ Disturbed("failed")
  BY <1>1, <1>2, FailedStep DEF upload_stat
<1>3. CASE To(label) /\ NoFault
  <2>1. fwFlash' = fwFlash /\ fwRam' = fwRam BY DEF upload_stat
  <2>2. ~fw.deaf => \A p \in 1..Pieces : fwRam[p] \in {Piece(fw.img, "app", p)} \cup (IF fw.calm THEN {} ELSE {Junk})
    BY <1>1 DEF DiceInv
  <2>3. Sent = File /\ ~fw.deaf => \A p \in 1..Pieces : fwRam[p] = Piece(fw.img, "app", p)
    <3>1. Junk \notin File BY PieceApart
    <3> QED BY <2>2, <3>1
  <2>4. fw.calm => Sent = File
    <3>1. fw.calm => ~fw.deaf BY <1>1 DEF DiceInv
    <3> QED BY <2>2, <3>1
  <2>5. (label = "confirm" /\ Sent = File) \/ (label = "failed" /\ Sent # File) OBVIOUS
  <2>6. label \in Pcs
    <3>1. "confirm" \in PcsOf(fw.tool) BY <1>1 DEF PcsOf
    <3> QED BY <1>1, <2>5, <3>1, ToolPcs, OutcomePcs DEF Outcomes
  <2> HIDE DEF label
  <2>7. Kept /\ fw'.pc = label /\ fw'.calm = fw.calm /\ fw'.deaf = fw.deaf BY <1>3, ToFields
  <2>8. FwTypeOK' BY <1>3, <2>1, <2>6, MoveType
  <2>9. CASE label = "failed"
    BY <1>1, <2>4, <2>5, <2>7, <2>8, <2>9, OutcomeStep
  <2>10. CASE label = "confirm"
    <3>1. RunInv' BY <1>1, <2>7, <2>10 DEF RunInv, Kept, PcsOf
    <3>2. DiceInv' BY <2>1, <2>3, <2>5, <2>7, <2>10 DEF DiceInv, Kept
    <3>3. BebobInv' /\ EfcInv' BY <1>1, <2>7 DEF BebobInv, EfcInv, Efc, Kept
    <3>4. UpdateIsWhole' BY <2>7, <2>10 DEF UpdateIsWhole, FlashIsImage, RetrySucceeds
    <3> QED BY <2>8, <3>1, <3>2, <3>3, <3>4
  <2> QED BY <2>5, <2>9, <2>10
<1> QED BY <1>2, <1>3 DEF upload_stat

LEMMA ConfirmStep == ASSUME FwIInv, confirm PROVE FwIInv'
<1> USE DEF FwIInv
<1>1. /\ fw.tool = "dice" /\ fw.pc = "confirm" /\ fw.tool \in FwTools /\ NoFault /\ fwFlash' = fwFlash /\ fwRam' = fwRam
  BY DEF confirm, Is, FwTypeOK
<1>2. CASE To("refused") BY <1>1, <1>2, RefusedStep
<1>3. CASE To("delete")
  <2>1. Kept /\ fw'.pc = "delete" /\ fw'.deaf = fw.deaf /\ "delete" \in PcsOf(fw.tool) BY <1>1, <1>3, ToFields DEF PcsOf
  <2>2. FwTypeOK' BY <1>1, <1>3, <2>1, ToolPcs, MoveType
  <2>3. RunInv' BY <1>1, <2>1 DEF RunInv, Kept
  <2>4. DiceInv' BY <1>1, <2>1 DEF DiceInv, Kept
  <2>5. BebobInv' /\ EfcInv' BY <1>1, <2>1 DEF BebobInv, EfcInv, Efc, Kept
  <2>6. UpdateIsWhole' BY <2>1 DEF UpdateIsWhole, FlashIsImage, RetrySucceeds
  <2> QED BY <2>2, <2>3, <2>4, <2>5, <2>6
<1> QED BY <1>2, <1>3 DEF confirm

LEMMA DiceCells ==
  ASSUME FwTypeOK, RunInv, fw.tool = "dice"
  PROVE  fw.base = 0 /\ ObjectCells("app") = 1..Pieces /\ 1..Pieces \subseteq FwCells
<1>1. fw.base = 0 BY DEF RunInv
<1>2. \A p \in 1..Pieces : CellOf("app", p) = p BY <1>1 DEF CellOf
<1> QED BY <1>1, <1>2, Sizes DEF ObjectCells, FwCells

LEMMA DeleteStep == ASSUME FwIInv, deleteImgFL PROVE FwIInv'
<1> USE DEF FwIInv
<1>1. /\ fw.tool = "dice" /\ fw.pc = "delete" /\ fw.tool \in FwTools /\ fwRam' = fwRam
      /\ fwFlash \in [FwCells -> Values] /\ fwRam \in [1..Pieces -> Values]
  BY DEF deleteImgFL, Is, FwTypeOK
<1>2. "create" \in PcsOf(fw.tool) BY <1>1 DEF PcsOf
<1>3. "create" \in Pcs BY <1>1, <1>2, ToolPcs
<1>4. ASSUME FwTypeOK', Kept, fw'.pc = "create", fw'.deaf = fw.deaf, fw'.calm => \A p \in 1..Pieces : fwFlash'[p] = Erased
      PROVE  FwIInv'
  <2>1. RunInv' BY <1>1, <1>2, <1>4 DEF RunInv, Kept
  <2>2. DiceInv' BY <1>1, <1>4 DEF DiceInv, Kept
  <2>3. BebobInv' /\ EfcInv' BY <1>1, <1>4 DEF BebobInv, EfcInv, Efc, Kept
  <2>4. UpdateIsWhole' BY <1>4 DEF UpdateIsWhole, FlashIsImage, RetrySucceeds
  <2> QED BY <1>4, <2>1, <2>2, <2>3, <2>4
<1>5. CASE /\ fwFlash' = [c \in FwCells |-> IF c \in ObjectCells("app") THEN Erased ELSE fwFlash[c]]
           /\ To("create") /\ NoFault
  <2>1. Kept /\ fw'.pc = "create" /\ fw'.deaf = fw.deaf BY <1>5, ToFields
  <2>2. fwFlash' \in [FwCells -> Values] BY <1>1, <1>5, ValuesIn
  <2>3. fwBudget' \in [runs : Nat, faults : Nat] BY <1>5, BudgetType
  <2>4. FwTypeOK' BY <1>1, <1>3, <1>5, <2>2, <2>3 DEF FwTypeOK, To, Pcs
  <2>5. \A p \in 1..Pieces : fwFlash'[p] = Erased BY <1>1, <1>5, DiceCells
  <2> QED BY <1>4, <2>1, <2>4, <2>5
<1>6. CASE FwFault /\ Disturbed("create") /\ UNCHANGED fwFlash
  <2>1. Kept /\ fw'.pc = "create" /\ fw'.calm = FALSE /\ fw'.deaf = fw.deaf BY <1>6, DisturbedFields
  <2>2. FwTypeOK' BY <1>1, <1>3, <1>6, MoveType
  <2> QED BY <1>4, <2>1, <2>2
<1> QED BY <1>5, <1>6 DEF deleteImgFL

LEMMA CreateStep == ASSUME FwIInv, create_image PROVE FwIInv'
<1> USE DEF FwIInv
<1>1. /\ fw.tool = "dice" /\ fw.pc = "create" /\ fwRam' = fwRam /\ fw.calm \in BOOLEAN
      /\ fwFlash \in [FwCells -> Values] /\ fwRam \in [1..Pieces -> Values]
  BY DEF create_image, Is, FwTypeOK
<1>2. fw.base = 0 /\ ObjectCells("app") = 1..Pieces /\ 1..Pieces \subseteq FwCells BY <1>1, DiceCells
<1>3. ~fw.deaf => \A p \in 1..Pieces : fwRam[p] = Piece(fw.img, "app", p) BY <1>1 DEF DiceInv
<1>4. {"success", "failed"} \subseteq Pcs BY OutcomePcs DEF Outcomes
<1>5. CASE /\ fwFlash' = [c \in FwCells |-> IF c \in ObjectCells("app") THEN fwRam[c] ELSE fwFlash[c]]
           /\ To("success") /\ NoFault
  <2>1. Kept /\ fw'.pc = "success" /\ fw'.deaf = fw.deaf BY <1>5, ToFields
  <2>2. fwFlash' \in [FwCells -> Values] BY <1>1, <1>2, <1>5
  <2>3. fwBudget' \in [runs : Nat, faults : Nat] BY <1>5, BudgetType
  <2>4. FwTypeOK' BY <1>1, <1>4, <1>5, <2>2, <2>3 DEF FwTypeOK, To, Pcs
  <2>5. ~fw.deaf => \A p \in 1..Pieces : fwFlash'[p] = Piece(fw.img, "app", p) BY <1>2, <1>3, <1>5
  <2>6. \A p \in 1..Pieces : fw.base + p = p BY <1>2
  <2> QED BY <1>1, <2>1, <2>4, <2>5, <2>6, OutcomeStep
<1>6. CASE /\ \E c \in ObjectCells("app") : fwFlash[c] # Erased
           /\ To("failed") /\ NoFault /\ UNCHANGED fwFlash
  <2>1. Kept /\ fw'.pc = "failed" /\ fw'.calm = fw.calm BY <1>6, ToFields
  <2>2. FwTypeOK' BY <1>1, <1>4, <1>6, MoveType
  <2>3. ~fw.calm BY <1>1, <1>2, <1>6 DEF DiceInv
  <2> QED BY <1>1, <2>1, <2>2, <2>3, OutcomeStep
<1>7. CASE Fails
  BY <1>1, <1>7, FailedStep DEF Fails
<1>8. CASE /\ FwFault /\ Deaf("success")
           /\ \/ UNCHANGED fwFlash
              \/ /\ \A c \in ObjectCells("app") : fwFlash[c] = Erased
                 /\ fwFlash' = [c \in FwCells |-> IF c \in ObjectCells("app") THEN Junk ELSE fwFlash[c]]
  <2>1. Kept /\ fw'.pc = "success" /\ fw'.calm = FALSE /\ fw'.deaf = TRUE BY <1>8, DeafFields
  <2>2. fwFlash' \in [FwCells -> Values] BY <1>1, <1>8, ValuesIn
  <2>3. fwBudget' \in [runs : Nat, faults : Nat] BY <1>8, BudgetType
  <2>4. FwTypeOK' BY <1>1, <1>4, <1>8, <2>2, <2>3 DEF FwTypeOK, Deaf, Pcs
  <2> QED BY <1>1, <2>1, <2>4, OutcomeStep
<1> QED BY <1>5, <1>6, <1>7, <1>8 DEF create_image

\* Every step of a run.
LEMMA FwStep ==
  ASSUME FwIInv, [FwNext]_fwVars
  PROVE  FwIInv'
<1>1. CASE begin BY <1>1, BeginStep
<1>2. CASE checkDeviceCompatibility BY <1>2, CheckStep
<1>3. CASE startBootloaderCmd \/ waitForBusReset \/ cacheInfoRegisters BY <1>3, BootActions
<1>4. CASE download_start BY <1>4, StartStep
<1>5. CASE download_block BY <1>5, BlockStep
<1>6. CASE download_blocks_end BY <1>6, BlocksEndStep
<1>7. CASE download_end BY <1>7, EndStep
<1>8. CASE startApplicationCmd BY <1>8, ApplicationStep
<1>9. CASE lockFlash BY <1>9, LockStep
<1>10. CASE eraseFlashBlocks BY <1>10, EraseStep
<1>11. CASE writeFlash BY <1>11, WriteStep
<1>12. CASE unlockFlash BY <1>12, UnlockStep
<1>13. CASE verify BY <1>13, VerifyStep
<1>14. CASE upload BY <1>14, UploadStep
<1>15. CASE upload_stat BY <1>15, StatStep
<1>16. CASE confirm BY <1>16, ConfirmStep
<1>17. CASE deleteImgFL BY <1>17, DeleteStep
<1>18. CASE create_image BY <1>18, CreateStep
<1>19. CASE UNCHANGED fwVars
  BY <1>19 DEF fwVars, FwIInv, FwTypeOK, RunInv, BebobInv, EfcInv, DiceInv, UpdateIsWhole, FlashIsImage, RetrySucceeds,
               Whole, ImageOf, CellOf, Objects, FlashWritten, FwCells
<1> QED BY <1>1, <1>2, <1>3, <1>4, <1>5, <1>6, <1>7, <1>8, <1>9, <1>10, <1>11, <1>12, <1>13, <1>14, <1>15, <1>16,
           <1>17, <1>18, <1>19 DEF FwNext

(***************************************************************************)
(* The theorems.                                                           *)
(***************************************************************************)
\* What each of the four tools relies on at each of its steps holds throughout: the
\* first object of a BeBoB device stays in place while the second one is sent, the
\* erase and write loops of the Fireworks tool have done what their counters say unless
\* a read of this run stalled, and the buffer of a DICE device holds the file once its
\* checksum was compared unless a register write of this run was lost.
THEOREM AlwaysFwIInv == FwSpec => []FwIInv
<1>1. FwIInv /\ [FwNext]_fwVars => FwIInv' BY FwStep
<1> QED BY <1>1, FwInitIInv, PTL DEF FwSpec

\* A run that reports success has left the file's objects in the flash, whatever failed
\* before, unless a call of this very run failed whose result the code drops; and a run
\* that nothing disturbs never fails, whatever earlier ones left behind, unnoticed
\* failures included: for images and erase blocks of every size and any number of runs
\* and faults.
THEOREM AlwaysUpdateIsWhole == FwSpec => []UpdateIsWhole
<1>1. FwIInv => UpdateIsWhole BY DEF FwIInv
<1> QED BY <1>1, AlwaysFwIInv, PTL
=============================================================================
