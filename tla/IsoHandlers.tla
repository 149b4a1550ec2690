----------------------------- MODULE IsoHandlers -----------------------------
(***************************************************************************)
(* The isochronous handlers and the threads that share them.  The client   *)
(* registers and unregisters streams, which creates and deletes handlers,  *)
(* and asks for handlers to be enabled and disabled; the thread of a task  *)
(* does that when it rebuilds its shadow map, polls the handlers in the    *)
(* map and finds dead ones; the bus reset thread empties the maps, walks   *)
(* the handlers and has the maps rebuilt.  The list of handlers has no     *)
(* lock: a task is only told, with a counter and a semaphore, to look      *)
(* again.                                                                  *)
(*                                                                         *)
(* A step that uses a deleted handler, one without a client, or an index   *)
(* beyond the list or the map, is undefined behaviour of the program: it   *)
(* is recorded in undefined, and the behaviour ends there.                 *)
(***************************************************************************)
EXTENDS Integers, Sequences, SequencesExt, FiniteSets

CONSTANTS
  Sessions,        \* what to look at: the types of the streams 1..n; bounds on the calls of the
                   \* client and on the faults: bus resets, silent handlers, raw1394 calls that
                   \* fail in enable, signals, and activity signalled for another reason
  IsoTasks,        \* the tasks whose threads run: of {"Receive", "Transmit"}
  MaxHandlers,     \* bound: handlers created in a session
  MapSize,         \* ISOHANDLERMANAGER_MAX_ISO_HANDLERS_PER_PORT
  LateInit         \* whether the client may call before IsoTask::Init has run

ASSUME IsoHandlersAssumption ==
  /\ \A f \in Sessions : /\ f.types \in Seq({"Receive", "Transmit"}) /\ Len(f.types) <= MaxHandlers
                        /\ f.ops \in Nat /\ f.faults \in Nat
  /\ IsoTasks \subseteq {"Receive", "Transmit"}
  /\ {MaxHandlers, MapSize} \subseteq Nat \ {0}
  /\ LateInit \in BOOLEAN

VARIABLES
  types,        \* the type of each stream
  m_IsoHandlers,
  hd,           \* the handlers by number, deleted ones included
  tsk,          \* the two IsoTasks
  cli,          \* the client thread
  rst,          \* the bus reset thread
  budget,       \* what the bounds have left
  undefined     \* what made the behaviour undefined; "no" as long as it is not

ihmVars == <<types, m_IsoHandlers, hd, tsk, cli, rst, budget, undefined>>

NoClient == 0
NoHandler == 0
Ids == 1..MaxHandlers
Unborn == [type |-> "none", client |-> NoClient, state |-> "Stopped", next |-> "Stopped",
           handle |-> FALSE, lock |-> "free", alive |-> FALSE, quiet |-> TRUE]
Fresh == [req |-> 0, sem |-> 0, map |-> <<>>, in_busreset |-> FALSE, running |-> FALSE,
          pc |-> "init", i |-> 1, max |-> 0, new |-> <<>>, h |-> NoHandler, died |-> FALSE, ret |-> "none"]

Idle == [pc |-> "idle", op |-> "none", s |-> NoClient, h |-> NoHandler]

Registered(s) == [Unborn EXCEPT !.type = types[s], !.client = s, !.alive = TRUE]

\* A session begins with no stream registered, or when all have been for a while.
IhmInit ==
  /\ \E f \in Sessions : types = f.types /\ budget = [ops |-> f.ops, faults |-> f.faults]
  /\ \/ /\ m_IsoHandlers = <<>> /\ hd = [k \in Ids |-> Unborn]
        /\ tsk = [t \in IsoTasks |-> Fresh]
     \/ /\ m_IsoHandlers = [s \in DOMAIN types |-> s]
        /\ hd = [k \in Ids |-> IF k \in DOMAIN types THEN Registered(k) ELSE Unborn]
        /\ tsk = [t \in IsoTasks |-> [Fresh EXCEPT !.pc = "loop", !.running = TRUE]]
  /\ cli = Idle
  /\ rst = [pc |-> "idle", left |-> <<>>, i |-> 1, max |-> 0]
  /\ undefined = "no"

Spend(what) == budget[what] > 0 /\ budget' = [budget EXCEPT ![what] = @ - 1]
Undefined(why) == undefined' = why
Defined == UNCHANGED undefined

\* requestShadowMapUpdate of the tasks in ts: INC_ATOMIC, then signalActivity.
requestShadowMapUpdate(ts) ==
  [t \in IsoTasks |-> IF t \in ts THEN [tsk[t] EXCEPT !.req = @ + 1, !.sem = @ + 1] ELSE tsk[t]]

HandlerOf(s) == {k \in ToSet(m_IsoHandlers) : hd[k].client = s}
Unused == {i \in DOMAIN m_IsoHandlers : hd[m_IsoHandlers[i]].client = NoClient}

(***************************************************************************)
(* The client thread.                                                      *)
(***************************************************************************)
ClientAt(pc) == cli.pc = pc
ClientTo(pc) == cli' = [cli EXCEPT !.pc = pc]
Ready == LateInit \/ \A t \in IsoTasks : tsk[t].pc # "init"
Calls(pc, op, s) == /\ Ready /\ ClientAt("idle") /\ Spend("ops")
                    /\ cli' = [pc |-> pc, op |-> op, s |-> s, h |-> NoHandler]

\* A stream that has a handler is refused.
registerStream(s) ==
  /\ HandlerOf(s) = {}
  /\ Calls("prune", "register", s)
  /\ Defined /\ UNCHANGED <<m_IsoHandlers, hd, tsk>>

\* ~StreamProcessor.  The client destroys a stream that was never started, or that
\* is back in Stopped, which packetsStopped tells it; or whose start has failed.
unregisterStream(s) ==
  \E k \in HandlerOf(s) :
    /\ hd[k].quiet
    /\ Calls("prune", "unregister", s)
    /\ hd' = [hd EXCEPT ![k].client = NoClient]
    /\ Defined /\ UNCHANGED <<m_IsoHandlers, tsk>>

\* One handler without a client after the other: unregisterHandler, then delete.
pruneHandlers ==
  /\ ClientAt("prune")
  /\ \/ /\ Unused = {}
        /\ cli' = IF cli.op = "register" THEN [cli EXCEPT !.pc = "create"] ELSE Idle
        /\ UNCHANGED <<m_IsoHandlers, tsk>>
     \/ \E i \in Unused :
          /\ \A j \in Unused : i <= j
          /\ m_IsoHandlers' = RemoveAt(m_IsoHandlers, i)
          /\ tsk' = requestShadowMapUpdate(IsoTasks)
          /\ cli' = [cli EXCEPT !.pc = "lock", !.h = m_IsoHandlers[i]]
  /\ Defined /\ UNCHANGED <<hd, budget>>

\* ~IsoHandler waits for a disable() under way, and gives the lock back at once.
delete_lock ==
  /\ ClientAt("lock") /\ hd[cli.h].lock = "free"
  /\ ClientTo("delete")
  /\ Defined /\ UNCHANGED <<m_IsoHandlers, hd, tsk, budget>>

\* A handler that still runs is disabled, which calls a client it does not have.
delete ==
  /\ ClientAt("delete")
  /\ IF (hd[cli.h].handle /\ hd[cli.h].state = "Running") \/ hd[cli.h].lock # "free"
     THEN Undefined("DeletedInUse") ELSE Defined
  /\ hd' = [hd EXCEPT ![cli.h].alive = FALSE]
  /\ cli' = [cli EXCEPT !.pc = "prune", !.h = NoHandler]
  /\ UNCHANGED <<m_IsoHandlers, tsk, budget>>

\* The packets of the stream may be too large; otherwise registerHandler.
create ==
  /\ ClientAt("create")
  /\ \/ UNCHANGED <<m_IsoHandlers, hd, tsk>>
     \/ \E k \in Ids :
          /\ hd[k] = Unborn /\ \A j \in 1..(k - 1) : hd[j] # Unborn
          /\ hd' = [hd EXCEPT ![k] = Registered(cli.s)]
          /\ m_IsoHandlers' = Append(m_IsoHandlers, k)
          /\ tsk' = requestShadowMapUpdate(IsoTasks)
  /\ cli' = Idle
  /\ Defined /\ UNCHANGED budget

\* requestEnable and requestDisable change what updateState is to do.
startHandlerForStream(s) ==
  \E k \in HandlerOf(s) :
    /\ hd[k].state = "Stopped"
    /\ Calls("request", "start", s)
    /\ hd' = [hd EXCEPT ![k].next = "Running", ![k].quiet = FALSE]
    /\ Defined /\ UNCHANGED <<m_IsoHandlers, tsk>>

requestDisable(k) == IF hd[k].state = "Running" THEN [hd EXCEPT ![k].next = "Stopped"] ELSE hd

stopHandlerForStream(s) ==
  \E k \in HandlerOf(s) :
    /\ Calls("request", "stop", s)
    /\ hd' = requestDisable(k)
    /\ Defined /\ UNCHANGED <<m_IsoHandlers, tsk>>

request_after ==
  /\ ClientAt("request")
  /\ tsk' = requestShadowMapUpdate({types[cli.s]})
  /\ cli' = Idle
  /\ Defined /\ UNCHANGED <<m_IsoHandlers, hd, budget>>

Streams == DOMAIN types
ClientStep ==
  /\ undefined = "no"
  /\ \/ \E s \in Streams : \/ registerStream(s) \/ unregisterStream(s)
                           \/ startHandlerForStream(s) \/ stopHandlerForStream(s)
     \/ pruneHandlers \/ delete_lock \/ delete \/ create \/ request_after
  /\ UNCHANGED <<types, rst>>

(***************************************************************************)
(* The thread of task t.                                                   *)
(***************************************************************************)
At(t, pc) == tsk[t].pc = pc
Task(t, change) == tsk' = [tsk EXCEPT ![t] = [f \in DOMAIN @ |-> IF f \in DOMAIN change THEN change[f] ELSE @[f]]]
Goes(t, pc) == Task(t, [pc |-> pc])
Uses(k) == IF hd[k].alive THEN Defined ELSE Undefined("DeletedHandlerUsed")
isEnabled(k) == hd[k].state = "Running"

\* IsoTask::Init runs in the new thread, after PosixThread::Start has returned.
TaskInit(t) ==
  /\ At(t, "init")
  /\ Task(t, [req |-> 0, sem |-> 0, map |-> <<>>, running |-> TRUE, pc |-> "loop"])
  /\ Defined /\ UNCHANGED <<hd, budget>>

\* The top of Execute: an update when one is asked for, nothing when there is
\* nobody to poll, and otherwise the set-up of the poll.
task_Execute(t) ==
  /\ At(t, "loop")
  /\ \/ tsk[t].req > 0 /\ Goes(t, "update")
     \/ tsk[t].req = 0 /\ Task(t, [pc |-> IF tsk[t].map = <<>> THEN "loop" ELSE "setup"])
  /\ Defined /\ UNCHANGED <<hd, budget>>

\* During a bus reset nobody is polled.
updateShadowMap_begin(t) ==
  /\ At(t, "update")
  /\ IF tsk[t].in_busreset THEN Task(t, [pc |-> "ack", new |-> <<>>])
     ELSE Task(t, [pc |-> "scan", i |-> 1, max |-> Len(m_IsoHandlers), new |-> <<>>])
  /\ Defined /\ UNCHANGED <<hd, budget>>

\* The crude guard, the at() after it, and the handler it returned.
scan_check(t) ==
  /\ At(t, "scan")
  /\ IF tsk[t].i > tsk[t].max THEN Goes(t, "ack")
     ELSE IF tsk[t].i > Len(m_IsoHandlers) THEN Task(t, [i |-> tsk[t].i + 1]) ELSE Goes(t, "at")
  /\ Defined /\ UNCHANGED <<hd, budget>>

scan_at(t) ==
  /\ At(t, "at")
  /\ IF tsk[t].i > Len(m_IsoHandlers)
     THEN Undefined("IndexBeyondHandlers") /\ UNCHANGED tsk
     ELSE Defined /\ Task(t, [pc |-> "state", h |-> m_IsoHandlers[tsk[t].i]])
  /\ UNCHANGED <<hd, budget>>

\* enable() asserts that there is no handle; a call of raw1394 that fails leaves
\* the handle it has opened, and the request.
handler_enable(t, k) ==
  \/ /\ hd[k].handle
     /\ Undefined("EnabledWithHandle") /\ UNCHANGED <<tsk, hd, budget>>
  \/ /\ ~hd[k].handle /\ hd[k].client = NoClient
     /\ Undefined("EnabledWithoutClient") /\ UNCHANGED <<tsk, hd, budget>>
  \/ /\ ~hd[k].handle /\ hd[k].client # NoClient
     /\ \/ /\ hd' = [hd EXCEPT ![k].handle = TRUE, ![k].state = "Running", ![k].next = "Running"]
           /\ UNCHANGED budget
        \/ /\ Spend("faults")
           /\ \E opened \in BOOLEAN : hd' = [hd EXCEPT ![k].handle = opened, ![k].quiet = TRUE]
     /\ Defined /\ Goes(t, "map")

\* A handler of the other task is passed over; updateState of one's own.
updateState(t) ==
  LET k == tsk[t].h IN
  /\ At(t, "state")
  /\ \/ /\ ~hd[k].alive
        /\ Undefined("DeletedHandlerUsed") /\ UNCHANGED <<tsk, hd, budget>>
     \/ /\ hd[k].alive /\ hd[k].type # t
        /\ Defined /\ Task(t, [pc |-> "scan", i |-> tsk[t].i + 1]) /\ UNCHANGED <<hd, budget>>
     \/ /\ hd[k].alive /\ hd[k].type = t /\ hd[k].state = hd[k].next
        /\ Defined /\ Goes(t, "map") /\ UNCHANGED <<hd, budget>>
     \/ /\ hd[k].alive /\ hd[k].type = t /\ hd[k].state = "Stopped" /\ hd[k].next = "Running"
        /\ handler_enable(t, k)
     \/ /\ hd[k].alive /\ hd[k].type = t /\ hd[k].state = "Running" /\ hd[k].next = "Stopped"
        /\ Defined /\ Task(t, [pc |-> "disable", ret |-> "map"])
        /\ hd' = [hd EXCEPT ![k].lock = t] /\ UNCHANGED budget

\* disable() with the lock: the handle is destroyed, packetsStopped tells the client.
handler_disable(t) ==
  LET k == tsk[t].h IN
  /\ At(t, "disable")
  /\ IF hd[k].client = NoClient \/ ~hd[k].alive THEN Undefined("DisabledWithoutClient") ELSE Defined
  /\ hd' = [hd EXCEPT ![k].handle = FALSE, ![k].state = "Stopped", ![k].next = "Stopped", ![k].quiet = TRUE]
  /\ Goes(t, "unlock")
  /\ UNCHANGED budget

disable_unlock(t) ==
  /\ At(t, "unlock")
  /\ Uses(tsk[t].h)
  /\ hd' = [hd EXCEPT ![tsk[t].h].lock = "free"]
  /\ Goes(t, tsk[t].ret)
  /\ UNCHANGED budget

\* An enabled handler enters the map; the test for a full map comes after the write.
scan_map(t) ==
  LET k == tsk[t].h IN
  /\ At(t, "map")
  /\ IF ~hd[k].alive THEN Undefined("DeletedHandlerUsed")
     ELSE IF isEnabled(k) /\ Len(tsk[t].new) >= MapSize THEN Undefined("MapFull") ELSE Defined
  /\ Task(t, [pc |-> "scan", i |-> tsk[t].i + 1,
               new |-> IF isEnabled(k) THEN Append(tsk[t].new, k) ELSE tsk[t].new])
  /\ UNCHANGED <<hd, budget>>

\* Variant, wrong: the requests counted during the update are acknowledged with it.
ack_all(t) ==
  /\ At(t, "ack")
  /\ Task(t, [pc |-> IF tsk[t].new = <<>> THEN "loop" ELSE "setup", map |-> tsk[t].new, req |-> 0,
               i |-> 1, max |-> 0, new |-> <<>>, h |-> NoHandler, ret |-> "none"])
  /\ Defined /\ UNCHANGED <<hd, budget>>

\* The map is written in place while nobody else reads it; then the acknowledgement.
ack(t) ==
  /\ At(t, "ack")
  /\ Task(t, [pc |-> IF tsk[t].new = <<>> THEN "loop" ELSE "setup", map |-> tsk[t].new, req |-> tsk[t].req - 1,
               i |-> 1, max |-> 0, new |-> <<>>, h |-> NoHandler, ret |-> "none"])
  /\ Defined /\ UNCHANGED <<hd, budget>>

\* canIterateClient of every handler; a client may or may not be ready.
pollSetup(t) ==
  /\ At(t, "setup")
  /\ IF \A j \in ToSet(tsk[t].map) : hd[j].alive THEN Defined ELSE Undefined("DeletedHandlerUsed")
  /\ \/ Goes(t, "wait")
     \/ /\ \E j \in ToSet(tsk[t].map) : isEnabled(j) /\ hd[j].client # NoClient
        /\ Goes(t, "poll")
  /\ UNCHANGED <<hd, budget>>

\* waitForActivity: woken, interrupted, or timed out; only the last leaves the loop.
wait_activity(t) ==
  /\ At(t, "wait") /\ tsk[t].sem > 0
  /\ Task(t, [pc |-> "setup", sem |-> tsk[t].sem - 1])
  /\ Defined /\ UNCHANGED <<hd, budget>>

wait_interrupted(t) ==
  /\ At(t, "wait") /\ Spend("faults")
  /\ Goes(t, "setup")
  /\ Defined /\ UNCHANGED hd

\* Variant, wrong: the wait is begun again after a timeout.
wait_timeout_again(t) ==
  /\ At(t, "wait") /\ tsk[t].sem = 0
  /\ Goes(t, "setup")
  /\ Defined /\ UNCHANGED <<hd, budget>>

wait_timeout(t) ==
  /\ At(t, "wait") /\ tsk[t].sem = 0
  /\ Goes(t, "poll")
  /\ Defined /\ UNCHANGED <<hd, budget>>

\* poll returns, or is interrupted.
poll(t) ==
  /\ At(t, "poll")
  /\ \/ Task(t, [pc |-> "deaths", i |-> 1]) /\ UNCHANGED budget
     \/ Goes(t, "loop") /\ Spend("faults")
  /\ Defined /\ UNCHANGED hd

\* A wait or a poll that fails ends the thread.
task_error(t) ==
  /\ tsk[t].pc \in {"wait", "poll"} /\ Spend("faults")
  /\ Task(t, [pc |-> "ended", running |-> At(t, "wait") /\ tsk[t].running])
  /\ Defined /\ UNCHANGED hd

\* One handler of the map after the other: disabled, silent for two seconds, or well.
deaths(t) ==
  /\ At(t, "deaths") /\ tsk[t].i <= Len(tsk[t].map)
  /\ LET k == tsk[t].map[tsk[t].i] IN
     /\ Uses(k)
     /\ \/ Task(t, [i |-> tsk[t].i + 1, died |-> tsk[t].died \/ ~isEnabled(k)]) /\ UNCHANGED <<hd, budget>>
        \/ /\ isEnabled(k) /\ Spend("faults")
           /\ Task(t, [pc |-> "disable", ret |-> "notify", h |-> k])
           /\ hd' = [hd EXCEPT ![k].lock = t]

\* The rest of notifyOfDeath: handlerDied of the client.
notifyOfDeath(t) ==
  LET k == tsk[t].h IN
  /\ At(t, "notify")
  /\ IF hd[k].alive /\ hd[k].client # NoClient THEN Defined ELSE Undefined("DeathWithoutClient")
  /\ Task(t, [pc |-> "deaths", i |-> tsk[t].i + 1, died |-> TRUE])
  /\ UNCHANGED <<hd, budget>>

\* After a death nobody is iterated, and the task counts as not running.
deaths_end(t) ==
  /\ At(t, "deaths") /\ tsk[t].i > Len(tsk[t].map)
  /\ Task(t, [pc |-> IF tsk[t].died THEN "loop" ELSE "iterate", running |-> tsk[t].running /\ ~tsk[t].died,
               died |-> FALSE, i |-> 1, h |-> NoHandler, ret |-> "none"])
  /\ Defined /\ UNCHANGED <<hd, budget>>

iterate(t) ==
  /\ At(t, "iterate")
  /\ IF \A j \in ToSet(tsk[t].map) : hd[j].alive /\ (isEnabled(j) => hd[j].handle)
     THEN Defined ELSE Undefined("DeletedHandlerUsed")
  /\ Goes(t, "loop")
  /\ UNCHANGED <<hd, budget>>

TaskStep(t) ==
  /\ undefined = "no"
  /\ \/ TaskInit(t) \/ task_Execute(t) \/ updateShadowMap_begin(t) \/ scan_check(t) \/ scan_at(t)
     \/ updateState(t) \/ handler_disable(t) \/ disable_unlock(t) \/ scan_map(t) \/ ack(t)
     \/ pollSetup(t) \/ wait_activity(t) \/ wait_interrupted(t) \/ wait_timeout(t) \/ poll(t) \/ task_error(t)
     \/ deaths(t) \/ notifyOfDeath(t) \/ deaths_end(t) \/ iterate(t)
  /\ UNCHANGED <<types, m_IsoHandlers, cli, rst>>

(***************************************************************************)
(* The bus reset thread: one task after the other.                         *)
(***************************************************************************)
manager_handleBusReset ==
  /\ rst.pc = "idle" /\ Ready /\ Spend("faults")
  /\ rst' = [rst EXCEPT !.pc = "begin", !.left = <<"Transmit", "Receive">>]
  /\ Defined /\ UNCHANGED tsk

Runs(t) == t \in IsoTasks /\ tsk[t].running
busReset_begin ==
  /\ rst.pc = "begin"
  /\ \/ rst.left = <<>> /\ rst' = [rst EXCEPT !.pc = "idle"] /\ UNCHANGED tsk
     \/ /\ rst.left # <<>> /\ ~Runs(rst.left[1])
        /\ rst' = [rst EXCEPT !.left = Tail(@)] /\ UNCHANGED tsk
     \/ /\ rst.left # <<>> /\ Runs(rst.left[1])
        /\ tsk' = [requestShadowMapUpdate({rst.left[1]}) EXCEPT ![rst.left[1]].in_busreset = TRUE]
        /\ rst' = [rst EXCEPT !.pc = "walk", !.i = 1, !.max = Len(m_IsoHandlers)]
  /\ Defined /\ UNCHANGED budget

\* handleBusReset of a handler calls its client, whether it has one or not.
busReset_walk ==
  /\ rst.pc = "walk" /\ rst.i <= rst.max
  /\ IF rst.i > Len(m_IsoHandlers) THEN Undefined("IndexBeyondHandlers")
     ELSE LET k == m_IsoHandlers[rst.i] IN
          IF hd[k].alive /\ (hd[k].type = rst.left[1] => hd[k].client # NoClient)
          THEN Defined ELSE Undefined("BusResetWithoutClient")
  /\ rst' = [rst EXCEPT !.i = @ + 1]
  /\ UNCHANGED <<tsk, budget>>

busReset_end ==
  /\ rst.pc = "walk" /\ rst.i > rst.max
  /\ tsk' = [tsk EXCEPT ![rst.left[1]].in_busreset = FALSE]
  /\ rst' = [rst EXCEPT !.pc = "request", !.i = 1, !.max = 0]
  /\ Defined /\ UNCHANGED budget

busReset_request ==
  /\ rst.pc = "request"
  /\ tsk' = requestShadowMapUpdate({rst.left[1]})
  /\ rst' = [rst EXCEPT !.pc = "begin", !.left = Tail(@)]
  /\ Defined /\ UNCHANGED budget

ResetStep ==
  /\ undefined = "no"
  /\ manager_handleBusReset \/ busReset_begin \/ busReset_walk \/ busReset_end \/ busReset_request
  /\ UNCHANGED <<types, m_IsoHandlers, hd, cli>>

\* signalActivityTransmit and signalActivityReceive: the client has room or data.
signalActivity ==
  /\ undefined = "no" /\ Ready /\ Spend("faults")
  /\ \E t \in IsoTasks : Task(t, [sem |-> tsk[t].sem + 1])
  /\ UNCHANGED <<types, m_IsoHandlers, hd, cli, rst, undefined>>

IhmNext == ClientStep \/ (\E t \in IsoTasks : TaskStep(t)) \/ ResetStep \/ signalActivity

IhmSpec == IhmInit /\ [][IhmNext]_ihmVars

\* The threads of the tasks keep running.
IhmFair == \A t \in IsoTasks : WF_ihmVars(TaskStep(t))

(***************************************************************************)
(* Properties.                                                             *)
(***************************************************************************)
\* A task whose requests are all served polls what is enabled: its map holds the
\* handlers of its type that run, and no handler that was deleted.  A request that
\* was counted but served too early, an acknowledgement of more than one request,
\* or a bus reset that leaves the map empty would starve a stream for good
\* (IsoHandlerManager.cpp:97-205, 239-243).
MapIsCurrent ==
  undefined = "no" =>
    \A t \in IsoTasks :
      (At(t, "loop") /\ tsk[t].req = 0 /\ cli.pc # "request" /\ rst.pc \in {"idle", "begin"})
        => /\ \A k \in ToSet(m_IsoHandlers) : hd[k].type = t /\ isEnabled(k) => k \in ToSet(tsk[t].map)
           /\ \A k \in ToSet(tsk[t].map) : hd[k].alive
           /\ \A k \in ToSet(m_IsoHandlers) : hd[k].type = t /\ hd[k].state # hd[k].next => hd[k].quiet

\* A request for an update is served, whether or not a client is ever ready, unless
\* the thread has failed: the wait for activity ends, and every way through Execute
\* leads back to the test for requests (IsoHandlerManager.cpp:207-398, 400-458).
UpdateServed ==
  \A t \in IsoTasks :
    (tsk[t].req > 0) ~> (undefined # "no" \/ At(t, "ended") \/ tsk[t].req = 0)

\* No thread uses a handler that another one has deleted, or takes the client from
\* ("nobody will modify the parent data structures", IsoHandlerManager.cpp:127-129).
UsesLiveHandlers == undefined = "no"

(***************************************************************************)
(* Why the map is current: an update that is the only one asked for        *)
(* (req = 1) scans a list that does not change, and what it has passed is  *)
(* as it should be; a change of the list, or of what a handler is to do,   *)
(* counts a request, at once or (Awaited) as the next step of its thread.  *)
(***************************************************************************)
Types == {"Receive", "Transmit"}
HandlerRecord == [type : Types \cup {"none"}, client : Nat, state : {"Stopped", "Running"}, next : {"Stopped", "Running"},
                  handle : BOOLEAN, lock : Types \cup {"free"}, alive : BOOLEAN, quiet : BOOLEAN]
TaskFields == {"req", "sem", "map", "in_busreset", "running", "pc", "i", "max", "new", "h", "died", "ret"}

\* The handlers keep their shape, and so do the two counters, the map and the position of a task.
IhmTypeOK ==
  /\ types \in Seq(Types)
  /\ m_IsoHandlers \in Seq(Ids)
  /\ hd \in [Ids -> HandlerRecord]
  /\ DOMAIN tsk = IsoTasks
  /\ \A t \in IsoTasks :
       /\ DOMAIN tsk[t] = TaskFields
       /\ tsk[t].req \in Nat /\ tsk[t].map \in Seq(Ids) /\ tsk[t].new \in Seq(Ids) /\ tsk[t].i \in Nat \ {0}

\* Nobody calls before the threads have begun.
Beginning ==
  \A t \in IsoTasks : At(t, "init") => m_IsoHandlers = <<>> /\ cli.pc = "idle" /\ rst.pc = "idle"

\* The list holds each handler once, none that was deleted, and each for the type of its stream.
Listed(k) ==
  /\ hd[k].alive /\ hd[k].type # "none"
  /\ hd[k].client # NoClient => hd[k].client \in DOMAIN types /\ types[hd[k].client] = hd[k].type
ListIsSound ==
  /\ \A i \in DOMAIN m_IsoHandlers : Listed(m_IsoHandlers[i])
  /\ \A i, j \in DOMAIN m_IsoHandlers : m_IsoHandlers[i] = m_IsoHandlers[j] => i = j

\* The client has the stream it was called for, and deletes what is no longer listed.
ClientIsSound ==
  /\ DOMAIN cli = {"pc", "op", "s", "h"}
  /\ cli.pc # "idle" => cli.s \in DOMAIN types
  /\ cli.pc \in {"lock", "delete"} => cli.h \in Ids /\ \A i \in DOMAIN m_IsoHandlers : m_IsoHandlers[i] # cli.h

\* A task is in a bus reset only while the handlers are walked for it.
ResetIsSound ==
  /\ DOMAIN rst = {"pc", "left", "i", "max"} /\ rst.left \in Seq(Types)
  /\ rst.pc \in {"walk", "request"} => rst.left # <<>>
  /\ \A t \in IsoTasks : tsk[t].in_busreset => rst.pc = "walk" /\ rst.left[1] = t

\* A request for task t that is still to be counted.
Awaited(t) ==
  \/ cli.pc = "request" /\ types[cli.s] = t
  \/ rst.pc \in {"walk", "request"} /\ rst.left[1] = t

Updating(t) ==
  \/ tsk[t].pc \in {"update", "scan", "at", "state", "map", "ack"}
  \/ tsk[t].pc \in {"disable", "unlock"} /\ tsk[t].ret = "map"

\* Handler k does what it is to do, or has told its client that it cannot, ...
Settled(t, k) == hd[k].type = t /\ hd[k].state # hd[k].next => hd[k].quiet
\* ... and is in s if it runs.
Seen(t, k, s) == Settled(t, k) /\ (hd[k].type = t /\ isEnabled(k) => k \in ToSet(s))

\* Where a task may be, and that it has a request to serve while it updates the map.
TaskIsSound(t) ==
  /\ Updating(t) => tsk[t].req > 0
  /\ tsk[t].pc \in {"disable", "unlock"} => tsk[t].ret \in {"map", "notify"}
  /\ tsk[t].pc \in {"state", "map", "disable", "unlock", "notify"} => tsk[t].h \in Ids

\* With no request left, the map of task t is current.
Current(t) ==
  /\ \A i \in DOMAIN tsk[t].map : tsk[t].map[i] \in ToSet(m_IsoHandlers)
  /\ \A i \in DOMAIN m_IsoHandlers : Seen(t, m_IsoHandlers[i], tsk[t].map)

\* What the scan has behind it, when no request came in since it began.
Scanned(t) ==
  /\ \A i \in DOMAIN tsk[t].new : tsk[t].new[i] \in ToSet(m_IsoHandlers)
  /\ tsk[t].pc # "ack" => tsk[t].max = Len(m_IsoHandlers)
  /\ tsk[t].pc \in {"scan", "at"} =>
       \A i \in DOMAIN m_IsoHandlers : i < tsk[t].i => Seen(t, m_IsoHandlers[i], tsk[t].new)
  /\ tsk[t].pc \in {"state", "disable", "unlock", "map"} =>
       /\ tsk[t].i \in DOMAIN m_IsoHandlers /\ tsk[t].h = m_IsoHandlers[tsk[t].i]
       /\ \A i \in DOMAIN m_IsoHandlers : i < tsk[t].i => Seen(t, m_IsoHandlers[i], tsk[t].new) \/ m_IsoHandlers[i] = tsk[t].h
  /\ tsk[t].pc \in {"unlock", "map"} => Settled(t, tsk[t].h)
  /\ tsk[t].pc = "ack" => \A i \in DOMAIN m_IsoHandlers : Seen(t, m_IsoHandlers[i], tsk[t].new)

MapIsKept(t) ==
  /\ ~Updating(t) /\ tsk[t].req = 0 /\ ~Awaited(t) => Current(t)
  /\ Updating(t) /\ tsk[t].pc # "update" /\ tsk[t].req = 1 /\ ~Awaited(t) => Scanned(t)

IhmSound == IhmTypeOK /\ Beginning /\ ListIsSound /\ ClientIsSound /\ ResetIsSound
IhmIInv == undefined = "no" => IhmSound /\ \A t \in IsoTasks : TaskIsSound(t) /\ MapIsKept(t)
=============================================================================
