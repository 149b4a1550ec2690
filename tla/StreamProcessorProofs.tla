------------------------ MODULE StreamProcessorProofs ------------------------
(***************************************************************************)
(* Proofs about StreamProcessor, for every bound and both stream types.    *)
(***************************************************************************)
EXTENDS StreamProcessor, TLAPS

\* The range of the countdown.
LEMMA CountDown ==
  ASSUME NEW n \in 0..MaxLead, NEW c \in {1, 2}
  PROVE  Min0(n - c) \in 0..MaxLead
BY BoundsAssumption DEF BoundsAssumption, Min0

ClientType ==
  client \in [pc : ClientPcs, to : States \ {"Error"}, ret : ClientRets, lead : 0..MaxLead]

\* What the ways in which the iso thread goes on have in common.
IsoType == iso \in [pc : IsoPcs, to : States \ {"Error"}, ret : IsoRets, dropped : BOOLEAN]

LEMMA GotoType == \A pc \in IsoPcs : IsoType /\ Goto(pc) => IsoType'
BY DEF IsoType, Goto, States, IsoPcs

LEMMA UpdateType == \A ret \in IsoRets : IsoType /\ Update(ret) => IsoType'
BY DEF IsoType, Update, IsoPcs, IsoRets

LEMMA SetAndUpdateType ==
  \A to \in States \ {"Error"}, ret \in IsoRets :
     IsoType /\ SetAndUpdate(to, ret) => IsoType'
BY DEF IsoType, SetAndUpdate, IsoPcs, IsoRets

LEMMA XrunType ==
  \A ret \in IsoRets :
     IsoType /\ Xrun(ret) =>
       /\ IsoType'
       /\ m_cycle_to_switch_state' \in 0..MaxLead
       /\ UNCHANGED <<m_state, m_next_state>>
BY BoundsAssumption, SetAndUpdateType DEF Xrun, BoundsAssumption, States

LEMMA FlagsStep == TypeOK /\ [Next]_vars => Flags'
<1> SUFFICES ASSUME TypeOK, Flags, [Next]_vars PROVE Flags'
  BY DEF TypeOK
<1> USE DEF Flags, NotIso, NotClient, processor, handler, task, manager, rest
<1>1. CASE set_next_state BY <1>1, Zenon DEF set_next_state
<1>2. CASE updateState BY <1>2, Zenon DEF updateState
<1>3. CASE invalid_entry BY <1>3, Zenon DEF invalid_entry
<1>4. CASE doStop BY <1>4, Zenon DEF doStop
<1>5. CASE doWaitForRunningStream BY <1>5, Zenon DEF doWaitForRunningStream
<1>6. CASE doDryRunning BY <1>6, Zenon DEF doDryRunning
<1>7. CASE doWaitForStreamEnable BY <1>7, Zenon DEF doWaitForStreamEnable
<1>8. CASE doRunning BY <1>8, Zenon DEF doRunning
<1>9. CASE doWaitForStreamDisable BY <1>9, Zenon DEF doWaitForStreamDisable
<1>10. CASE commit_state BY <1>10, Zenon DEF commit_state
<1>11. CASE iterate BY <1>11, Zenon DEF iterate
<1>12. CASE putPacket BY <1>12, Zenon DEF putPacket
<1>13. CASE putPacket_dropped BY <1>13, Zenon DEF putPacket_dropped, Xrun
<1>14. CASE putPacket_invalid BY <1>14, Zenon DEF putPacket_invalid
<1>15. CASE putPacket_valid BY <1>15, Zenon DEF putPacket_valid
<1>16. CASE putPacket_data BY <1>16, Zenon DEF putPacket_data, Xrun
<1>17. CASE getPacket BY <1>17, Zenon DEF getPacket, Xrun
<1>18. CASE getPacket_state BY <1>18, Zenon DEF getPacket_state
<1>19. CASE getPacket_silent BY <1>19, Zenon DEF getPacket_silent
<1>20. CASE getPacket_generate BY <1>20, Zenon DEF getPacket_generate, Xrun
<1>21. CASE getPacket_payload BY <1>21, Zenon DEF getPacket_payload, Xrun
<1>22. CASE getPacket_empty BY <1>22, Zenon DEF getPacket_empty
<1>23. CASE updateShadowMap BY <1>23, Zenon DEF updateShadowMap
<1>24. CASE notifyOfDeath BY <1>24, Zenon DEF notifyOfDeath
<1>25. CASE disable BY <1>25, Zenon DEF disable
<1>26. CASE disable_next BY <1>26, Zenon DEF disable_next
<1>27. CASE packetsStopped BY <1>27, Zenon DEF packetsStopped
<1>28. CASE packetsStopped_next BY <1>28, Zenon DEF packetsStopped_next
<1>29. CASE handlerDied BY <1>29, Zenon DEF handlerDied
<1>30. CASE prepare BY <1>30, Zenon DEF prepare
<1>31. CASE startDryRunning BY <1>31, Zenon DEF startDryRunning, Schedule
<1>32. CASE requestShadowMapUpdate BY <1>32, Zenon DEF requestShadowMapUpdate
<1>33. CASE scheduleStateTransition BY <1>33, Zenon DEF scheduleStateTransition
<1>34. CASE dry_running BY <1>34, Zenon DEF dry_running
<1>35. CASE syncStartAll BY <1>35, Zenon DEF syncStartAll, Schedule
<1>36. CASE started BY <1>36, Zenon DEF started
<1>37. CASE waitForPeriod BY <1>37, Zenon DEF waitForPeriod
<1>38. CASE wait_ends BY <1>38, Zenon DEF wait_ends
<1>39. CASE stop BY <1>39, Zenon DEF stop, Schedule
<1>40. CASE stop_disabled BY <1>40, Zenon DEF stop_disabled, Schedule
<1>41. CASE stopped BY <1>41, Zenon DEF stopped
<1>42. CASE timeout BY <1>42, Zenon DEF timeout
<1>43. CASE poll_again BY <1>43, Zenon DEF poll_again, vars
<1>44. CASE handleBusReset BY <1>44, Zenon DEF handleBusReset
<1>45. CASE lockWaitLoop BY <1>45, Zenon DEF lockWaitLoop
<1>46. CASE handleBusResetDo BY <1>46, Zenon DEF handleBusResetDo
<1>47. CASE resume BY <1>47, Zenon DEF resume
<1>48. CASE UNCHANGED vars BY <1>48 DEF vars
<1> QED
  BY
  <1>1, <1>2, <1>3, <1>4, <1>5, <1>6, <1>7, <1>8, <1>9, <1>10, <1>11, <1>12,
  <1>13, <1>14, <1>15, <1>16, <1>17, <1>18, <1>19, <1>20, <1>21, <1>22, <1>23,
  <1>24, <1>25, <1>26, <1>27, <1>28, <1>29, <1>30, <1>31, <1>32, <1>33, <1>34,
  <1>35, <1>36, <1>37, <1>38, <1>39, <1>40, <1>41, <1>42, <1>43, <1>44, <1>45,
  <1>46, <1>47, <1>48
  DEF Next, Transition, Packet, Handler, Manager, Caller, BusReset

LEMMA InitType == Init => TypeOK
<1> SUFFICES ASSUME Init PROVE TypeOK
  OBVIOUS
<1>1. Flags BY Zenon DEF Init, Flags
<1> QED BY <1>1, BoundsAssumption
        DEF Init, BoundsAssumption, TypeOK, States, IsoPcs, IsoRets, ClientPcs, ClientRets

LEMMA TypeStep == TypeOK /\ [Next]_vars => TypeOK'
<1> SUFFICES ASSUME TypeOK, [Next]_vars PROVE TypeOK'
  OBVIOUS
<1>f. Flags' BY FlagsStep
<1> USE <1>f DEF TypeOK, IsoType, States, IsoPcs, IsoRets, ClientPcs, ClientRets, NotIso, NotClient,
                 processor, handler, task, manager, rest
<1>1. CASE set_next_state BY <1>1 DEF set_next_state, Goto
<1>2. CASE updateState
  <2>1. \E pc \in IsoPcs : iso' = [iso EXCEPT !.to = m_next_state, !.pc = pc]
    BY <1>2 DEF updateState
  <2>2. iso' \in [pc : IsoPcs, to : States \ {"Error"}, ret : IsoRets, dropped : BOOLEAN]
    BY <2>1, ZenonT(40)
  <2> QED BY <1>2, <2>2 DEF updateState
<1>3. CASE invalid_entry BY <1>3 DEF invalid_entry, Goto
<1>4. CASE doStop BY <1>4 DEF doStop, Goto
<1>5. CASE doWaitForRunningStream BY <1>5 DEF doWaitForRunningStream, Goto
<1>6. CASE doDryRunning BY <1>6 DEF doDryRunning, Goto
<1>7. CASE doWaitForStreamEnable BY <1>7 DEF doWaitForStreamEnable, Goto
<1>8. CASE doRunning BY <1>8 DEF doRunning, Goto
<1>9. CASE doWaitForStreamDisable BY <1>9 DEF doWaitForStreamDisable, Goto
<1>10. CASE commit_state BY <1>10 DEF commit_state, Goto
<1>11. CASE iterate
  <2>1. PICK dropped \in BOOLEAN :
          LET cycles == IF dropped THEN 2 ELSE 1 IN
          /\ iso' = [iso EXCEPT !.pc = IF m_processor_type = "Receive" THEN "put" ELSE "get",
                                !.dropped = dropped]
          /\ m_cycle_to_switch_state' = Min0(m_cycle_to_switch_state - cycles)
          /\ client' = [client EXCEPT !.lead = Min0(@ - cycles)]
    BY <1>11 DEF iterate
  <2>2. PICK pc \in IsoPcs : iso' = [iso EXCEPT !.pc = pc, !.dropped = dropped]
    BY <2>1
  <2>3. PICK c \in {1, 2} : /\ m_cycle_to_switch_state' = Min0(m_cycle_to_switch_state - c)
                            /\ client' = [client EXCEPT !.lead = Min0(client.lead - c)]
    BY <2>1
  <2>4. iso' \in [pc : IsoPcs, to : States \ {"Error"}, ret : IsoRets, dropped : BOOLEAN]
    BY <2>2
  <2>5. m_cycle_to_switch_state' \in 0..MaxLead /\ Min0(client.lead - c) \in 0..MaxLead
    BY <2>3, CountDown
  <2>6. client' \in [pc : ClientPcs, to : States \ {"Error"}, ret : ClientRets, lead : 0..MaxLead]
    BY <2>3, <2>5
  <2> QED BY <1>11, <2>4, <2>5, <2>6 DEF iterate
<1>12. CASE putPacket
  BY <1>12, GotoType, SetAndUpdateType DEF putPacket
<1>13. CASE putPacket_dropped
  BY <1>13, GotoType, XrunType DEF putPacket_dropped
<1>14. CASE putPacket_invalid BY <1>14 DEF putPacket_invalid, Goto
<1>15. CASE putPacket_valid
  BY <1>15, GotoType, UpdateType, SetAndUpdateType DEF putPacket_valid
<1>16. CASE putPacket_data
  BY <1>16, GotoType, XrunType DEF putPacket_data
<1>17. CASE getPacket
  BY <1>17, GotoType, XrunType DEF getPacket
<1>18. CASE getPacket_state
  BY <1>18, GotoType, SetAndUpdateType DEF getPacket_state
<1>19. CASE getPacket_silent BY <1>19 DEF getPacket_silent, Goto
<1>20. CASE getPacket_generate
  BY <1>20, GotoType, UpdateType, XrunType DEF getPacket_generate, UpdateOrGoto
<1>21. CASE getPacket_payload
  <2>1. CASE Xrun("empty") BY <1>21, <2>1, XrunType DEF getPacket_payload
  <2>2. CASE Goto("idle") /\ UNCHANGED <<m_state, m_next_state, m_cycle_to_switch_state>>
    BY <1>21, <2>2, GotoType DEF getPacket_payload
  <2> QED BY <1>21, <2>1, <2>2 DEF getPacket_payload
<1>22. CASE getPacket_empty
  BY <1>22, GotoType, UpdateType DEF getPacket_empty, UpdateOrGoto
<1>23. CASE updateShadowMap
  <2>1. iso' \in [pc : IsoPcs, to : States \ {"Error"}, ret : IsoRets, dropped : BOOLEAN]
    <3>1. CASE UNCHANGED iso BY <3>1
    <3>2. CASE iso' = [iso EXCEPT !.pc = "disable", !.ret = "idle"] BY <3>2
    <3> QED BY <1>23, <3>1, <3>2 DEF updateShadowMap
  <2> QED BY <1>23, <2>1 DEF updateShadowMap
<1>24. CASE notifyOfDeath
  <2>1. iso'.pc = "disable" /\ iso'.ret = "died"
    BY <1>24 DEF notifyOfDeath
  <2>2. deaths' \in 0..MaxDeaths
    BY <1>24, BoundsAssumption DEF notifyOfDeath, BoundsAssumption
  <2>3. iso' \in [pc : IsoPcs, to : States \ {"Error"}, ret : IsoRets, dropped : BOOLEAN]
    BY <1>24 DEF notifyOfDeath
  <2> QED BY <1>24, <2>2, <2>3 DEF notifyOfDeath
<1>25. CASE disable BY <1>25 DEF disable, Goto
<1>26. CASE disable_next BY <1>26 DEF disable_next, Goto
<1>27. CASE packetsStopped BY <1>27 DEF packetsStopped, Goto
<1>28. CASE packetsStopped_next BY <1>28 DEF packetsStopped_next, Goto
<1>29. CASE handlerDied BY <1>29 DEF handlerDied, Goto
<1>30. CASE prepare BY <1>30 DEF prepare, ClientGoto
<1>31. CASE startDryRunning BY <1>31 DEF startDryRunning, ClientGoto, Schedule
<1>32. CASE requestShadowMapUpdate BY <1>32 DEF requestShadowMapUpdate, ClientGoto
<1>33. CASE scheduleStateTransition BY <1>33 DEF scheduleStateTransition, ClientGoto
<1>34. CASE dry_running BY <1>34 DEF dry_running, ClientGoto
<1>35. CASE syncStartAll BY <1>35 DEF syncStartAll, Schedule
<1>36. CASE started BY <1>36 DEF started, ClientGoto
<1>37. CASE waitForPeriod BY <1>37 DEF waitForPeriod, ClientGoto
<1>38. CASE wait_ends BY <1>38 DEF wait_ends, ClientGoto
<1>39. CASE stop BY <1>39 DEF stop, ClientGoto, Schedule
<1>40. CASE stop_disabled BY <1>40 DEF stop_disabled, ClientGoto, Schedule
<1>41. CASE stopped BY <1>41 DEF stopped, ClientGoto
<1>42. CASE timeout BY <1>42 DEF timeout, ClientGoto
<1>43. CASE poll_again BY <1>43 DEF poll_again, vars
<1>44. CASE handleBusReset
  BY <1>44, BoundsAssumption DEF handleBusReset, BusResetGoto, BoundsAssumption
<1>45. CASE lockWaitLoop BY <1>45 DEF lockWaitLoop, BusResetGoto
<1>46. CASE handleBusResetDo BY <1>46 DEF handleBusResetDo, BusResetGoto
<1>47. CASE resume BY <1>47 DEF resume, BusResetGoto
<1>48. CASE UNCHANGED vars BY <1>48 DEF vars
<1> QED
  BY
  <1>1, <1>2, <1>3, <1>4, <1>5, <1>6, <1>7, <1>8, <1>9, <1>10, <1>11, <1>12,
  <1>13, <1>14, <1>15, <1>16, <1>17, <1>18, <1>19, <1>20, <1>21, <1>22, <1>23,
  <1>24, <1>25, <1>26, <1>27, <1>28, <1>29, <1>30, <1>31, <1>32, <1>33, <1>34,
  <1>35, <1>36, <1>37, <1>38, <1>39, <1>40, <1>41, <1>42, <1>43, <1>44, <1>45,
  <1>46, <1>47, <1>48
  DEF Next, Transition, Packet, Handler, Manager, Caller, BusReset

\* The variables of the stream, its handler and the three threads keep their types;
\* in particular nobody ever requests Error, and no countdown leaves its range.
THEOREM TypeCorrect == Spec => []TypeOK
BY InitType, TypeStep, PTL DEF Spec

(***************************************************************************)
(* The inductive invariant.                                                *)
(***************************************************************************)
LEMMA InitIInv == Init => IInv
<1> SUFFICES ASSUME Init PROVE IInv
  OBVIOUS
<1>1. TypeOK BY InitType
<1> QED BY <1>1 DEF Init, IInv, RunningKeepsFrames, ActiveHasHandler, Active, Fresh, Serving,
                    Stopping, Entering, KeepsFrames, NoRestart

\* Where the iso thread is after it goes on.
LEMMA GotoFields ==
  ASSUME IsoType, NEW pc, Goto(pc)
  PROVE  iso'.pc = pc /\ iso'.to = iso.to /\ iso'.ret = iso.ret
BY DEF IsoType, Goto

LEMMA UpdateFields ==
  ASSUME IsoType, NEW ret, Update(ret)
  PROVE  iso'.pc = "load" /\ iso'.to = iso.to /\ iso'.ret = ret
BY DEF IsoType, Update

LEMMA SetAndUpdateFields ==
  ASSUME IsoType, NEW to, NEW ret, SetAndUpdate(to, ret)
  PROVE  iso'.pc = "set" /\ iso'.to = to /\ iso'.ret = ret
BY DEF IsoType, SetAndUpdate

\* Where a packet function may be, what it may continue with, and what it leaves to
\* updateState.
PacketPcs == {"put", "dropped", "header", "data",
              "get", "state", "silent", "generate", "payload", "empty"}

PacketRets == PacketPcs \cup {"idle"}

Continues == \/ \E pc \in PacketRets : Goto(pc)
             \/ \E ret \in PacketRets : Update(ret)
             \/ \E to \in {"DryRunning", "Running", "WaitingForStreamDisable"}, ret \in PacketRets :
                  SetAndUpdate(to, ret)

\* A step of a packet function preserves the invariant.
LEMMA PacketStep ==
  ASSUME IInv, TypeOK', iso.pc \in PacketPcs, Continues,
         UNCHANGED <<m_state, m_next_state, m_transparent, h_State, h_NextState, client>>
  PROVE  IInv'
<1>1. IsoType BY DEF IInv, TypeOK, IsoType
<1>2. /\ iso'.pc \in PacketRets \cup {"load", "set"}
      /\ iso'.pc = "set" => iso'.to \in {"DryRunning", "Running", "WaitingForStreamDisable"}
      /\ iso'.ret \in PacketRets \cup {iso.ret}
  <2>1. CASE \E pc \in PacketRets : Goto(pc)
    BY <1>1, <2>1, GotoFields DEF PacketRets, PacketPcs
  <2>2. CASE \E ret \in PacketRets : Update(ret)
    BY <1>1, <2>2, UpdateFields
  <2>3. CASE \E to \in {"DryRunning", "Running", "WaitingForStreamDisable"}, ret \in PacketRets :
               SetAndUpdate(to, ret)
    BY <1>1, <2>3, SetAndUpdateFields
  <2> QED BY <2>1, <2>2, <2>3 DEF Continues
<1>3. h_State = "Running" /\ client.pc # "new"
  BY DEF IInv, Serving, Fresh, Stopping, PacketPcs
<1>4. RunningKeepsFrames' BY <1>2 DEF IInv, RunningKeepsFrames, PacketPcs
<1>5. ActiveHasHandler' BY <1>3 DEF ActiveHasHandler
<1>6. Fresh' BY <1>3 DEF IInv, Fresh
<1>7. Serving' BY <1>2, <1>3 DEF IInv, Serving, Stopping, PacketRets, PacketPcs
<1>8. Entering' BY <1>2 DEF Entering, PacketRets, PacketPcs
<1>9. KeepsFrames' BY <1>2 DEF KeepsFrames, PacketRets, PacketPcs
<1>10. NoRestart' BY <1>2 DEF IInv, NoRestart, PacketRets, PacketPcs
<1> QED BY <1>4, <1>5, <1>6, <1>7, <1>8, <1>9, <1>10 DEF IInv

\* A step of updateState and of the do* functions preserves the invariant.
LEMMA TransitionStep == IInv /\ TypeOK' /\ Transition => IInv'
<1> SUFFICES ASSUME IInv, TypeOK', Transition PROVE IInv'
  OBVIOUS
<1>t. TypeOK /\ IsoType /\ ClientType BY DEF IInv, IsoType, ClientType, TypeOK
<1> USE <1>t DEF IInv, IsoType, IsoRets, ClientType, ClientRets, RunningKeepsFrames,
                 ActiveHasHandler, Active, Fresh, Serving, Stopping, Entering, KeepsFrames, NoRestart,
                 Transitions, processor, handler, task, manager, rest
<1>1. CASE set_next_state BY <1>1 DEF set_next_state, Goto, NotIso
<1>2. CASE updateState
  <2>1. iso'.to = m_next_state /\ iso'.ret = iso.ret
    BY <1>2 DEF updateState
  <2>2. \/ iso'.pc \in {iso.ret, "idle"}
        \/ iso'.pc = "enter" /\ <<m_state, m_next_state>> \in Transitions
    BY <1>2, Zenon DEF updateState
  <2> QED BY <1>2, <2>1, <2>2 DEF updateState, NotIso
<1>3. CASE invalid_entry BY <1>3 DEF invalid_entry, Goto, Enters, NotIso
<1>4. CASE doStop BY <1>4 DEF doStop, Goto, Enters, NotIso
<1>5. CASE doWaitForRunningStream BY <1>5 DEF doWaitForRunningStream, Goto, Enters, NotIso
<1>6. CASE doDryRunning BY <1>6 DEF doDryRunning, Goto, Enters, NotIso
<1>7. CASE doWaitForStreamEnable BY <1>7 DEF doWaitForStreamEnable, Goto, Enters, NotIso
<1>8. CASE doRunning BY <1>8 DEF doRunning, Goto, Enters, NotIso
<1>9. CASE doWaitForStreamDisable BY <1>9 DEF doWaitForStreamDisable, Goto, Enters, NotIso
<1>10. CASE commit_state
  <2>1. iso'.pc = iso.ret /\ iso'.to = iso.to /\ iso'.ret = iso.ret /\ m_state' = iso.to
    BY <1>10, GotoFields DEF commit_state
  <2>2. h_State = "Running" /\ UNCHANGED <<m_next_state, m_transparent, h_State, h_NextState, client>>
    BY <1>10 DEF commit_state, NotIso
  <2>3. iso.to \in {"Running", "WaitingForStreamDisable"} => ~m_transparent
    BY <1>10 DEF commit_state
  <2>4. iso.to # "Created"
    BY <1>10 DEF commit_state
  <2> QED BY <1>10, <2>1, <2>2, <2>3, <2>4 DEF commit_state
<1> QED BY <1>1, <1>2, <1>3, <1>4, <1>5, <1>6, <1>7, <1>8, <1>9, <1>10 DEF Transition

\* So does every step of putPacket and getPacket.
LEMMA PacketsStep == IInv /\ TypeOK' /\ Packet => IInv'
<1> SUFFICES ASSUME IInv, TypeOK', Packet PROVE IInv'
  OBVIOUS
<1> USE DEF Continues, PacketPcs, PacketRets, NotIso, processor, handler
<1>1. CASE putPacket BY <1>1, PacketStep DEF putPacket
<1>2. CASE putPacket_dropped BY <1>2, PacketStep DEF putPacket_dropped, Xrun
<1>3. CASE putPacket_invalid BY <1>3, PacketStep DEF putPacket_invalid
<1>4. CASE putPacket_valid BY <1>4, PacketStep DEF putPacket_valid
<1>5. CASE putPacket_data BY <1>5, PacketStep DEF putPacket_data, Xrun
<1>6. CASE getPacket BY <1>6, PacketStep DEF getPacket, Xrun
<1>7. CASE getPacket_state BY <1>7, PacketStep DEF getPacket_state
<1>8. CASE getPacket_silent BY <1>8, PacketStep DEF getPacket_silent
<1>9. CASE getPacket_generate BY <1>9, PacketStep DEF getPacket_generate, UpdateOrGoto, Xrun
<1>10. CASE getPacket_payload BY <1>10, PacketStep DEF getPacket_payload, Xrun
<1>11. CASE getPacket_empty BY <1>11, PacketStep DEF getPacket_empty, UpdateOrGoto
<1> QED BY <1>1, <1>2, <1>3, <1>4, <1>5, <1>6, <1>7, <1>8, <1>9, <1>10, <1>11 DEF Packet

\* So does what the iso thread does with the handler.
LEMMA HandlerStep == IInv /\ TypeOK' /\ (Handler \/ iterate) => IInv'
<1> SUFFICES ASSUME IInv, TypeOK', (Handler \/ iterate) PROVE IInv'
  OBVIOUS
<1>t. TypeOK /\ IsoType /\ ClientType BY DEF IInv, IsoType, ClientType, TypeOK
<1> USE <1>t DEF IInv, IsoType, IsoRets, ClientType, ClientRets, RunningKeepsFrames,
                 ActiveHasHandler, Active, Fresh, Serving, Stopping, Entering, KeepsFrames, NoRestart,
                 Transitions, processor, handler, task, manager, rest
<1>1. CASE updateShadowMap
  <2>1. CASE UNCHANGED iso
    <3>1. \/ h_State' = h_State
          \/ h_State' = h_NextState /\ h_NextState # "Stopped"
          \/ h_State' = h_NextState /\ h_State # "Running"
      BY <1>1, Zenon DEF updateShadowMap
    <3>2. iso.pc = "idle" /\ UNCHANGED <<m_state, m_next_state, m_transparent, h_NextState, client>>
      BY <1>1, <2>1 DEF updateShadowMap, NotIso
    <3>3. h_State \in {"Stopped", "Running"} /\ h_NextState \in {"Stopped", "Running"}
      BY DEF TypeOK
    <3>4. (m_state \in Active => h_State' = "Running")
          /\ (client.pc = "new" => h_State' = "Stopped")
      BY <3>1, <3>2, <3>3
    <3> QED BY <2>1, <3>2, <3>4
  <2>2. CASE iso' = [iso EXCEPT !.pc = "disable", !.ret = "idle"] /\ UNCHANGED handler
    <3>1. iso'.pc = "disable" /\ iso'.ret = "idle" BY <2>2
    <3> QED BY <1>1, <2>2, <3>1 DEF updateShadowMap, NotIso
  <2> QED BY <1>1, <2>1, <2>2 DEF updateShadowMap
<1>2. CASE notifyOfDeath BY <1>2 DEF notifyOfDeath
<1>3. CASE disable BY <1>3 DEF disable, Goto, NotIso
<1>4. CASE disable_next BY <1>4 DEF disable_next, Goto, NotIso
<1>5. CASE packetsStopped BY <1>5 DEF packetsStopped, Goto, NotIso
<1>6. CASE packetsStopped_next BY <1>6 DEF packetsStopped_next, Goto, NotIso
<1>7. CASE handlerDied BY <1>7 DEF handlerDied, Goto, NotIso
<1>8. CASE iterate BY <1>8, ZenonT(40) DEF iterate
<1> QED BY <1>1, <1>2, <1>3, <1>4, <1>5, <1>6, <1>7, <1>8 DEF Handler

\* So does the client.
LEMMA ClientStep == IInv /\ TypeOK' /\ (Manager \/ Caller) => IInv'
<1> SUFFICES ASSUME IInv, TypeOK', (Manager \/ Caller) PROVE IInv'
  OBVIOUS
<1>t. TypeOK /\ IsoType /\ ClientType BY DEF IInv, IsoType, ClientType, TypeOK
<1> USE <1>t DEF IInv, IsoType, IsoRets, ClientType, ClientRets, RunningKeepsFrames,
                 ActiveHasHandler, Active, Fresh, Serving, Stopping, Entering, KeepsFrames, NoRestart,
                 Transitions, processor, handler, task, manager, rest
<1>1. CASE prepare BY <1>1 DEF prepare, ClientGoto, NotClient
<1>2. CASE startDryRunning BY <1>2 DEF startDryRunning, ClientGoto, Schedule, NotClient
<1>3. CASE requestShadowMapUpdate BY <1>3 DEF requestShadowMapUpdate, ClientGoto, NotClient
<1>4. CASE scheduleStateTransition BY <1>4 DEF scheduleStateTransition, ClientGoto, NotClient
<1>5. CASE dry_running BY <1>5 DEF dry_running, ClientGoto, NotClient
<1>6. CASE syncStartAll BY <1>6 DEF syncStartAll, Schedule, NotClient
<1>7. CASE started BY <1>7 DEF started, ClientGoto, NotClient
<1>8. CASE waitForPeriod BY <1>8 DEF waitForPeriod, ClientGoto, NotClient
<1>9. CASE wait_ends BY <1>9 DEF wait_ends, ClientGoto, NotClient
<1>10. CASE stop BY <1>10 DEF stop, ClientGoto, Schedule, NotClient
<1>11. CASE stop_disabled BY <1>11 DEF stop_disabled, ClientGoto, Schedule, NotClient
<1>12. CASE stopped BY <1>12 DEF stopped, ClientGoto, NotClient
<1>13. CASE timeout BY <1>13 DEF timeout, ClientGoto, NotClient
<1>14. CASE poll_again BY <1>14 DEF poll_again, vars
<1> QED BY <1>1, <1>2, <1>3, <1>4, <1>5, <1>6, <1>7, <1>8, <1>9, <1>10, <1>11, <1>12, <1>13, <1>14 DEF Manager, Caller

\* So does the bus reset thread.
LEMMA BusResetStep == IInv /\ TypeOK' /\ (handleBusReset \/ BusReset) => IInv'
<1> SUFFICES ASSUME IInv, TypeOK', (handleBusReset \/ BusReset) PROVE IInv'
  OBVIOUS
<1>t. TypeOK /\ IsoType /\ ClientType BY DEF IInv, IsoType, ClientType, TypeOK
<1> USE <1>t DEF IInv, IsoType, IsoRets, ClientType, ClientRets, RunningKeepsFrames,
                 ActiveHasHandler, Active, Fresh, Serving, Stopping, Entering, KeepsFrames, NoRestart,
                 Transitions, processor, handler, task, manager, rest
<1>1. CASE handleBusReset BY <1>1 DEF handleBusReset, BusResetGoto
<1>2. CASE lockWaitLoop BY <1>2 DEF lockWaitLoop, BusResetGoto
<1>3. CASE handleBusResetDo BY <1>3 DEF handleBusResetDo, BusResetGoto
<1>4. CASE resume BY <1>4 DEF resume, BusResetGoto
<1> QED BY <1>1, <1>2, <1>3, <1>4 DEF BusReset

LEMMA IInvStep == IInv /\ [Next]_vars => IInv'
<1> SUFFICES ASSUME IInv, [Next]_vars PROVE IInv'
  OBVIOUS
<1>1. TypeOK' BY TypeStep DEF IInv
<1>2. CASE UNCHANGED vars
  BY <1>2 DEF IInv, TypeOK, Flags, RunningKeepsFrames, ActiveHasHandler, Fresh, Serving, Entering,
              KeepsFrames, NoRestart, vars, processor, handler, task, manager, rest
<1> QED BY <1>1, <1>2, TransitionStep, PacketsStep, HandlerStep, ClientStep, BusResetStep DEF Next

\* What the three threads maintain between them holds in every state, whatever the
\* bounds on leads, bus resets and deaths.
THEOREM AlwaysIInv == Spec => []IInv
BY InitIInv, IInvStep, PTL DEF Spec

\* A stream that is Running, or on its way out of it, keeps the frames it is given.
THEOREM AlwaysKeepsFrames == Spec => []RunningKeepsFrames
<1>1. IInv => RunningKeepsFrames BY DEF IInv
<1> QED BY <1>1, AlwaysIInv, PTL

\* A stream in an active state has a running handler, except during IsoHandler::disable.
THEOREM AlwaysHasHandler == Spec => []ActiveHasHandler
<1>1. IInv => ActiveHasHandler BY DEF IInv
<1> QED BY <1>1, AlwaysIInv, PTL

\* An xrun is forgotten in doRunning only, and the client is not in its period loop
\* when that happens.
LEMMA XrunStep ==
  IInv /\ [Next]_vars /\ client.pc \in {"run", "wait"} /\ m_in_xrun => m_in_xrun'
<1> SUFFICES ASSUME IInv, [Next]_vars, client.pc \in {"run", "wait"}, m_in_xrun
             PROVE  m_in_xrun'
  OBVIOUS
<1>1. ~doRunning
  BY DEF doRunning, Enters, Transitions, IInv, NoRestart
<1> USE DEF NotIso, processor
<1>2. CASE Transition
  BY <1>1, <1>2, Zenon
  DEF Transition, set_next_state, updateState, invalid_entry, doStop, doWaitForRunningStream,
           doDryRunning, doWaitForStreamEnable, doWaitForStreamDisable,
           commit_state
<1>3. CASE Packet
  BY <1>3, Zenon
  DEF Packet, putPacket, putPacket_dropped, Xrun, putPacket_invalid, putPacket_valid,
           putPacket_data, getPacket, getPacket_state, getPacket_silent,
           getPacket_generate, getPacket_payload, getPacket_empty
<1>4. CASE Handler \/ iterate
  BY <1>4, Zenon
  DEF Handler, updateShadowMap, notifyOfDeath, disable, disable_next, packetsStopped,
           packetsStopped_next, handlerDied, iterate
<1>5. CASE Manager \/ Caller
  BY <1>5, Zenon
  DEF Manager, Caller, prepare, startDryRunning, requestShadowMapUpdate, scheduleStateTransition,
           dry_running, syncStartAll, started, waitForPeriod, wait_ends, stop,
           stop_disabled, stopped, timeout, poll_again, vars
<1>6. CASE handleBusReset \/ BusReset
  BY <1>6, Zenon
  DEF BusReset, handleBusReset, lockWaitLoop, handleBusResetDo, resume
<1>7. CASE UNCHANGED vars BY <1>7 DEF vars
<1> QED BY <1>2, <1>3, <1>4, <1>5, <1>6, <1>7 DEF Next

\* An xrun that happens while the client is in its period loop stays flagged until the
\* client has left the loop.
THEOREM AlwaysXrunKept == Spec => XrunKept
BY AlwaysIInv, XrunStep, PTL DEF Spec, XrunKept

(***************************************************************************)
(* Refinement: without bus resets, a stream follows the diagram.           *)
(***************************************************************************)
NoReset == busreset = "idle" /\ resets = 0 /\ m_state # "Error"

\* The steps that may change m_state are commit_state, packetsStopped, handlerDied and
\* prepare; each is a step of the diagram.
LEMMA DiagramStep ==
  ASSUME MaxResets = 0, IInv, NoReset, [Next]_vars
  PROVE  NoReset' /\ (Diagram!Next \/ UNCHANGED m_state)
<1>1. ~handleBusReset /\ ~BusReset
  <2>1. ~handleBusReset BY DEF handleBusReset, NoReset
  <2>2. ~BusReset BY DEF BusReset, lockWaitLoop, handleBusResetDo, resume, NoReset
  <2> QED BY <2>1, <2>2
<1>2. UNCHANGED <<busreset, resets>>
  <2> USE DEF NotIso, NotClient, rest
  <2>1. CASE Transition
    BY <2>1, Zenon
    DEF Transition, set_next_state, updateState, invalid_entry, doStop, doWaitForRunningStream,
      doDryRunning, doWaitForStreamEnable, doRunning, doWaitForStreamDisable,
      commit_state
  <2>2. CASE Packet
    BY <2>2, Zenon
    DEF Packet, putPacket, putPacket_dropped, putPacket_invalid, putPacket_valid,
      putPacket_data, getPacket, getPacket_state, getPacket_silent,
      getPacket_generate, getPacket_payload, getPacket_empty
  <2>3. CASE Handler \/ iterate
    BY <2>3, Zenon
    DEF Handler, updateShadowMap, notifyOfDeath, disable, disable_next, packetsStopped,
      packetsStopped_next, handlerDied, iterate
  <2>4. CASE Manager \/ Caller
    BY <2>4, Zenon
    DEF Manager, Caller, prepare, startDryRunning, requestShadowMapUpdate, scheduleStateTransition,
      dry_running, syncStartAll, started, waitForPeriod, wait_ends, stop,
      stop_disabled, stopped, timeout, poll_again, vars
  <2>5. CASE UNCHANGED vars BY <2>5 DEF vars
  <2> QED BY <1>1, <2>1, <2>2, <2>3, <2>4, <2>5 DEF Next
<1> USE DEF Diagram!Next, Diagram!Advance, Diagram!PacketsStop
<1>3. CASE commit_state
  <2>1. iso.pc = "commit" /\ m_state' = iso.to BY <1>3 DEF commit_state
  <2>2. <<m_state, iso.to>> \in Transitions /\ iso.to # "Error"
    BY <2>1 DEF IInv, Entering, NoReset, Transitions
  <2>3. <<m_state, iso.to>> \in Diagram!Transitions
    BY <2>2 DEF Transitions, Diagram!Transitions
  <2>4. Diagram!Advance BY <2>1, <2>3
  <2> QED BY <1>2, <2>1, <2>2, <2>4 DEF NoReset
<1>4. CASE packetsStopped \/ handlerDied
  <2>1. iso.pc # "idle" /\ m_state' = "Stopped" BY <1>4 DEF packetsStopped, handlerDied
  <2>2. m_state # "Created" BY <2>1 DEF IInv, Fresh
  <2> QED BY <1>2, <2>1, <2>2 DEF NoReset
<1>5. CASE prepare
  <2>1. m_state = "Created" /\ m_state' = "Stopped" BY <1>5 DEF prepare, IInv, Fresh, NoReset
  <2>2. <<m_state, m_state'>> \in Diagram!Transitions BY <2>1 DEF Diagram!Transitions
  <2>3. Diagram!Advance BY <2>2
  <2> QED BY <1>2, <2>1, <2>3 DEF NoReset
<1>6. CASE UNCHANGED m_state BY <1>2, <1>6 DEF NoReset
<1>7. commit_state \/ packetsStopped \/ handlerDied \/ prepare \/ UNCHANGED m_state
  <2> USE DEF NotIso, processor
  <2>1. CASE Transition
    BY <2>1, Zenon
    DEF Transition, set_next_state, updateState, invalid_entry, doStop, doWaitForRunningStream,
      doDryRunning, doWaitForStreamEnable, doRunning, doWaitForStreamDisable
  <2>2. CASE Packet
    BY <2>2, Zenon
    DEF Packet, putPacket, putPacket_dropped, Xrun, putPacket_invalid, putPacket_valid,
      putPacket_data, getPacket, getPacket_state, getPacket_silent,
      getPacket_generate, getPacket_payload, getPacket_empty
  <2>3. CASE Handler \/ iterate
    BY <2>3, Zenon
    DEF Handler, updateShadowMap, notifyOfDeath, disable, disable_next, packetsStopped_next,
      iterate
  <2>4. CASE Manager \/ Caller
    BY <2>4, Zenon
    DEF Manager, Caller, startDryRunning, requestShadowMapUpdate, scheduleStateTransition, dry_running,
      syncStartAll, started, waitForPeriod, wait_ends, stop, stop_disabled,
      stopped, timeout, poll_again, vars
  <2>5. CASE UNCHANGED vars BY <2>5 DEF vars
  <2> QED BY <1>1, <2>1, <2>2, <2>3, <2>4, <2>5 DEF Next
<1> QED BY <1>3, <1>4, <1>5, <1>6, <1>7

\* Where no bus reset interferes, the stream implements its diagram, although the iso
\* thread reads m_state, works and writes it in separate steps: for every lead, number
\* of deaths and timeout.
THEOREM FollowsDiagram == ASSUME MaxResets = 0 PROVE Spec => IsDiagram
<1>1. Init => Diagram!Init /\ NoReset BY DEF Init, NoReset, Diagram!Init
<1>2. IInv /\ NoReset /\ [Next]_vars => NoReset' /\ [Diagram!Next]_m_state
  BY DiagramStep
<1> QED BY <1>1, <1>2, AlwaysIInv, PTL DEF Spec, IsDiagram, Diagram!Spec

(***************************************************************************)
(* A stream runs on time, where no wait times out and no handler dies.     *)
(***************************************************************************)
LEMMA InitOnTime == Init => OnTimeInv
<1> SUFFICES ASSUME Init PROVE OnTimeInv
  OBVIOUS
<1> USE DEF Init, Calling, Asks, Waits, Early, Going, ToDisable, Stopping
<1>1. CallsPaired /\ EnableAsked /\ RunningAsked /\ DisableAsked BY DEF CallsPaired, EnableAsked, RunningAsked, DisableAsked
<1>2. CountsTogether /\ NotRunningYet BY DEF CountsTogether, NotRunningYet
<1>3. DryIsTransparent /\ StopsClean /\ StartAsked BY DEF DryIsTransparent, StopsClean, StartAsked
<1> QED BY <1>1, <1>2, <1>3 DEF OnTimeInv

\* A step of a packet function: it asks for Running when the cycle has come, and for
\* WaitingForStreamDisable, with a new cycle, only of a stream that has been running.
LEMMA PacketOnTime ==
  ASSUME IInv, OnTimeInv, iso.pc \in PacketPcs,
         UNCHANGED <<m_state, m_next_state, m_transparent, h_State, h_NextState, client>>,
         iso'.pc \in PacketRets \cup {"load", "set"},
         iso'.pc = "generate" => m_state = "Running",
         iso'.pc = "payload" => m_state \in {"Running", "Error"},
         iso'.pc = "load" /\ iso'.ret = "payload" => m_state \in {"Running", "Error"},
         iso'.ret # "died", iso'.pc = "set" => iso'.ret # "payload",
         iso'.pc = "set" /\ iso'.to = "Running" => m_state = "WaitingForStreamEnable" /\ m_cycle_to_switch_state = 0,
         iso'.pc = "set" /\ iso'.to = "WaitingForStreamDisable" => m_state \in {"Running", "WaitingForStreamDisable", "Error"},
         Early => /\ m_cycle_to_switch_state' = m_cycle_to_switch_state
                  /\ ~(iso'.pc = "set" /\ iso'.to = "WaitingForStreamDisable")
                  /\ iso'.pc # "payload"
  PROVE  OnTimeInv'
<1> USE DEF PacketPcs, PacketRets
<1>1. CallsPaired' BY DEF OnTimeInv, CallsPaired, Calling, Asks, Waits
<1>2. EnableAsked' BY DEF OnTimeInv, EnableAsked, Waits, Going
<1>3. client.lead \in Nat BY DEF IInv, TypeOK
<1>4. RunningAsked' BY DEF OnTimeInv, RunningAsked, EnableAsked, Waits
<1>5. DisableAsked' BY DEF OnTimeInv, DisableAsked
<1>6. CountsTogether'
  <2>1. (Waits \/ (Asks /\ client.pc = "next")) /\ client.lead > 0 =>
          /\ m_cycle_to_switch_state = client.lead /\ m_cycle_to_switch_state' = m_cycle_to_switch_state
    BY DEF OnTimeInv, CountsTogether, Early
  <2>2. iso'.pc = "set" /\ iso'.to = "Running" => (Waits => client.lead = 0)
    BY <1>3, <2>1
  <2>3. m_next_state = "Running" => (Waits => client.lead = 0)
    BY DEF OnTimeInv, CountsTogether
  <2> QED BY <2>1, <2>2, <2>3 DEF CountsTogether, Waits, Asks, Going
<1>7. NotRunningYet'
  <2>1. Early' = Early BY DEF Early, Asks, Waits
  <2>2. Early => ~(iso'.pc = "set" /\ iso'.to = "Running")
    BY <1>3 DEF OnTimeInv, EnableAsked, CountsTogether, Early, Asks, Waits
  <2> QED BY <2>1, <2>2 DEF OnTimeInv, NotRunningYet, Going
<1>8. DryIsTransparent' BY DEF OnTimeInv, DryIsTransparent
<1>9. StopsClean' BY DEF OnTimeInv, StopsClean, ToDisable, Stopping
<1>10. StartAsked' BY DEF OnTimeInv, StartAsked, ToDisable, Calling
<1> QED BY <1>1, <1>2, <1>4, <1>5, <1>6, <1>7, <1>8, <1>9, <1>10 DEF OnTimeInv

LEMMA PacketsOnTime == IInv /\ OnTimeInv /\ Packet => OnTimeInv'
<1> SUFFICES ASSUME IInv, OnTimeInv, Packet PROVE OnTimeInv'
  OBVIOUS
<1>t. IsoType BY DEF IInv, TypeOK, IsoType
<1>e. Early => m_transparent /\ m_state \notin {"Running", "WaitingForStreamDisable"} /\ iso.pc \notin {"generate", "payload"}
  BY DEF OnTimeInv, NotRunningYet
<1>k. ~m_transparent /\ iso.pc # "commit" /\ m_state # "WaitingForStream"
        => m_state \in {"Running", "WaitingForStreamDisable", "Error"}
  BY DEF OnTimeInv, DryIsTransparent, IInv, TypeOK, States
<1>d. /\ iso.pc = "generate" => m_state \in {"Running", "Error"}
      /\ iso.pc = "payload" => m_state \in {"Running", "WaitingForStreamDisable", "Error"}
  BY DEF OnTimeInv, DisableAsked
<1>r. iso.ret # "died" BY DEF OnTimeInv, StopsClean
<1> USE <1>t, <1>r DEF PacketPcs, PacketRets, NotIso, processor, handler
<1>x. ASSUME NEW ret \in {"idle", "header", "empty"}, Xrun(ret), iso.pc \in PacketPcs, UNCHANGED <<handler, client>>,
             ~Early, m_state \in {"Running", "WaitingForStreamDisable", "Error"}
      PROVE  OnTimeInv'
  <2>1. iso'.pc = "set" /\ iso'.to = "WaitingForStreamDisable" /\ iso'.ret = ret
    BY <1>x, SetAndUpdateFields DEF Xrun
  <2>2. UNCHANGED <<m_state, m_next_state, m_transparent, h_State, h_NextState, client>>
    BY <1>x DEF Xrun
  <2> QED BY <1>x, <2>1, <2>2, PacketOnTime
<1>1. CASE putPacket
  BY <1>1, PacketOnTime, GotoFields, SetAndUpdateFields DEF putPacket, Due, Waiting
<1>2. CASE putPacket_dropped
  <2>1. CASE m_state = "Running" /\ Xrun("header")
    BY <1>2, <1>x, <1>e, <2>1 DEF putPacket_dropped
  <2>2. CASE Goto("header") /\ UNCHANGED processor
    BY <1>2, <2>2, PacketOnTime, GotoFields DEF putPacket_dropped
  <2> QED BY <1>2, <2>1, <2>2 DEF putPacket_dropped
<1>3. CASE putPacket_invalid BY <1>3, PacketOnTime, GotoFields DEF putPacket_invalid
<1>4. CASE putPacket_valid
  BY <1>4, PacketOnTime, GotoFields, UpdateFields, SetAndUpdateFields DEF putPacket_valid
<1>5. CASE putPacket_data
  <2>1. CASE m_state # "WaitingForStream" /\ ~m_transparent /\ Xrun("idle")
    BY <1>5, <1>x, <1>e, <1>k, <2>1 DEF putPacket_data
  <2>2. CASE Goto("idle") /\ UNCHANGED <<m_state, m_next_state, m_cycle_to_switch_state, m_transparent>>
    BY <1>5, <2>2, PacketOnTime, GotoFields DEF putPacket_data
  <2> QED BY <1>5, <2>1, <2>2 DEF putPacket_data
<1>6. CASE getPacket
  <2>1. CASE m_state = "Running" /\ Xrun("empty")
    BY <1>6, <1>x, <1>e, <2>1 DEF getPacket
  <2>2. CASE /\ Goto("idle") \/ Goto("state")
             /\ UNCHANGED <<m_state, m_next_state, m_cycle_to_switch_state, m_transparent>>
    BY <1>6, <2>2, PacketOnTime, GotoFields DEF getPacket
  <2> QED BY <1>6, <2>1, <2>2 DEF getPacket
<1>7. CASE getPacket_state
  BY <1>7, <1>e, PacketOnTime, GotoFields, SetAndUpdateFields DEF getPacket_state, Due, Waiting
<1>8. CASE getPacket_silent BY <1>8, PacketOnTime, GotoFields DEF getPacket_silent
<1>9. CASE getPacket_generate
  <2>1. CASE Xrun("empty")
    BY <1>9, <1>x, <1>e, <1>d, <2>1 DEF getPacket_generate
  <2>2. CASE (\E pc \in {"payload", "empty", "idle"} : UpdateOrGoto(pc)) /\ UNCHANGED processor
    BY <1>9, <1>e, <1>d, <2>2, PacketOnTime, GotoFields, UpdateFields DEF getPacket_generate, UpdateOrGoto
  <2> QED BY <1>9, <2>1, <2>2 DEF getPacket_generate
<1>10. CASE getPacket_payload
  <2>1. CASE Xrun("empty")
    BY <1>10, <1>x, <1>e, <1>d, <2>1 DEF getPacket_payload
  <2>2. CASE Goto("idle") /\ UNCHANGED <<m_state, m_next_state, m_cycle_to_switch_state, m_transparent>>
    BY <1>10, <2>2, PacketOnTime, GotoFields DEF getPacket_payload
  <2> QED BY <1>10, <2>1, <2>2 DEF getPacket_payload
<1>11. CASE getPacket_empty
  BY <1>11, PacketOnTime, GotoFields, UpdateFields DEF getPacket_empty, UpdateOrGoto
<1> QED BY <1>1, <1>2, <1>3, <1>4, <1>5, <1>6, <1>7, <1>8, <1>9, <1>10, <1>11 DEF Packet

LEMMA TransitionOnTime == IInv /\ OnTimeInv /\ Transition => OnTimeInv'
<1> SUFFICES ASSUME IInv, OnTimeInv, Transition PROVE OnTimeInv'
  OBVIOUS
<1>t. IsoType BY DEF IInv, TypeOK, IsoType
<1>c. UNCHANGED client
  BY DEF Transition, set_next_state, updateState, invalid_entry, doStop, doWaitForRunningStream, doDryRunning,
         doWaitForStreamEnable, doRunning, doWaitForStreamDisable, commit_state, NotIso
<1> USE <1>t, <1>c DEF OnTimeInv, CallsPaired, EnableAsked, RunningAsked, DisableAsked, CountsTogether, NotRunningYet,
                 DryIsTransparent, StopsClean, StartAsked, Calling, Asks, Waits, Early, Going, ToDisable, Stopping,
                 Transitions, Enters, NotIso, processor, handler
<1>1. CASE set_next_state
  <2>1. iso.pc = "set" /\ iso'.pc = "load" /\ iso'.to = iso.to /\ iso'.ret = iso.ret /\ m_next_state' = iso.to
    BY <1>1, GotoFields DEF set_next_state
  <2>2. iso.to \in {"DryRunning", "Running", "WaitingForStreamDisable"} BY <2>1 DEF IInv, Entering
  <2> QED BY <1>1, <2>1, <2>2 DEF set_next_state
<1>2. CASE updateState
  <2>1. iso.pc = "load" /\ iso'.to = m_next_state /\ iso'.ret = iso.ret
    BY <1>2 DEF updateState, IsoType
  <2>2. \/ iso'.pc = iso.ret /\ m_state = m_next_state
        \/ iso'.pc = "idle"
        \/ iso'.pc = "enter" /\ <<m_state, m_next_state>> \in Transitions
    BY <1>2, Zenon DEF updateState, IsoType
  <2>3. iso.ret \in {"idle", "dropped", "header", "data", "silent", "payload", "empty"}
    BY DEF IsoType, IsoRets
  <2>4. UNCHANGED <<m_state, m_next_state, m_transparent, m_cycle_to_switch_state, h_State, h_NextState>> BY <1>2 DEF updateState
  <2>5. m_next_state # "Error" BY DEF IInv, TypeOK
  <2>10. CallsPaired' BY <2>1, <2>2, <2>3, <2>4, <2>5
  <2>11. EnableAsked' BY <2>1, <2>2, <2>3, <2>4, <2>5
  <2>12. RunningAsked' BY <2>1, <2>2, <2>3, <2>4, <2>5
  <2>13. DisableAsked' BY <2>1, <2>2, <2>3, <2>4, <2>5
  <2>14. CountsTogether' BY <2>1, <2>2, <2>3, <2>4, <2>5
  <2>15. NotRunningYet' BY <2>1, <2>2, <2>3, <2>4, <2>5
  <2>16. DryIsTransparent' BY <2>1, <2>2, <2>3, <2>4, <2>5
  <2>17. StopsClean' BY <2>1, <2>2, <2>3, <2>4, <2>5
  <2>18. StartAsked' BY <2>1, <2>2, <2>3, <2>4, <2>5
  <2> QED BY <2>10, <2>11, <2>12, <2>13, <2>14, <2>15, <2>16, <2>17, <2>18
<1>3. CASE invalid_entry
  <2>1. iso.pc = "enter" /\ iso'.pc = "idle" /\ iso'.ret = iso.ret BY <1>3, GotoFields DEF invalid_entry
  <2> QED BY <1>3, <2>1 DEF invalid_entry
<1>4. CASE doStop
  <2>1. iso.pc = "enter" /\ iso.to = "Stopped" /\ iso'.pc = "commit" /\ iso'.to = iso.to /\ iso'.ret = iso.ret
    BY <1>4, GotoFields DEF doStop
  <2>2. m_state = "DryRunning" BY <1>4, <2>1 DEF doStop, IInv, Fresh
  <2>3. /\ UNCHANGED <<m_state, m_next_state, m_cycle_to_switch_state, h_State>> /\ m_transparent'
    BY <1>4 DEF doStop
  <2> QED BY <2>1, <2>2, <2>3
<1>5. CASE doWaitForRunningStream \/ doWaitForStreamDisable
  <2>1. iso.pc = "enter" /\ iso'.pc = "commit" /\ iso'.to = iso.to /\ iso'.ret = iso.ret
    BY <1>5, GotoFields DEF doWaitForRunningStream, doWaitForStreamDisable
  <2> QED BY <1>5, <2>1 DEF doWaitForRunningStream, doWaitForStreamDisable
<1>6. CASE doDryRunning
  <2>1. iso.pc = "enter" /\ iso'.pc = "commit" /\ iso'.to = iso.to /\ iso'.ret = iso.ret /\ iso.to = "DryRunning"
    BY <1>6, GotoFields DEF doDryRunning
  <2> QED BY <1>6, <2>1, ZenonT(40) DEF doDryRunning
<1>7. CASE doWaitForStreamEnable
  <2>1. iso.pc = "enter" /\ iso'.pc \in {"commit", "idle"} /\ iso'.to = iso.to /\ iso'.ret = iso.ret
    BY <1>7, GotoFields DEF doWaitForStreamEnable
  <2> QED BY <1>7, <2>1 DEF doWaitForStreamEnable
<1>8. CASE doRunning
  <2>1. iso.pc = "enter" /\ iso'.pc = "commit" /\ iso'.to = iso.to /\ iso'.ret = iso.ret /\ iso.to = "Running"
    BY <1>8, GotoFields DEF doRunning
  <2> QED BY <1>8, <2>1 DEF doRunning
<1>10. CASE commit_state
  <2>1. iso.pc = "commit" /\ iso'.pc = iso.ret /\ iso'.to = iso.to /\ iso'.ret = iso.ret /\ m_state' = iso.to
    BY <1>10, GotoFields DEF commit_state
  <2>2. iso.ret \in {"idle", "dropped", "header", "data", "silent", "payload", "empty"}
    BY DEF IsoType, IsoRets
  <2>3. UNCHANGED <<m_next_state, m_transparent, m_cycle_to_switch_state, h_State, h_NextState>> BY <1>10 DEF commit_state
  <2>10. CallsPaired' BY <2>1, <2>2, <2>3
  <2>11. EnableAsked' BY <2>1, <2>2, <2>3
  <2>12. RunningAsked' BY <2>1, <2>2, <2>3
  <2>13. DisableAsked' BY <2>1, <2>2, <2>3
  <2>14. CountsTogether' BY <2>1, <2>2, <2>3
  <2>15. NotRunningYet' BY <2>1, <2>2, <2>3
  <2>16. DryIsTransparent'
    <3>1. iso.to # "Created" BY <2>1 DEF IInv, Entering
    <3> QED BY <2>1, <2>2, <2>3, <3>1
  <2>17. StopsClean' BY <2>1, <2>2, <2>3
  <2>18. StartAsked' BY <2>1, <2>2, <2>3
  <2> QED BY <2>10, <2>11, <2>12, <2>13, <2>14, <2>15, <2>16, <2>17, <2>18
<1> QED BY <1>1, <1>2, <1>3, <1>4, <1>5, <1>6, <1>7, <1>8, <1>10 DEF Transition

LEMMA HandlerOnTime == ASSUME MaxDeaths = 0, IInv, OnTimeInv, Handler PROVE OnTimeInv'
<1>t. IsoType BY DEF IInv, TypeOK, IsoType
<1>n. ~notifyOfDeath BY DEF notifyOfDeath, IInv, TypeOK
<1>d. ~handlerDied BY DEF handlerDied, OnTimeInv, StopsClean
<1>c. UNCHANGED <<client, m_cycle_to_switch_state, m_transparent>>
  BY <1>n, <1>d DEF Handler, updateShadowMap, disable, disable_next, packetsStopped, packetsStopped_next, NotIso, processor
<1> USE <1>t, <1>c DEF OnTimeInv, CallsPaired, EnableAsked, RunningAsked, DisableAsked, CountsTogether, NotRunningYet,
                 DryIsTransparent, StopsClean, StartAsked, Calling, Asks, Waits, Early, Going, ToDisable, Stopping,
                 NotIso, processor, handler
<1>1. CASE updateShadowMap
  <2>1. CASE UNCHANGED iso
    <3>1. \/ h_State' = h_State
          \/ h_State' = h_NextState
      BY <1>1, Zenon DEF updateShadowMap
    <3>2. iso.pc = "idle" /\ UNCHANGED <<m_state, m_next_state, h_NextState>>
      BY <1>1, <2>1 DEF updateShadowMap
    <3> QED BY <2>1, <3>1, <3>2
  <2>2. CASE iso' = [iso EXCEPT !.pc = "disable", !.ret = "idle"] /\ UNCHANGED handler /\ h_State = "Running" /\ h_NextState = "Stopped"
    <3>1. iso.pc = "idle" /\ iso'.pc = "disable" /\ iso'.ret = "idle" BY <1>1, <2>2 DEF IsoType, updateShadowMap
    <3> QED BY <1>1, <2>2, <3>1 DEF updateShadowMap
  <2> QED BY <1>1, <2>1, <2>2 DEF updateShadowMap
<1>2. CASE disable
  <2>1. iso.pc = "disable" /\ iso'.pc = "disable_next" /\ iso'.ret = iso.ret BY <1>2, GotoFields DEF disable
  <2> QED BY <1>2, <2>1 DEF disable
<1>3. CASE disable_next
  <2>1. iso.pc = "disable_next" /\ iso'.pc = "packetsStopped" /\ iso'.ret = iso.ret BY <1>3, GotoFields DEF disable_next
  <2> QED BY <1>3, <2>1 DEF disable_next
<1>4. CASE packetsStopped
  <2>1. iso.pc = "packetsStopped" /\ iso'.pc = "packetsStopped_next" /\ iso'.ret = iso.ret BY <1>4, GotoFields DEF packetsStopped
  <2> QED BY <1>4, <2>1 DEF packetsStopped
<1>5. CASE packetsStopped_next
  <2>1. iso.pc = "packetsStopped_next" /\ iso'.pc = "idle" /\ iso'.ret = iso.ret BY <1>5, GotoFields DEF packetsStopped_next, IInv, Serving
  <2> QED BY <1>5, <2>1 DEF packetsStopped_next
<1> QED BY <1>n, <1>d, <1>1, <1>2, <1>3, <1>4, <1>5 DEF Handler

LEMMA IterateOnTime == ASSUME IInv, OnTimeInv, iterate PROVE OnTimeInv'
<1>1. PICK c \in {1, 2} : /\ m_cycle_to_switch_state' = Min0(m_cycle_to_switch_state - c)
                          /\ client' = [client EXCEPT !.lead = Min0(client.lead - c)]
  BY DEF iterate
<1>2. iso.pc = "idle" /\ iso'.pc \in {"put", "get"} /\ iso'.ret = iso.ret BY DEF iterate, IInv, TypeOK
<1>3. UNCHANGED <<m_state, m_next_state, m_transparent, h_State, h_NextState>> BY DEF iterate, handler
<1>4. client'.pc = client.pc /\ client'.to = client.to /\ client'.ret = client.ret /\ client'.lead = Min0(client.lead - c)
  BY <1>1 DEF IInv, TypeOK
<1>5. client.lead \in Nat /\ m_cycle_to_switch_state \in Nat BY DEF IInv, TypeOK
<1>6. client'.lead > 0 => client.lead > 0 BY <1>4, <1>5 DEF Min0
<1>7. client.lead = 0 => client'.lead = 0 BY <1>4, <1>5 DEF Min0
<1>8. m_cycle_to_switch_state = client.lead => m_cycle_to_switch_state' = client'.lead BY <1>1, <1>4
<1> QED BY <1>2, <1>3, <1>4, <1>6, <1>7, <1>8
        DEF OnTimeInv, CallsPaired, EnableAsked, RunningAsked, DisableAsked, CountsTogether, NotRunningYet,
            DryIsTransparent, StopsClean, StartAsked, Calling, Asks, Waits, Early, Going, ToDisable, Stopping

\* The client: the range of what it calls scheduleStateTransition with.
LEMMA ScheduleFields ==
  ASSUME NEW pc, NEW to, NEW ret, Schedule(pc, to, ret)
  PROVE  client'.pc = pc /\ client'.to = to /\ client'.ret = ret
BY DEF Schedule

LEMMA ClientGotoFields ==
  ASSUME ClientType, NEW pc, ClientGoto(pc)
  PROVE  client'.pc = pc /\ client'.to = client.to /\ client'.ret = client.ret /\ client'.lead = client.lead
BY DEF ClientType, ClientGoto

\* A step of the client that begins no call, or one to stop the stream.
LEMMA ClientMoves ==
  ASSUME IInv, OnTimeInv,
         UNCHANGED <<iso, m_state, m_next_state, m_cycle_to_switch_state, m_transparent, h_State, h_NextState>>,
         ~Waits' /\ ~Asks' /\ client'.pc # "sync",
         Waits => m_state = "Running", ~Asks,
         client.pc # "wait_dry",
         client'.to = "WaitingForStreamEnable" => client'.to = client.to /\ client'.lead = client.lead,
         ~Calling' \/ <<client'.to, client'.ret>> \in
            { <<"DryRunning", "wait_dry">>, <<"WaitingForStreamDisable", "wait_dry">>,
              <<"WaitingForStreamDisable", "wait_disabled">>, <<"Stopped", "wait_stopped">> },
         client'.pc # "enable"
  PROVE  OnTimeInv'
<1> USE DEF OnTimeInv, Calling, Asks, Waits, Early, Going
<1>0. client.lead \in Nat BY DEF IInv, TypeOK
<1>1. CallsPaired'
  <2>1. client.to = "WaitingForStreamEnable" => client.lead = 0 BY <1>0 DEF CallsPaired, NotRunningYet
  <2> QED BY <2>1 DEF CallsPaired
<1>2. EnableAsked' BY DEF EnableAsked, IInv, Entering, Transitions
<1>3. RunningAsked' BY DEF RunningAsked
<1>4. DisableAsked' BY DEF DisableAsked
<1>5. CountsTogether' BY DEF CountsTogether
<1>6. NotRunningYet' BY DEF NotRunningYet
<1>7. DryIsTransparent' BY DEF DryIsTransparent
<1>8. StopsClean' BY DEF StopsClean, ToDisable, Stopping
<1>9. StartAsked' BY DEF StartAsked, ToDisable
<1> QED BY <1>1, <1>2, <1>3, <1>4, <1>5, <1>6, <1>7, <1>8, <1>9

LEMMA ClientOnTime == ASSUME ~Timeouts, IInv, OnTimeInv, Manager \/ Caller PROVE OnTimeInv'
<1>t. ClientType /\ client.lead \in Nat BY DEF IInv, TypeOK, ClientType
<1>o. ~timeout BY DEF timeout
<1> USE <1>t DEF Calling, Asks, Waits, NotClient, processor, handler
<1>1. CASE prepare
  <2>1. client.pc = "new" /\ client'.pc = "idle" /\ client'.to = client.to /\ client'.lead = client.lead
    BY <1>1, ClientGotoFields DEF prepare
  <2>2. /\ iso.pc = "idle" /\ iso' = iso /\ m_state \in {"Created", "Error"} /\ h_State = "Stopped"
        /\ UNCHANGED <<h_State, h_NextState, m_transparent, m_cycle_to_switch_state>> /\ m_next_state' = "Stopped"
        /\ m_state' \in {"Stopped", "Error"} /\ (m_state' = "Stopped" => m_state = "Created")
    BY <1>1, <2>1 DEF prepare, IInv, Fresh
  <2> QED BY <2>1, <2>2
          DEF OnTimeInv, CallsPaired, EnableAsked, RunningAsked, DisableAsked, CountsTogether, NotRunningYet,
              DryIsTransparent, StopsClean, StartAsked, Early, Going, ToDisable, Stopping
<1>2. CASE startDryRunning
  <2>1. CASE /\ m_state = "Stopped" /\ h_State = "Stopped" /\ h_NextState' = "Running"
             /\ Schedule("enable", "WaitingForStream", "wait_dry")
    <3>1. client'.pc = "enable" /\ client'.to = "WaitingForStream" /\ client'.ret = "wait_dry" BY <2>1, ScheduleFields
    <3>2. /\ client.pc \in {"idle", "stopped"}
          /\ UNCHANGED <<iso, m_state, m_next_state, m_cycle_to_switch_state, m_transparent, h_State>>
      BY <1>2 DEF startDryRunning
    <3>3. iso.pc \notin {"enter", "commit", "disable"} BY <2>1 DEF IInv, Serving, Stopping
    <3> QED BY <2>1, <3>1, <3>2, <3>3
            DEF OnTimeInv, CallsPaired, EnableAsked, RunningAsked, DisableAsked, CountsTogether, NotRunningYet,
                DryIsTransparent, StopsClean, StartAsked, Early, Going, ToDisable, Stopping
  <2>2. CASE /\ UNCHANGED h_NextState
             /\ \/ Schedule("time", "WaitingForStreamDisable", "wait_dry")
                \/ Schedule("time", "DryRunning", "wait_dry")
                \/ ClientGoto("wait_dry") \/ ClientGoto("idle")
    <3>1. client.pc \in {"idle", "stopped"} BY <1>2 DEF startDryRunning
    <3>2. UNCHANGED <<iso, m_state, m_next_state, m_cycle_to_switch_state, m_transparent, h_State, h_NextState>>
      BY <1>2, <2>2 DEF startDryRunning
    <3> QED BY <2>2, <3>1, <3>2, ClientMoves, ScheduleFields, ClientGotoFields
  <2> QED BY <1>2, <2>1, <2>2 DEF startDryRunning
<1>3. CASE requestShadowMapUpdate
  <2>1. client.pc = "enable" /\ client'.pc = "time" /\ client'.to = client.to /\ client'.ret = client.ret
    BY <1>3, ClientGotoFields DEF requestShadowMapUpdate
  <2>2. UNCHANGED <<iso, m_state, m_next_state, m_cycle_to_switch_state, m_transparent, h_State, h_NextState>>
    BY <1>3 DEF requestShadowMapUpdate
  <2> QED BY <2>1, <2>2
          DEF OnTimeInv, CallsPaired, EnableAsked, RunningAsked, DisableAsked, CountsTogether, NotRunningYet,
              DryIsTransparent, StopsClean, StartAsked, Early, Going, ToDisable, Stopping
<1>4. CASE scheduleStateTransition
  <2>1. CASE client.pc = "time" /\ m_cycle_to_switch_state' = client.lead /\ ClientGoto("next") /\ UNCHANGED m_next_state
    <3>1. client'.pc = "next" /\ client'.to = client.to /\ client'.ret = client.ret /\ client'.lead = client.lead
      BY <2>1, ClientGotoFields
    <3>2. UNCHANGED <<iso, m_state, m_transparent, h_State, h_NextState>> BY <1>4 DEF scheduleStateTransition
    <3> QED BY <2>1, <3>1, <3>2
          DEF OnTimeInv, CallsPaired, EnableAsked, RunningAsked, DisableAsked, CountsTogether, NotRunningYet,
              DryIsTransparent, StopsClean, StartAsked, Early, Going, ToDisable, Stopping
  <2>2. CASE client.pc = "next" /\ m_next_state' = client.to /\ ClientGoto(client.ret) /\ UNCHANGED m_cycle_to_switch_state
    <3>1. client'.pc = client.ret /\ client'.to = client.to /\ client'.ret = client.ret /\ client'.lead = client.lead
      BY <2>2, ClientGotoFields
    <3>2. UNCHANGED <<iso, m_state, m_transparent, h_State, h_NextState>> BY <1>4 DEF scheduleStateTransition
    <3>3. <<client.to, client.ret>> \in
            { <<"WaitingForStream", "wait_dry">>, <<"DryRunning", "wait_dry">>,
              <<"WaitingForStreamDisable", "wait_dry">>, <<"WaitingForStreamEnable", "wait_run">>,
              <<"WaitingForStreamDisable", "wait_disabled">>, <<"Stopped", "wait_stopped">> }
      BY <2>2 DEF OnTimeInv, CallsPaired
    <3> USE DEF OnTimeInv, Early, Going
    <3>4. CallsPaired' BY <2>2, <3>1, <3>3 DEF CallsPaired
    <3>5. EnableAsked' BY <2>2, <3>1, <3>2, <3>3 DEF EnableAsked, NotRunningYet
    <3>6. RunningAsked' BY <2>2, <3>1, <3>2, <3>3 DEF RunningAsked
    <3>7. DisableAsked' BY <2>2, <3>1, <3>2, <3>3 DEF DisableAsked
    <3>8. CountsTogether' BY <2>2, <3>1, <3>2, <3>3 DEF CountsTogether, NotRunningYet
    <3>9. NotRunningYet' BY <2>2, <3>1, <3>2, <3>3 DEF NotRunningYet
    <3>10. DryIsTransparent' BY <2>2, <3>1, <3>2, <3>3 DEF DryIsTransparent
    <3>11. StopsClean' BY <2>2, <3>1, <3>2, <3>3 DEF StopsClean, StartAsked, ToDisable, Stopping
    <3>12. StartAsked' BY <2>2, <3>1, <3>2, <3>3 DEF StartAsked, ToDisable
    <3> QED BY <3>4, <3>5, <3>6, <3>7, <3>8, <3>9, <3>10, <3>11, <3>12
  <2> QED BY <1>4, <2>1, <2>2 DEF scheduleStateTransition
<1>5. CASE dry_running
  <2>1. client.pc = "wait_dry" /\ client'.pc = "sync" /\ client'.to = client.to /\ client'.lead = client.lead /\ m_state = "DryRunning"
    BY <1>5, ClientGotoFields DEF dry_running
  <2>2. UNCHANGED <<iso, m_state, m_next_state, m_cycle_to_switch_state, m_transparent, h_State, h_NextState>>
    BY <1>5 DEF dry_running
  <2>3. ~Going("Running") /\ ~Going("WaitingForStreamDisable") BY <2>1 DEF IInv, Entering, Transitions, Going
  <2> USE DEF OnTimeInv, Early
  <2>4. NotRunningYet' BY <2>1, <2>2, <2>3 DEF NotRunningYet, RunningAsked, DisableAsked, DryIsTransparent, Going
  <2> QED BY <2>1, <2>2, <2>4
          DEF CallsPaired, EnableAsked, RunningAsked, DisableAsked, CountsTogether,
              DryIsTransparent, StopsClean, StartAsked, Going, ToDisable, Stopping
<1>6. CASE syncStartAll
  <2>1. client.pc = "sync" /\ client'.pc = "time" /\ client'.to = "WaitingForStreamEnable" /\ client'.ret = "wait_run"
    BY <1>6, ScheduleFields DEF syncStartAll
  <2>2. UNCHANGED <<iso, m_state, m_next_state, m_cycle_to_switch_state, m_transparent, h_State, h_NextState>>
    BY <1>6 DEF syncStartAll
  <2> QED BY <2>1, <2>2
          DEF OnTimeInv, CallsPaired, EnableAsked, RunningAsked, DisableAsked, CountsTogether, NotRunningYet,
              DryIsTransparent, StopsClean, StartAsked, Early, Going, ToDisable, Stopping
<1> USE ClientMoves, ScheduleFields, ClientGotoFields
<1>7. CASE started BY <1>7 DEF started
<1>8. CASE waitForPeriod BY <1>8 DEF waitForPeriod
<1>9. CASE wait_ends BY <1>9 DEF wait_ends
<1>10. CASE stop BY <1>10 DEF stop
<1>11. CASE stop_disabled BY <1>11 DEF stop_disabled
<1>12. CASE stopped BY <1>12 DEF stopped
<1>13. CASE poll_again
  <2>1. UNCHANGED <<client, iso, m_state, m_next_state, m_cycle_to_switch_state, m_transparent, h_State, h_NextState>>
    BY <1>13 DEF poll_again, vars
  <2> QED BY ONLY <2>1, OnTimeInv
          DEF OnTimeInv, CallsPaired, EnableAsked, RunningAsked, DisableAsked, CountsTogether, NotRunningYet,
              DryIsTransparent, StopsClean, StartAsked, Calling, Asks, Waits, Early, Going, ToDisable, Stopping
<1> QED BY <1>o, <1>1, <1>2, <1>3, <1>4, <1>5, <1>6, <1>7, <1>8, <1>9, <1>10, <1>11, <1>12, <1>13 DEF Manager, Caller

\* A bus reset may put the stream in Error at any point of this.
LEMMA BusResetOnTime == IInv /\ OnTimeInv /\ (handleBusReset \/ BusReset) => OnTimeInv'
<1> SUFFICES ASSUME IInv, OnTimeInv, handleBusReset \/ BusReset PROVE OnTimeInv'
  OBVIOUS
<1>1. /\ UNCHANGED <<client, iso, m_next_state, m_cycle_to_switch_state, m_transparent, h_State, h_NextState>>
      /\ m_state' \in {m_state, "Error"}
  BY DEF BusReset, handleBusReset, lockWaitLoop, handleBusResetDo, resume, processor, handler
<1> QED BY ONLY <1>1, OnTimeInv
        DEF OnTimeInv, CallsPaired, EnableAsked, RunningAsked, DisableAsked, CountsTogether, NotRunningYet,
            DryIsTransparent, StopsClean, StartAsked, Calling, Asks, Waits, Early, Going, ToDisable, Stopping

LEMMA OnTimeStep == ASSUME ~Timeouts, MaxDeaths = 0, IInv, OnTimeInv, [Next]_vars PROVE OnTimeInv'
<1>1. CASE UNCHANGED vars
  BY <1>1
  DEF OnTimeInv, CallsPaired, EnableAsked, RunningAsked, DisableAsked, CountsTogether, NotRunningYet,
      DryIsTransparent, StopsClean, StartAsked, Calling, Asks, Waits, Early, Going, ToDisable, Stopping,
      vars, processor, handler
<1> QED BY <1>1, TransitionOnTime, PacketsOnTime, HandlerOnTime, IterateOnTime, ClientOnTime, BusResetOnTime DEF Next

\* Where no wait of the client times out and no handler dies, a stream does not start
\* running before the cycle the client asked for, whatever the bus resets and leads:
\* between scheduleStartRunning's two writes and that cycle, no packet function finds
\* the one without the other, and no xrun overwrites the cycle.
THEOREM AlwaysRunsOnTime == ASSUME ~Timeouts, MaxDeaths = 0 PROVE Spec => []RunsOnTime
<1>1. OnTimeInv /\ IInv => RunsOnTime
  <2> SUFFICES ASSUME OnTimeInv, Going("Running"), client.to = "WaitingForStreamEnable" PROVE client.lead = 0
    BY DEF RunsOnTime, Going
  <2>1. CASE Waits BY <2>1 DEF OnTimeInv, CountsTogether
  <2>2. CASE Asks BY <2>2 DEF OnTimeInv, NotRunningYet, Early
  <2>3. CASE ~Waits /\ ~Asks BY <2>3 DEF OnTimeInv, CallsPaired
  <2> QED BY <2>1, <2>2, <2>3
<1>2. IInv /\ OnTimeInv /\ [Next]_vars => OnTimeInv' BY OnTimeStep
<1> QED BY <1>1, <1>2, InitOnTime, AlwaysIInv, PTL DEF Spec
=============================================================================
