-------------------------- MODULE ControlTreeProofs --------------------------
(***************************************************************************)
(* Proofs about the control tree and its server, for every family of       *)
(* devices and any number of rediscoveries, and about the router and the   *)
(* controls of the DICE devices, for any number of operations and faults.  *)
(***************************************************************************)
EXTENDS ControlTree, DiceEap, SequenceTheorems, WellFoundedInduction, FiniteSetTheorems, TLAPS

-----------------------------------------------------------------------------
\* The server's main thread.
LEMMA WakeInit == TreeInit => WakeInv
BY DEF TreeInit, WakeInv, At

LEMMA WakeStep == ASSUME WakeInv, [TreeNext]_treeVars PROVE WakeInv'
<1> USE DEF WakeInv, At, serverVars
<1>1. CASE Discovering
  <2>1. CASE preUpdateHandler BY <2>1 DEF preUpdateHandler
  <2>2. CASE postUpdateHandler BY <2>2 DEF postUpdateHandler
  <2>3. CASE ~preUpdateHandler /\ ~postUpdateHandler
    <3>1. UNCHANGED <<server, running, sem, updating>>
      BY <1>1, <2>3 DEF Discovering, NewDevice, NewContainer, AddContainer, AddLeaf, RenewContainer,
         DetachContainer, DeleteContainer, EndDestroy, AttachDevice, DetachDevice, DeleteDevice, unchangedByProgram
    <3> QED BY <3>1
  <2> QED BY <2>1, <2>2, <2>3
<1>2. CASE Mirroring
  <2>1. UNCHANGED <<server, running, sem, updating>>
    BY <1>2 DEF Mirroring, updated_lock, updateTree_add, updateTree_remove, updated_unlock, unchangedByMirror
  <2> QED BY <2>1
<1>3. CASE Serving
  <2>1. UNCHANGED updating
    BY <1>3 DEF Serving, StartServer, enter, dispatch, call, getElementName, sem_wait, StopServer, sighandler,
       unchangedByServer
  <2>2. CASE StartServer BY <2>1, <2>2 DEF StartServer, Go
  <2>3. CASE enter BY <2>1, <2>3 DEF enter, Go
  <2>4. CASE dispatch BY <2>1, <2>4 DEF dispatch, Go
  <2>5. CASE call BY <2>1, <2>5 DEF call, Go
  <2>6. CASE getElementName BY <2>1, <2>6 DEF getElementName, Go
  <2>7. CASE sem_wait BY <2>1, <2>7 DEF sem_wait, Go
  <2>8. CASE StopServer BY <2>1, <2>8 DEF StopServer, Go
  <2>9. CASE sighandler BY <2>1, <2>9 DEF sighandler
  <2> QED BY <1>3, <2>2, <2>3, <2>4, <2>5, <2>6, <2>7, <2>8, <2>9 DEF Serving
<1>4. CASE UNCHANGED treeVars BY <1>4 DEF treeVars
<1> QED BY <1>1, <1>2, <1>3, <1>4 DEF TreeNext

\* The main thread of the D-Bus server is never left waiting on its semaphore: if nothing
\* will wake it, an update of the device list is under way whose end does.
THEOREM AlwaysServerWakes == TreeSpec => []ServerWakes
<1>1. WakeInv /\ [TreeNext]_treeVars => WakeInv' BY WakeStep
<1>2. WakeInv => ServerWakes BY DEF WakeInv, ServerWakes
<1> QED BY <1>1, <1>2, WakeInit, PTL DEF TreeSpec

-----------------------------------------------------------------------------
\* Programs are sequences; the parts of what is put together.
IsSeq(s) == \E S : s \in Seq(S)

LEMMA SeqFacts == ASSUME NEW s, IsSeq(s) PROVE Len(s) \in Nat /\ DOMAIN s = 1..Len(s)
<1>1. PICK S : s \in Seq(S) BY DEF IsSeq
<1> QED BY <1>1

LEMMA ConcatFacts ==
  ASSUME NEW s, NEW t, IsSeq(s), IsSeq(t)
  PROVE  /\ IsSeq(s \o t) /\ Len(s \o t) = Len(s) + Len(t) /\ DOMAIN (s \o t) = 1..(Len(s) + Len(t))
         /\ Len(s) \in Nat /\ Len(t) \in Nat /\ DOMAIN s = 1..Len(s) /\ DOMAIN t = 1..Len(t)
         /\ \A i \in 1..Len(s) : (s \o t)[i] = s[i]
         /\ \A i \in (Len(s) + 1)..(Len(s) + Len(t)) : (s \o t)[i] = t[i - Len(s)]
<1>1. PICK S : s \in Seq(S) BY DEF IsSeq
<1>2. PICK T : t \in Seq(T) BY DEF IsSeq
<1>3. s \in Seq(S \cup T) /\ t \in Seq(S \cup T) BY <1>1, <1>2
<1>4. s \o t \in Seq(S \cup T) BY <1>3
<1> QED BY <1>3, <1>4 DEF IsSeq

LEMMA TailFacts ==
  ASSUME NEW s, IsSeq(s), s # <<>>
  PROVE  /\ IsSeq(Tail(s)) /\ Head(s) = s[1] /\ Len(s) \in Nat /\ Len(s) >= 1 /\ 1 \in DOMAIN s
         /\ DOMAIN s = 1..Len(s) /\ DOMAIN Tail(s) = 1..(Len(s) - 1) /\ Len(Tail(s)) = Len(s) - 1
         /\ \A i \in 1..(Len(s) - 1) : Tail(s)[i] = s[i + 1]
<1>1. PICK S : s \in Seq(S) BY DEF IsSeq
<1>2. Tail(s) \in Seq(S) /\ Len(s) \in Nat /\ Len(s) >= 1 /\ Len(Tail(s)) = Len(s) - 1 BY <1>1
<1> QED BY <1>1, <1>2 DEF IsSeq

\* The tuples the programs are written with.
LEMMA Tuple0 == IsSeq(<<>>) /\ DOMAIN <<>> = {}
<1>1. <<>> \in Seq({}) OBVIOUS
<1> QED BY <1>1 DEF IsSeq
LEMMA Tuple1 ==
  ASSUME NEW a
  PROVE  /\ IsSeq(<<a>>) /\ DOMAIN <<a>> = 1..1
         /\ <<a>>[1] = a
<1>1. <<a>> \in Seq({a}) OBVIOUS
<1>2. IsSeq(<<a>>) BY <1>1, Zenon DEF IsSeq
<1> QED BY <1>2
LEMMA Tuple2 ==
  ASSUME NEW a, NEW b
  PROVE  /\ IsSeq(<<a, b>>) /\ DOMAIN <<a, b>> = 1..2
         /\ <<a, b>>[1] = a /\ <<a, b>>[2] = b
<1>1. <<a, b>> \in Seq({a, b}) OBVIOUS
<1>2. IsSeq(<<a, b>>) BY <1>1, Zenon DEF IsSeq
<1> QED BY <1>2
LEMMA Tuple3 == ASSUME NEW a, NEW b, NEW c PROVE IsSeq(<<a, b, c>>)
<1>1. <<a, b, c>> \in Seq({a, b, c}) OBVIOUS
<1> QED BY <1>1, Zenon DEF IsSeq
LEMMA Tuple4 == ASSUME NEW a, NEW b, NEW c, NEW d PROVE IsSeq(<<a, b, c, d>>)
<1>1. <<a, b, c, d>> \in Seq({a, b, c, d}) OBVIOUS
<1> QED BY <1>1, Zenon DEF IsSeq
LEMMA Tuple5 == ASSUME NEW a, NEW b, NEW c, NEW d, NEW e PROVE IsSeq(<<a, b, c, d, e>>)
<1>1. <<a, b, c, d, e>> \in Seq({a, b, c, d, e}) OBVIOUS
<1> QED BY <1>1, Zenon DEF IsSeq
LEMMA Tuple7 == ASSUME NEW a, NEW b, NEW c, NEW d, NEW e, NEW f, NEW g PROVE IsSeq(<<a, b, c, d, e, f, g>>)
<1>1. <<a, b, c, d, e, f, g>> \in Seq({a, b, c, d, e, f, g}) OBVIOUS
<1> QED BY <1>1, Zenon DEF IsSeq

\* What buildMixer and destroyMixer consist of, family by family.
Builds(b) ==
    /\ IsSeq(b)
    /\ \A i \in DOMAIN b : b[i].op \in {"container", "attach", "leaf"}
    /\ \A i \in DOMAIN b : b[i].op \in {"container", "attach"} => b[i].m \in MemberNames
    /\ \A i \in DOMAIN b : b[i].op = "attach" =>
          \E j \in DOMAIN b : j < i /\ b[j].op = "container" /\ b[j].m = b[i].m
DetachFields == {"op", "m", "null", "failed", "resets"}
Destroys(d) ==
    IsSeq(d) /\ \A i \in DOMAIN d : d[i].op = "detach" /\ d[i].m \in MemberNames /\ DOMAIN d[i] = DetachFields

LEMMA DestroyOne == ASSUME NEW a, a.op = "detach", a.m \in MemberNames, DOMAIN a = DetachFields PROVE Destroys(<<a>>)
BY Tuple1 DEF Destroys
LEMMA DestroyTwo ==
  ASSUME NEW a, NEW b, a.op = "detach", a.m \in MemberNames, b.op = "detach", b.m \in MemberNames,
         DOMAIN a = DetachFields, DOMAIN b = DetachFields
  PROVE  Destroys(<<a, b>>)
BY Tuple2 DEF Destroys

LEMMA DestroyMixer == ASSUME NEW f PROVE Destroys(destroyMixer(f))
<1>1. ASSUME NEW m, NEW null, NEW failed, NEW resets, m \in MemberNames
      PROVE  /\ Detach(m, null, failed, resets).op = "detach" /\ Detach(m, null, failed, resets).m \in MemberNames
             /\ DOMAIN Detach(m, null, failed, resets) = DetachFields
  BY <1>1 DEF Detach, DetachFields
<1>2. "mixer" \in MemberNames /\ "control" \in MemberNames /\ "hwinfo" \in MemberNames BY DEF MemberNames
<1>3. Destroys(destroyMixer_saffirepro) BY <1>1, <1>2, DestroyTwo DEF destroyMixer_saffirepro
<1>4. Destroys(destroyMixer_saffire) BY <1>1, <1>2, DestroyOne DEF destroyMixer_saffire
<1>5. Destroys(destroyMixer_fireworks) BY <1>1, <1>2, DestroyTwo DEF destroyMixer_fireworks
<1>6. Destroys(destroyMixer_rme) BY <1>1, <1>2, DestroyTwo DEF destroyMixer_rme
<1>7. Destroys(destroyMixer_motu) BY <1>1, <1>2, DestroyTwo DEF destroyMixer_motu
<1>8. Destroys(destroyMixer_bebob) BY <1>1, <1>2, DestroyOne DEF destroyMixer_bebob
<1>9. Destroys(<<>>) BY Tuple0 DEF Destroys
<1> QED BY <1>3, <1>4, <1>5, <1>6, <1>7, <1>8, <1>9 DEF destroyMixer

LEMMA BuildTwo ==
  ASSUME NEW a, NEW b,
         a.op = "container" /\ a.m \in MemberNames, b.op = "attach" /\ b.m = a.m
  PROVE  Builds(<<a, b>>)
BY Tuple2 DEF Builds

LEMMA BuildThree ==
  ASSUME NEW a, NEW b, NEW c,
         a.op = "container" /\ a.m \in MemberNames, b.op = "attach" /\ b.m = a.m, c.op = "leaf"
  PROVE  Builds(<<a, b, c>>)
BY Tuple3 DEF Builds

LEMMA BuildFour ==
  ASSUME NEW a, NEW b, NEW c, NEW d,
         a.op = "container" /\ a.m \in MemberNames, b.op = "container" /\ b.m \in MemberNames,
         c.op = "attach" /\ c.m = a.m, d.op = "attach" /\ d.m = b.m
  PROVE  Builds(<<a, b, c, d>>)
BY Tuple4 DEF Builds

LEMMA BuildPairs ==
  ASSUME NEW a, NEW b, NEW c, NEW d,
         a.op = "container" /\ a.m \in MemberNames, b.op = "attach" /\ b.m = a.m,
         c.op = "container" /\ c.m \in MemberNames, d.op = "attach" /\ d.m = c.m
  PROVE  Builds(<<a, b, c, d>>)
BY Tuple4 DEF Builds

LEMMA BuildFive ==
  ASSUME NEW a, NEW b, NEW c, NEW d, NEW e,
         a.op = "container" /\ a.m \in MemberNames, b.op = "attach" /\ b.m = a.m,
         c.op = "container" /\ c.m \in MemberNames, d.op = "leaf", e.op = "attach" /\ e.m = c.m
  PROVE  Builds(<<a, b, c, d, e>>)
BY Tuple5 DEF Builds

LEMMA BuildSeven ==
  ASSUME NEW a, NEW b, NEW c, NEW d, NEW e, NEW f, NEW g,
         a.op = "container" /\ a.m \in MemberNames, b.op = "container" /\ b.m \in MemberNames,
         c.op = "leaf", d.op = "leaf", e.op = "leaf",
         f.op = "attach" /\ f.m = a.m, g.op = "attach" /\ g.m = b.m
  PROVE  Builds(<<a, b, c, d, e, f, g>>)
BY Tuple7 DEF Builds

LEMMA BuildMixer == ASSUME NEW f, f # "special" PROVE Builds(buildMixer(f))
<1>1. ASSUME NEW m, NEW name
      PROVE  /\ Container(m, name).op = "container" /\ Container(m, name).m = m
             /\ Attach(m).op = "attach" /\ Attach(m).m = m
  BY DEF Container, Attach
<1>2. ASSUME NEW x PROVE Leaf(x).op = "leaf" BY DEF Leaf
<1>3. {"mixer", "control", "hwinfo", "eap"} \subseteq MemberNames BY DEF MemberNames
<1>4. ASSUME NEW l PROVE Builds(<<Container("mixer", "Mixer"), Attach("mixer"), Container("control", "Control"),
                                  Leaf(l), Attach("control")>>)
  BY <1>1, <1>2, <1>3, BuildFive
<1>5. Builds(<<Container("mixer", "Mixer"), Attach("mixer"), Container("control", "Control"), Attach("control")>>)
  BY <1>1, <1>3, BuildPairs
<1>6. ASSUME NEW l PROVE Builds(<<Container("mixer", "Mixer"), Attach("mixer"), Leaf(l)>>)
  BY <1>1, <1>2, <1>3, BuildThree
<1>7. Builds(<<Container("mixer", "Mixer"), Attach("mixer")>>) BY <1>1, <1>3, BuildTwo
<1>8. Builds(<<Container("eap", "EAP"), Attach("eap")>>) BY <1>1, <1>3, BuildTwo
<1>9. Builds(<<Container("control", "Control"), Container("mixer", "Mixer"), Attach("control"), Attach("mixer")>>)
  BY <1>1, <1>3, BuildFour
<1>10. Builds(<<Container("mixer", "Mixer"), Container("hwinfo", "HwInfo"), Leaf("SaveSettings"), Leaf("Identify"),
                Leaf("SpdifMode"), Attach("mixer"), Attach("hwinfo")>>)
  BY <1>1, <1>2, <1>3, BuildSeven
<1>11. Builds(<<>>) BY Tuple0 DEF Builds
<1> QED BY <1>4, <1>5, <1>6, <1>7, <1>8, <1>9, <1>10, <1>11 DEF buildMixer

-----------------------------------------------------------------------------
\* The programs of a discovery.
Makes(b) ==
    /\ IsSeq(b)
    /\ \A i \in DOMAIN b : b[i].op \in {"container", "attach", "leaf", "newDevice", "attachDevice"}
    /\ \A i \in DOMAIN b : b[i].op \in {"container", "attach"} => b[i].m \in MemberNames
    /\ \A i \in DOMAIN b : b[i].op = "attach" =>
          \E j \in DOMAIN b : j < i /\ b[j].op = "container" /\ b[j].m = b[i].m
LEMMA BuildsMakes == ASSUME NEW b, Builds(b) PROVE Makes(b)
BY DEF Builds, Makes

LEMMA MakesConcat == ASSUME NEW s, NEW t, Makes(s), Makes(t) PROVE Makes(s \o t)
<1>0. IsSeq(s) /\ IsSeq(t) BY DEF Makes
<1> DEFINE p == s \o t
<1>1. /\ IsSeq(p) /\ DOMAIN p = 1..(Len(s) + Len(t)) /\ Len(s) \in Nat /\ Len(t) \in Nat
      /\ DOMAIN s = 1..Len(s) /\ DOMAIN t = 1..Len(t)
      /\ \A i \in 1..Len(s) : p[i] = s[i]
      /\ \A i \in (Len(s) + 1)..(Len(s) + Len(t)) : p[i] = t[i - Len(s)]
  BY <1>0, ConcatFacts
<1> HIDE DEF p
<1>2. ASSUME NEW i \in DOMAIN p
      PROVE  (i \in DOMAIN s /\ p[i] = s[i]) \/ (i > Len(s) /\ i - Len(s) \in DOMAIN t /\ p[i] = t[i - Len(s)])
  BY <1>1, <1>2
<1>3. ASSUME NEW i \in DOMAIN p
      PROVE  /\ p[i].op \in {"container", "attach", "leaf", "newDevice", "attachDevice"}
             /\ p[i].op \in {"container", "attach"} => p[i].m \in MemberNames
  BY <1>2, <1>3 DEF Makes
<1>4. ASSUME NEW i \in DOMAIN p, p[i].op = "attach"
      PROVE  \E j \in DOMAIN p : j < i /\ p[j].op = "container" /\ p[j].m = p[i].m
  <2>1. CASE i \in DOMAIN s /\ p[i] = s[i]
    <3>1. PICK j \in DOMAIN s : j < i /\ s[j].op = "container" /\ s[j].m = s[i].m BY <1>4, <2>1 DEF Makes
    <3>2. j \in DOMAIN p /\ p[j] = s[j] BY <1>1
    <3> QED BY <2>1, <3>1, <3>2
  <2>2. CASE i > Len(s) /\ i - Len(s) \in DOMAIN t /\ p[i] = t[i - Len(s)]
    <3>1. PICK j \in DOMAIN t : j < i - Len(s) /\ t[j].op = "container" /\ t[j].m = t[i - Len(s)].m
      BY <1>4, <2>2 DEF Makes
    <3>2. j + Len(s) \in (Len(s) + 1)..(Len(s) + Len(t)) /\ (j + Len(s)) - Len(s) = j /\ j + Len(s) < i
      BY <1>1, <1>4, <3>1
    <3>3. j + Len(s) \in DOMAIN p /\ p[j + Len(s)] = t[j] BY <1>1, <3>2
    <3> QED BY <2>2, <3>1, <3>2, <3>3
  <2> QED BY <1>2, <1>4, <2>1, <2>2
<1>5. Makes(p) BY <1>1, <1>3, <1>4 DEF Makes
<1> QED BY <1>5 DEF p

\* What holds of a program when it begins.
Begins(p) ==
    /\ IsSeq(p) /\ NamesMembers(p) /\ DestroysFirst(p)
    /\ \A i \in DOMAIN p : p[i].op # "delete"
    /\ \A i \in DOMAIN p : p[i].op = "detach" => DOMAIN p[i] = DetachFields
    /\ \A i \in DOMAIN p : p[i].op = "attach" =>
          \E j \in DOMAIN p : j < i /\ p[j].op = "container" /\ p[j].m = p[i].m

LEMMA MakesBegins == ASSUME NEW p, Makes(p) PROVE Begins(p) /\ \A i \in DOMAIN p : p[i].op # "deleteDevice"
BY DEF Makes, Begins, NamesMembers, DestroysFirst

\* The programs of a rediscovery, index by index: what destroyMixer does, its end, buildMixer.
LEMMA DestroyBuildAt ==
  ASSUME NEW d, NEW b, NEW p, NEW n \in Nat, NEW k \in Nat, Destroys(d), Builds(b), IsSeq(p),
         DOMAIN d = 1..n, DOMAIN b = 1..k, DOMAIN p = 1..(n + 1 + k),
         \A i \in 1..n : p[i] = d[i], p[n + 1].op = "endDestroy", \A i \in 1..k : p[n + 1 + i] = b[i]
  PROVE  Begins(p) /\ \A i \in DOMAIN p : p[i].op \notin {"deleteDevice", "attachDevice", "newDevice"}
<1>1. ASSUME NEW i \in DOMAIN p
      PROVE  \/ i \in 1..n /\ p[i].op = "detach" /\ p[i].m \in MemberNames /\ DOMAIN p[i] = DetachFields
             \/ i = n + 1 /\ p[i].op = "endDestroy"
             \/ /\ i > n + 1 /\ p[i].op \in {"container", "attach", "leaf"}
                /\ p[i].op \in {"container", "attach"} => p[i].m \in MemberNames
  <2>1. CASE i \in 1..n BY <2>1 DEF Destroys
  <2>2. CASE i = n + 1 BY <2>2
  <2>3. CASE i > n + 1
    <3>1. PICK x \in 1..k : i = n + 1 + x
      <4>1. i - (n + 1) \in 1..k /\ i = n + 1 + (i - (n + 1)) BY <2>3
      <4> QED BY <4>1
    <3>2. p[i] = b[x] /\ x \in DOMAIN b BY <3>1
    <3> QED BY <2>3, <3>2 DEF Builds
  <2> QED BY <2>1, <2>2, <2>3
<1>2. ASSUME NEW i \in DOMAIN p, p[i].op = "attach"
      PROVE  \E j \in DOMAIN p : j < i /\ p[j].op = "container" /\ p[j].m = p[i].m
  <2>1. i > n + 1 BY <1>1, <1>2
  <2>2. PICK x \in 1..k : i = n + 1 + x
    <3>1. i - (n + 1) \in 1..k /\ i = n + 1 + (i - (n + 1)) BY <2>1
    <3> QED BY <3>1
  <2>3. p[i] = b[x] BY <2>2
  <2>4. PICK y \in DOMAIN b : y < x /\ b[y].op = "container" /\ b[y].m = b[x].m BY <1>2, <2>3 DEF Builds
  <2>5. n + 1 + y \in DOMAIN p /\ n + 1 + y < i BY <2>2, <2>4
  <2>6. p[n + 1 + y] = b[y] BY <2>4
  <2> QED BY <2>3, <2>4, <2>5, <2>6
<1>3. NamesMembers(p) BY <1>1 DEF NamesMembers
<1>4. ASSUME NEW i \in DOMAIN p, NEW j \in DOMAIN p, i < j
      PROVE  p[j].op # "delete" /\ (p[i].op \in {"container", "newDevice"} => p[j].op \notin {"detach", "endDestroy"})
  <2>1. p[i].op \in {"container", "newDevice"} => j > n + 1 BY <1>1, <1>4
  <2> QED BY <1>1, <2>1
<1>5. ASSUME NEW i \in DOMAIN p, p[i].op = "detach" PROVE \E j \in DOMAIN p : i < j /\ p[j].op = "endDestroy"
  <2>1. i < n + 1 /\ n + 1 \in DOMAIN p BY <1>1, <1>5
  <2> QED BY <2>1
<1>6. DestroysFirst(p) BY <1>4, <1>5 DEF DestroysFirst
<1>7. \A i \in DOMAIN p : p[i].op \notin {"delete", "deleteDevice", "attachDevice", "newDevice"} BY <1>1
<1>8. \A i \in DOMAIN p : p[i].op = "detach" => DOMAIN p[i] = DetachFields BY <1>1
<1> QED BY <1>2, <1>3, <1>6, <1>7, <1>8 DEF Begins

LEMMA DestroyBuild ==
  ASSUME NEW d, NEW b, NEW e, Destroys(d), Builds(b), e = Op("endDestroy")
  PROVE  /\ Begins((d \o <<e>>) \o b)
         /\ \A i \in DOMAIN ((d \o <<e>>) \o b) :
               ((d \o <<e>>) \o b)[i].op \notin {"deleteDevice", "attachDevice", "newDevice"}
<1> DEFINE c == d \o <<e>>
           p == c \o b
<1>1. IsSeq(d) /\ IsSeq(b) /\ e.op = "endDestroy" BY DEF Destroys, Builds, Op
<1>2. IsSeq(<<e>>) /\ <<e>>[1] = e /\ Len(<<e>>) = 1 BY Tuple1
<1>3. PICK n \in Nat : n = Len(d) /\ DOMAIN d = 1..n BY <1>1, SeqFacts
<1>4. PICK k \in Nat : k = Len(b) /\ DOMAIN b = 1..k BY <1>1, SeqFacts
<1>5. /\ IsSeq(c) /\ Len(c) = n + 1
      /\ \A i \in 1..n : c[i] = d[i]
      /\ \A i \in (n + 1)..(n + 1) : c[i] = <<e>>[i - n]
  BY <1>1, <1>2, <1>3, ConcatFacts
<1>6. c[n + 1] = e
  <2>1. n + 1 \in (n + 1)..(n + 1) /\ (n + 1) - n = 1 OBVIOUS
  <2> QED BY <1>2, <1>5, <2>1
<1> HIDE DEF c
<1>7. /\ IsSeq(p) /\ DOMAIN p = 1..(n + 1 + k)
      /\ \A i \in 1..(n + 1) : p[i] = c[i]
      /\ \A i \in (n + 1 + 1)..(n + 1 + k) : p[i] = b[i - (n + 1)]
  BY <1>1, <1>4, <1>5, ConcatFacts
<1> HIDE DEF p
<1>8. \A i \in 1..n : p[i] = d[i]
  <2>1. \A i \in 1..n : i \in 1..(n + 1) OBVIOUS
  <2> QED BY <1>5, <1>7, <2>1
<1>9. p[n + 1].op = "endDestroy"
  <2>1. n + 1 \in 1..(n + 1) OBVIOUS
  <2> QED BY <1>1, <1>6, <1>7, <2>1
<1>10. ASSUME NEW i \in 1..k PROVE p[n + 1 + i] = b[i]
  <2>1. n + 1 + i \in (n + 1 + 1)..(n + 1 + k) /\ (n + 1 + i) - (n + 1) = i OBVIOUS
  <2> QED BY <1>7, <2>1
<1>11. Begins(p) /\ \A i \in DOMAIN p : p[i].op \notin {"deleteDevice", "attachDevice", "newDevice"}
  BY <1>3, <1>4, <1>7, <1>8, <1>9, <1>10, DestroyBuildAt
<1> QED BY <1>11 DEF p, c

\* Each program a discovery of the device manager begins with.
LEMMA RebuildBegins ==
  ASSUME NEW f, f # "special"
  PROVE  Begins(Rebuild(f)) /\ \A i \in DOMAIN Rebuild(f) : Rebuild(f)[i].op \notin {"deleteDevice", "newDevice"}
BY DestroyMixer, BuildMixer, DestroyBuild DEF Rebuild

LEMMA WithdrawBegins == Begins(Withdraw) /\ DetachesDevice(Withdraw, TRUE)
<1>1. /\ IsSeq(Withdraw) /\ DOMAIN Withdraw = 1..2 /\ Len(Withdraw) = 2
      /\ Withdraw[1].op = "detachDevice" /\ Withdraw[2].op = "deleteDevice"
  BY Tuple2 DEF Withdraw, Op
<1>2. \A i \in DOMAIN Withdraw : Withdraw[i].op \in {"detachDevice", "deleteDevice"} BY <1>1
<1>3. Begins(Withdraw) BY <1>1, <1>2 DEF Begins, NamesMembers, DestroysFirst
<1> QED BY <1>1, <1>3 DEF DetachesDevice

MakesOnce(p, there) == \A i \in DOMAIN p : p[i].op = "newDevice" => i = 1 /\ ~there
Starts(p) == Makes(p) /\ 1 \in DOMAIN p /\ p[1].op = "newDevice" /\ MakesOnce(p, FALSE)
Grows(p) == Makes(p) /\ \A i \in DOMAIN p : p[i].op # "newDevice"
LEMMA StartsConcat == ASSUME NEW s, NEW t, Starts(s), Grows(t) PROVE Starts(s \o t)
<1>1. IsSeq(s) /\ IsSeq(t) BY DEF Starts, Grows, Makes
<1>2. Makes(s \o t) BY MakesConcat DEF Starts, Grows
<1>3. /\ DOMAIN (s \o t) = 1..(Len(s) + Len(t)) /\ Len(s) \in Nat /\ Len(t) \in Nat /\ DOMAIN s = 1..Len(s)
      /\ DOMAIN t = 1..Len(t)
      /\ \A i \in 1..Len(s) : (s \o t)[i] = s[i]
      /\ \A i \in (Len(s) + 1)..(Len(s) + Len(t)) : (s \o t)[i] = t[i - Len(s)]
  BY <1>1, ConcatFacts
<1>4. 1 \in 1..Len(s) /\ s[1].op = "newDevice" BY <1>3 DEF Starts
<1>5. 1 \in 1..(Len(s) + Len(t)) BY <1>3, <1>4
<1>6. (s \o t)[1].op = "newDevice" BY <1>3, <1>4
<1>7. ASSUME NEW i \in DOMAIN (s \o t), (s \o t)[i].op = "newDevice" PROVE i = 1
  <2>1. CASE i \in 1..Len(s) BY <1>3, <1>7, <2>1 DEF Starts, MakesOnce
  <2>2. CASE i \in (Len(s) + 1)..(Len(s) + Len(t))
    <3>1. i - Len(s) \in DOMAIN t BY <1>3, <2>2
    <3> QED BY <1>3, <1>7, <2>2, <3>1 DEF Grows
  <2> QED BY <1>3, <2>1, <2>2
<1> QED BY <1>2, <1>3, <1>5, <1>6, <1>7 DEF Starts, MakesOnce

LEMMA BuildsGrows == ASSUME NEW b, Builds(b) PROVE Grows(b)
BY BuildsMakes DEF Builds, Grows

LEMMA CreateBegins ==
  ASSUME NEW f, f # "special"
  PROVE  /\ Begins(Create(f)) /\ CreatesDevice(Create(f)) /\ MakesOnce(Create(f), FALSE)
         /\ \A i \in DOMAIN Create(f) : Create(f)[i].op # "deleteDevice"
<1> DEFINE new == <<Op("newDevice")>>
           preamp == IF f = "inspire" THEN <<Container("preamp", "Preamp"), Attach("preamp")>> ELSE <<>>
           body == new \o preamp
           more == body \o buildMixer(f)
           last == <<Op("attachDevice")>>
<1>1. Starts(new) BY Tuple1 DEF Starts, MakesOnce, Makes, Op
<1>2. Grows(preamp)
  <2>1. Grows(<<>>) BY Tuple0 DEF Grows, Makes
  <2>2. Builds(<<Container("preamp", "Preamp"), Attach("preamp")>>)
    BY BuildTwo DEF Container, Attach, MemberNames
  <2> QED BY <2>1, <2>2, BuildsGrows
<1>3. Grows(buildMixer(f)) BY BuildMixer, BuildsGrows
<1>4. Grows(last) BY Tuple1 DEF Grows, Makes, Op
<1> HIDE DEF new, preamp, last
<1>5. Starts(body) BY <1>1, <1>2, StartsConcat
<1>6. Starts(more) BY <1>3, <1>5, StartsConcat
<1>7. Starts(more \o last) BY <1>4, <1>6, StartsConcat
<1>8. Create(f) = more \o last BY DEF Create, more, body, new, preamp, last
<1>9. CreatesDevice(Create(f))
  <2>1. \A i \in DOMAIN Create(f) : i \in Nat /\ i >= 1 BY <1>7, <1>8, SeqFacts DEF Starts, Makes
  <2>2. ASSUME NEW i \in DOMAIN Create(f), Create(f)[i].op = "attachDevice" PROVE 1 < i
    BY <1>7, <1>8, <2>1, <2>2 DEF Starts
  <2> QED BY <1>7, <1>8, <2>2 DEF CreatesDevice, Starts
<1> QED BY <1>7, <1>8, <1>9, MakesBegins DEF Starts

-----------------------------------------------------------------------------
\* What is left of a program after its first k steps.
Shape(p) == \A i \in DOMAIN p : p[i].op = "detach" => DOMAIN p[i] = DetachFields
InOrder(p) == IsSeq(p) /\ NamesMembers(p) /\ DestroysFirst(p) /\ Shape(p)
Remains(p, q, n, k) ==
    /\ n \in Nat /\ k \in Nat /\ k >= 1 /\ k <= n
    /\ IsSeq(q) /\ DOMAIN p = 1..n /\ Len(p) = n /\ DOMAIN q = 1..(n - k) /\ Len(q) = n - k
    /\ \A i \in 1..(n - k) : q[i] = p[i + k]

LEMMA ShiftIndex ==
  ASSUME NEW p, NEW q, NEW n, NEW k, Remains(p, q, n, k)
  PROVE  /\ \A i \in DOMAIN q : i + k \in DOMAIN p /\ q[i] = p[i + k] /\ i \in Int
         /\ \A i \in DOMAIN p : i > k => i - k \in DOMAIN q /\ q[i - k] = p[i]
         /\ \A i \in DOMAIN p : i \in Int /\ i >= 1
         /\ 1 \in DOMAIN p /\ k \in Int /\ k >= 1
<1> USE DEF Remains
<1>1. \A i \in DOMAIN q : i + k \in DOMAIN p /\ q[i] = p[i + k] /\ i \in Int OBVIOUS
<1>2. ASSUME NEW i \in DOMAIN p, i > k PROVE i - k \in DOMAIN q /\ q[i - k] = p[i]
  <2>1. i - k \in 1..(n - k) /\ (i - k) + k = i BY <1>2
  <2> QED BY <2>1
<1>3. \A i \in DOMAIN p : i \in Int /\ i >= 1 OBVIOUS
<1>4. 1 \in DOMAIN p /\ k \in Int /\ k >= 1 OBVIOUS
<1> QED BY <1>1, <1>2, <1>3, <1>4

LEMMA ShiftInOrder ==
  ASSUME NEW p, NEW q, NEW n, NEW k, Remains(p, q, n, k), InOrder(p)
  PROVE  InOrder(q) /\ \A i \in DOMAIN q : q[i].op # "delete"
<1>1. NamesMembers(q) BY ShiftIndex DEF NamesMembers, InOrder
<1>2. Shape(q) BY ShiftIndex DEF Shape, InOrder
<1>3. ASSUME NEW i \in DOMAIN q PROVE q[i].op # "delete"
  <2>1. 1 \in DOMAIN p /\ i + k \in DOMAIN p /\ q[i] = p[i + k] BY ShiftIndex
  <2>2. 1 < i + k BY <1>3, ShiftIndex DEF Remains
  <2> QED BY <2>1, <2>2 DEF InOrder, DestroysFirst
<1>4. ASSUME NEW i \in DOMAIN q, NEW j \in DOMAIN q, i < j, q[i].op \in {"container", "newDevice"}
      PROVE  q[j].op \notin {"detach", "endDestroy"}
  <2>1. i + k \in DOMAIN p /\ q[i] = p[i + k] /\ j + k \in DOMAIN p /\ q[j] = p[j + k] /\ i \in Int /\ j \in Int
    BY ShiftIndex
  <2>2. i + k < j + k BY <1>4, <2>1 DEF Remains
  <2> QED BY <1>4, <2>1, <2>2 DEF InOrder, DestroysFirst
<1>5. ASSUME NEW i \in DOMAIN q, q[i].op = "detach" PROVE \E j \in DOMAIN q : i < j /\ q[j].op = "endDestroy"
  <2>1. i + k \in DOMAIN p /\ q[i] = p[i + k] /\ i \in Int BY ShiftIndex
  <2>2. PICK j \in DOMAIN p : i + k < j /\ p[j].op = "endDestroy" BY <1>5, <2>1 DEF InOrder, DestroysFirst
  <2>3. j > k /\ i < j - k BY <1>5, <2>1, <2>2 DEF Remains
  <2>4. j - k \in DOMAIN q /\ q[j - k] = p[j] BY <2>3, ShiftIndex
  <2> QED BY <2>2, <2>3, <2>4
<1>6. DestroysFirst(q) BY <1>3, <1>4, <1>5 DEF DestroysFirst
<1> QED BY <1>1, <1>2, <1>3, <1>6 DEF InOrder, Remains

LEMMA ShiftDetaches ==
  ASSUME NEW p, NEW q, NEW n, NEW k, NEW a, NEW b, Remains(p, q, n, k), DetachesDevice(p, a),
         q[1].op = "deleteDevice" /\ p[k].op = "detachDevice" => ~b
  PROVE  DetachesDevice(q, b)
<1> SUFFICES ASSUME NEW i \in DOMAIN q, q[i].op = "deleteDevice"
             PROVE  i = Len(q) /\ (IF i = 1 THEN ~b ELSE q[i - 1].op = "detachDevice")
  BY DEF DetachesDevice
<1>1. i + k \in DOMAIN p /\ q[i] = p[i + k] /\ i \in Int /\ i >= 1 BY ShiftIndex DEF Remains
<1>2. i + k # 1 BY <1>1 DEF Remains
<1>3. i = Len(q) /\ p[i + k - 1].op = "detachDevice"
  <2>1. PICK x \in DOMAIN p : x = i + k /\ p[x].op = "deleteDevice" BY <1>1
  <2>2. x = Len(p) /\ (IF x = 1 THEN ~a ELSE p[x - 1].op = "detachDevice") BY <2>1, Zenon DEF DetachesDevice
  <2>3. x = Len(p) /\ p[x - 1].op = "detachDevice" BY <1>2, <2>1, <2>2
  <2> QED BY <1>1, <2>1, <2>3 DEF Remains
<1>4. CASE i = 1
  <2>1. i + k - 1 = k BY <1>4 DEF Remains
  <2> QED BY <1>3, <1>4, <2>1
<1>5. CASE i # 1
  <2>1. i - 1 \in 1..(n - k) /\ (i - 1) + k = i + k - 1 BY <1>1, <1>5 DEF Remains
  <2>2. q[i - 1] = p[i + k - 1] BY <2>1 DEF Remains
  <2> QED BY <1>3, <1>5, <2>2
<1> QED BY <1>4, <1>5

LEMMA ShiftAttaches ==
  ASSUME NEW p, NEW q, NEW n, NEW k, NEW mem, NEW dead, NEW mem2, NEW dead2,
         Remains(p, q, n, k), InOrder(p), AttachesLive(p, mem, dead),
         \A j \in 1..k : p[j].op = "container" => mem2[p[j].m] \notin dead2,
         p[1].op \notin {"detach", "delete"} => \A m \in MemberNames : mem[m] \notin dead => mem2[m] \notin dead2
  PROVE  AttachesLive(q, mem2, dead2)
<1> SUFFICES ASSUME NEW i \in DOMAIN q, q[i].op = "attach"
             PROVE  \/ \E j \in DOMAIN q : j < i /\ q[j].op = "container" /\ q[j].m = q[i].m
                    \/ /\ mem2[q[i].m] \notin dead2
                       /\ \A j \in DOMAIN q : j < i => q[j].op \notin {"detach", "delete"}
  BY DEF AttachesLive
<1>1. i + k \in DOMAIN p /\ q[i] = p[i + k] /\ i \in Int BY ShiftIndex
<1>2. p[i + k].m \in MemberNames BY <1>1 DEF InOrder, NamesMembers
<1>3. CASE \E j \in DOMAIN p : j < i + k /\ p[j].op = "container" /\ p[j].m = p[i + k].m
  <2>1. PICK j \in DOMAIN p : j < i + k /\ p[j].op = "container" /\ p[j].m = p[i + k].m BY <1>3
  <2>2. j \in Int /\ j >= 1 BY ShiftIndex
  <2>3. CASE j > k
    <3>1. j - k \in DOMAIN q /\ q[j - k] = p[j] BY <2>3, ShiftIndex
    <3>2. j - k < i BY <1>1, <2>1, <2>2 DEF Remains
    <3> QED BY <1>1, <2>1, <3>1, <3>2
  <2>4. CASE j <= k
    <3>1. j \in 1..k BY <2>2, <2>4 DEF Remains
    <3>2. mem2[q[i].m] \notin dead2 BY <1>1, <2>1, <3>1
    <3>3. ASSUME NEW x \in DOMAIN q PROVE q[x].op \notin {"detach", "delete"}
      <4>1. x + k \in DOMAIN p /\ q[x] = p[x + k] BY ShiftIndex
      <4>2. j < x + k BY <2>2, <2>4, <3>3, ShiftIndex DEF Remains
      <4> QED BY <2>1, <4>1, <4>2 DEF InOrder, DestroysFirst
    <3> QED BY <3>2, <3>3
  <2> QED BY <2>2, <2>3, <2>4 DEF Remains
<1>4. CASE /\ mem[p[i + k].m] \notin dead
           /\ \A j \in DOMAIN p : j < i + k => p[j].op \notin {"detach", "delete"}
  <2>1. 1 \in DOMAIN p /\ 1 < i + k BY <1>1, ShiftIndex DEF Remains
  <2>2. mem2[q[i].m] \notin dead2 BY <1>1, <1>2, <1>4, <2>1
  <2>3. ASSUME NEW j \in DOMAIN q, j < i PROVE q[j].op \notin {"detach", "delete"}
    <3>1. j + k \in DOMAIN p /\ q[j] = p[j + k] /\ j \in Int BY ShiftIndex
    <3>2. j + k < i + k BY <1>1, <2>3, <3>1 DEF Remains
    <3> QED BY <1>4, <3>1, <3>2
  <2> QED BY <2>2, <2>3
<1> QED BY <1>1, <1>3, <1>4 DEF AttachesLive

LEMMA ShiftCreates ==
  ASSUME NEW p, NEW q, NEW n, NEW k, Remains(p, q, n, k), CreatesDevice(p), \A j \in 1..k : p[j].op # "newDevice"
  PROVE  CreatesDevice(q)
<1> SUFFICES ASSUME NEW i \in DOMAIN q, q[i].op = "attachDevice"
             PROVE  \E j \in DOMAIN q : j < i /\ q[j].op = "newDevice"
  BY DEF CreatesDevice
<1>1. i + k \in DOMAIN p /\ q[i] = p[i + k] /\ i \in Int BY ShiftIndex
<1>2. PICK j \in DOMAIN p : j < i + k /\ p[j].op = "newDevice" BY <1>1 DEF CreatesDevice
<1>3. j > k /\ j - k < i BY <1>1, <1>2 DEF Remains
<1>4. j - k \in DOMAIN q /\ q[j - k] = p[j] BY <1>3, ShiftIndex
<1> QED BY <1>2, <1>3, <1>4

LEMMA TailRemains == ASSUME NEW p, IsSeq(p), p # <<>> PROVE Remains(p, Tail(p), Len(p), 1)
BY TailFacts DEF Remains

\* The first element that passes a test, if one does.
LEMMA Least == ASSUME NEW T, T \subseteq Nat, T # {} PROVE Min(T) \in T /\ \A y \in T : Min(T) <= y
<1> DEFINE Less == {x \in Nat \X Nat : x[1] < x[2]}
<1>1. IsWellFoundedOn(Less, Nat) BY NatLessThanWellFounded DEF OpToRel
<1>2. \E x \in T : \A y \in T : ~(<<y, x>> \in Less)
  <2> HIDE DEF Less
  <2> QED BY <1>1, WFMin
<1>3. PICK x \in T : \A y \in T : ~(y < x) BY <1>2
<1>4. \A y \in T : x <= y BY <1>3
<1> QED BY <1>4 DEF Min

LEMMA SubSeqFacts ==
  ASSUME NEW s, IsSeq(s), NEW a \in Nat, NEW b \in Nat, a >= 1, b <= Len(s), a <= b + 1
  PROVE  /\ IsSeq(SubSeq(s, a, b)) /\ Len(SubSeq(s, a, b)) = b - a + 1
         /\ \A i \in 1..(b - a + 1) : SubSeq(s, a, b)[i] = s[a + i - 1]
<1>1. PICK S : s \in Seq(S) BY DEF IsSeq
<1>2. Len(s) \in Nat /\ \A i \in a..b : s[i] \in S BY <1>1
<1>3. SubSeq(s, a, b) \in Seq(S) /\ Len(SubSeq(s, a, b)) = IF a <= b THEN b - a + 1 ELSE 0 BY <1>2
<1> QED BY <1>1, <1>2, <1>3 DEF IsSeq

LEMMA AfterDestroyRemains ==
  ASSUME InOrder(prog), prog # <<>>, Head(prog).op = "detach"
  PROVE  \E k : /\ Remains(prog, AfterDestroy, Len(prog), k)
                /\ \A j \in 1..k : prog[j].op \notin {"container", "newDevice"}
                /\ AfterDestroy[1].op = "endDestroy"
<1> DEFINE I == {i \in 1..Len(prog) : prog[i].op = "endDestroy"}
           x == SelectInSeq(prog, LAMBDA o : o.op = "endDestroy")
<1>1. /\ IsSeq(prog) /\ Head(prog) = prog[1] /\ 1 \in DOMAIN prog /\ DOMAIN prog = 1..Len(prog) /\ Len(prog) \in Nat
  BY TailFacts DEF InOrder
<1>2. \E j \in DOMAIN prog : 1 < j /\ prog[j].op = "endDestroy" BY <1>1 DEF InOrder, DestroysFirst
<1>3. I # {} /\ I \subseteq Nat BY <1>1, <1>2
<1>4. x = Min(I) BY <1>3 DEF SelectInSeq
<1>5. x \in I
  <2> HIDE DEF I, x
  <2> QED BY <1>3, <1>4, Least
<1>6. AfterDestroy = SubSeq(prog, x, Len(prog)) BY DEF AfterDestroy
<1> HIDE DEF x
<1>7. x \in 2..Len(prog) /\ prog[x].op = "endDestroy" BY <1>1, <1>5
<1>8. PICK n \in Nat : n = Len(prog) BY <1>1
<1>9. PICK k \in Nat : x = k + 1 /\ k >= 1 /\ k < n
  <2>1. x - 1 \in Nat /\ x = (x - 1) + 1 /\ x - 1 >= 1 /\ x - 1 < n BY <1>7, <1>8
  <2> QED BY <2>1
<1> DEFINE q == AfterDestroy
<1>10. IsSeq(q) /\ Len(q) = n - k /\ \A i \in 1..(n - k) : q[i] = prog[i + k]
  <2>1. /\ IsSeq(SubSeq(prog, k + 1, n)) /\ Len(SubSeq(prog, k + 1, n)) = n - (k + 1) + 1
        /\ \A i \in 1..(n - (k + 1) + 1) : SubSeq(prog, k + 1, n)[i] = prog[(k + 1) + i - 1]
    <3>1. k + 1 \in Nat /\ k + 1 >= 1 /\ n <= Len(prog) /\ k + 1 <= n + 1 BY <1>8, <1>9
    <3> QED BY <1>1, <3>1, SubSeqFacts
  <2>2. n - (k + 1) + 1 = n - k /\ \A i \in 1..(n - k) : (k + 1) + i - 1 = i + k BY <1>9
  <2> QED BY <1>6, <1>8, <1>9, <2>1, <2>2
<1> HIDE DEF q
<1>11. DOMAIN q = 1..(n - k) BY <1>10, SeqFacts
<1>12. Remains(prog, q, n, k) BY <1>1, <1>8, <1>9, <1>10, <1>11 DEF Remains
<1>13. q[1].op = "endDestroy"
  <2>1. 1 \in 1..(n - k) /\ 1 + k = x BY <1>9
  <2> QED BY <1>7, <1>10, <2>1
<1>14. ASSUME NEW j \in 1..k PROVE prog[j].op \notin {"container", "newDevice"}
  <2>1. j \in DOMAIN prog /\ x \in DOMAIN prog /\ j < x BY <1>1, <1>8, <1>9, <1>14
  <2> QED BY <1>7, <2>1 DEF InOrder, DestroysFirst
<1> QED BY <1>8, <1>12, <1>13, <1>14 DEF q

\* A list without its k-th element.
LEMMA Removed ==
  ASSUME NEW s, IsSeq(s), NEW k \in 1..Len(s)
  PROVE  /\ IsSeq(RemoveAt(s, k)) /\ DOMAIN RemoveAt(s, k) = 1..(Len(s) - 1)
         /\ \A i \in 1..(Len(s) - 1) : RemoveAt(s, k)[i] = IF i < k THEN s[i] ELSE s[i + 1]
<1>1. PICK n \in Nat : n = Len(s) BY SeqFacts
<1>2. k \in Nat /\ k >= 1 /\ k <= n BY <1>1
<1> DEFINE a == SubSeq(s, 1, k - 1)
           b == SubSeq(s, k + 1, n)
<1>3. IsSeq(a) /\ Len(a) = k - 1 /\ \A i \in 1..(k - 1) : a[i] = s[i]
  <2>1. /\ IsSeq(a) /\ Len(a) = (k - 1) - 1 + 1
        /\ \A i \in 1..((k - 1) - 1 + 1) : a[i] = s[1 + i - 1]
    BY <1>1, <1>2, SubSeqFacts
  <2>2. (k - 1) - 1 + 1 = k - 1 /\ \A i \in 1..(k - 1) : 1 + i - 1 = i BY <1>2
  <2> HIDE DEF a
  <2> QED BY <2>1, <2>2
<1>4. IsSeq(b) /\ Len(b) = n - k /\ \A i \in 1..(n - k) : b[i] = s[k + i]
  <2>1. /\ IsSeq(b) /\ Len(b) = n - (k + 1) + 1
        /\ \A i \in 1..(n - (k + 1) + 1) : b[i] = s[(k + 1) + i - 1]
    BY <1>1, <1>2, SubSeqFacts
  <2>2. n - (k + 1) + 1 = n - k /\ \A i \in 1..(n - k) : (k + 1) + i - 1 = k + i BY <1>2
  <2> HIDE DEF b
  <2> QED BY <2>1, <2>2
<1> HIDE DEF a, b
<1>5. /\ IsSeq(a \o b) /\ DOMAIN (a \o b) = 1..((k - 1) + (n - k))
      /\ \A i \in 1..(k - 1) : (a \o b)[i] = a[i]
      /\ \A i \in ((k - 1) + 1)..((k - 1) + (n - k)) : (a \o b)[i] = b[i - (k - 1)]
  <2>1. /\ IsSeq(a \o b) /\ DOMAIN (a \o b) = 1..(Len(a) + Len(b))
        /\ \A i \in 1..Len(a) : (a \o b)[i] = a[i]
        /\ \A i \in (Len(a) + 1)..(Len(a) + Len(b)) : (a \o b)[i] = b[i - Len(a)]
    BY <1>3, <1>4, ConcatFacts
  <2> QED BY <1>3, <1>4, <2>1
<1>6. (k - 1) + (n - k) = n - 1 /\ (k - 1) + 1 = k BY <1>2
<1>7. ASSUME NEW i \in 1..(n - 1) PROVE (a \o b)[i] = IF i < k THEN s[i] ELSE s[i + 1]
  <2>1. CASE i < k
    <3>1. i \in 1..(k - 1) BY <1>2, <2>1
    <3> QED BY <1>3, <1>5, <2>1, <3>1
  <2>2. CASE ~(i < k)
    <3>1. i \in k..(n - 1) /\ i - (k - 1) \in 1..(n - k) /\ k + (i - (k - 1)) = i + 1 BY <1>2, <2>2
    <3> QED BY <1>4, <1>5, <1>6, <2>2, <3>1
  <2> QED BY <2>1, <2>2
<1>8. RemoveAt(s, k) = a \o b BY <1>1 DEF RemoveAt, a, b
<1> QED BY <1>1, <1>5, <1>6, <1>7, <1>8

\* deleteElement takes the element out, and nothing else.
LEMMA DeletedElement ==
  ASSUME NEW id, IsSeq(device), \A i, j \in DOMAIN device : device[i].id = device[j].id => i = j, id \in Ids(device)
  PROVE  LET d == deleteElementNoLock(id)
         IN  /\ IsSeq(d) /\ Ids(d) \subseteq Ids(device) \ {id}
             /\ \A i, j \in DOMAIN d : d[i].id = d[j].id => i = j
<1> DEFINE I == {i \in 1..Len(device) : device[i].id = id}
           k == SelectInSeq(device, LAMBDA e : e.id = id)
           d == deleteElementNoLock(id)
<1>1. PICK n \in Nat : n = Len(device) /\ DOMAIN device = 1..n BY SeqFacts
<1>2. I # {} /\ I \subseteq Nat BY <1>1 DEF Ids
<1>3. k = Min(I) BY <1>2 DEF SelectInSeq
<1>4. k \in I
  <2> HIDE DEF I, k
  <2> QED BY <1>2, <1>3, Least
<1>5. d = IF k = 0 THEN device ELSE RemoveAt(device, k) BY DEF deleteElementNoLock
<1> HIDE DEF k, d
<1>6. k \in 1..n /\ device[k].id = id BY <1>1, <1>4
<1>7. d = RemoveAt(device, k) BY <1>5, <1>6
<1>8. /\ IsSeq(d) /\ DOMAIN d = 1..(n - 1)
      /\ \A i \in 1..(n - 1) : d[i] = IF i < k THEN device[i] ELSE device[i + 1]
  BY <1>1, <1>6, <1>7, Removed
<1>9. ASSUME NEW i \in DOMAIN d
      PROVE  \/ i < k /\ i \in DOMAIN device /\ d[i] = device[i] /\ i # k
             \/ i >= k /\ i + 1 \in DOMAIN device /\ d[i] = device[i + 1] /\ i + 1 # k
  BY <1>1, <1>6, <1>8
<1>10. \A i \in DOMAIN d : d[i].id \in Ids(device) \ {id} BY <1>1, <1>6, <1>9 DEF Ids
<1>11. ASSUME NEW i \in DOMAIN d, NEW j \in DOMAIN d, d[i].id = d[j].id PROVE i = j
  BY <1>1, <1>6, <1>8, <1>9, <1>11
<1> QED BY <1>8, <1>10, <1>11 DEF Ids, d

\* The first step of destroyMixer, half done.
LEMMA Replaced ==
  ASSUME NEW p, NEW q, NEW a, NEW mem, NEW dead, InOrder(p), p # <<>>, Head(p).op = "detach",
         q = <<[Head(p) EXCEPT !.op = "delete"]>> \o Tail(p), DetachesDevice(p, a), AttachesLive(p, mem, dead)
  PROVE  /\ InOrder(q) /\ DetachesDevice(q, a) /\ AttachesLive(q, mem, dead)
         /\ Head(q).m = Head(p).m
         /\ CreatesDevice(p) => CreatesDevice(q)
<1>1. PICK n \in Nat : /\ n = Len(p) /\ n >= 1 /\ DOMAIN p = 1..n /\ IsSeq(Tail(p)) /\ Len(Tail(p)) = n - 1
                       /\ Head(p) = p[1] /\ \A i \in 1..(n - 1) : Tail(p)[i] = p[i + 1]
  BY TailFacts DEF InOrder
<1> DEFINE h == [Head(p) EXCEPT !.op = "delete"]
           g == <<h>>
<1>2. h.op = "delete" /\ h.m = p[1].m BY <1>1 DEF InOrder, Shape, DetachFields
<1>3. IsSeq(g) /\ Len(g) = 1 /\ g[1] = h BY Tuple1
<1> HIDE DEF g, h
<1>4. /\ IsSeq(q) /\ Len(q) = n /\ DOMAIN q = 1..n
      /\ q[1] = h
      /\ \A i \in 2..n : q[i] = p[i]
  <2>1. q = g \o Tail(p) BY DEF g, h
  <2>2. /\ IsSeq(q) /\ Len(q) = Len(g) + Len(Tail(p)) /\ DOMAIN q = 1..(Len(g) + Len(Tail(p)))
        /\ \A i \in 1..Len(g) : q[i] = g[i]
        /\ \A i \in (Len(g) + 1)..(Len(g) + Len(Tail(p))) : q[i] = Tail(p)[i - Len(g)]
    <3>1. IsSeq(g) /\ IsSeq(Tail(p)) BY <1>1, <1>3
    <3>2. /\ IsSeq(g \o Tail(p)) /\ Len(g \o Tail(p)) = Len(g) + Len(Tail(p))
          /\ DOMAIN (g \o Tail(p)) = 1..(Len(g) + Len(Tail(p)))
          /\ \A i \in 1..Len(g) : (g \o Tail(p))[i] = g[i]
          /\ \A i \in (Len(g) + 1)..(Len(g) + Len(Tail(p))) : (g \o Tail(p))[i] = Tail(p)[i - Len(g)]
      BY <3>1, ConcatFacts, Zenon
    <3> QED BY <2>1, <3>2, Zenon
  <2>3. /\ IsSeq(q) /\ Len(q) = 1 + (n - 1) /\ DOMAIN q = 1..(1 + (n - 1))
        /\ \A i \in 1..1 : q[i] = g[i]
        /\ \A i \in (1 + 1)..(1 + (n - 1)) : q[i] = Tail(p)[i - 1]
    BY <1>1, <1>3, <2>2
  <2>4. ASSUME NEW i \in 2..n PROVE q[i] = p[i]
    <3>1. i - 1 \in 1..(n - 1) /\ (i - 1) + 1 = i /\ i \in (1 + 1)..(1 + (n - 1)) BY <2>4
    <3> QED BY <1>1, <2>3, <3>1
  <2>5. 1 + (n - 1) = n /\ 1 \in 1..1 BY <1>1
  <2> QED BY <1>3, <2>3, <2>4, <2>5
<1>5. ASSUME NEW i \in DOMAIN q PROVE i \in DOMAIN p /\ (i = 1 \/ (i > 1 /\ q[i] = p[i])) BY <1>1, <1>4, <1>5
<1>6. p[1].op = "detach" /\ p[1].m \in MemberNames /\ 1 \in DOMAIN p BY <1>1 DEF InOrder, NamesMembers
<1>7. \A i \in DOMAIN q : q[i].op # "delete" => q[i] = p[i] /\ i > 1 BY <1>2, <1>4, <1>5
<1>8. \A i \in DOMAIN q : i > 1 => q[i].op # "delete"
  <2>1. \A i \in DOMAIN p : i > 1 => p[i].op # "delete" BY <1>1, <1>6 DEF InOrder, DestroysFirst
  <2> QED BY <1>5, <2>1
<1>9. NamesMembers(q)
  <2>1. \A i \in DOMAIN q : i > 1 /\ q[i].op \in {"container", "attach", "detach", "delete"} => q[i].m \in MemberNames
    BY <1>5 DEF InOrder, NamesMembers
  <2>2. q[1].m \in MemberNames BY <1>2, <1>4, <1>6
  <2>3. \A i \in DOMAIN q : q[i].op # "renew"
    <3>1. q[1].op = "delete" BY <1>2, <1>4
    <3> QED BY <1>5, <1>7, <3>1 DEF InOrder, NamesMembers
  <2> QED BY <1>5, <2>1, <2>2, <2>3 DEF NamesMembers
<1>10. Shape(q) BY <1>5, <1>7 DEF Shape, InOrder
<1>11. DestroysFirst(q)
  <2>1. ASSUME NEW i \in DOMAIN q, NEW j \in DOMAIN q, i < j
        PROVE  q[j].op # "delete" /\ (q[i].op \in {"container", "newDevice"} => q[j].op \notin {"detach", "endDestroy"})
    <3>1. j > 1 BY <1>1, <1>5, <2>1
    <3>2. q[j].op # "delete" BY <1>8, <3>1
    <3>3. q[i].op \in {"container", "newDevice"} => q[i] = p[i] BY <1>7
    <3> QED BY <1>5, <2>1, <3>1, <3>2, <3>3 DEF InOrder, DestroysFirst
  <2>2. ASSUME NEW i \in DOMAIN q, q[i].op = "detach" PROVE \E j \in DOMAIN q : i < j /\ q[j].op = "endDestroy"
    <3>1. q[i] = p[i] /\ i > 1 /\ i \in DOMAIN p BY <1>5, <1>7, <2>2
    <3>2. PICK j \in DOMAIN p : i < j /\ p[j].op = "endDestroy" BY <2>2, <3>1 DEF InOrder, DestroysFirst
    <3>3. j \in 2..n BY <1>1, <3>1, <3>2
    <3> QED BY <1>1, <1>4, <3>2, <3>3
  <2> QED BY <2>1, <2>2 DEF DestroysFirst
<1>12. DetachesDevice(q, a)
  <2>1. ASSUME NEW i \in DOMAIN q, q[i].op = "deleteDevice"
        PROVE  i = Len(q) /\ (IF i = 1 THEN ~a ELSE q[i - 1].op = "detachDevice")
    <3>1. q[i] = p[i] /\ i > 1 /\ i \in DOMAIN p BY <1>5, <1>7, <2>1
    <3>2. i = Len(p) /\ (IF i = 1 THEN ~a ELSE p[i - 1].op = "detachDevice") BY <2>1, <3>1, Zenon DEF DetachesDevice
    <3>3. i = n /\ p[i - 1].op = "detachDevice" BY <1>1, <3>1, <3>2
    <3>4. i - 1 # 1 BY <1>6, <3>3
    <3>5. i - 1 \in 2..n BY <1>1, <3>1, <3>4
    <3> QED BY <1>4, <3>1, <3>3, <3>5
  <2> QED BY <2>1 DEF DetachesDevice
<1>13. AttachesLive(q, mem, dead)
  <2>1. ASSUME NEW i \in DOMAIN q, q[i].op = "attach"
        PROVE  \E j \in DOMAIN q : j < i /\ q[j].op = "container" /\ q[j].m = q[i].m
    <3>1. q[i] = p[i] /\ i > 1 /\ i \in DOMAIN p BY <1>5, <1>7, <2>1
    <3>2. PICK j \in DOMAIN p : j < i /\ p[j].op = "container" /\ p[j].m = p[i].m
      BY <1>6, <2>1, <3>1 DEF AttachesLive
    <3>3. j # 1 BY <1>6, <3>2
    <3>4. j \in DOMAIN q /\ q[j] = p[j] BY <1>1, <1>4, <3>3
    <3> QED BY <3>1, <3>2, <3>4
  <2> QED BY <2>1 DEF AttachesLive
<1>14. ASSUME CreatesDevice(p) PROVE CreatesDevice(q)
  <2>1. ASSUME NEW i \in DOMAIN q, q[i].op = "attachDevice" PROVE \E j \in DOMAIN q : j < i /\ q[j].op = "newDevice"
    <3>1. q[i] = p[i] /\ i > 1 /\ i \in DOMAIN p BY <1>5, <1>7, <2>1
    <3>2. PICK j \in DOMAIN p : j < i /\ p[j].op = "newDevice" BY <1>14, <2>1, <3>1 DEF CreatesDevice
    <3>3. j # 1 BY <1>6, <3>2
    <3>4. j \in DOMAIN q /\ q[j] = p[j] BY <1>1, <1>4, <3>3
    <3> QED BY <3>2, <3>4
  <2> QED BY <2>1 DEF CreatesDevice
<1>15. Head(q) = q[1]
  <2>1. q # <<>> BY <1>1, <1>4
  <2> QED BY <1>4, <2>1, TailFacts
<1> QED BY <1>1, <1>2, <1>4, <1>9, <1>10, <1>11, <1>12, <1>13, <1>14, <1>15 DEF InOrder

-----------------------------------------------------------------------------
\* The inductive invariant, with what TLC cannot enumerate: the lists are sequences.
DataInv ==
    /\ nextId \in Nat /\ nextId > Dev /\ IsSeq(device)
    /\ \A i, j \in DOMAIN device : device[i].id = device[j].id => i = j
    /\ freed \subseteq KnownIds /\ Ids(device) \subseteq KnownIds /\ member \in [MemberNames -> KnownIds \ {Dev}]
ProgInv == InOrder(prog) /\ DetachesDevice(prog, attached) /\ AttachesLive(prog, member, freed)
HeadOut == prog # <<>> /\ Head(prog).op = "delete" => member[Head(prog).m] \notin Ids(device)
CleanInv == Clean \/ (~attached /\ CreatesDevice(prog))
LiveInv == DataInv /\ ProgInv /\ HeadOut /\ CleanInv

LEMMA LiveInvTreeInv == LiveInv => TreeInv /\ TreeIsLive
<1> USE DEF LiveInv
<1>1. LiveInv => TreeInv BY DEF DataInv, ProgInv, HeadOut, CleanInv, TreeInv, InOrder
<1>2. LiveInv => TreeIsLive BY DEF CleanInv, TreeIsLive, Clean
<1> QED BY <1>1, <1>2

LEMMA LiveInit == TreeInit => LiveInv
<1> SUFFICES ASSUME TreeInit PROVE LiveInv OBVIOUS
<1>1. DataInv BY Tuple0 DEF TreeInit, DataInv, Ids, KnownIds, Dev, Null, MemberNames
<1>2. ProgInv
  BY Tuple0 DEF TreeInit, ProgInv, InOrder, NamesMembers, DestroysFirst, Shape, DetachesDevice, AttachesLive
<1>3. HeadOut BY DEF TreeInit, HeadOut
<1>4. CleanInv BY Tuple0 DEF TreeInit, CleanInv, Clean, Ids
<1> QED BY <1>1, <1>2, <1>3, <1>4 DEF LiveInv

LEMMA LiveUnchanged == ASSUME LiveInv, UNCHANGED <<deviceVars, prog>> PROVE LiveInv'
BY DEF LiveInv, DataInv, ProgInv, HeadOut, CleanInv, Clean, KnownIds, deviceVars

\* A program begins.
LEMMA LiveBegins ==
  ASSUME LiveInv, UNCHANGED deviceVars, Begins(prog'), DetachesDevice(prog', attached), Clean \/ CreatesDevice(prog')
  PROVE  LiveInv'
<1>1. DataInv' BY DEF LiveInv, DataInv, KnownIds, deviceVars
<1>2. AttachesLive(prog', member', freed') BY DEF Begins, AttachesLive
<1>3. ProgInv' BY <1>2 DEF Begins, ProgInv, InOrder, Shape, deviceVars
<1>4. HeadOut' BY TailFacts DEF Begins, HeadOut
<1>5. CleanInv' BY DEF LiveInv, CleanInv, Clean, deviceVars
<1> QED BY <1>1, <1>3, <1>4, <1>5 DEF LiveInv

LEMMA NoDeletion == ASSUME NEW p, NEW a, \A i \in DOMAIN p : p[i].op # "deleteDevice" PROVE DetachesDevice(p, a)
BY DEF DetachesDevice
LEMMA NoAttachment == ASSUME NEW p, \A i \in DOMAIN p : p[i].op # "attachDevice" PROVE CreatesDevice(p)
BY DEF CreatesDevice

LEMMA LivePreUpdate == ASSUME LiveInv, ~Special, preUpdateHandler PROVE LiveInv'
<1>1. UNCHANGED deviceVars BY DEF preUpdateHandler
<1>0. family # "special" BY DEF Special
<1>2. CASE attached
  <2>1. Clean BY <1>2 DEF LiveInv, CleanInv
  <2>2. prog' = Rebuild(family) \/ prog' = Withdraw BY <1>2 DEF preUpdateHandler
  <2>3. CASE prog' = Rebuild(family) BY <1>0, <1>1, <2>1, <2>3, RebuildBegins, NoDeletion, LiveBegins
  <2>4. CASE prog' = Withdraw
    <3>1. DetachesDevice(Withdraw, attached) BY WithdrawBegins, Tuple2 DEF DetachesDevice, Withdraw, Op
    <3> QED BY <1>1, <2>1, <2>4, <3>1, WithdrawBegins, LiveBegins
  <2> QED BY <2>2, <2>3, <2>4
<1>3. CASE ~attached
  <2>1. prog' = Create(family) BY <1>3 DEF preUpdateHandler
  <2> QED BY <1>0, <1>1, <2>1, CreateBegins, NoDeletion, LiveBegins
<1> QED BY <1>2, <1>3

\* One step of the program is done.
LEMMA LiveTail ==
  ASSUME LiveInv, prog # <<>>, prog' = Tail(prog),
         prog[1].op = "container" => member'[prog[1].m] \notin freed',
         prog[1].op \notin {"detach", "delete"} =>
             \A m \in MemberNames : member[m] \notin freed => member'[m] \notin freed',
         prog[1].op = "detachDevice" => ~attached'
  PROVE  /\ ProgInv' /\ HeadOut'
         /\ prog[1].op # "newDevice" /\ CreatesDevice(prog) => CreatesDevice(prog')
<1>1. IsSeq(prog) BY DEF LiveInv, ProgInv, InOrder
<1>2. Remains(prog, prog', Len(prog), 1) BY <1>1, TailRemains
<1>3. InOrder(prog') /\ \A i \in DOMAIN prog' : prog'[i].op # "delete" BY <1>2, ShiftInOrder DEF LiveInv, ProgInv
<1>4. \A j \in 1..1 : j = 1 OBVIOUS
<1>5. DetachesDevice(prog', attached') BY <1>2, ShiftDetaches DEF LiveInv, ProgInv
<1>6. AttachesLive(prog', member', freed')
  <2>1. \A j \in 1..1 : prog[j].op = "container" => member'[prog[j].m] \notin freed' BY <1>4
  <2> QED BY <1>2, <2>1, ShiftAttaches DEF LiveInv, ProgInv
<1>7. HeadOut' BY <1>3, TailFacts DEF HeadOut, InOrder
<1>8. ASSUME prog[1].op # "newDevice", CreatesDevice(prog) PROVE CreatesDevice(prog')
  <2>1. \A j \in 1..1 : prog[j].op # "newDevice" BY <1>4, <1>8
  <2> QED BY <1>2, <1>8, <2>1, ShiftCreates
<1> QED BY <1>3, <1>5, <1>6, <1>7, <1>8 DEF ProgInv

\* The head of the program, in each of its steps.
LEMMA SteppingFacts ==
  ASSUME LiveInv, NEW op, Stepping(op)
  PROVE  prog # <<>> /\ Head(prog) = prog[1] /\ prog[1].op = op /\ 1 \in DOMAIN prog /\ IsSeq(prog)
BY TailFacts DEF LiveInv, ProgInv, InOrder, Stepping

LEMMA LiveNewDevice == ASSUME LiveInv, NewDevice PROVE LiveInv'
<1>1. prog # <<>> /\ prog[1].op = "newDevice" /\ prog' = Tail(prog)
  BY SteppingFacts DEF NewDevice, Rest
<1>2. /\ nextId' = nextId + 2 /\ freed' = freed \ {Dev} /\ member' = [member EXCEPT !["generic"] = nextId + 1]
      /\ UNCHANGED attached
  BY DEF NewDevice
<1>3. PICK a, b : /\ a.id = nextId /\ b.id = nextId + 1 /\ device' = <<a, b>>
  BY DEF NewDevice
<1>4. /\ nextId \in Nat /\ nextId > 1 /\ freed \subseteq 0..(nextId - 1)
      /\ member \in [MemberNames -> (0..(nextId - 1)) \ {1}]
  BY DEF LiveInv, DataInv, KnownIds, Dev
<1>5. IsSeq(device') /\ DOMAIN device' = 1..2 /\ device'[1] = a /\ device'[2] = b BY <1>3, Tuple2
<1>6. \A i \in DOMAIN device' : device'[i].id \in {nextId, nextId + 1} BY <1>3, <1>5
<1>7. DataInv'
  <2>1. ASSUME NEW i \in DOMAIN device', NEW j \in DOMAIN device', device'[i].id = device'[j].id PROVE i = j
    BY <1>3, <1>4, <1>5, <2>1
  <2>2. freed' \subseteq 0..(nextId' - 1)
    <3>1. 0..(nextId - 1) \subseteq 0..(nextId' - 1) BY <1>2, <1>4
    <3> QED BY <1>2, <1>4, <3>1
  <2>3. Ids(device') \subseteq 0..(nextId' - 1) BY <1>2, <1>4, <1>6 DEF Ids
  <2>4. member' \in [MemberNames -> (0..(nextId' - 1)) \ {1}] BY <1>2, <1>4 DEF MemberNames
  <2> QED BY <1>2, <1>4, <1>5, <2>1, <2>2, <2>3, <2>4 DEF DataInv, KnownIds, Dev
<1>8. \A m \in MemberNames : member[m] \notin freed => member'[m] \notin freed' BY <1>2, <1>4
<1>9. ProgInv' /\ HeadOut' BY <1>1, <1>8, LiveTail
<1>10. CleanInv'
  <2>1. nextId \notin freed' /\ nextId + 1 \notin freed' /\ Dev \notin freed' BY <1>2, <1>4
  <2>2. Ids(device') \cap freed' = {} BY <1>6, <2>1 DEF Ids
  <2> QED BY <2>1, <2>2 DEF CleanInv, Clean
<1> QED BY <1>7, <1>9, <1>10 DEF LiveInv

LEMMA LiveNewContainer == ASSUME LiveInv, NewContainer PROVE LiveInv'
<1>1. prog # <<>> /\ prog[1].op = "container" /\ prog' = Tail(prog) /\ 1 \in DOMAIN prog /\ Head(prog) = prog[1]
  BY SteppingFacts DEF NewContainer, Rest
<1>2. PICK h \in MemberNames : h = prog[1].m BY <1>1 DEF LiveInv, ProgInv, InOrder, NamesMembers
<1>3. nextId' = nextId + 1 /\ member' = [member EXCEPT ![h] = nextId] /\ UNCHANGED <<attached, device, freed>>
  BY <1>1, <1>2 DEF NewContainer
<1>4. /\ nextId \in Nat /\ nextId > 1 /\ freed \subseteq 0..(nextId - 1) /\ Ids(device) \subseteq 0..(nextId - 1)
      /\ member \in [MemberNames -> (0..(nextId - 1)) \ {1}]
  BY DEF LiveInv, DataInv, KnownIds, Dev
<1>5. DataInv'
  <2>1. freed' \subseteq 0..(nextId' - 1) /\ Ids(device') \subseteq 0..(nextId' - 1) BY <1>3, <1>4
  <2>2. member' \in [MemberNames -> (0..(nextId' - 1)) \ {1}] BY <1>3, <1>4
  <2> QED BY <1>3, <1>4, <2>1, <2>2 DEF LiveInv, DataInv, KnownIds, Dev
<1>6. nextId \notin freed BY <1>4
<1>7. \A m \in MemberNames : member[m] \notin freed => member'[m] \notin freed' BY <1>3, <1>4, <1>6
<1>8. member'[h] \notin freed' BY <1>3, <1>4, <1>6
<1>9. ProgInv' /\ HeadOut' /\ (CreatesDevice(prog) => CreatesDevice(prog')) BY <1>1, <1>2, <1>7, <1>8, LiveTail
<1>10. CleanInv' BY <1>3, <1>9 DEF LiveInv, CleanInv, Clean
<1> QED BY <1>5, <1>9, <1>10 DEF LiveInv

\* An element that is not in the list yet is added to it.
LEMMA Added ==
  ASSUME NEW e, IsSeq(device), \A i, j \in DOMAIN device : device[i].id = device[j].id => i = j, addElement(e)
  PROVE  /\ IsSeq(device') /\ Ids(device') \subseteq Ids(device) \cup {e.id}
         /\ \A i, j \in DOMAIN device' : device'[i].id = device'[j].id => i = j
<1>1. CASE e.id \in Ids(device) BY <1>1 DEF addElement
<1>2. CASE e.id \notin Ids(device)
  <2>1. device' = Append(device, e) BY <1>2 DEF addElement
  <2>2. PICK S : device \in Seq(S) BY DEF IsSeq
  <2>3. PICK n \in Nat : n = Len(device) BY <2>2
  <2>4. device \in Seq(S \cup {e}) BY <2>2
  <2>5. device' \in Seq(S \cup {e}) BY <2>1, <2>4
  <2>6. /\ DOMAIN device = 1..n /\ DOMAIN device' = 1..(n + 1)
        /\ \A i \in 1..n : device'[i] = device[i]
        /\ device'[n + 1] = e
    BY <2>1, <2>2, <2>3
  <2>7. IsSeq(device') BY <2>5 DEF IsSeq
  <2>8. \A i \in DOMAIN device' : (i \in DOMAIN device /\ device'[i] = device[i]) \/ (i = n + 1 /\ device'[i] = e)
    BY <2>6
  <2>9. Ids(device') \subseteq Ids(device) \cup {e.id} BY <2>8 DEF Ids
  <2>10. \A i \in DOMAIN device : device[i].id # e.id BY <1>2 DEF Ids
  <2> QED BY <2>7, <2>8, <2>9, <2>10
<1> QED BY <1>1, <1>2

LEMMA LiveAddContainer == ASSUME LiveInv, AddContainer PROVE LiveInv'
<1>1. prog # <<>> /\ prog[1].op = "attach" /\ prog' = Tail(prog) /\ 1 \in DOMAIN prog /\ Head(prog) = prog[1]
  BY SteppingFacts DEF AddContainer, Rest
<1>2. PICK h \in MemberNames : h = prog[1].m BY <1>1 DEF LiveInv, ProgInv, InOrder, NamesMembers
<1>3. UNCHANGED <<attached, member, nextId, freed>> BY DEF AddContainer
<1>4. PICK e : e.id = member[h] /\ addElement(e) BY <1>1, <1>2 DEF AddContainer
<1>5. /\ IsSeq(device') /\ Ids(device') \subseteq Ids(device) \cup {member[h]}
      /\ \A i, j \in DOMAIN device' : device'[i].id = device'[j].id => i = j
  BY <1>4, Added DEF LiveInv, DataInv
<1>6. member[h] \in KnownIds BY <1>2 DEF LiveInv, DataInv
<1>7. DataInv' BY <1>3, <1>5, <1>6 DEF LiveInv, DataInv, KnownIds
<1>8. member[h] \notin freed
  <2>1. \A j \in DOMAIN prog : j \in Int /\ j >= 1 BY SeqFacts DEF LiveInv, ProgInv, InOrder
  <2>2. ~\E j \in DOMAIN prog : j < 1 BY <2>1
  <2> QED BY <1>1, <1>2, <2>2 DEF LiveInv, ProgInv, AttachesLive
<1>9. ProgInv' /\ HeadOut' /\ (CreatesDevice(prog) => CreatesDevice(prog')) BY <1>1, <1>3, LiveTail
<1>10. CleanInv' BY <1>3, <1>5, <1>8, <1>9 DEF LiveInv, CleanInv, Clean
<1> QED BY <1>7, <1>9, <1>10 DEF LiveInv

LEMMA LiveAddLeaf == ASSUME LiveInv, AddLeaf PROVE LiveInv'
<1>1. prog # <<>> /\ prog[1].op = "leaf" /\ prog' = Tail(prog) BY SteppingFacts DEF AddLeaf, Rest
<1>2. UNCHANGED <<attached, member, freed>> /\ nextId' = nextId + 1 BY DEF AddLeaf
<1>3. PICK e : e.id = nextId /\ addElement(e) BY DEF AddLeaf
<1>4. /\ IsSeq(device') /\ Ids(device') \subseteq Ids(device) \cup {nextId}
      /\ \A i, j \in DOMAIN device' : device'[i].id = device'[j].id => i = j
  BY <1>3, Added DEF LiveInv, DataInv
<1>5. nextId \in Nat /\ KnownIds \subseteq KnownIds' /\ nextId \in KnownIds' /\ nextId \notin freed
  BY <1>2 DEF LiveInv, DataInv, KnownIds
<1>6. DataInv'
  <2>1. member' \in [MemberNames -> KnownIds' \ {Dev}] BY <1>2, <1>5 DEF LiveInv, DataInv
  <2>2. freed' \subseteq KnownIds' /\ Ids(device') \subseteq KnownIds' BY <1>2, <1>4, <1>5 DEF LiveInv, DataInv
  <2>3. nextId' \in Nat /\ nextId' > Dev BY <1>2 DEF LiveInv, DataInv, Dev
  <2> QED BY <1>4, <2>1, <2>2, <2>3 DEF DataInv
<1>7. ProgInv' /\ HeadOut' /\ (CreatesDevice(prog) => CreatesDevice(prog')) BY <1>1, <1>2, LiveTail
<1>8. CleanInv' BY <1>2, <1>4, <1>5, <1>7 DEF LiveInv, CleanInv, Clean
<1> QED BY <1>6, <1>7, <1>8 DEF LiveInv

\* No other family has a program that deletes what is in the tree.
LEMMA LiveRenew == ASSUME LiveInv PROVE ~RenewContainer
<1>1. ASSUME RenewContainer PROVE prog[1].op = "renew" /\ 1 \in DOMAIN prog
  BY <1>1, SteppingFacts DEF RenewContainer
<1> QED BY <1>1 DEF LiveInv, ProgInv, InOrder, NamesMembers

\* destroyMixer goes on with the next container.
LEMMA LiveSkip ==
  ASSUME LiveInv, UNCHANGED deviceVars, prog # <<>>, prog[1].op \in {"detach", "endDestroy"}, prog' = Tail(prog)
  PROVE  LiveInv'
<1>1. DataInv' BY DEF LiveInv, DataInv, KnownIds, deviceVars
<1>2. ProgInv' /\ HeadOut' /\ (CreatesDevice(prog) => CreatesDevice(prog')) BY LiveTail DEF deviceVars
<1>3. CleanInv' BY <1>2 DEF LiveInv, CleanInv, Clean, deviceVars
<1> QED BY <1>1, <1>2, <1>3 DEF LiveInv

\* destroyMixer returns.
LEMMA LiveReturn ==
  ASSUME LiveInv, UNCHANGED deviceVars, prog # <<>>, Head(prog).op = "detach", prog' = AfterDestroy
  PROVE  LiveInv'
<1>1. InOrder(prog) /\ DetachesDevice(prog, attached) /\ AttachesLive(prog, member, freed) BY DEF LiveInv, ProgInv
<1>2. PICK k : /\ Remains(prog, AfterDestroy, Len(prog), k)
               /\ \A j \in 1..k : prog[j].op \notin {"container", "newDevice"}
               /\ AfterDestroy[1].op = "endDestroy"
  BY <1>1, AfterDestroyRemains
<1>3. /\ Remains(prog, prog', Len(prog), k) /\ prog'[1].op = "endDestroy"
      /\ \A j \in 1..k : prog[j].op \notin {"container", "newDevice"}
  BY <1>2
<1>4. InOrder(prog') /\ \A i \in DOMAIN prog' : prog'[i].op # "delete" BY <1>1, <1>3, ShiftInOrder
<1>5. DetachesDevice(prog', attached) BY <1>1, <1>3, ShiftDetaches
<1>6. AttachesLive(prog', member, freed) BY <1>1, <1>3, ShiftAttaches
<1>7. ProgInv' BY <1>4, <1>5, <1>6 DEF ProgInv, deviceVars
<1>8. HeadOut' BY <1>4, TailFacts DEF HeadOut, InOrder
<1>9. CreatesDevice(prog) => CreatesDevice(prog') BY <1>3, ShiftCreates
<1>10. CleanInv' BY <1>9 DEF LiveInv, CleanInv, Clean, deviceVars
<1>11. DataInv' BY DEF LiveInv, DataInv, KnownIds, deviceVars
<1> QED BY <1>7, <1>8, <1>10, <1>11 DEF LiveInv

LEMMA LiveDetachContainer == ASSUME LiveInv, DetachContainer PROVE LiveInv'
<1>1. prog # <<>> /\ prog[1].op = "detach" /\ Head(prog) = prog[1] BY SteppingFacts DEF DetachContainer
<1>2. CASE UNCHANGED device /\ prog' \in {Tail(prog), AfterDestroy}
  <2>1. UNCHANGED deviceVars BY <1>2 DEF DetachContainer, deviceVars
  <2> QED BY <1>1, <1>2, <2>1, LiveSkip, LiveReturn
<1>3. CASE /\ member[Head(prog).m] \in Ids(device) /\ deleteElement(member[Head(prog).m])
           /\ prog' = <<[Head(prog) EXCEPT !.op = "delete"]>> \o Tail(prog)
  <2>1. UNCHANGED <<attached, member, nextId, freed>> BY DEF DetachContainer
  <2> DEFINE id == member[Head(prog).m]
  <2>2. /\ IsSeq(device') /\ Ids(device') \subseteq Ids(device) \ {id}
        /\ \A i, j \in DOMAIN device' : device'[i].id = device'[j].id => i = j
    <3>1. IsSeq(device) /\ \A i, j \in DOMAIN device : device[i].id = device[j].id => i = j BY DEF LiveInv, DataInv
    <3>2. device' = deleteElementNoLock(id) BY <1>3 DEF deleteElement
    <3> QED BY <1>3, <3>1, <3>2, DeletedElement
  <2>3. DataInv' BY <2>1, <2>2 DEF LiveInv, DataInv, KnownIds
  <2>4. InOrder(prog) /\ DetachesDevice(prog, attached) /\ AttachesLive(prog, member, freed) BY DEF LiveInv, ProgInv
  <2>5. /\ InOrder(prog') /\ DetachesDevice(prog', attached) /\ AttachesLive(prog', member, freed)
        /\ Head(prog').m = Head(prog).m
        /\ CreatesDevice(prog) => CreatesDevice(prog')
    BY <1>1, <1>3, <2>4, Replaced
  <2>6. ProgInv' BY <2>1, <2>5 DEF ProgInv
  <2>7. HeadOut' BY <2>1, <2>2, <2>5 DEF HeadOut
  <2>8. CleanInv' BY <2>1, <2>2, <2>5 DEF LiveInv, CleanInv, Clean
  <2> QED BY <2>3, <2>6, <2>7, <2>8 DEF LiveInv
<1> QED BY <1>2, <1>3 DEF DetachContainer

LEMMA LiveDeleteContainer == ASSUME LiveInv, DeleteContainer PROVE LiveInv'
<1>1. prog # <<>> /\ prog[1].op = "delete" /\ prog' = Tail(prog) /\ 1 \in DOMAIN prog /\ Head(prog) = prog[1]
  BY SteppingFacts DEF DeleteContainer, Rest
<1>2. PICK h \in MemberNames : h = prog[1].m BY <1>1 DEF LiveInv, ProgInv, InOrder, NamesMembers
<1>3. /\ freed' = freed \cup {member[h]} /\ UNCHANGED <<device, attached, nextId>>
      /\ member' = member \/ member' = [member EXCEPT ![h] = Null]
  BY <1>1, <1>2 DEF DeleteContainer
<1>4. member[h] \in KnownIds \ {Dev} BY <1>2 DEF LiveInv, DataInv
<1>5. member[h] \notin Ids(device) BY <1>1, <1>2 DEF LiveInv, HeadOut
<1>6. DataInv'
  <2>1. Null \in KnownIds \ {Dev} BY DEF LiveInv, DataInv, KnownIds, Null, Dev
  <2>2. member' \in [MemberNames -> KnownIds \ {Dev}] BY <1>3, <2>1 DEF LiveInv, DataInv
  <2>3. freed' \subseteq KnownIds BY <1>3, <1>4 DEF LiveInv, DataInv
  <2> QED BY <1>3, <2>2, <2>3 DEF LiveInv, DataInv, KnownIds
<1>7. ProgInv' /\ HeadOut' /\ (CreatesDevice(prog) => CreatesDevice(prog')) BY <1>1, LiveTail
<1>8. CleanInv' BY <1>3, <1>4, <1>5, <1>7 DEF LiveInv, CleanInv, Clean
<1> QED BY <1>6, <1>7, <1>8 DEF LiveInv

LEMMA LiveEndDestroy == ASSUME LiveInv, EndDestroy PROVE LiveInv'
BY SteppingFacts, LiveSkip DEF EndDestroy, Rest

LEMMA LiveAttachDevice == ASSUME LiveInv, AttachDevice PROVE LiveInv'
<1>1. prog # <<>> /\ prog[1].op = "attachDevice" /\ prog' = Tail(prog) /\ 1 \in DOMAIN prog
  BY SteppingFacts DEF AttachDevice, Rest
<1>2. UNCHANGED <<device, member, nextId, freed>> BY DEF AttachDevice
<1>3. Clean
  <2>1. \A j \in DOMAIN prog : j \in Int /\ j >= 1 BY SeqFacts DEF LiveInv, ProgInv, InOrder
  <2>2. ~CreatesDevice(prog) BY <1>1, <2>1 DEF CreatesDevice
  <2> QED BY <2>2 DEF LiveInv, CleanInv
<1>4. DataInv' BY <1>2 DEF LiveInv, DataInv, KnownIds
<1>5. ProgInv' /\ HeadOut' BY <1>1, <1>2, LiveTail
<1>6. CleanInv' BY <1>2, <1>3 DEF CleanInv, Clean
<1> QED BY <1>4, <1>5, <1>6 DEF LiveInv

LEMMA LiveDetachDevice == ASSUME LiveInv, DetachDevice PROVE LiveInv'
<1>1. prog # <<>> /\ prog[1].op = "detachDevice" /\ prog' = Tail(prog) BY SteppingFacts DEF DetachDevice, Rest
<1>2. UNCHANGED <<device, member, nextId, freed>> /\ ~attached' BY DEF DetachDevice
<1>3. DataInv' BY <1>2 DEF LiveInv, DataInv, KnownIds
<1>4. ProgInv' /\ HeadOut' /\ (CreatesDevice(prog) => CreatesDevice(prog')) BY <1>1, <1>2, LiveTail
<1>5. CleanInv' BY <1>2, <1>4 DEF LiveInv, CleanInv, Clean
<1> QED BY <1>3, <1>4, <1>5 DEF LiveInv

LEMMA LiveDeleteDevice == ASSUME LiveInv, DeleteDevice PROVE LiveInv'
<1>1. /\ prog # <<>> /\ prog[1].op = "deleteDevice" /\ prog' = Tail(prog) /\ 1 \in DOMAIN prog
      /\ Head(prog) = prog[1] /\ IsSeq(prog)
  BY SteppingFacts DEF DeleteDevice, Rest
<1>2. device' = <<>> /\ member' = [m \in DOMAIN member |-> Null] /\ UNCHANGED <<attached, nextId>> BY DEF DeleteDevice
<1>3. freed' \subseteq freed \cup {Dev} \cup Ids(device) BY DEF DeleteDevice, Ids
<1>4. 1 = Len(prog) /\ ~attached BY <1>1 DEF LiveInv, ProgInv, DetachesDevice
<1>5. DOMAIN prog' = {} /\ IsSeq(prog')
  <2>1. IsSeq(prog') /\ DOMAIN prog' = 1..(Len(prog) - 1) BY <1>1, TailFacts
  <2>2. PICK n : n = Len(prog) OBVIOUS
  <2>3. 1..(n - 1) = {} BY <1>4, <2>2
  <2> QED BY <2>1, <2>2, <2>3
<1>6. ProgInv' /\ CreatesDevice(prog')
  BY <1>5 DEF ProgInv, InOrder, NamesMembers, DestroysFirst, Shape, DetachesDevice, AttachesLive, CreatesDevice
<1>7. HeadOut' BY <1>5, TailFacts DEF HeadOut
<1>8. CleanInv' BY <1>2, <1>4, <1>6 DEF CleanInv
<1>9. DataInv'
  <2>1. Null \in KnownIds \ {Dev} /\ Dev \in KnownIds BY DEF LiveInv, DataInv, KnownIds, Null, Dev
  <2>2. KnownIds' = KnownIds BY <1>2 DEF KnownIds
  <2>3. member' \in [MemberNames -> KnownIds \ {Dev}] BY <1>2, <2>1 DEF LiveInv, DataInv
  <2>4. freed' \subseteq KnownIds BY <1>3, <2>1 DEF LiveInv, DataInv
  <2>5. Ids(device') = {} BY <1>2, Tuple0 DEF Ids
  <2> QED BY <1>2, <2>2, <2>3, <2>4, <2>5, Tuple0 DEF LiveInv, DataInv
<1> QED BY <1>6, <1>7, <1>8, <1>9 DEF LiveInv

LEMMA LiveStep == ASSUME LiveInv, ~Special, [TreeNext]_treeVars PROVE LiveInv'
<1>1. CASE Discovering
  <2>1. CASE postUpdateHandler BY <2>1, LiveUnchanged DEF postUpdateHandler
  <2> QED BY <1>1, <2>1, LivePreUpdate, LiveNewDevice, LiveNewContainer, LiveAddContainer, LiveAddLeaf, LiveRenew,
             LiveDetachContainer, LiveDeleteContainer, LiveEndDestroy, LiveAttachDevice, LiveDetachDevice,
             LiveDeleteDevice DEF Discovering
<1>2. CASE Mirroring
  <2>1. UNCHANGED <<deviceVars, prog>>
    BY <1>2 DEF Mirroring, updated_lock, updateTree_add, updateTree_remove, updated_unlock, unchangedByMirror
  <2> QED BY <2>1, LiveUnchanged
<1>3. CASE Serving
  <2>1. UNCHANGED <<deviceVars, prog>>
    BY <1>3 DEF Serving, StartServer, enter, dispatch, call, getElementName, sem_wait, StopServer, sighandler,
       unchangedByServer
  <2> QED BY <2>1, LiveUnchanged
<1>4. CASE UNCHANGED treeVars
  <2>1. UNCHANGED <<deviceVars, prog>> BY <1>4 DEF treeVars, deviceVars
  <2> QED BY <2>1, LiveUnchanged
<1> QED BY <1>1, <1>2, <1>3, <1>4 DEF TreeNext

\* The driver of a device does not change.
LEMMA SameFamily == ASSUME [TreeNext]_treeVars PROVE Special' <=> Special
<1>1. UNCHANGED family
  <2>1. CASE Discovering
    BY <2>1 DEF Discovering, preUpdateHandler, postUpdateHandler, NewDevice, NewContainer, AddContainer, AddLeaf,
       RenewContainer, DetachContainer, DeleteContainer, EndDestroy, AttachDevice, DetachDevice, DeleteDevice,
       unchangedByProgram
  <2>2. CASE Mirroring
    BY <2>2 DEF Mirroring, updated_lock, updateTree_add, updateTree_remove, updated_unlock, unchangedByMirror
  <2>3. CASE Serving
    BY <2>3 DEF Serving, StartServer, enter, dispatch, call, getElementName, sem_wait, StopServer, sighandler,
       unchangedByServer
  <2>4. CASE UNCHANGED treeVars BY <2>4 DEF treeVars
  <2> QED BY <2>1, <2>2, <2>3, <2>4 DEF TreeNext
<1> QED BY <1>1 DEF Special

\* The inductive invariant of the tree: programs are in order, pointers are known, what is
\* about to be deleted is out of the tree, and a device that is not clean is not attached.
\* It holds of every device but an M-Audio special one.
THEOREM AlwaysTreeInv == TreeSpec => [](~Special => TreeInv)
<1> DEFINE Inv == ~Special => LiveInv
<1>1. Inv /\ [TreeNext]_treeVars => Inv' BY LiveStep, SameFamily
<1>2. Inv => (~Special => TreeInv) BY LiveInvTreeInv
<1>3. TreeInit => Inv BY LiveInit
<1> QED BY <1>1, <1>2, <1>3, PTL DEF TreeSpec

\* While the device is in the tree, neither it nor any element below it has been deleted,
\* whatever buildMixer and destroyMixer meet and however often they run: in every family
\* but the M-Audio special devices.
THEOREM AlwaysTreeIsLive == TreeSpec => []TreeIsLive
<1> DEFINE Inv == ~Special => LiveInv
<1>1. Inv /\ [TreeNext]_treeVars => Inv' BY LiveStep, SameFamily
<1>2. Inv => TreeIsLive BY LiveInvTreeInv DEF TreeIsLive
<1>3. TreeInit => Inv BY LiveInit
<1> QED BY <1>1, <1>2, <1>3, PTL DEF TreeSpec

-----------------------------------------------------------------------------
\* The mirror.  What programs are left to make, step by step.
ElementsInv == \A i \in DOMAIN device : device[i].id > Dev /\ device[i].m \in MemberNames \cup {"leaf"}

LEMMA MadeTail ==
  ASSUME LiveInv, MadeInv, prog # <<>>, prog' = Tail(prog),
         prog[1].op = "container" => member'[prog[1].m] # Null,
         prog[1].op \notin {"detach", "delete"} => \A m \in MemberNames : member[m] # Null => member'[m] # Null
  PROVE  AttachesLive(prog', member', {Null}) /\ \A b : MakesOnce(prog', b)
<1>1. IsSeq(prog) BY DEF LiveInv, ProgInv, InOrder
<1>2. Remains(prog, prog', Len(prog), 1) BY <1>1, TailRemains
<1>3. \A j \in 1..1 : j = 1 OBVIOUS
<1>4. AttachesLive(prog', member', {Null})
  <2>1. \A j \in 1..1 : prog[j].op = "container" => member'[prog[j].m] \notin {Null} BY <1>3
  <2>2. prog[1].op \notin {"detach", "delete"} => \A m \in MemberNames : member[m] \notin {Null} => member'[m] \notin {Null}
    OBVIOUS
  <2>3. InOrder(prog) /\ AttachesLive(prog, member, {Null}) BY DEF LiveInv, ProgInv, MadeInv
  <2> QED BY <1>2, <2>1, <2>2, <2>3, ShiftAttaches
<1>5. ASSUME NEW i \in DOMAIN prog' PROVE prog'[i].op # "newDevice"
  <2>1. i + 1 \in DOMAIN prog /\ prog'[i] = prog[i + 1] /\ i \in Int /\ i >= 1 BY <1>2, ShiftIndex
  <2>2. i + 1 # 1 BY <2>1
  <2> QED BY <2>1, <2>2 DEF MadeInv
<1> QED BY <1>4, <1>5 DEF MakesOnce

LEMMA NoneMade ==
  ASSUME NEW p, NEW a, \A i \in DOMAIN p : p[i].op # "newDevice" PROVE MakesOnce(p, a)
BY DEF MakesOnce


LEMMA MadeInvIs == MadeInv <=> family \in Families /\ ElementsInv /\ AttachesLive(prog, member, {Null}) /\ MakesOnce(prog, attached)
BY DEF MadeInv, ElementsInv, MakesOnce

\* A program begins.
LEMMA MadeBegins ==
  ASSUME MadeInv, UNCHANGED <<family, deviceVars>>, Begins(prog'), MakesOnce(prog', attached)
  PROVE  MadeInv'
<1>1. AttachesLive(prog', member', {Null}) BY DEF Begins, AttachesLive
<1>2. ElementsInv' BY MadeInvIs DEF ElementsInv, deviceVars
<1>3. family' \in Families /\ MakesOnce(prog', attached') BY DEF MadeInv, deviceVars
<1> QED BY <1>1, <1>2, <1>3 DEF MadeInv, ElementsInv, MakesOnce

LEMMA MadePreUpdate == ASSUME MadeInv, ~Special, preUpdateHandler PROVE MadeInv'
<1>0. family # "special" BY DEF Special
<1>1. UNCHANGED <<family, deviceVars>> BY DEF preUpdateHandler
<1>2. CASE attached
  <2>1. prog' = Rebuild(family) \/ prog' = Withdraw BY <1>2 DEF preUpdateHandler
  <2>2. CASE prog' = Rebuild(family) BY <1>0, <1>1, <2>2, RebuildBegins, NoneMade, MadeBegins
  <2>3. CASE prog' = Withdraw
    <3>1. DOMAIN Withdraw = 1..2 /\ Withdraw[1].op = "detachDevice" /\ Withdraw[2].op = "deleteDevice"
      BY Tuple2 DEF Withdraw, Op
    <3>2. \A i \in DOMAIN Withdraw : Withdraw[i].op # "newDevice" BY <3>1
    <3> QED BY <1>1, <2>3, <3>2, WithdrawBegins, NoneMade, MadeBegins
  <2> QED BY <2>1, <2>2, <2>3
<1>3. CASE ~attached
  <2>1. prog' = Create(family) BY <1>3 DEF preUpdateHandler
  <2>2. MakesOnce(prog', attached) BY <1>0, <1>3, <2>1, CreateBegins DEF MakesOnce
  <2> QED BY <1>0, <1>1, <2>1, <2>2, CreateBegins, MadeBegins
<1> QED BY <1>2, <1>3

LEMMA MadeNewDevice == ASSUME LiveInv, MadeInv, NewDevice PROVE MadeInv'
<1>1. prog # <<>> /\ prog[1].op = "newDevice" /\ prog' = Tail(prog)
  BY SteppingFacts DEF NewDevice, Rest
<1>2. member' = [member EXCEPT !["generic"] = nextId + 1] /\ UNCHANGED <<attached, family>>
  BY DEF NewDevice, unchangedByProgram
<1>3. PICK a, b : a.id = nextId /\ a.m = "leaf" /\ b.id = nextId + 1 /\ b.m = "generic" /\ device' = <<a, b>>
  BY DEF NewDevice
<1>4. nextId \in Nat /\ nextId > 1 /\ member \in [MemberNames -> KnownIds \ {Dev}]
  BY DEF LiveInv, DataInv, Dev
<1>5. DOMAIN device' = 1..2 /\ device'[1] = a /\ device'[2] = b BY <1>3, Tuple2
<1>6. ElementsInv' BY <1>3, <1>4, <1>5 DEF ElementsInv, Dev, MemberNames
<1>7. \A m \in MemberNames : member[m] # Null => member'[m] # Null BY <1>2, <1>4 DEF Null
<1>8. AttachesLive(prog', member', {Null}) /\ MakesOnce(prog', attached') BY <1>1, <1>7, MadeTail
<1> QED BY <1>2, <1>6, <1>8 DEF MadeInv, ElementsInv, MakesOnce

LEMMA MadeNewContainer == ASSUME LiveInv, MadeInv, NewContainer PROVE MadeInv'
<1>1. prog # <<>> /\ prog[1].op = "container" /\ prog' = Tail(prog) /\ 1 \in DOMAIN prog /\ Head(prog) = prog[1]
  BY SteppingFacts DEF NewContainer, Rest
<1>2. PICK h \in MemberNames : h = prog[1].m BY <1>1 DEF LiveInv, ProgInv, InOrder, NamesMembers
<1>3. member' = [member EXCEPT ![h] = nextId] /\ UNCHANGED <<attached, family, device>>
  BY <1>1, <1>2 DEF NewContainer, unchangedByProgram
<1>4. nextId \in Nat /\ nextId > 1 /\ member \in [MemberNames -> KnownIds \ {Dev}]
  BY DEF LiveInv, DataInv, Dev
<1>5. member'[prog[1].m] # Null /\ \A m \in MemberNames : member[m] # Null => member'[m] # Null
  BY <1>2, <1>3, <1>4 DEF Null
<1>6. AttachesLive(prog', member', {Null}) /\ MakesOnce(prog', attached') BY <1>1, <1>5, MadeTail
<1> QED BY <1>3, <1>6 DEF MadeInv, MakesOnce

\* The elements after one was added, or taken out.
LEMMA AddedElements ==
  ASSUME LiveInv, NEW e, addElement(e)
  PROVE  \A i \in DOMAIN device' : device'[i] = e \/ \E j \in DOMAIN device : device'[i] = device[j]
<1>1. IsSeq(device) BY DEF LiveInv, DataInv
<1>2. PICK S : device \in Seq(S) BY <1>1 DEF IsSeq
<1>3. device \in Seq(S \cup {e}) BY <1>2
<1>4. CASE device' = Append(device, e)
  <2>1. /\ DOMAIN device = 1..Len(device) /\ DOMAIN device' = 1..(Len(device) + 1) /\ Len(device) \in Nat
        /\ \A i \in 1..Len(device) : device'[i] = device[i]
        /\ device'[Len(device) + 1] = e
    BY <1>3, <1>4
  <2> QED BY <2>1
<1>5. CASE device' = device BY <1>5
<1> QED BY <1>4, <1>5 DEF addElement

LEMMA DeletedElements ==
  ASSUME LiveInv, NEW id, id \in Ids(device), device' = deleteElementNoLock(id)
  PROVE  \A i \in DOMAIN device' : \E j \in DOMAIN device : device'[i] = device[j]
<1> DEFINE I == {i \in 1..Len(device) : device[i].id = id}
           k == SelectInSeq(device, LAMBDA e : e.id = id)
<1>0. IsSeq(device) BY DEF LiveInv, DataInv
<1>1. PICK n \in Nat : n = Len(device) /\ DOMAIN device = 1..n BY <1>0, SeqFacts
<1>2. I # {} /\ I \subseteq Nat BY <1>1 DEF Ids
<1>3. k = Min(I) BY <1>2 DEF SelectInSeq
<1>4. k \in I
  <2> HIDE DEF I, k
  <2> QED BY <1>2, <1>3, Least
<1>5. device' = IF k = 0 THEN device ELSE RemoveAt(device, k) BY DEF deleteElementNoLock
<1> HIDE DEF k
<1>6. k \in 1..n BY <1>1, <1>4
<1>7. device' = RemoveAt(device, k) BY <1>5, <1>6
<1>8. /\ DOMAIN device' = 1..(n - 1)
      /\ \A i \in 1..(n - 1) : device'[i] = IF i < k THEN device[i] ELSE device[i + 1]
  BY <1>0, <1>1, <1>6, <1>7, Removed
<1>9. \A i \in 1..(n - 1) : i \in 1..n /\ i + 1 \in 1..n BY <1>1
<1> QED BY <1>1, <1>8, <1>9

LEMMA MadeAddContainer == ASSUME LiveInv, MadeInv, AddContainer PROVE MadeInv'
<1>1. prog # <<>> /\ prog[1].op = "attach" /\ prog' = Tail(prog) /\ 1 \in DOMAIN prog /\ Head(prog) = prog[1]
  BY SteppingFacts DEF AddContainer, Rest
<1>2. PICK h \in MemberNames : h = prog[1].m BY <1>1 DEF LiveInv, ProgInv, InOrder, NamesMembers
<1>3. UNCHANGED <<attached, member, family>> BY DEF AddContainer, unchangedByProgram
<1>4. PICK e : e.id = member[h] /\ e.m = h /\ addElement(e) BY <1>1, <1>2 DEF AddContainer
<1>5. member[h] # Null
  <2>1. \A j \in DOMAIN prog : j \in Int /\ j >= 1 BY SeqFacts DEF LiveInv, ProgInv, InOrder
  <2>2. ~\E j \in DOMAIN prog : j < 1 BY <2>1
  <2> QED BY <1>1, <1>2, <2>2 DEF MadeInv, AttachesLive
<1>6. member[h] > Dev
  <2>1. member[h] \in KnownIds \ {Dev} /\ nextId \in Nat BY <1>2 DEF LiveInv, DataInv
  <2> QED BY <1>5, <2>1 DEF KnownIds, Dev, Null
<1>7. ElementsInv'
  <2>1. \A i \in DOMAIN device' : device'[i] = e \/ \E j \in DOMAIN device : device'[i] = device[j]
    BY <1>4, AddedElements
  <2> QED BY <1>2, <1>4, <1>6, <2>1 DEF MadeInv, ElementsInv
<1>8. AttachesLive(prog', member', {Null}) /\ MakesOnce(prog', attached') BY <1>1, <1>3, MadeTail
<1> QED BY <1>3, <1>7, <1>8 DEF MadeInv, ElementsInv, MakesOnce

LEMMA MadeAddLeaf == ASSUME LiveInv, MadeInv, AddLeaf PROVE MadeInv'
<1>1. prog # <<>> /\ prog[1].op = "leaf" /\ prog' = Tail(prog) BY SteppingFacts DEF AddLeaf, Rest
<1>2. UNCHANGED <<attached, member, family>> BY DEF AddLeaf, unchangedByProgram
<1>3. PICK e : e.id = nextId /\ e.m = "leaf" /\ addElement(e) BY DEF AddLeaf
<1>4. ElementsInv'
  <2>1. \A i \in DOMAIN device' : device'[i] = e \/ \E j \in DOMAIN device : device'[i] = device[j]
    BY <1>3, AddedElements
  <2>2. nextId > Dev BY DEF LiveInv, DataInv
  <2> QED BY <1>3, <2>1, <2>2 DEF MadeInv, ElementsInv
<1>5. AttachesLive(prog', member', {Null}) /\ MakesOnce(prog', attached') BY <1>1, <1>2, MadeTail
<1> QED BY <1>2, <1>4, <1>5 DEF MadeInv, ElementsInv, MakesOnce

LEMMA MadeSkip ==
  ASSUME LiveInv, MadeInv, UNCHANGED <<family, deviceVars>>, prog # <<>>, prog' = Tail(prog),
         prog[1].op # "container"
  PROVE  MadeInv'
<1>1. AttachesLive(prog', member', {Null}) /\ MakesOnce(prog', attached') BY MadeTail DEF deviceVars
<1> QED BY <1>1 DEF MadeInv, MakesOnce, deviceVars

LEMMA MadeReturn ==
  ASSUME LiveInv, MadeInv, UNCHANGED <<family, deviceVars>>, prog # <<>>, Head(prog).op = "detach", prog' = AfterDestroy
  PROVE  MadeInv'
<1>1. InOrder(prog) /\ AttachesLive(prog, member, {Null}) BY DEF LiveInv, ProgInv, MadeInv
<1>2. PICK k : /\ Remains(prog, AfterDestroy, Len(prog), k)
               /\ \A j \in 1..k : prog[j].op \notin {"container", "newDevice"}
               /\ AfterDestroy[1].op = "endDestroy"
  BY <1>1, AfterDestroyRemains
<1>3. AttachesLive(prog', member', {Null}) BY <1>1, <1>2, ShiftAttaches DEF deviceVars
<1>4. ASSUME NEW i \in DOMAIN prog' PROVE prog'[i].op # "newDevice"
  <2>0. Remains(prog, prog', Len(prog), k) BY <1>2
  <2>1. i + k \in DOMAIN prog /\ prog'[i] = prog[i + k] /\ i \in Int BY <2>0, ShiftIndex
  <2>2. i + k # 1 BY <2>0, <2>1 DEF Remains
  <2> QED BY <2>1, <2>2 DEF MadeInv
<1> QED BY <1>3, <1>4 DEF MadeInv, deviceVars

LEMMA ReplacedMakes ==
  ASSUME NEW p, NEW h, IsSeq(p), p # <<>>, h.op # "newDevice", \A i \in DOMAIN p : p[i].op = "newDevice" => i = 1
  PROVE  \A i \in DOMAIN (<<h>> \o Tail(p)) : (<<h>> \o Tail(p))[i].op # "newDevice"
<1> DEFINE g == <<h>>
<1>1. IsSeq(g) /\ Len(g) = 1 /\ g[1] = h BY Tuple1
<1>2. PICK n \in Nat : /\ n = Len(p) /\ n >= 1 /\ DOMAIN p = 1..n /\ IsSeq(Tail(p)) /\ Len(Tail(p)) = n - 1
                       /\ \A i \in 1..(n - 1) : Tail(p)[i] = p[i + 1]
  BY TailFacts
<1> HIDE DEF g
<1>3. /\ DOMAIN (g \o Tail(p)) = 1..(1 + (n - 1))
      /\ \A i \in 1..1 : (g \o Tail(p))[i] = g[i]
      /\ \A i \in (1 + 1)..(1 + (n - 1)) : (g \o Tail(p))[i] = Tail(p)[i - 1]
  <2>1. /\ DOMAIN (g \o Tail(p)) = 1..(Len(g) + Len(Tail(p)))
        /\ \A i \in 1..Len(g) : (g \o Tail(p))[i] = g[i]
        /\ \A i \in (Len(g) + 1)..(Len(g) + Len(Tail(p))) : (g \o Tail(p))[i] = Tail(p)[i - Len(g)]
    <3>1. IsSeq(g) /\ IsSeq(Tail(p)) BY <1>1, <1>2
    <3> QED BY <3>1, ConcatFacts, Zenon
  <2> QED BY <1>1, <1>2, <2>1
<1>4. ASSUME NEW i \in 1..n PROVE (g \o Tail(p))[i].op # "newDevice"
  <2>1. CASE i = 1 BY <1>1, <1>3, <2>1
  <2>2. CASE i # 1
    <3>1. i - 1 \in 1..(n - 1) /\ (i - 1) + 1 = i /\ i \in (1 + 1)..(1 + (n - 1)) BY <2>2
    <3>2. (g \o Tail(p))[i] = p[i] BY <1>2, <1>3, <3>1
    <3> QED BY <1>2, <2>2, <3>2
  <2> QED BY <2>1, <2>2
<1>5. 1 + (n - 1) = n BY <1>2
<1> QED BY <1>3, <1>4, <1>5 DEF g

LEMMA MadeDetachContainer == ASSUME LiveInv, MadeInv, DetachContainer PROVE MadeInv'
<1>1. prog # <<>> /\ prog[1].op = "detach" /\ Head(prog) = prog[1] /\ UNCHANGED family
  BY SteppingFacts DEF DetachContainer, unchangedByProgram
<1>2. CASE UNCHANGED device /\ prog' \in {Tail(prog), AfterDestroy}
  <2>1. UNCHANGED deviceVars BY <1>2 DEF DetachContainer, deviceVars
  <2> QED BY <1>1, <1>2, <2>1, MadeSkip, MadeReturn
<1>3. CASE /\ member[Head(prog).m] \in Ids(device) /\ deleteElement(member[Head(prog).m])
           /\ prog' = <<[Head(prog) EXCEPT !.op = "delete"]>> \o Tail(prog)
  <2>1. UNCHANGED <<attached, member>> BY DEF DetachContainer
  <2>2. ElementsInv'
    <3>1. device' = deleteElementNoLock(member[Head(prog).m]) BY <1>3 DEF deleteElement
    <3>2. \A i \in DOMAIN device' : \E j \in DOMAIN device : device'[i] = device[j] BY <1>3, <3>1, DeletedElements
    <3> QED BY <3>2 DEF MadeInv, ElementsInv
  <2>3. InOrder(prog) /\ DetachesDevice(prog, attached) /\ AttachesLive(prog, member, {Null})
    BY DEF LiveInv, ProgInv, MadeInv
  <2>4. AttachesLive(prog', member', {Null}) /\ MakesOnce(prog', attached')
    <3> DEFINE h == [Head(prog) EXCEPT !.op = "delete"]
    <3>1. AttachesLive(prog', member, {Null}) BY <1>1, <1>3, <2>3, Replaced
    <3>2. h.op = "delete" /\ IsSeq(prog)
      BY <1>1, SteppingFacts DEF DetachContainer, LiveInv, ProgInv, InOrder, Shape, DetachFields
    <3>3. \A i \in DOMAIN prog : prog[i].op = "newDevice" => i = 1 BY DEF MadeInv
    <3>4. prog' = <<h>> \o Tail(prog) BY <1>3
    <3> HIDE DEF h
    <3>5. \A i \in DOMAIN prog' : prog'[i].op # "newDevice" BY <1>1, <3>2, <3>3, <3>4, ReplacedMakes
    <3> QED BY <2>1, <3>1, <3>5 DEF MakesOnce
  <2> QED BY <1>1, <2>2, <2>4 DEF MadeInv, ElementsInv, MakesOnce
<1> QED BY <1>2, <1>3 DEF DetachContainer

LEMMA MadeDeleteContainer == ASSUME LiveInv, MadeInv, DeleteContainer PROVE MadeInv'
<1>1. prog # <<>> /\ prog[1].op = "delete" /\ prog' = Tail(prog) BY SteppingFacts DEF DeleteContainer, Rest
<1>2. UNCHANGED <<device, attached, family>> BY DEF DeleteContainer, unchangedByProgram
<1>3. AttachesLive(prog', member', {Null}) /\ MakesOnce(prog', attached') BY <1>1, MadeTail
<1> QED BY <1>2, <1>3 DEF MadeInv, MakesOnce

LEMMA MadeDeleteDevice == ASSUME LiveInv, MadeInv, DeleteDevice PROVE MadeInv'
<1>1. /\ prog # <<>> /\ prog[1].op = "deleteDevice" /\ prog' = Tail(prog) /\ 1 \in DOMAIN prog /\ IsSeq(prog)
  BY SteppingFacts DEF DeleteDevice, Rest
<1>2. device' = <<>> /\ UNCHANGED <<attached, family>> BY DEF DeleteDevice, unchangedByProgram
<1>3. 1 = Len(prog) BY <1>1 DEF LiveInv, ProgInv, DetachesDevice
<1>4. DOMAIN prog' = {}
  <2>1. DOMAIN prog' = 1..(Len(prog) - 1) BY <1>1, TailFacts
  <2>2. PICK n : n = Len(prog) OBVIOUS
  <2>3. 1..(n - 1) = {} BY <1>3, <2>2
  <2> QED BY <2>1, <2>2, <2>3
<1> QED BY <1>2, <1>4, Tuple0 DEF MadeInv, AttachesLive

LEMMA MadeAttachment == ASSUME LiveInv, MadeInv, AttachDevice \/ DetachDevice PROVE MadeInv'
<1>1. prog # <<>> /\ prog[1].op \in {"attachDevice", "detachDevice"} /\ prog' = Tail(prog)
  BY SteppingFacts DEF AttachDevice, DetachDevice, Rest
<1>2. UNCHANGED <<device, member, family>> BY DEF AttachDevice, DetachDevice, unchangedByProgram
<1>3. AttachesLive(prog', member', {Null}) /\ MakesOnce(prog', attached') BY <1>1, <1>2, MadeTail
<1> QED BY <1>2, <1>3 DEF MadeInv, MakesOnce

LEMMA MadeUnchanged == ASSUME MadeInv, UNCHANGED <<family, deviceVars, prog>> PROVE MadeInv'
BY DEF MadeInv, deviceVars

LEMMA MadeStep == ASSUME LiveInv, ~Special, MadeInv, [TreeNext]_treeVars PROVE MadeInv'
<1>1. CASE Discovering
  <2>1. CASE postUpdateHandler BY <2>1, MadeUnchanged DEF postUpdateHandler
  <2>2. CASE EndDestroy BY <2>2, SteppingFacts, MadeSkip DEF EndDestroy, Rest, unchangedByProgram
  <2> QED BY <1>1, <2>1, <2>2, MadePreUpdate, MadeNewDevice, MadeNewContainer, MadeAddContainer, MadeAddLeaf,
             LiveRenew, MadeDetachContainer, MadeDeleteContainer, MadeAttachment, MadeDeleteDevice DEF Discovering
<1>2. CASE Mirroring
  <2>1. UNCHANGED <<family, deviceVars, prog>>
    BY <1>2 DEF Mirroring, updated_lock, updateTree_add, updateTree_remove, updated_unlock, unchangedByMirror
  <2> QED BY <2>1, MadeUnchanged
<1>3. CASE Serving
  <2>1. UNCHANGED <<family, deviceVars, prog>>
    BY <1>3 DEF Serving, StartServer, enter, dispatch, call, getElementName, sem_wait, StopServer, sighandler,
       unchangedByServer
  <2> QED BY <2>1, MadeUnchanged
<1>4. CASE UNCHANGED treeVars
  <2>1. UNCHANGED <<family, deviceVars, prog>> BY <1>4 DEF treeVars, deviceVars
  <2> QED BY <2>1, MadeUnchanged
<1> QED BY <1>1, <1>2, <1>3, <1>4 DEF TreeNext

-----------------------------------------------------------------------------
\* The objects: the first element of each name stands for all of that name.
LEMMA FirstCovers ==
  ASSUME IsSeq(device)
  PROVE  /\ FirstOfName(device) \subseteq Ids(device)
         /\ \A i \in DOMAIN device :
               \E j \in DOMAIN device : device[j].id \in FirstOfName(device) /\ device[j].name = device[i].name
<1>1. FirstOfName(device) \subseteq Ids(device) BY DEF FirstOfName, Ids
<1>2. ASSUME NEW i \in DOMAIN device
      PROVE  \E j \in DOMAIN device : device[j].id \in FirstOfName(device) /\ device[j].name = device[i].name
  <2> DEFINE T == {j \in DOMAIN device : device[j].name = device[i].name}
             k == Min(T)
  <2>1. DOMAIN device = 1..Len(device) /\ Len(device) \in Nat BY SeqFacts
  <2>2. T \subseteq Nat /\ i \in T BY <2>1
  <2>3. k \in T /\ \A y \in T : k <= y
    <3> HIDE DEF T
    <3> QED BY <2>2, Least
  <2> HIDE DEF k
  <2>4. k \in DOMAIN device /\ device[k].name = device[i].name BY <2>3
  <2>5. ASSUME NEW x \in 1..(k - 1) PROVE device[x].name # device[k].name
    <3>1. x \in DOMAIN device /\ x < k /\ x \in Nat /\ k \in Nat BY <2>1, <2>4
    <3>2. x \notin T BY <2>3, <3>1
    <3> QED BY <2>4, <3>1, <3>2
  <2>6. device[k].id \in FirstOfName(device) BY <2>4, <2>5 DEF FirstOfName
  <2> QED BY <2>4, <2>6
<1> QED BY <1>1, <1>2

LEMMA MirrorInit == TreeInit => MadeInv /\ MirrorInv
<1> SUFFICES ASSUME TreeInit PROVE MadeInv /\ MirrorInv OBVIOUS
<1>1. MadeInv BY Tuple0 DEF TreeInit, MadeInv, AttachesLive
<1>2. attached \in BOOLEAN BY Zenon DEF TreeInit
<1>3. MirrorInv BY <1>2 DEF TreeInit, MirrorInv, NoSignal, Root, Dev
<1> QED BY <1>1, <1>3

\* Steps that leave tree, signal and mirror alone.
LEMMA MirrorSame ==
  ASSUME MirrorInv, UNCHANGED <<device, attached, signal, mirrorVars>>,
         server'.pc = "start" <=> server.pc = "start", server'.pc = "done" <=> server.pc = "done"
  PROVE  MirrorInv'
<1>1. UNCHANGED <<mirror, listening>> BY DEF mirrorVars
<1>2. Listening' = Listening /\ Shown' = Shown /\ DeviceSignal' = DeviceSignal /\ RootSignal' = RootSignal
  BY <1>1 DEF Listening, Shown, DeviceSignal, RootSignal, Covered, AllCovered, InTree
<1> QED BY <1>1, <1>2 DEF MirrorInv

\* A change of the device's elements, with the signal that follows it if the mirror listens.
LEMMA MirrorChange ==
  ASSUME IsSeq(device'), MirrorInv, signal.step = "none", UNCHANGED <<attached, mirrorVars, server>>, emitSignal(Dev)
  PROVE  MirrorInv'
<1>1. UNCHANGED <<mirror, listening>> BY DEF mirrorVars
<1>2. CASE Dev \in listening
  <2>1. signal' = [step |-> "lock", on |-> Dev, i |-> 1] BY <1>2 DEF emitSignal
  <2>2. server.pc # "start" BY <1>2 DEF MirrorInv
  <2>3. ASSUME server.pc \notin {"start", "done"} PROVE Listening' /\ DeviceSignal'
    <3>1. Listening /\ Shown BY <2>3 DEF MirrorInv
    <3>2. Dev \in mirror /\ attached BY <1>2, <3>1 DEF Listening, Shown, Root, Dev
    <3>3. Covered(1)' 
      <4>1. \A i \in DOMAIN device' : ~(i < 1) BY SeqFacts
      <4> QED BY <4>1 DEF Covered
    <3> QED BY <1>1, <2>1, <3>1, <3>2, <3>3 DEF Listening, DeviceSignal
  <2> QED BY <1>1, <2>1, <2>2, <2>3 DEF MirrorInv
<1>3. CASE Dev \notin listening
  <2>1. signal' = NoSignal BY <1>3 DEF emitSignal
  <2>2. ASSUME server.pc \notin {"start", "done"} PROVE Listening' /\ Shown'
    <3>1. Listening /\ Shown BY <2>2 DEF MirrorInv
    <3>2. ~attached BY <1>3, <3>1 DEF Listening, Shown
    <3> QED BY <1>1, <3>1, <3>2 DEF Listening, Shown
  <2> QED BY <1>1, <2>1, <2>2 DEF MirrorInv, NoSignal, Root, Dev
<1> QED BY <1>2, <1>3

LEMMA MirrorQuiet ==
  ASSUME MirrorInv, signal.step = "none", UNCHANGED <<attached, mirrorVars, server>>,
         signal' = NoSignal \/ signal' = signal, ~attached \/ UNCHANGED device
  PROVE  MirrorInv'
<1>1. UNCHANGED <<mirror, listening>> BY DEF mirrorVars
<1>2. Shown => Shown' BY <1>1 DEF Shown, InTree, AllCovered
<1>3. Listening' = Listening BY <1>1 DEF Listening
<1>4. signal'.step = "none" /\ signal' \in [step : {"none", "lock", "walk", "prune", "unlock"}, on : {Root, Dev}, i : Nat \ {0}]
  BY DEF MirrorInv, NoSignal
<1> QED BY <1>1, <1>2, <1>3, <1>4 DEF MirrorInv

\* A change of the list of devices.
LEMMA MirrorAttachment ==
  ASSUME MirrorInv, signal.step = "none", UNCHANGED <<device, mirrorVars, server>>, emitSignal(Root),
         attached' \in BOOLEAN
  PROVE  MirrorInv'
<1>1. UNCHANGED <<mirror, listening>> BY DEF mirrorVars
<1>2. CASE Root \in listening
  <2>1. signal' = [step |-> "lock", on |-> Root, i |-> 1] BY <1>2 DEF emitSignal
  <2>2. server.pc # "start" BY <1>2 DEF MirrorInv
  <2>3. ASSUME server.pc \notin {"start", "done"} PROVE Listening' /\ RootSignal'
    <3>1. Listening /\ Shown BY <2>3 DEF MirrorInv
    <3>2. InTree BY <3>1 DEF Shown, InTree
    <3>3. attached' => Shown' \/ mirror = {Root}
      BY <1>1, <3>1 DEF Shown, InTree, AllCovered
    <3> QED BY <1>1, <2>1, <3>1, <3>2, <3>3 DEF Listening, RootSignal, InTree
  <2> QED BY <1>1, <2>1, <2>2, <2>3 DEF MirrorInv, Root, Dev
<1>3. CASE Root \notin listening
  <2>1. signal' = NoSignal BY <1>3 DEF emitSignal
  <2>2. server.pc \in {"start", "done"} BY <1>3 DEF MirrorInv, Listening
  <2> QED BY <1>1, <2>1, <2>2 DEF MirrorInv, NoSignal, Root, Dev
<1> QED BY <1>2, <1>3

\* The discovering thread.
LEMMA MirrorDiscovering == ASSUME LiveInv, LiveInv', MadeInv, MirrorInv, Discovering PROVE MirrorInv'
<1>0. IsSeq(device) /\ IsSeq(device') BY DEF LiveInv, DataInv
<1>1. CASE preUpdateHandler \/ NewContainer \/ DeleteContainer \/ EndDestroy \/ postUpdateHandler
  <2>1. UNCHANGED <<device, attached, signal, mirrorVars, server>>
    BY <1>1 DEF preUpdateHandler, NewContainer, DeleteContainer, EndDestroy, postUpdateHandler,
       unchangedByProgram, deviceVars, serverVars
  <2> QED BY <2>1, MirrorSame
<1>2. CASE NewDevice
  <2>1. prog # <<>> /\ prog[1].op = "newDevice" /\ 1 \in DOMAIN prog /\ signal.step = "none"
    BY <1>2, SteppingFacts DEF NewDevice, Stepping
  <2>2. ~attached BY <2>1 DEF MadeInv
  <2>3. UNCHANGED <<attached, signal, mirrorVars, server>> BY <1>2 DEF NewDevice, unchangedByProgram, serverVars
  <2> QED BY <2>1, <2>2, <2>3, MirrorQuiet
<1>3. CASE DeleteDevice
  <2>1. prog # <<>> /\ prog[1].op = "deleteDevice" /\ 1 \in DOMAIN prog /\ signal.step = "none"
    BY <1>3, SteppingFacts DEF DeleteDevice, Stepping
  <2>2. ~attached BY <2>1 DEF LiveInv, ProgInv, DetachesDevice
  <2>3. UNCHANGED <<attached, signal, mirrorVars, server>> BY <1>3 DEF DeleteDevice, unchangedByProgram, serverVars
  <2> QED BY <2>1, <2>2, <2>3, MirrorQuiet
<1>4. CASE AddContainer \/ AddLeaf
  <2>1. signal.step = "none" /\ UNCHANGED <<attached, mirrorVars, server>>
    BY <1>4 DEF AddContainer, AddLeaf, Stepping, unchangedByProgram, serverVars
  <2>2. emitSignal(Dev) \/ (UNCHANGED device /\ signal' = NoSignal) BY <1>4 DEF AddContainer, AddLeaf, addElement
  <2> QED BY <1>0, <2>1, <2>2, MirrorChange, MirrorQuiet
<1>5. CASE DetachContainer
  <2>1. signal.step = "none" /\ UNCHANGED <<attached, mirrorVars, server>>
    BY <1>5 DEF DetachContainer, Stepping, unchangedByProgram, serverVars
  <2>2. emitSignal(Dev) \/ (UNCHANGED device /\ signal' = signal) BY <1>5 DEF DetachContainer, deleteElement
  <2> QED BY <1>0, <2>1, <2>2, MirrorChange, MirrorQuiet
<1>6. CASE AttachDevice \/ DetachDevice
  <2>1. signal.step = "none" /\ UNCHANGED <<device, mirrorVars, server>> /\ emitSignal(Root) /\ attached' \in BOOLEAN
    BY <1>6 DEF AttachDevice, DetachDevice, Stepping, unchangedByProgram, serverVars
  <2> QED BY <2>1, MirrorAttachment
<1> QED BY <1>1, <1>2, <1>3, <1>4, <1>5, <1>6, LiveRenew DEF Discovering

\* The server: it begins with the first element of each name.
LEMMA MirrorStart == ASSUME LiveInv, MadeInv, MirrorInv, StartServer PROVE MirrorInv'
<1>1. UNCHANGED <<device, attached, signal>> BY DEF StartServer, unchangedByServer, deviceVars
<1>2. mirror' = {Root} \cup (IF attached THEN {Dev} \cup FirstOfName(device) ELSE {}) BY DEF StartServer
<1>3. listening' = {x \in mirror' : x \in {Root, Dev} \/ IsContainer(Element(x))} BY DEF StartServer
<1>4. server'.pc = "enter" /\ signal.step = "none" BY DEF StartServer, Go, At, MirrorInv
<1>5. IsSeq(device) BY DEF LiveInv, DataInv
<1>6. Listening' BY <1>2, <1>3 DEF Listening
<1>7. Shown'
  <2>1. CASE attached
    <3>1. InTree' BY <1>1, <1>2, <1>5, <2>1, FirstCovers DEF InTree
    <3>2. AllCovered' BY <1>1, <1>2, <1>5, <2>1, FirstCovers DEF AllCovered
    <3> QED BY <1>1, <1>2, <2>1, <3>1, <3>2 DEF Shown
  <2>2. CASE ~attached BY <1>1, <1>2, <2>2 DEF Shown
  <2> QED BY <2>1, <2>2
<1> QED BY <1>1, <1>4, <1>6, <1>7 DEF MirrorInv

LEMMA MirrorServing == ASSUME LiveInv, MadeInv, MirrorInv, Serving PROVE MirrorInv'
<1>1. CASE StopServer
  <2>1. server'.pc = "done" /\ UNCHANGED <<attached, signal>>
    BY <1>1 DEF StopServer, Go, unchangedByServer, deviceVars
  <2> QED BY <2>1 DEF MirrorInv
<1>2. CASE enter \/ dispatch \/ call \/ getElementName \/ sem_wait \/ sighandler
  <2>1. UNCHANGED <<device, attached, signal, mirrorVars>>
    BY <1>2 DEF enter, dispatch, call, getElementName, sem_wait, sighandler, unchangedByServer, deviceVars
  <2>2. (server'.pc = "start" <=> server.pc = "start") /\ (server'.pc = "done" <=> server.pc = "done")
    BY <1>2 DEF enter, dispatch, call, getElementName, sem_wait, sighandler, At, Go
  <2> QED BY <2>1, <2>2, MirrorSame
<1> QED BY <1>1, <1>2, MirrorStart DEF Serving

\* The signal of a change.
Steps == {"none", "lock", "walk", "prune", "unlock"}
LEMMA SignalMoves ==
  ASSUME MirrorInv
  PROVE  /\ signal.step \in Steps /\ signal.on \in {Root, Dev} /\ signal.i \in Nat /\ signal.i >= 1
         /\ \A s \in Steps : /\ [signal EXCEPT !.step = s] \in [step : Steps, on : {Root, Dev}, i : Nat \ {0}]
                             /\ [signal EXCEPT !.step = s].step = s
                             /\ [signal EXCEPT !.step = s].on = signal.on
                             /\ [signal EXCEPT !.step = s].i = signal.i
         /\ [signal EXCEPT !.i = @ + 1] \in [step : Steps, on : {Root, Dev}, i : Nat \ {0}]
         /\ [signal EXCEPT !.i = @ + 1].step = signal.step
         /\ [signal EXCEPT !.i = @ + 1].on = signal.on
         /\ [signal EXCEPT !.i = @ + 1].i = signal.i + 1
<1>1. signal \in [step : Steps, on : {Root, Dev}, i : Nat \ {0}] BY DEF MirrorInv, Steps
<1> QED BY <1>1

LEMMA MirrorLock == ASSUME MirrorInv, updated_lock PROVE MirrorInv'
<1>1. UNCHANGED <<device, attached, mirror, listening, server>>
  BY DEF updated_lock, unchangedByMirror, deviceVars, mirrorVars, serverVars
<1>2. signal.step = "lock" /\ signal' = [signal EXCEPT !.step = "walk"] BY DEF updated_lock
<1>3. signal'.step = "walk" /\ signal'.on = signal.on /\ signal'.i = signal.i
  BY <1>2, SignalMoves DEF Steps
<1>4. signal' \in [step : Steps, on : {Root, Dev}, i : Nat \ {0}] BY <1>2, SignalMoves DEF Steps
<1>5. Listening' = Listening /\ Shown' = Shown BY <1>1 DEF Listening, Shown, InTree, AllCovered
<1>6. DeviceSignal => DeviceSignal' BY <1>1, <1>2, <1>3 DEF DeviceSignal, Covered
<1>7. RootSignal => RootSignal' BY <1>1, <1>2, <1>3, <1>5 DEF RootSignal, InTree
<1> QED BY <1>1, <1>2, <1>3, <1>4, <1>5, <1>6, <1>7 DEF MirrorInv, Steps

LEMMA MirrorUnlock == ASSUME MirrorInv, updated_unlock PROVE MirrorInv'
<1>1. UNCHANGED <<device, attached, mirror, listening, server>>
  BY DEF updated_unlock, unchangedByMirror, deviceVars, mirrorVars, serverVars
<1>2. signal.step = "unlock" /\ signal' = NoSignal BY DEF updated_unlock
<1>3. Listening' = Listening /\ Shown' = Shown BY <1>1 DEF Listening, Shown, InTree, AllCovered
<1>4. DeviceSignal => Shown BY <1>2 DEF DeviceSignal, Shown
<1>5. RootSignal => Shown BY <1>2 DEF RootSignal, Shown
<1> QED BY <1>1, <1>2, <1>3, <1>4, <1>5 DEF MirrorInv, NoSignal

\* The walk over the elements of the device: what has no object has a namesake that has one.
LEMMA WalkDevice ==
  ASSUME LiveInv, MadeInv, MirrorInv, updateTree_add, signal.on = Dev, server.pc \notin {"start", "done"}
  PROVE  Listening' /\ DeviceSignal'
<1>1. UNCHANGED <<device, attached>> /\ signal.step = "walk" BY DEF updateTree_add, unchangedByMirror, deviceVars
<1>2. Children(Dev) = device BY DEF Children, Root, Dev
<1>3. Listening /\ DeviceSignal BY <1>1 DEF MirrorInv
<1>4. attached /\ Dev \in mirror /\ Covered(signal.i) BY <1>1, <1>3 DEF DeviceSignal
<1>5. IsSeq(device) BY DEF LiveInv, DataInv
<1>6. DOMAIN device = 1..Len(device) /\ Len(device) \in Nat BY <1>5, SeqFacts
<1>7. CASE signal.i \notin DOMAIN device
  <2>1. signal' = [signal EXCEPT !.step = "prune"] /\ UNCHANGED <<mirror, listening>>
    BY <1>2, <1>7 DEF updateTree_add, mirrorVars
  <2>2. signal'.step = "prune" BY <2>1, SignalMoves DEF Steps
  <2>3. AllCovered
    <3>1. \A i \in DOMAIN device : i < signal.i BY <1>6, <1>7, SignalMoves
    <3> QED BY <1>4, <3>1 DEF Covered, AllCovered
  <2> QED BY <1>1, <1>3, <1>4, <2>1, <2>2, <2>3 DEF Listening, DeviceSignal, AllCovered
<1>8. CASE signal.i \in DOMAIN device
  <2> DEFINE e == device[signal.i]
  <2>1. signal' = [signal EXCEPT !.i = @ + 1] BY <1>2, <1>8 DEF updateTree_add
  <2>2. signal'.step = "walk" /\ signal'.i = signal.i + 1 /\ signal.i \in Nat BY <1>1, <2>1, SignalMoves
  <2>3. e.id # Dev BY <1>8 DEF MadeInv, Dev
  <2>4. \/ UNCHANGED <<mirror, listening>> /\ (e.id \in mirror \/ PathTaken(Dev, e))
        \/ mirror' = mirror \cup {e.id} /\ listening' = listening \cup (IF IsContainer(e) THEN {e.id} ELSE {})
    BY <1>2, <1>8, <2>3 DEF updateTree_add, Subtree, Listeners, mirrorVars
  <2>5. mirror \subseteq mirror' /\ Listening' BY <1>3, <2>3, <2>4 DEF Listening
  <2>6. \E j \in DOMAIN device : device[j].id \in mirror' /\ device[j].name = e.name
    <3>1. CASE PathTaken(Dev, e) BY <1>2, <2>5, <3>1 DEF PathTaken, Range
    <3> QED BY <1>8, <2>4, <3>1
  <2>7. Covered(signal.i)'
    <3> SUFFICES ASSUME NEW i \in DOMAIN device, i < signal.i + 1
                 PROVE  \E j \in DOMAIN device : device[j].id \in mirror' /\ device[j].name = device[i].name
      BY <1>1, <2>2 DEF Covered
    <3>1. CASE i = signal.i BY <2>6, <3>1
    <3>2. CASE i < signal.i BY <1>4, <2>5, <3>2 DEF Covered
    <3> QED BY <1>6, <2>2, <3>1, <3>2
  <2> QED BY <1>1, <1>4, <2>2, <2>5, <2>7 DEF DeviceSignal
<1> QED BY <1>7, <1>8

\* The walk over the devices: a new device comes with the first of each name.
LEMMA WalkRoot ==
  ASSUME LiveInv, MadeInv, MirrorInv, updateTree_add, signal.on = Root, server.pc \notin {"start", "done"}
  PROVE  Listening' /\ RootSignal'
<1>1. UNCHANGED <<device, attached>> /\ signal.step = "walk" BY DEF updateTree_add, unchangedByMirror, deviceVars
<1>2. Listening /\ RootSignal BY <1>1 DEF MirrorInv, Root, Dev
<1>3. signal'.step \in {"walk", "prune"}
  <2>1. signal' = [signal EXCEPT !.i = @ + 1] \/ signal' = [signal EXCEPT !.step = "prune"] BY DEF updateTree_add
  <2> QED BY <1>1, <2>1, SignalMoves DEF Steps
<1>4. CASE ~attached
  <2>1. Children(Root) = <<>> BY <1>4 DEF Children
  <2>2. UNCHANGED <<mirror, listening>>
    <3>1. signal.i \notin DOMAIN Children(signal.on) BY <2>1, Tuple0
    <3> QED BY <3>1 DEF updateTree_add, mirrorVars
  <2> QED BY <1>1, <1>2, <1>3, <1>4, <2>2 DEF Listening, RootSignal, InTree
<1>5. CASE attached
  <2> DEFINE d == [id |-> Dev, name |-> "device", m |-> "device"]
  <2>1. Children(Root) = <<d>> BY <1>5 DEF Children
  <2>2. DOMAIN Children(Root) = 1..1 /\ Children(Root)[1] = d
    <3> HIDE DEF d
    <3> QED BY <2>1, Tuple1
  <2>3. CASE Shown
    <3>1. \A i \in DOMAIN Children(Root) : Children(Root)[i].id = Dev BY <2>2
    <3>2. UNCHANGED <<mirror, listening>> BY <1>5, <2>3, <3>1 DEF updateTree_add, mirrorVars, Shown
    <3> QED BY <1>1, <1>2, <1>5, <2>3, <3>2 DEF Listening, RootSignal, Shown, InTree, AllCovered
  <2>4. CASE mirror = {Root} /\ signal.i = 1
    <3>1. ~PathTaken(Root, d)
      <4>1. \A x \in Range(Children(Root)) : x = d BY <2>2 DEF Range
      <4> QED BY <4>1 DEF PathTaken
    <3>2. d.id = Dev /\ IsContainer(d) /\ Dev \notin mirror BY <2>4 DEF IsContainer, Root, Dev
    <3>3. mirror' = mirror \cup Subtree(d) /\ listening' = listening \cup Listeners(d)
      <4>1. signal.i \in DOMAIN Children(signal.on) /\ Children(signal.on)[signal.i] = d BY <2>2, <2>4
      <4>2. d.id \notin mirror /\ ~PathTaken(signal.on, d) BY <3>1, <3>2
      <4> HIDE DEF d
      <4> QED BY <4>1, <4>2 DEF updateTree_add
    <3>4. mirror' = {Root, Dev} \cup FirstOfName(device) BY <2>4, <3>2, <3>3 DEF Subtree
    <3>5. Listening' BY <1>2, <3>2, <3>3, <3>4 DEF Listening, Listeners
    <3>6. IsSeq(device) BY DEF LiveInv, DataInv
    <3>7. InTree' BY <1>1, <3>4, <3>6, FirstCovers DEF InTree
    <3>8. AllCovered' BY <1>1, <3>4, <3>6, FirstCovers DEF AllCovered
    <3> QED BY <1>1, <1>5, <3>4, <3>5, <3>7, <3>8 DEF RootSignal, Shown
  <2> QED BY <1>2, <1>5, <2>3, <2>4 DEF RootSignal
<1> QED BY <1>4, <1>5

\* What a step of the mirror leaves alone.
LEMMA MirrorAdd == ASSUME LiveInv, MadeInv, MirrorInv, updateTree_add PROVE MirrorInv'
<1>1. UNCHANGED <<attached, server>> /\ signal.step = "walk"
  BY DEF updateTree_add, unchangedByMirror, deviceVars, serverVars
<1>2. /\ signal'.step \in {"walk", "prune"} /\ signal'.on = signal.on
      /\ signal' \in [step : Steps, on : {Root, Dev}, i : Nat \ {0}]
  <2>1. signal' = [signal EXCEPT !.i = @ + 1] \/ signal' = [signal EXCEPT !.step = "prune"] BY DEF updateTree_add
  <2> QED BY <1>1, <2>1, SignalMoves DEF Steps
<1>3. server.pc # "start" BY <1>1 DEF MirrorInv
<1>4. server.pc # "done" => Listening' /\ (IF signal'.on = Dev THEN DeviceSignal' ELSE RootSignal')
  BY <1>2, <1>3, WalkDevice, WalkRoot, SignalMoves
<1> QED BY <1>1, <1>2, <1>3, <1>4 DEF MirrorInv, Steps

LEMMA MirrorRemove == ASSUME LiveInv, MadeInv, MirrorInv, updateTree_remove PROVE MirrorInv'
<1>1. UNCHANGED <<device, attached, server>> /\ signal.step = "prune"
  BY DEF updateTree_remove, unchangedByMirror, deviceVars, serverVars
<1>2. /\ signal'.step = "unlock" /\ signal'.on = signal.on
      /\ signal' \in [step : Steps, on : {Root, Dev}, i : Nat \ {0}]
  BY SignalMoves DEF updateTree_remove, Steps
<1>3. server.pc # "start" BY <1>1 DEF MirrorInv
<1>4. listening' = listening \cap mirror' BY DEF updateTree_remove
<1>5. \A x \in Ids(device) : x # Root /\ x # Dev BY DEF Ids, MadeInv, Root, Dev
<1>6. ASSUME server.pc # "done", signal.on = Dev PROVE Listening' /\ DeviceSignal'
  <2>1. Listening /\ DeviceSignal BY <1>1, <1>3, <1>6 DEF MirrorInv
  <2>2. attached /\ Dev \in mirror /\ AllCovered BY <1>1, <2>1 DEF DeviceSignal
  <2>3. Children(signal.on) = device BY <1>6 DEF Children, Root, Dev
  <2>4. mirror' = mirror \ ((mirror \ {Root, Dev}) \ Ids(device))
    BY <1>6, <2>3 DEF updateTree_remove, Root, Dev
  <2>5. Listening' BY <1>4, <2>1, <2>4 DEF Listening
  <2>6. InTree' BY <1>1, <2>4 DEF InTree
  <2>7. AllCovered' BY <1>1, <2>2, <2>4 DEF AllCovered, Ids
  <2> QED BY <1>1, <1>2, <2>2, <2>4, <2>5, <2>6, <2>7 DEF DeviceSignal
<1>7. ASSUME server.pc # "done", signal.on = Root PROVE Listening' /\ RootSignal'
  <2>1. Listening /\ RootSignal BY <1>1, <1>3, <1>7 DEF MirrorInv, Root, Dev
  <2>2. CASE attached
    <3> DEFINE d == [id |-> Dev, name |-> "device", m |-> "device"]
    <3>1. DOMAIN Children(Root) = 1..1 /\ Children(Root)[1] = d
      <4>1. Children(Root) = <<d>> BY <2>2 DEF Children
      <4> HIDE DEF d
      <4> QED BY <4>1, Tuple1
    <3>2. Ids(Children(signal.on)) = {Dev} BY <1>7, <3>1 DEF Ids
    <3>3. mirror' = mirror BY <1>7, <3>2 DEF updateTree_remove
    <3>4. Shown BY <1>1, <2>1, <2>2 DEF RootSignal
    <3> QED BY <1>1, <1>4, <2>1, <2>2, <3>3, <3>4 DEF Listening, RootSignal, Shown, InTree, AllCovered
  <2>3. CASE ~attached
    <3>1. Ids(Children(signal.on)) = {} BY <1>7, <2>3, Tuple0 DEF Children, Ids
    <3>2. mirror' = mirror \ ({Dev} \cup Ids(device)) BY <1>7, <3>1 DEF updateTree_remove
    <3>3. mirror \ {Root, Dev} \subseteq Ids(device) /\ Root \in mirror BY <2>1, <2>3 DEF RootSignal, InTree, Listening
    <3>4. mirror' = {Root} BY <1>5, <3>2, <3>3 DEF Root, Dev
    <3> QED BY <1>1, <1>4, <2>1, <2>3, <3>4 DEF Listening, RootSignal, InTree, Root, Dev
  <2> QED BY <2>2, <2>3
<1>8. server.pc # "done" => Listening' /\ (IF signal'.on = Dev THEN DeviceSignal' ELSE RootSignal')
  BY <1>2, <1>6, <1>7, SignalMoves
<1> QED BY <1>1, <1>2, <1>3, <1>8 DEF MirrorInv, Steps

LEMMA MirrorStep == ASSUME LiveInv, LiveInv', MadeInv, MirrorInv, [TreeNext]_treeVars PROVE MirrorInv'
<1>1. CASE UNCHANGED treeVars
  <2>1. UNCHANGED <<device, attached, signal, mirrorVars, server>> BY <1>1 DEF treeVars, mirrorVars
  <2> QED BY <2>1, MirrorSame
<1> QED BY <1>1, MirrorDiscovering, MirrorLock, MirrorAdd, MirrorRemove, MirrorUnlock, MirrorServing
        DEF TreeNext, Mirroring

LEMMA ShownIsTree == ASSUME MadeInv, MirrorInv PROVE MirrorIsTree
<1> SUFFICES ASSUME Handled, ~Special
             PROVE  /\ (Dev \in mirror) = attached
                    /\ attached => /\ mirror \ {Root, Dev} \subseteq Ids(device)
                                   /\ Exported(Dev) = {e.name : e \in Range(device)}
                                   /\ \A m \in {e.m : e \in Range(device)} \ {"leaf"} :
                                         IsInjective(Controls(family, m))
  BY Zenon DEF MirrorIsTree
<1>1. Shown /\ attached \in BOOLEAN BY DEF Handled, MirrorInv
<1>2. (Dev \in mirror) <=> attached BY <1>1 DEF Shown, Root, Dev
<1>3. (Dev \in mirror) = attached BY <1>1, <1>2
<1>4. ASSUME attached PROVE mirror \ {Root, Dev} \subseteq Ids(device) BY <1>1, <1>4 DEF Shown, InTree
<1>5. ASSUME attached PROVE Exported(Dev) = {e.name : e \in Range(device)}
  <2>1. Children(Dev) = device BY DEF Children, Root, Dev
  <2>2. \A i \in DOMAIN device : \E j \in DOMAIN device : device[j].id \in mirror /\ device[j].name = device[i].name
    BY <1>1, <1>5 DEF Shown, AllCovered
  <2>3. Exported(Dev) = {e.name : e \in {x \in Range(device) : x.id \in mirror}} BY <2>1 DEF Exported
  <2>4. ASSUME NEW e \in Range(device) PROVE \E x \in Range(device) : x.id \in mirror /\ x.name = e.name
    BY <2>2, <2>4 DEF Range
  <2> QED BY <2>3, <2>4
<1>6. ASSUME NEW m \in {e.m : e \in Range(device)} \ {"leaf"} PROVE IsInjective(Controls(family, m))
  <2>1. m \in MemberNames /\ family \in Families BY <1>6 DEF MadeInv, Range
  <2> QED BY <2>1, ControlNamesDiffer DEF MemberNames
<1> QED BY <1>3, <1>4, <1>5, <1>6

\* The objects of the D-Bus server are the elements of the tree, once the signal of a change is
\* handled: after any sequence of buildMixer, destroyMixer, new and deleted devices, in every
\* family but the M-Audio special devices, updateTree leaves an object for each name and none
\* for an element that is gone; and in no container two controls have one name, so that
\* createHandler never fails there.
THEOREM AlwaysMirrorIsTree == TreeSpec => []MirrorIsTree
<1> DEFINE Inv == ~Special => LiveInv /\ MadeInv /\ MirrorInv
<1>1. TreeInit => Inv BY LiveInit, MirrorInit
<1>2. Inv /\ [TreeNext]_treeVars => Inv' BY LiveStep, MadeStep, MirrorStep, SameFamily
<1>3. Inv => MirrorIsTree BY ShownIsTree DEF MirrorIsTree
<1> QED BY <1>1, <1>2, <1>3, PTL DEF TreeSpec

-----------------------------------------------------------------------------
\* The router of the DICE devices.  The first of some places is one of them.
LEMMA FirstIsThere == ASSUME NEW T, T \subseteq Nat, T # {} PROVE First(T) \in T /\ \A j \in T : First(T) <= j
BY Least DEF First, Min

LEMMA PlacesFacts ==
  ASSUME NEW r, IsSeq(r), NEW d
  PROVE  PlacesOf(r, d) \subseteq Nat /\ PlacesOf(r, d) \subseteq DOMAIN r /\ IsFiniteSet(PlacesOf(r, d))
<1>1. Len(r) \in Nat /\ DOMAIN r = 1..Len(r) BY SeqFacts
<1>2. PlacesOf(r, d) \in SUBSET (1..Len(r)) BY <1>1 DEF PlacesOf
<1>3. IsFiniteSet(1..Len(r)) BY <1>1, FS_Interval
<1>4. IsFiniteSet(PlacesOf(r, d)) BY <1>2, <1>3, FS_Subset
<1> QED BY <1>1, <1>2, <1>4

\* A destination other than the mute port has one route: two places with it are the same.
Singular(r) == \A i, j \in DOMAIN r : r[i][1] = r[j][1] /\ r[i][1] # DstId("Muted", 0) => i = j
LEMMA OneIsSingular == ASSUME NEW r, IsSeq(r) PROVE OneRoute(r) <=> Singular(r)
<1> HIDE DEF DstId
<1>1. ASSUME OneRoute(r), NEW i \in DOMAIN r, NEW j \in DOMAIN r, r[i][1] = r[j][1], r[i][1] # DstId("Muted", 0)
      PROVE  i = j
  <2>1. Cardinality(PlacesOf(r, r[i][1])) = 1 BY <1>1 DEF OneRoute
  <2>2. PICK x : PlacesOf(r, r[i][1]) = {x} BY <2>1, PlacesFacts, FS_Singleton
  <2>3. i \in PlacesOf(r, r[i][1]) /\ j \in PlacesOf(r, r[i][1]) BY <1>1 DEF PlacesOf
  <2> QED BY <2>2, <2>3
<1>2. ASSUME Singular(r), NEW i \in DOMAIN r, r[i][1] # DstId("Muted", 0)
      PROVE  Cardinality(PlacesOf(r, r[i][1])) = 1
  <2>1. PlacesOf(r, r[i][1]) = {i} BY <1>2 DEF PlacesOf, Singular
  <2> QED BY <2>1, FS_Singleton
<1> QED BY <1>1, <1>2 DEF OneRoute, Singular

LEMMA RouteSet ==
  ASSUME NEW r, IsSeq(r), Singular(r), NEW d, NEW s, PlacesOf(r, d) # {}
  PROVE  IsSeq([r EXCEPT ![First(PlacesOf(r, d))] = <<d, s>>]) /\ Singular([r EXCEPT ![First(PlacesOf(r, d))] = <<d, s>>])
<1> DEFINE k == First(PlacesOf(r, d))
           q == [r EXCEPT ![k] = <<d, s>>]
<1>1. k \in DOMAIN r /\ r[k][1] = d BY PlacesFacts, FirstIsThere DEF PlacesOf
<1>2. PICK S : r \in Seq(S) BY DEF IsSeq
<1> HIDE DEF k
<1>3. q \in Seq(S \cup {<<d, s>>}) BY <1>1, <1>2
<1>4. DOMAIN q = DOMAIN r /\ \A i \in DOMAIN r : q[i][1] = r[i][1] BY <1>1
<1>5. Singular(q) BY <1>4 DEF Singular
<1> QED BY <1>3, <1>5 DEF k, IsSeq

LEMMA RouteAdd ==
  ASSUME NEW r, IsSeq(r), Singular(r), NEW d, NEW s, PlacesOf(r, d) = {}
  PROVE  IsSeq(Append(r, <<d, s>>)) /\ Singular(Append(r, <<d, s>>))
<1> DEFINE q == Append(r, <<d, s>>)
<1>1. PICK S : r \in Seq(S) BY DEF IsSeq
<1>2. r \in Seq(S \cup {<<d, s>>}) BY <1>1
<1>3. q \in Seq(S \cup {<<d, s>>}) /\ DOMAIN q = 1..(Len(r) + 1) /\ DOMAIN r = 1..Len(r) /\ Len(r) \in Nat
      /\ q[Len(r) + 1] = <<d, s>> /\ \A i \in 1..Len(r) : q[i] = r[i]
  BY <1>2
<1>4. \A i \in DOMAIN r : r[i][1] # d BY DEF PlacesOf
<1> HIDE DEF q
<1>5. q[Len(r) + 1][1] = d BY <1>3
<1>6. ASSUME NEW i \in DOMAIN q, NEW j \in DOMAIN q, q[i][1] = q[j][1], q[i][1] # DstId("Muted", 0) PROVE i = j
  <2>1. CASE i \in DOMAIN r /\ j \in DOMAIN r BY <1>3, <1>6, <2>1 DEF Singular
  <2>2. CASE i \in DOMAIN r /\ j \notin DOMAIN r
    <3>1. j = Len(r) + 1 BY <1>3, <2>2
    <3> QED BY <1>3, <1>4, <1>5, <1>6, <2>2, <3>1
  <2>3. CASE i \notin DOMAIN r /\ j \in DOMAIN r
    <3>1. i = Len(r) + 1 BY <1>3, <2>3
    <3> QED BY <1>3, <1>4, <1>5, <1>6, <2>3, <3>1
  <2>4. CASE i \notin DOMAIN r /\ j \notin DOMAIN r BY <1>3, <2>4
  <2> QED BY <2>1, <2>2, <2>3, <2>4
<1>7. Singular(q) BY <1>6 DEF Singular
<1> QED BY <1>3, <1>7 DEF IsSeq, q

\* A routing the driver may send: a destination has one route.
Sound(r) == IsSeq(r) /\ Singular(r)
LEMMA SoundIs == ASSUME NEW r PROVE Sound(r) <=> r \in Seq(Range(r)) /\ OneRoute(r)
<1>1. ASSUME IsSeq(r) PROVE r \in Seq(Range(r))
  <2>1. PICK S : r \in Seq(S) BY <1>1 DEF IsSeq
  <2>2. r \in [1..Len(r) -> Range(r)] /\ Len(r) \in Nat BY <2>1 DEF Range
  <2> QED BY <2>2, SeqDef
<1> QED BY <1>1, OneIsSingular DEF Sound, IsSeq

LEMMA SoundEmpty == Sound(<<>>)
BY Tuple0 DEF Sound, Singular

LEMMA SoundEdits ==
  ASSUME NEW r, Sound(r), NEW d, NEW s PROVE Sound(setupRoute(r, s, d)) /\ Sound(muteRoute(r, d))
<1>1. Sound(setupRoute(r, s, d))
  BY RouteSet, RouteAdd DEF Sound, setupRoute, createRoute
<1>2. Sound(muteRoute(r, d))
  BY RouteSet DEF Sound, muteRoute
<1> QED BY <1>1, <1>2

\* What is read back after a step on the bus failed, or after none did.
LEMMA ReadBack ==
  ASSUME NEW new, NEW f \in Faults, NEW m \in Modes
  PROVE  /\ Refreshed(new, f)[m] \in {new[m], <<>>, cache[m]}
         /\ m \notin UnsureAfter(f) => Refreshed(new, f)[m] = new[m]
<1>1. /\ (CHOOSE i \in 1..3 : ReadOrder[i] = "low") = 1
      /\ (CHOOSE i \in 1..3 : ReadOrder[i] = "mid") = 2
      /\ (CHOOSE i \in 1..3 : ReadOrder[i] = "high") = 3
  BY DEF ReadOrder
<1>2. ReadOrder[1] = "low" /\ ReadOrder[2] = "mid" /\ ReadOrder[3] = "high" BY DEF ReadOrder
<1> QED BY <1>1, <1>2 DEF Refreshed, UnsureAfter, Modes

LEMMA Refresh ==
  ASSUME NEW new, NEW f \in Faults, NEW S, new \in [Modes -> S], cache \in [Modes -> S \cup {<<>>}]
  PROVE  /\ Refreshed(new, f) \in [Modes -> S \cup {<<>>}]
         /\ \A m \in Modes \ UnsureAfter(f) : Refreshed(new, f)[m] = new[m]
<1>1. Refreshed(new, f) = [m \in Modes |-> Refreshed(new, f)[m]] BY DEF Refreshed
<1>2. \A m \in Modes : Refreshed(new, f)[m] \in S \cup {<<>>} BY ReadBack
<1> QED BY <1>1, <1>2, ReadBack, Zenon

\* One update of the routing of the mode the device runs in.
LEMMA UpdateKeeps ==
  ASSUME RouteInv, NEW routes, Sound(routes), NEW f \in Faults, NEW edited,
         edited \in {cache, [cache EXCEPT ![mode] = routes]},
         updateRouterConfig(routes, f, edited), UNCHANGED <<model, mode, flash>>
  PROVE  RouteInv'
<1>1. sent \subseteq sent' /\ routes \in sent' /\ sent' = sent \cup {routes} BY DEF updateRouterConfig
<1>2. \A r \in sent' : r \in Seq(Range(r)) /\ OneRoute(r) BY <1>1, SoundIs DEF RouteInv
<1>3. cache \in [Modes -> sent' \cup {<<>>}] /\ current \in [Modes -> sent'] /\ flash \in [Modes -> sent']
      /\ mode \in Modes
  BY <1>1 DEF RouteInv
<1>4. edited \in [Modes -> sent' \cup {<<>>}] BY <1>1, <1>3
<1>5. current' \in [Modes -> sent']
  <2>1. CASE f \in WriteFaults \/ ~Executes(f) BY <1>3, <2>1 DEF updateRouterConfig
  <2>2. CASE ~(f \in WriteFaults \/ ~Executes(f))
    <3>1. staged' = [count |-> Len(routes), entries |-> routes]
      BY <2>2 DEF updateRouterConfig, Staging, WriteFaults
    <3>2. SubSeq(staged'.entries, 1, staged'.count) = routes
      <4>1. PICK S : routes \in Seq(S) BY DEF Sound, IsSeq
      <4> QED BY <3>1, <4>1
    <3> QED BY <1>1, <1>3, <2>2, <3>2 DEF updateRouterConfig
  <2> QED BY <2>1, <2>2
<1>6. cache' \in [Modes -> sent' \cup {<<>>}] /\ \A m \in Modes \ unsure' : cache'[m] = current'[m]
  <2>1. CASE f \in WriteFaults
    <3>1. cache' = edited /\ unsure' = unsure \cup {mode} /\ current' = current BY <2>1 DEF updateRouterConfig
    <3>2. \A m \in Modes \ unsure' : edited[m] = cache[m] BY <3>1, <1>3
    <3> QED BY <1>4, <3>1, <3>2 DEF RouteInv
  <2>2. CASE f \notin WriteFaults
    <3>1. cache' = Refreshed(current', f) /\ unsure' = UnsureAfter(f) BY <2>2 DEF updateRouterConfig
    <3>2. /\ Refreshed(current', f) \in [Modes -> sent' \cup {<<>>}]
          /\ \A m \in Modes \ UnsureAfter(f) : Refreshed(current', f)[m] = current'[m]
      BY <1>3, <1>5, Refresh, Zenon
    <3> QED BY <3>1, <3>2
  <2> QED BY <2>1, <2>2
<1> QED BY <1>2, <1>3, <1>5, <1>6 DEF RouteInv

LEMMA CacheIsSound == ASSUME RouteInv PROVE \A m \in Modes : Sound(cache[m])
BY SoundIs, SoundEmpty DEF RouteInv

LEMMA RouteInit == EapInit => RouteInv
<1> SUFFICES ASSUME EapInit PROVE RouteInv OBVIOUS
<1>1. \A m \in Modes : Sound(DefaultRoutes(model, m))
  BY DefaultsAssumption, OneIsSingular DEF EapInit, Sound, IsSeq
<1>2. \A m \in Modes : Sound(current[m]) BY <1>1, SoundEmpty DEF EapInit
<1>3. current \in [Modes -> sent] BY DEF EapInit
<1> QED BY <1>2, <1>3, SoundIs DEF EapInit, RouteInv

LEMMA RouteStep == ASSUME RouteInv, RouterNext \/ MonitorNext PROVE RouteInv'
<1>1. ASSUME NEW s, NEW d, NEW on, NEW f \in Faults, setConnectionState(s, d, on, f) PROVE RouteInv'
  <2> DEFINE r == IF on THEN setupRoute(cache[mode], getSourceIndex(s), getDestinationIndex(d))
                  ELSE muteRoute(cache[mode], getDestinationIndex(d))
  <2>1. Sound(cache[mode]) BY CacheIsSound DEF RouteInv
  <2>2. Sound(r) BY <2>1, SoundEdits
  <2>3. updateRouterConfig(r, f, [cache EXCEPT ![mode] = r]) /\ UNCHANGED <<model, mode, flash>>
    BY <1>1 DEF setConnectionState, Edit, EapOperation
  <2> HIDE DEF r
  <2> QED BY <2>2, <2>3, UpdateKeeps
<1>2. ASSUME NEW f \in Faults, clearAllConnections(f) PROVE RouteInv'
  BY <1>2, SoundEmpty, UpdateKeeps DEF clearAllConnections, EapOperation
<1>3. ASSUME NEW f \in Faults, setupDefaultRouterConfig(f) PROVE RouteInv'
  <2> DEFINE r == DefaultRoutes(model, mode)
  <2>1. Sound(r) BY DefaultsAssumption, OneIsSingular DEF RouteInv, Sound, IsSeq
  <2>2. updateRouterConfig(r, f, [cache EXCEPT ![mode] = r]) /\ UNCHANGED <<model, mode, flash>>
    BY <1>3 DEF setupDefaultRouterConfig, Edit, EapOperation
  <2> HIDE DEF r
  <2> QED BY <2>1, <2>2, UpdateKeeps
<1>4. ASSUME NEW f \in Faults, loadFlashConfig(f) PROVE RouteInv'
  <2>1. UNCHANGED <<model, mode, flash, sent>> /\ cache' = Refreshed(current', f) /\ unsure' = UnsureAfter(f)
    BY <1>4 DEF loadFlashConfig, EapOperation
  <2>2. current' \in [Modes -> sent] BY <1>4 DEF loadFlashConfig, RouteInv
  <2>3. cache' \in [Modes -> sent \cup {<<>>}] /\ \A m \in Modes \ unsure' : cache'[m] = current'[m]
    BY <2>1, <2>2, Refresh DEF RouteInv
  <2> QED BY <2>1, <2>2, <2>3 DEF RouteInv
<1>5. ASSUME NEW f \in Faults, storeFlashConfig(f) PROVE RouteInv'
  BY <1>5 DEF storeFlashConfig, EapOperation, RouteInv
<1>6. ASSUME NEW m \in Modes, NEW own, onSamplerateChange(m, own) PROVE RouteInv'
  BY <1>6 DEF onSamplerateChange, EapOperation, RouteInv, routeVars
<1>7. ASSUME NEW c, NEW v, NEW x, NEW w, EapSetControl(c, v, x, w) PROVE RouteInv'
  BY <1>7 DEF EapSetControl, EapOperation, RouteInv, routeVars
<1> QED BY <1>1, <1>2, <1>3, <1>4, <1>5, <1>6, <1>7 DEF RouterNext, MonitorNext

\* The driver's copy of a routing is what the device uses unless a step on the bus failed
\* since it was last read (updateRouterConfig, updateConfigurationCache), the device never
\* uses a routing that was half written, and every destination has one route: for any
\* names, any number of updates and faults at any step of them.
THEOREM AlwaysRoutingIsCache == EapSpec => []RoutingIsCache
<1>1. RouteInv /\ [RouterNext \/ MonitorNext]_eapVars => RouteInv'
  <2>1. CASE RouterNext \/ MonitorNext BY <2>1, RouteStep
  <2>2. CASE UNCHANGED eapVars BY <2>2 DEF eapVars, RouteInv
  <2> QED BY <2>1, <2>2
<1>2. RouteInv => RoutingIsCache
  <2>1. RouteInv => OneRouteEach BY CacheIsSound, SoundIs DEF OneRouteEach
  <2> QED BY <2>1 DEF RouteInv, RoutingIsCache
<1> QED BY <1>1, <1>2, RouteInit, PTL DEF EapSpec

-----------------------------------------------------------------------------
\* The controls of the DICE devices.  What a write gives its own control to show, and what
\* it leaves of the bits of the others.
LEMMA BitsAreBits == ASSUME NEW n PROVE Bits(n) \subseteq 0..7
BY DEF Bits

LEMMA LowestBit ==
  ASSUME NEW c, NEW b \in 0..31, NEW k \in Nat, c.bits = b..(b + k)
  PROVE  (CHOOSE x \in c.bits : \A d \in c.bits : x <= d) = b
<1>1. b \in c.bits /\ \A d \in c.bits : b <= d OBVIOUS
<1>2. ASSUME NEW x \in c.bits, \A d \in c.bits : x <= d PROVE x = b
  <2>1. x <= b /\ b <= x /\ x \in Int BY <1>1, <1>2
  <2> QED BY <2>1
<1> QED BY <1>1, <1>2

LEMMA ShiftedBits ==
  ASSUME NEW b \in 0..24, NEW n PROVE {x + b : x \in Bits(n)} \subseteq b..(b + 7)
<1>1. ASSUME NEW x \in Bits(n) PROVE x + b \in b..(b + 7)
  <2>1. x \in 0..7 BY BitsAreBits
  <2> QED BY <2>1
<1> QED BY <1>1

LEMMA ShowsWritten ==
  ASSUME NEW c, ControlShape(c), NEW old \in SUBSET (0..31), NEW v,
         c.kind = "switch" => v \in BOOLEAN, Value(c, old) # Asked(c, v)
  PROVE  Value(c, New(c, old, v)) = Asked(c, v) /\ New(c, old, v) \in SUBSET (0..31)
<1>1. CASE c.kind = "switch"
  <2>1. PICK b \in 0..31 : c.bits = {b} BY <1>1 DEF ControlShape
  <2>2. New(c, old, v) = SymDiff(old, {b}) BY <1>1, <2>1 DEF New
  <2>3. \A R : (b \in R => Value(c, R) = TRUE) /\ (b \notin R => Value(c, R) = FALSE)
    BY <1>1, <2>1 DEF Value
  <2>4. SymDiff(old, {b}) \in SUBSET (0..31) BY DEF SymDiff
  <2>5. Asked(c, v) = v BY <1>1 DEF Asked
  <2>6. CASE b \in old
    <3>1. b \notin SymDiff(old, {b}) BY <2>6 DEF SymDiff
    <3>2. Value(c, old) = TRUE /\ Value(c, SymDiff(old, {b})) = FALSE BY <2>3, <2>6, <3>1
    <3>3. v = FALSE BY <1>1, <2>5, <3>2
    <3> QED BY <2>2, <2>4, <2>5, <3>2, <3>3
  <2>7. CASE b \notin old
    <3>1. b \in SymDiff(old, {b}) BY <2>7 DEF SymDiff
    <3>2. Value(c, old) = FALSE /\ Value(c, SymDiff(old, {b})) = TRUE BY <2>3, <2>7, <3>1
    <3>3. v = TRUE BY <1>1, <2>5, <3>2
    <3> QED BY <2>2, <2>4, <2>5, <3>2, <3>3
  <2> QED BY <2>6, <2>7
<1>2. CASE c.kind = "volume"
  <2>1. PICK b \in 0..24 : c.bits = b..(b + 7) BY <1>2 DEF ControlShape
  <2>2. (CHOOSE x \in c.bits : \A d \in c.bits : x <= d) = b BY <2>1, LowestBit
  <2>3. Shifted(c, v) = {x + b : x \in Bits(v)} \cap 0..31 BY <2>2 DEF Shifted
  <2>4. New(c, old, v) = Shifted(c, v) \cup (old \ c.bits) BY <1>2 DEF New
  <2>5. New(c, old, v) \cap c.bits = {x + b : x \in Bits(v)}
    <3>1. {x + b : x \in Bits(v)} \subseteq c.bits BY <2>1, ShiftedBits
    <3>2. c.bits \subseteq 0..31 BY <2>1
    <3> QED BY <2>3, <2>4, <3>1, <3>2
  <2>6. Value(c, New(c, old, v)) = {x - b : x \in New(c, old, v) \cap c.bits} BY <1>2, <2>2 DEF Value
  <2>7. {x - b : x \in {y + b : y \in Bits(v)}} = Bits(v)
    <3>1. \A y \in Bits(v) : (y + b) - b = y BY BitsAreBits
    <3> QED BY <3>1
  <2>8. Asked(c, v) = Bits(v) BY <1>2 DEF Asked
  <2> QED BY <2>3, <2>4, <2>5, <2>6, <2>7, <2>8
<1>3. CASE c.kind = "poti"
  <2>1. c.bits = 0..(0 + 31) BY <1>3 DEF ControlShape
  <2>2. (CHOOSE x \in c.bits : \A d \in c.bits : x <= d) = 0 BY <2>1, LowestBit
  <2>3. New(c, old, v) = Bits(v) /\ Asked(c, v) = Bits(v) BY <1>3 DEF New, Asked
  <2>4. Value(c, Bits(v)) = {x - 0 : x \in Bits(v) \cap c.bits} BY <1>3, <2>2 DEF Value
  <2>5. {x - 0 : x \in Bits(v) \cap c.bits} = Bits(v) BY <2>1, BitsAreBits
  <2> QED BY <2>3, <2>4, <2>5, BitsAreBits
<1> QED BY <1>1, <1>2, <1>3 DEF ControlShape

LEMMA LeavesOthers ==
  ASSUME NEW c, ControlShape(c), NEW e, ControlShape(e), c.bits \cap e.bits = {}, NEW old \in SUBSET (0..31), NEW v
  PROVE  Value(e, New(c, old, v)) = Value(e, old)
<1>1. New(c, old, v) \cap e.bits = old \cap e.bits
  <2>1. CASE c.kind = "switch" BY <2>1 DEF New, SymDiff
  <2>2. CASE c.kind = "volume"
    <3>1. PICK b \in 0..24 : c.bits = b..(b + 7) BY <2>2 DEF ControlShape
    <3>2. (CHOOSE x \in c.bits : \A d \in c.bits : x <= d) = b BY <3>1, LowestBit
    <3>3. Shifted(c, v) \subseteq c.bits BY <3>1, <3>2, ShiftedBits DEF Shifted
    <3> QED BY <2>2, <3>3 DEF New
  <2>3. CASE c.kind = "poti"
    <3>1. e.bits \subseteq 0..31 /\ e.bits # {}
      <4>1. CASE \E b \in 0..24 : e.bits = b..(b + 7)
        <5>1. PICK b \in 0..24 : e.bits = b..(b + 7) BY <4>1
        <5>2. b \in e.bits BY <5>1
        <5>3. e.bits \subseteq 0..31 BY <5>1
        <5> QED BY <5>2, <5>3
      <4>2. CASE \E b \in 0..31 : e.bits = {b} BY <4>2
      <4>3. CASE e.bits = 0..31 BY <4>3
      <4> QED BY <4>1, <4>2, <4>3 DEF ControlShape
    <3> QED BY <2>3, <3>1 DEF ControlShape
  <2> QED BY <2>1, <2>2, <2>3 DEF ControlShape
<1> QED BY <1>1 DEF Value

LEMMA RegisterInit == EapInit => RegisterInv
<1> SUFFICES ASSUME EapInit PROVE RegisterInv OBVIOUS
<1>1. app = [r \in Registers(model) |-> {}] BY DEF EapInit
<1>2. ASSUME NEW c \in Section(model) PROVE Value(c, app[c.reg]) = want[c.name]
  <2>1. c.reg \in Registers(model) /\ app[c.reg] = {} BY <1>1 DEF Registers
  <2>2. want[c.name] = IF c.kind = "switch" THEN FALSE ELSE {}
    <3>1. want[c.name] = IF \E e \in Section(model) : e.name = c.name /\ e.kind = "switch" THEN FALSE ELSE {}
      BY DEF EapInit
    <3>2. \A e \in Section(model) : e.name = c.name => e = c BY SectionsAssumption DEF EapInit
    <3> QED BY <3>1, <3>2
  <2> QED BY <2>1, <2>2 DEF Value
<1>3. want = [n \in {c.name : c \in Section(model)} |-> want[n]] BY DEF EapInit
<1> QED BY <1>1, <1>2, <1>3 DEF RegisterInv, ControlsApart

LEMMA SetControlKeeps ==
  ASSUME model \in EapDevices, RegisterInv, NEW c \in Section(model), NEW v, c.kind = "switch" => v \in BOOLEAN,
         NEW readable, NEW written, EapSetControl(c, v, readable, written)
  PROVE  RegisterInv'
<1>1. PICK old \in Fetched(c, readable) :
          IF Value(c, old) = Asked(c, v) THEN UNCHANGED <<app, messages, spoiled>>
          ELSE /\ app' = IF written THEN [app EXCEPT ![c.reg] = New(c, old, v)] ELSE app
               /\ messages' = messageSet(c)
               /\ spoiled' = IF readable THEN spoiled ELSE spoiled \cup {c.reg}
  BY DEF EapSetControl
<1>2. want' = IF readable /\ written THEN [want EXCEPT ![c.name] = Asked(c, v)] ELSE want
  BY DEF EapSetControl
<1>3. model' = model BY DEF EapSetControl, EapOperation
<1>4. c.reg \in Registers(model) /\ app \in [Registers(model) -> SUBSET (0..31)] /\ app[c.reg] \in SUBSET (0..31)
  BY DEF RegisterInv, Registers
<1>5. old \in SUBSET (0..31) /\ (readable => old = app[c.reg]) BY <1>4 DEF Fetched
<1>6. \A e \in Section(model) : ControlShape(e)
      /\ (e # c => e.name # c.name /\ (e.reg = c.reg => c.bits \cap e.bits = {}))
  BY SectionsAssumption
<1> DEFINE Names == {e.name : e \in Section(model)}
<1>7. c.name \in Names /\ want = [n \in Names |-> want[n]] BY DEF RegisterInv
<1>8. want' = [n \in Names |-> want'[n]] BY <1>2, <1>7
<1>9. app' \in [Registers(model) -> SUBSET (0..31)] BY <1>1, <1>4, <1>5, <1>6, ShowsWritten
<1>10. ASSUME NEW e \in Section(model), e.reg \notin spoiled' PROVE Value(e, app'[e.reg]) = want'[e.name]
  <2>1. e.reg \notin spoiled /\ Value(e, app[e.reg]) = want[e.name] /\ e.name \in Names
    BY <1>1, <1>10 DEF RegisterInv, ControlsApart
  <2>2. want'[e.name] = IF readable /\ written /\ e = c THEN Asked(c, v) ELSE want[e.name]
    BY <1>2, <1>6, <1>7, <2>1
  <2>3. CASE Value(c, old) = Asked(c, v)
    BY <1>1, <1>5, <2>1, <2>2, <2>3
  <2>4. CASE Value(c, old) # Asked(c, v) /\ e.reg # c.reg
    <3>1. e.reg \in Registers(model) BY DEF Registers
    <3> QED BY <1>1, <1>4, <2>1, <2>2, <2>4, <3>1
  <2>5. CASE Value(c, old) # Asked(c, v) /\ e.reg = c.reg
    <3>1. readable BY <1>1, <1>10, <2>5
    <3>2. CASE ~written BY <1>1, <2>1, <2>2, <2>5, <3>2
    <3>3. CASE written
      <4>1. app'[e.reg] = New(c, old, v) /\ old = app[e.reg] BY <1>1, <1>4, <1>5, <2>5, <3>1, <3>3
      <4>2. CASE e = c BY <1>5, <1>6, <2>2, <2>5, <3>1, <3>3, <4>1, <4>2, ShowsWritten
      <4>3. CASE e # c
        <5>1. Value(e, New(c, old, v)) = Value(e, old) BY <1>5, <1>6, <2>5, <4>3, LeavesOthers
        <5> QED BY <2>1, <2>2, <4>1, <4>3, <5>1
      <4> QED BY <4>2, <4>3
    <3> QED BY <3>2, <3>3
  <2> QED BY <2>3, <2>4, <2>5
<1> QED BY <1>3, <1>8, <1>9, <1>10 DEF RegisterInv, ControlsApart

LEMMA RegisterStep == ASSUME RouteInv, RegisterInv, RouterNext \/ MonitorNext PROVE RegisterInv'
<1>1. CASE UNCHANGED <<model, appVars>> BY <1>1 DEF appVars, RegisterInv, ControlsApart
<1>2. CASE \E c \in Section(model) : \E v, r, w : (c.kind = "switch" => v \in BOOLEAN) /\ EapSetControl(c, v, r, w)
  BY <1>2, SetControlKeeps DEF RouteInv
<1>3. \/ UNCHANGED <<model, appVars>>
      \/ \E c \in Section(model) : \E v, r, w : (c.kind = "switch" => v \in BOOLEAN) /\ EapSetControl(c, v, r, w)
  <2>1. CASE MonitorNext
    <3>1. \A c, v : v \in Values(c) /\ c.kind = "switch" => v \in BOOLEAN BY DEF Values
    <3> QED BY <2>1, <3>1, Zenon DEF MonitorNext
  <2>2. CASE RouterNext
    <3>1. \A s, d, on, f : setConnectionState(s, d, on, f) => UNCHANGED <<model, appVars>>
      BY DEF setConnectionState, EapOperation
    <3>2. \A f : clearAllConnections(f) \/ setupDefaultRouterConfig(f) \/ loadFlashConfig(f) \/ storeFlashConfig(f)
                 => UNCHANGED <<model, appVars>>
      BY DEF clearAllConnections, setupDefaultRouterConfig, loadFlashConfig, storeFlashConfig, EapOperation
    <3>3. \A m, own : onSamplerateChange(m, own) => UNCHANGED <<model, appVars>>
      BY DEF onSamplerateChange, EapOperation
    <3> QED BY <2>2, <3>1, <3>2, <3>3, Zenon DEF RouterNext
  <2> QED BY <2>1, <2>2
<1> QED BY <1>1, <1>2, <1>3

\* A switch or a volume of the monitor sections shows what it was last set to, whatever the
\* controls that share its register were set to since, unless the register was written from
\* a value that could not be read.
THEOREM AlwaysControlsApart == EapSpec => []ControlsApart
<1>1. EapInv /\ [RouterNext \/ MonitorNext]_eapVars => EapInv'
  <2>1. CASE RouterNext \/ MonitorNext BY <2>1, RouteStep, RegisterStep DEF EapInv
  <2>2. CASE UNCHANGED eapVars BY <2>2 DEF eapVars, RouteInv, RegisterInv, ControlsApart, EapInv
  <2> QED BY <2>1, <2>2
<1>2. EapInit => EapInv BY RouteInit, RegisterInit DEF EapInv
<1>3. EapInv => ControlsApart BY DEF EapInv, RegisterInv
<1> QED BY <1>1, <1>2, <1>3, PTL DEF EapSpec
=============================================================================
