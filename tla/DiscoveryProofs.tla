--------------------------- MODULE DiscoveryProofs ---------------------------
(***************************************************************************)
(* Proofs about the list of devices: the locks and notifications of        *)
(* discover, the life of the objects in the list and the tree, and that    *)
(* the settled list is the bus.                                            *)
(***************************************************************************)
EXTENDS DeviceDiscovery, WellFoundedInduction, FiniteSetTheorems, TLAPS

-----------------------------------------------------------------------------
\* Induction over the naturals, for sets: the order is well founded, so the numbers outside
\* of the set would have a least one.
Less == {p \in Nat \X Nat : p[1] < p[2]}

LEMMA Least ==
  ASSUME NEW T, T \subseteq Nat, T # {}
  PROVE  \E x \in T : \A y \in T : ~(y < x)
<1>1. IsWellFoundedOn(Less, Nat) BY NatLessThanWellFounded DEF OpToRel, Less
<1>2. \E x \in T : \A y \in T : ~(<<y, x>> \in Less) BY <1>1, WFMin
<1> QED BY <1>2 DEF Less

LEMMA Induction ==
  ASSUME NEW T, 0 \in T, \A n \in Nat : n \in T => n + 1 \in T
  PROVE  Nat \subseteq T
<1> DEFINE U == {n \in Nat : n \notin T}
<1> SUFFICES ASSUME U # {} PROVE FALSE OBVIOUS
<1>1. PICK x \in U : \A y \in U : ~(y < x)
  <2>1. U \subseteq Nat OBVIOUS
  <2> HIDE DEF U
  <2> QED BY <2>1, Least
<1>2. x \in Nat /\ x \notin T /\ x # 0 OBVIOUS
<1>3. x - 1 \in Nat /\ x - 1 < x BY <1>2
<1>4. x - 1 \in T BY <1>1, <1>3
<1>5. (x - 1) + 1 = x BY <1>2
<1> QED BY <1>2, <1>3, <1>4, <1>5

-----------------------------------------------------------------------------
\* What is left of a list after the dead are erased.  F is the loop of Without, up to m.
Erased(s, dead, G, i) ==
  IF i = 0 THEN <<>> ELSE IF s[i].id \in dead THEN G[i - 1] ELSE Append(G[i - 1], s[i])
Erases(s, dead, F, m) == F = [i \in 0..m |-> Erased(s, dead, F, i)]

LEMMA LoopExists ==
  ASSUME NEW s, NEW dead, NEW n \in Nat
  PROVE  \E F : Erases(s, dead, F, n)
<1> DEFINE T == {m \in Nat : \E F : Erases(s, dead, F, m)}
<1>1. 0 \in T
  <2> DEFINE Z == [i \in 0..0 |-> <<>>]
  <2>1. \A i \in 0..0 : Erased(s, dead, Z, i) = <<>> BY DEF Erased
  <2>2. Erases(s, dead, Z, 0) BY <2>1 DEF Erases
  <2> QED BY <2>2
<1>2. ASSUME NEW m \in Nat, m \in T PROVE m + 1 \in T
  <2>1. PICK F : Erases(s, dead, F, m) BY <1>2
  <2> DEFINE G == [i \in 0..(m + 1) |-> IF i <= m THEN F[i] ELSE Erased(s, dead, F, m + 1)]
  <2>2. ASSUME NEW i \in 0..(m + 1) PROVE G[i] = Erased(s, dead, G, i)
    <3>1. CASE i = 0
      <4>1. G[0] = F[0] /\ F[0] = Erased(s, dead, F, 0) BY <2>1 DEF Erases
      <4> QED BY <3>1, <4>1 DEF Erased
    <3>2. CASE i # 0
      <4>1. i - 1 \in 0..m /\ i - 1 \in 0..(m + 1) BY <3>2
      <4>2. G[i - 1] = F[i - 1] BY <4>1
      <4>3. G[i] = Erased(s, dead, F, i)
        <5>1. CASE i <= m
          <6>1. i \in 0..m BY <5>1
          <6>2. F[i] = Erased(s, dead, F, i) BY <2>1, <6>1 DEF Erases
          <6> QED BY <5>1, <6>2
        <5>2. CASE ~(i <= m)
          <6>1. i = m + 1 BY <5>2
          <6> QED BY <5>2, <6>1
        <5> QED BY <5>1, <5>2
      <4> QED BY <3>2, <4>2, <4>3 DEF Erased
    <3> QED BY <3>1, <3>2
  <2>3. G = [i \in 0..(m + 1) |-> Erased(s, dead, G, i)]
    <3>1. \A i \in 0..(m + 1) : G[i] = Erased(s, dead, G, i) BY <2>2
    <3>2. G = [i \in 0..(m + 1) |-> G[i]] OBVIOUS
    <3> HIDE DEF G
    <3> QED BY <3>1, <3>2
  <2>4. Erases(s, dead, G, m + 1) BY <2>3 DEF Erases
  <2> QED BY <2>4
<1>3. Nat \subseteq T
  <2> HIDE DEF T
  <2> QED BY <1>1, <1>2, Induction
<1> QED BY <1>3

LeftOf(s, dead, m) == {s[j] : j \in {k \in 1..m : s[k].id \notin dead}}
LeftRight(S, s, dead, r, m) == r \in Seq(S) /\ Range(r) = LeftOf(s, dead, m) /\ (Distinct(s) => Distinct(r))

LEMMA LoopStep ==
  ASSUME NEW S, NEW s \in Seq(S), NEW dead, NEW m \in Nat, m + 1 <= Len(s), NEW r,
         LeftRight(S, s, dead, r, m)
  PROVE  LeftRight(S, s, dead, IF s[m + 1].id \in dead THEN r ELSE Append(r, s[m + 1]), m + 1)
<1> DEFINE e == s[m + 1]
<1>1. e \in S /\ r \in Seq(S) /\ m + 1 \in DOMAIN s BY DEF LeftRight
<1>2. CASE e.id \in dead
  <2>1. LeftOf(s, dead, m + 1) = LeftOf(s, dead, m) BY <1>2 DEF LeftOf
  <2> QED BY <1>2, <2>1 DEF LeftRight
<1>3. CASE e.id \notin dead
  <2> DEFINE a == Append(r, e)
  <2>1. LeftOf(s, dead, m + 1) = LeftOf(s, dead, m) \cup {e} BY <1>3 DEF LeftOf
  <2>2. a \in Seq(S) /\ Len(a) = Len(r) + 1 /\ a[Len(r) + 1] = e /\ \A i \in 1..Len(r) : a[i] = r[i]
    BY <1>1
  <2>3. DOMAIN a = 1..(Len(r) + 1) /\ DOMAIN r = 1..Len(r) /\ Len(r) \in Nat BY <1>1, <2>2
  <2> HIDE DEF a
  <2>4. Range(a) = Range(r) \cup {e}
    <3>1. ASSUME NEW x \in Range(a) PROVE x \in Range(r) \cup {e}
      <4>1. PICK i \in 1..(Len(r) + 1) : x = a[i] BY <2>3 DEF Range
      <4>2. CASE i = Len(r) + 1 BY <2>2, <4>1, <4>2
      <4>3. CASE i \in 1..Len(r) BY <2>2, <2>3, <4>1, <4>3 DEF Range
      <4> QED BY <2>3, <4>2, <4>3
    <3>2. ASSUME NEW x \in Range(r) PROVE x \in Range(a)
      <4>1. PICK i \in 1..Len(r) : x = r[i] BY <2>3 DEF Range
      <4>2. i \in DOMAIN a /\ a[i] = x BY <2>2, <2>3, <4>1
      <4> QED BY <4>2 DEF Range
    <3>3. e \in Range(a)
      <4>1. Len(r) + 1 \in DOMAIN a BY <2>3
      <4> QED BY <2>2, <4>1 DEF Range
    <3> QED BY <3>1, <3>2, <3>3
  <2>5. ASSUME Distinct(s) PROVE Distinct(a)
    <3>1. Distinct(r) BY <2>5 DEF LeftRight
    <3>2. ASSUME NEW i \in 1..Len(r) PROVE r[i].guid # e.guid
      <4>1. r[i] \in LeftOf(s, dead, m) BY <2>3 DEF LeftRight, Range
      <4>2. PICK k \in 1..m : r[i] = s[k] BY <4>1 DEF LeftOf
      <4>3. k \in DOMAIN s /\ k # m + 1 BY <1>1
      <4> QED BY <1>1, <2>5, <4>2, <4>3 DEF Distinct
    <3>3. ASSUME NEW i \in DOMAIN a, NEW j \in DOMAIN a, a[i].guid = a[j].guid PROVE i = j
      <4>1. CASE i \in 1..Len(r) /\ j \in 1..Len(r) BY <2>2, <2>3, <3>1, <3>3, <4>1 DEF Distinct
      <4>2. CASE i \in 1..Len(r) /\ j = Len(r) + 1 BY <2>2, <3>2, <3>3, <4>2
      <4>3. CASE i = Len(r) + 1 /\ j \in 1..Len(r) BY <2>2, <3>2, <3>3, <4>3
      <4>4. CASE i = Len(r) + 1 /\ j = Len(r) + 1 BY <4>4
      <4> QED BY <2>3, <4>1, <4>2, <4>3, <4>4
    <3> QED BY <3>3 DEF Distinct
  <2>6. Range(a) = LeftOf(s, dead, m + 1) BY <2>1, <2>4 DEF LeftRight
  <2>7. LeftRight(S, s, dead, a, m + 1) BY <2>2, <2>5, <2>6 DEF LeftRight
  <2> QED BY <1>3, <2>7 DEF a
<1> QED BY <1>2, <1>3

LEMMA ErasedIs ==
  ASSUME NEW S, NEW s \in Seq(S), NEW dead
  PROVE  /\ Without(s, dead) \in Seq(S)
         /\ Range(Without(s, dead)) = {d \in Range(s) : d.id \notin dead}
         /\ Distinct(s) => Distinct(Without(s, dead))
<1> DEFINE n == Len(s)
<1>1. n \in Nat OBVIOUS
<1>2. PICK F : Erases(s, dead, F, n) /\ Without(s, dead) = F[n]
  <2> DEFINE F == CHOOSE G : Erases(s, dead, G, n)
  <2>1. Erases(s, dead, F, n) BY <1>1, LoopExists
  <2>2. Without(s, dead) = F[n] BY DEF Without, Erases, Erased
  <2> QED BY <2>1, <2>2
<1> HIDE DEF n
<1> DEFINE T == {m \in Nat : m <= n => LeftRight(S, s, dead, F[m], m)}
<1>3. 0 \in T
  <2>1. F[0] = <<>> BY <1>1, <1>2 DEF Erases, Erased
  <2>2. LeftOf(s, dead, 0) = {} BY DEF LeftOf
  <2>3. Range(<<>>) = {} /\ Distinct(<<>>) BY DEF Range, Distinct
  <2>4. <<>> \in Seq(S) OBVIOUS
  <2>5. LeftRight(S, s, dead, <<>>, 0) BY <2>2, <2>3, <2>4, Zenon DEF LeftRight
  <2> QED BY <2>1, <2>5
<1>4. ASSUME NEW m \in Nat, m \in T PROVE m + 1 \in T
  <2> SUFFICES ASSUME m + 1 <= n PROVE LeftRight(S, s, dead, F[m + 1], m + 1) OBVIOUS
  <2>1. LeftRight(S, s, dead, F[m], m) BY <1>1, <1>4
  <2>2. m + 1 \in 0..n /\ m + 1 # 0 /\ (m + 1) - 1 = m BY <1>1
  <2>3. F[m + 1] = IF s[m + 1].id \in dead THEN F[m] ELSE Append(F[m], s[m + 1])
    <3>1. F[m + 1] = Erased(s, dead, F, m + 1) BY <1>2, <2>2 DEF Erases
    <3> QED BY <2>2, <3>1 DEF Erased
  <2> QED BY <2>1, <2>3, LoopStep DEF n
<1>5. Nat \subseteq T
  <2> HIDE DEF T
  <2> QED BY <1>3, <1>4, Induction
<1>6. LeftRight(S, s, dead, Without(s, dead), n) BY <1>1, <1>2, <1>5
<1>7. LeftOf(s, dead, n) = {d \in Range(s) : d.id \notin dead} BY DEF LeftOf, Range, n
<1> QED BY <1>6, <1>7 DEF LeftRight

-----------------------------------------------------------------------------
\* The sorted list has the entries of the unsorted one.
LEMMA SortedIs ==
  ASSUME NEW S, NEW s \in Seq(S), Distinct(s), NEW r \in sorted(s)
  PROVE  r \in Seq(S) /\ Range(r) = Range(s) /\ Distinct(r) /\ Ordered(r)
<1>1. PICK p \in Bijection(DOMAIN s, DOMAIN s) : r = [i \in DOMAIN s |-> s[p[i]]]
  BY DEF sorted, Rearranged
<1>2. /\ p \in [DOMAIN s -> DOMAIN s] /\ \A w \in DOMAIN s : \E v \in DOMAIN s : p[v] = w
      /\ \A v, w \in DOMAIN s : p[v] = p[w] => v = w
  BY <1>1 DEF Bijection, Injection, Surjection, IsInjective
<1>3. DOMAIN s = 1..Len(s) /\ Len(s) \in Nat /\ \A i \in DOMAIN s : s[i] \in S OBVIOUS
<1>4. DOMAIN r = DOMAIN s /\ \A i \in DOMAIN s : r[i] = s[p[i]] BY <1>1
<1>5. r \in Seq(S)
  <2>1. r \in [1..Len(s) -> S] BY <1>1, <1>2, <1>3
  <2> QED BY <1>3, <2>1
<1>6. Range(r) = Range(s) BY <1>2, <1>4 DEF Range
<1>7. Distinct(r)
  <2>1. ASSUME NEW i \in DOMAIN s, NEW j \in DOMAIN s, r[i].guid = r[j].guid PROVE i = j
    <3>1. s[p[i]].guid = s[p[j]].guid /\ p[i] \in DOMAIN s /\ p[j] \in DOMAIN s
      BY <1>2, <1>4, <2>1
    <3>2. p[i] = p[j] BY <3>1 DEF Distinct
    <3> QED BY <1>2, <3>2
  <2> QED BY <1>4, <2>1 DEF Distinct
<1>8. Ordered(r) BY DEF sorted
<1> QED BY <1>5, <1>6, <1>7, <1>8

-----------------------------------------------------------------------------
\* Types.
LEMMA NodesAre == Cardinality(Guids) \in Nat
BY DiscoveryAssumption, FS_CardinalityType DEF Guids

LEMMA LocalSteps ==
  ASSUME DiscoveryTypeOK, NEW t \in Threads
  PROVE  /\ loc[t] \in Locals /\ loc[t].i \in Nat \ {0} /\ loc[t].roms \subseteq Guids
         /\ loc[t].failed \subseteq Nat /\ loc[t].rediscover \in BOOLEAN
         /\ [loc[t] EXCEPT !.i = @ + 1] \in Locals
         /\ \A s \in SUBSET Guids : [loc[t] EXCEPT !.i = @ + 1, !.roms = @ \cup s] \in Locals
         /\ \A s \in SUBSET Nat : [loc[t] EXCEPT !.i = @ + 1, !.failed = @ \cup s] \in Locals
         /\ \A s \in SUBSET Nat : [loc[t] EXCEPT !.i = @ + 1, !.failed = s] \in Locals
         /\ \A s \in SUBSET Nat : [loc[t] EXCEPT !.i = 1, !.failed = s] \in Locals
         /\ \A s \in SUBSET Nat : [loc[t] EXCEPT !.failed = s] \in Locals
         /\ [loc[t] EXCEPT !.i = 1] \in Locals
         /\ NoLocals \in Locals /\ [NoLocals EXCEPT !.rediscover = TRUE] \in Locals
<1>1. loc[t] \in Locals BY DEF DiscoveryTypeOK
<1>2. PICK x \in Locals : x = loc[t] BY <1>1
<1>3. x.i + 1 \in Nat \ {0} /\ 1 \in Nat \ {0} BY DEF Locals
<1>4. /\ x.i \in Nat \ {0} /\ x.roms \subseteq Guids /\ x.failed \subseteq Nat /\ x.rediscover \in BOOLEAN
      /\ [x EXCEPT !.i = @ + 1] \in Locals /\ [x EXCEPT !.i = 1] \in Locals
  BY <1>3 DEF Locals
<1>5. /\ \A s \in SUBSET Guids : [x EXCEPT !.i = @ + 1, !.roms = @ \cup s] \in Locals
      /\ \A s \in SUBSET Nat : [x EXCEPT !.i = @ + 1, !.failed = @ \cup s] \in Locals
  BY <1>3 DEF Locals
<1>6. /\ \A s \in SUBSET Nat : [x EXCEPT !.i = @ + 1, !.failed = s] \in Locals
      /\ \A s \in SUBSET Nat : [x EXCEPT !.i = 1, !.failed = s] \in Locals
      /\ \A s \in SUBSET Nat : [x EXCEPT !.failed = s] \in Locals
  BY <1>3 DEF Locals
<1>7. NoLocals \in Locals /\ [NoLocals EXCEPT !.rediscover = TRUE] \in Locals
  BY <1>3 DEF Locals, NoLocals
<1> QED BY <1>2, <1>4, <1>5, <1>6, <1>7

LEMMA Entries ==
  ASSUME DiscoveryTypeOK
  PROVE  /\ Len(avDevices) \in Nat /\ DOMAIN avDevices = 1..Len(avDevices)
         /\ \A i \in DOMAIN avDevices : /\ avDevices[i] \in DeviceRecords /\ avDevices[i] \in Range(avDevices)
                                        /\ avDevices[i].id \in Nat
         /\ \A d \in Range(avDevices) : /\ d \in DeviceRecords /\ d.guid \in Guids \cup {Gone} /\ d.id \in Nat
                                        /\ d.node \in {Gone} \cup Nodes
         /\ Ids(avDevices) = {d.id : d \in Range(avDevices)} /\ Ids(avDevices) \subseteq Nat
<1>1. avDevices \in Seq(DeviceRecords) BY DEF DiscoveryTypeOK
<1>2. \A d \in DeviceRecords : d.guid \in Guids \cup {Gone} /\ d.id \in Nat /\ d.node \in {Gone} \cup Nodes
  BY DEF DeviceRecords
<1>3. Len(avDevices) \in Nat /\ DOMAIN avDevices = 1..Len(avDevices)
      /\ \A i \in DOMAIN avDevices : avDevices[i] \in DeviceRecords
  BY <1>1
<1>4. \A i \in DOMAIN avDevices : avDevices[i] \in Range(avDevices) BY DEF Range
<1>5. \A d \in Range(avDevices) : \E i \in DOMAIN avDevices : d = avDevices[i] BY DEF Range
<1>6. Ids(avDevices) = {d.id : d \in Range(avDevices)} BY DEF Ids, Range
<1> QED BY <1>2, <1>3, <1>4, <1>5, <1>6

\* What handleBusReset makes of an entry.
LEMMA Renumbered ==
  ASSUME NEW f \in Placements, node = f, NEW d \in DeviceRecords
  PROVE  /\ updatedNodeId(d) \in DeviceRecords
         /\ updatedNodeId(d).guid = d.guid /\ updatedNodeId(d).id = d.id
         /\ d.guid \in Guids => updatedNodeId(d).node = node[d.guid]
BY DEF Placements, updatedNodeId, DeviceRecords

\* The list after a step.
LEMMA ListTypes ==
  ASSUME DiscoveryTypeOK
  PROVE  /\ \A dead : Without(avDevices, dead) \in Seq(DeviceRecords)
         /\ \A s \in sorted(avDevices) : s \in Seq(DeviceRecords)
         /\ [i \in DOMAIN avDevices |-> updatedNodeId(avDevices[i])] \in Seq(DeviceRecords)
<1>1. avDevices \in Seq(DeviceRecords) /\ node \in Placements BY DEF DiscoveryTypeOK
<1>2. \A dead : Without(avDevices, dead) \in Seq(DeviceRecords) BY <1>1, ErasedIs
<1>3. ASSUME NEW s \in sorted(avDevices) PROVE s \in Seq(DeviceRecords)
  <2>1. PICK p \in Bijection(DOMAIN avDevices, DOMAIN avDevices) : s = [i \in DOMAIN avDevices |-> avDevices[p[i]]]
    BY <1>3 DEF sorted, Rearranged
  <2>2. p \in [DOMAIN avDevices -> DOMAIN avDevices] BY <2>1 DEF Bijection, Injection
  <2>3. s \in [1..Len(avDevices) -> DeviceRecords] BY <2>1, <2>2, Entries
  <2> QED BY <2>3, Entries
<1>4. [i \in DOMAIN avDevices |-> updatedNodeId(avDevices[i])] \in Seq(DeviceRecords)
  <2>1. \A i \in DOMAIN avDevices : updatedNodeId(avDevices[i]) \in DeviceRecords
    BY <1>1, Entries, Renumbered
  <2>2. [i \in DOMAIN avDevices |-> updatedNodeId(avDevices[i])] \in [1..Len(avDevices) -> DeviceRecords]
    BY <2>1, Entries
  <2> QED BY <2>2, Entries
<1> QED BY <1>2, <1>3, <1>4

LEMMA TypeStep ==
  ASSUME DiscoveryTypeOK, [DiscoveryNext]_discoveryVars
  PROVE  DiscoveryTypeOK'
<1> USE DEF DiscoveryTypeOK, busVars, restVars, listVars, Local
<1>1. CASE initialize BY <1>1 DEF initialize, Fail
<1>2. ASSUME NEW t \in Threads, discover(t) PROVE DiscoveryTypeOK'
  <2>x. loc[t] \in Locals /\ loc \in [Threads -> Locals] BY LocalSteps
  <2>1. CASE discover_scan(t)
    <3>1. At(loc[t].i) \subseteq Guids BY DEF At
    <3>2. loc' = loc \/ \E x \in Locals : loc' = [loc EXCEPT ![t] = x]
      BY <2>1, <3>1, LocalSteps DEF discover_scan
    <3>3. loc' \in [Threads -> Locals] BY <2>x, <3>2
    <3>4. misses' \in Nat /\ updating' \in Int BY <2>1 DEF discover_scan, Fail
    <3> QED BY <2>1, <3>3, <3>4 DEF discover_scan
  <2>2. CASE discover_prune(t)
    <3>1. loc' = [loc EXCEPT ![t] = [loc[t] EXCEPT !.i = 1, !.failed = {}]] BY <2>2 DEF discover_prune
    <3>2. [loc[t] EXCEPT !.i = 1, !.failed = {}] \in Locals BY LocalSteps
    <3>3. avDevices' \in Seq(DeviceRecords) BY <2>2, ListTypes DEF discover_prune, DeleteDevices
    <3> QED BY <2>2, <2>x, <3>1, <3>2, <3>3 DEF discover_prune
  <2>3. CASE discover_rediscover(t)
    <3>i. loc[t].i \in Nat \ {0} BY LocalSteps
    <3>0. loc[t].i <= Len(avDevices) => loc[t].i \in DOMAIN avDevices BY <3>i, Entries
    <3>1. loc[t].i <= Len(avDevices) => {avDevices[loc[t].i].id} \subseteq Nat BY <3>0, Entries
    <3>2. \E x \in Locals : loc' = [loc EXCEPT ![t] = x]
      BY <2>3, <3>1, LocalSteps DEF discover_rediscover
    <3>3. loc' \in [Threads -> Locals] BY <2>x, <3>2
    <3>4. avDevices' \in Seq(DeviceRecords) BY <2>3, ListTypes DEF discover_rediscover, DeleteDevices
    <3>5. misses' \in Nat BY <2>3 DEF discover_rediscover, Fail
    <3> QED BY <2>3, <3>3, <3>4, <3>5 DEF discover_rediscover
  <2>4. CASE discover_add(t)
    <3>1. loc' = [loc EXCEPT ![t] = [loc[t] EXCEPT !.i = @ + 1]] /\ loc[t].i \in Nodes BY <2>4 DEF discover_add
    <3>2. loc' \in [Threads -> Locals] BY <2>x, <3>1, LocalSteps
    <3>3. \/ UNCHANGED <<avDevices, nextId>>
          \/ /\ \E g \in Guids : avDevices' = Append(avDevices, [guid |-> g, id |-> nextId, node |-> loc[t].i])
             /\ nextId' = nextId + 1
      BY <2>4 DEF discover_add, At
    <3>4. \A g \in Guids : [guid |-> g, id |-> nextId, node |-> loc[t].i] \in DeviceRecords
      BY <3>1 DEF DeviceRecords
    <3>5. avDevices' \in Seq(DeviceRecords) /\ nextId' \in Nat
      <4>1. \A d \in DeviceRecords : Append(avDevices, d) \in Seq(DeviceRecords) OBVIOUS
      <4>2. CASE UNCHANGED <<avDevices, nextId>> BY <4>2
      <4>3. CASE ~UNCHANGED <<avDevices, nextId>>
        <5>1. PICK g \in Guids : avDevices' = Append(avDevices, [guid |-> g, id |-> nextId, node |-> loc[t].i])
          BY <3>3, <4>3
        <5>2. PICK d \in DeviceRecords : d = [guid |-> g, id |-> nextId, node |-> loc[t].i] BY <3>4
        <5> QED BY <3>3, <4>1, <4>3, <5>1, <5>2
      <4> QED BY <4>2, <4>3
    <3>6. misses' \in Nat BY <2>4 DEF discover_add, Fail
    <3> QED BY <2>4, <3>2, <3>5, <3>6 DEF discover_add
  <2>5. CASE discover_sort(t)
    <3>1. avDevices' \in Seq(DeviceRecords) BY <2>5, ListTypes DEF discover_sort
    <3> QED BY <2>5, <3>1 DEF discover_sort
  <2>6. CASE discover_post(t)
    <3>1. loc' \in [Threads -> Locals] BY <2>6, <2>x, LocalSteps DEF discover_post
    <3> QED BY <2>6, <3>1 DEF discover_post
  <2>7. CASE discover_slave(t)
    <3>1. loc' \in [Threads -> Locals] BY <2>7, <2>x, LocalSteps DEF discover_slave
    <3>2. [guid |-> Gone, id |-> nextId, node |-> Gone] \in DeviceRecords BY DEF DeviceRecords
    <3>3. avDevices' \in Seq(DeviceRecords)
      <4>1. PICK d \in DeviceRecords : d = [guid |-> Gone, id |-> nextId, node |-> Gone] BY <3>2
      <4>2. <<d>> \in Seq(DeviceRecords) OBVIOUS
      <4>3. avDevices' = avDevices \/ avDevices' = <<d>> BY <2>7, <4>1 DEF discover_slave
      <4> QED BY <4>2, <4>3
    <3>4. nextId' \in Nat /\ misses' \in Nat /\ updating' \in Int BY <2>7 DEF discover_slave, Fail
    <3>5. abandoned' \in BOOLEAN BY <2>7, Zenon DEF discover_slave
    <3> QED BY <2>7, <3>1, <3>3, <3>4, <3>5 DEF discover_slave
  <2> QED BY <1>2, <2>1, <2>2, <2>3, <2>4, <2>5, <2>6, <2>7 DEF discover
<1>3. CASE busresetHandler BY <1>3 DEF busresetHandler
<1>4. CASE handleBusReset
  <2>1. loc' \in [Threads -> Locals]
    <3>1. loc' = [loc EXCEPT !["reset"] = [NoLocals EXCEPT !.rediscover = TRUE]] BY <1>4 DEF handleBusReset
    <3>2. [NoLocals EXCEPT !.rediscover = TRUE] \in Locals BY LocalSteps DEF Threads
    <3> QED BY <3>1, <3>2
  <2>2. avDevices' \in Seq(DeviceRecords) BY <1>4, ListTypes DEF handleBusReset
  <2> QED BY <1>4, <2>1, <2>2 DEF handleBusReset
<1>5. CASE signalNotifiers BY <1>5 DEF signalNotifiers
<1>6. CASE WalkStep
  <2>t. "client" \in Threads BY DEF Threads
  <2>i. loc["client"].i \in Nat \ {0} BY <2>t, LocalSteps
  <2>0. loc["client"].i <= Len(avDevices) => loc["client"].i \in DOMAIN avDevices BY <2>i, Entries
  <2>1. loc["client"].i <= Len(avDevices) => {avDevices[loc["client"].i].id} \subseteq Nat BY <2>0, Entries
  <2>2. \E x \in Locals : loc' = [loc EXCEPT !["client"] = x]
    BY <1>6, <2>1, <2>t, LocalSteps DEF WalkStep
  <2>3. loc' \in [Threads -> Locals] BY <2>2
  <2> QED BY <1>6, <2>3 DEF WalkStep
<1>7. CASE UseDevice
  <2>1. loc' \in [Threads -> Locals]
    <3>1. loc' = [loc EXCEPT !["client"] = [loc["client"] EXCEPT !.failed = {}]] BY <1>7 DEF UseDevice
    <3>2. [loc["client"] EXCEPT !.failed = {}] \in Locals BY LocalSteps DEF Threads
    <3> QED BY <3>1, <3>2
  <2> QED BY <1>7, <2>1 DEF UseDevice
<1>8. CASE deleteManager BY <1>8 DEF deleteManager
<1>9. CASE deleteService BY <1>9 DEF deleteService
<1>10. CASE BusReset BY <1>10 DEF BusReset
<1>11. CASE UNCHANGED discoveryVars BY <1>11 DEF discoveryVars
<1> QED BY <1>1, <1>2, <1>3, <1>4, <1>5, <1>6, <1>7, <1>8, <1>9, <1>10, <1>11
    DEF DiscoveryNext, Stopped

-----------------------------------------------------------------------------
\* The locks.
LEMMA LockStep ==
  ASSUME DiscoveryTypeOK, LockInv, [DiscoveryNext]_discoveryVars
  PROVE  LockInv'
<1> USE DEF LockInv, Locked, DiscoverSteps, Notified, Threads, Free, GoTo, busVars, restVars, listVars
<1>0. updating \in Int /\ slaveMode \in BOOLEAN BY DEF DiscoveryTypeOK
<1>1. CASE initialize BY <1>1 DEF initialize
<1>2. ASSUME NEW t \in Threads, discover(t) PROVE LockInv'
  <2>1. CASE discover_scan(t)
    <3>1. CASE UNCHANGED <<pc, updating>> BY <2>1, <3>1 DEF discover_scan
    <3>2. CASE GoTo(t, "prune") /\ updating' = updating + 1 BY <1>0, <2>1, <3>2 DEF discover_scan
    <3> QED BY <2>1, <3>1, <3>2 DEF discover_scan
  <2>2. CASE discover_prune(t) BY <1>0, <2>2 DEF discover_prune
  <2>3. CASE discover_rediscover(t)
    <3>1. pc' = pc \/ GoTo(t, "add") BY <2>3 DEF discover_rediscover
    <3> QED BY <1>0, <2>3, <3>1 DEF discover_rediscover
  <2>4. CASE discover_add(t) BY <2>4 DEF discover_add
  <2>5. CASE discover_sort(t) BY <1>0, <2>5 DEF discover_sort
  <2>6. CASE discover_post(t) BY <1>0, <2>6 DEF discover_post
  <2>7. CASE discover_slave(t)
    <3>1. slaveMode /\ slaveMode' = slaveMode /\ resetLock' = resetLock BY <2>7 DEF discover_slave
    <3>2. \/ abandoned' = TRUE /\ listLock' = listLock /\ GoTo(t, IF t = "client" THEN "close" ELSE "notify")
          \/ abandoned' = abandoned /\ listLock' = Free /\ GoTo(t, "post")
      BY <2>7 DEF discover_slave
    <3> QED BY <2>7, <3>1, <3>2 DEF discover_slave
  <2> QED BY <1>2, <2>1, <2>2, <2>3, <2>4, <2>5, <2>6, <2>7 DEF discover
<1>3. CASE busresetHandler BY <1>0, <1>3 DEF busresetHandler
<1>4. CASE handleBusReset BY <1>0, <1>4 DEF handleBusReset
<1>5. CASE signalNotifiers BY <1>0, <1>5 DEF signalNotifiers
<1>6. CASE WalkStep
  <2>1. pc' = pc \/ GoTo("client", "close") BY <1>6 DEF WalkStep
  <2> QED BY <1>0, <1>6, <2>1 DEF WalkStep
<1>7. CASE UseDevice BY <1>7 DEF UseDevice
<1>8. CASE deleteManager BY <1>0, <1>8 DEF deleteManager
<1>9. CASE deleteService BY <1>0, <1>9 DEF deleteService
<1>10. CASE BusReset BY <1>10 DEF BusReset
<1>11. CASE UNCHANGED discoveryVars BY <1>11 DEF discoveryVars
<1> QED BY <1>1, <1>2, <1>3, <1>4, <1>5, <1>6, <1>7, <1>8, <1>9, <1>10, <1>11
    DEF DiscoveryNext, Stopped

-----------------------------------------------------------------------------
\* The objects.
LEMMA ErasedIds ==
  ASSUME DiscoveryTypeOK, NEW dead, DeleteDevices(dead)
  PROVE  Ids(avDevices') = Ids(avDevices) \ dead
<1>1. avDevices \in Seq(DeviceRecords) BY DEF DiscoveryTypeOK
<1>2. Range(avDevices') = {d \in Range(avDevices) : d.id \notin dead} BY <1>1, ErasedIs DEF DeleteDevices
<1>3. Ids(avDevices') = {d.id : d \in Range(avDevices')} BY DEF Ids, Range
<1>4. Ids(avDevices) = {d.id : d \in Range(avDevices)} BY DEF Ids, Range
<1> QED BY <1>2, <1>3, <1>4

LEMMA OthersStay ==
  ASSUME DiscoveryTypeOK, LockInv, NEW t \in Threads, discover(t), NEW u \in Threads, u # t
  PROVE  pc'[u] = pc[u] /\ loc'[u] = loc[u]
<1> USE DEF GoTo, Local
<1>0. DOMAIN pc = Threads /\ DOMAIN loc = Threads BY DEF DiscoveryTypeOK, LockInv
<1>1. CASE discover_scan(t) BY <1>0, <1>1 DEF discover_scan
<1>2. CASE discover_prune(t) BY <1>0, <1>2 DEF discover_prune
<1>3. CASE discover_rediscover(t) BY <1>0, <1>3 DEF discover_rediscover
<1>4. CASE discover_add(t) BY <1>0, <1>4 DEF discover_add
<1>5. CASE discover_sort(t) BY <1>0, <1>5 DEF discover_sort
<1>6. CASE discover_post(t) BY <1>0, <1>6 DEF discover_post
<1>7. CASE discover_slave(t) BY <1>0, <1>7 DEF discover_slave
<1> QED BY <1>1, <1>2, <1>3, <1>4, <1>5, <1>6, <1>7 DEF discover

LEMMA LiveStep ==
  ASSUME DiscoveryTypeOK, LockInv, LiveInv, [DiscoveryNext]_discoveryVars
  PROVE  LiveInv'
<1> USE DEF busVars, restVars, listVars
<1>0. nextId \in Nat /\ Ids(avDevices) \subseteq 0..(nextId - 1) /\ freed \subseteq 0..(nextId - 1)
      /\ pc \in [Threads -> DiscoverSteps \cup {"init", "walk", "close", "service", "done", "crashed",
                                                "idle", "nodes", "notify"}]
      /\ loc \in [Threads -> Locals]
  BY DEF DiscoveryTypeOK, LiveInv, LockInv
\* Steps that leave the objects alone.
<1>s. ASSUME UNCHANGED <<listVars, slaveMode>>, "reset" \in stale' => "reset" \in stale, Open' => Open,
             \A u \in Threads : pc'[u] = "rediscover" => pc[u] = "rediscover" /\ loc'[u].failed = loc[u].failed
      PROVE  LiveInv'
  <2>1. Ids(avDevices)' = Ids(avDevices) BY <1>s DEF Ids
  <2> QED BY <1>s, <2>1 DEF LiveInv
<1>1. CASE initialize
  <2>1. Open' => Open BY <1>1 DEF initialize, GoTo, Open
  <2>2. \A u \in Threads : pc'[u] = "rediscover" => pc[u] = "rediscover" /\ loc'[u].failed = loc[u].failed
    BY <1>0, <1>1 DEF initialize, GoTo
  <2> QED BY <1>1, <1>s, <2>1, <2>2 DEF initialize
<1>2. ASSUME NEW t \in Threads, discover(t) PROVE LiveInv'
  <2>0. pc[t] \in DiscoverSteps BY <1>2 DEF discover, discover_scan, discover_prune, discover_rediscover,
          discover_add, discover_sort, discover_post, discover_slave, DiscoverSteps, Locked
  <2>o. Open' => Open
    <3>1. pc'["client"] = pc["client"] \/ (t = "client" /\ Open)
      <4>1. CASE t = "client" BY <2>0, <4>1 DEF Open, DiscoverSteps, Locked
      <4>2. CASE t = "reset"
        <5>1. "client" \in Threads /\ "client" # t BY <4>2 DEF Threads
        <5> QED BY <1>2, <5>1, OthersStay
      <4> QED BY <4>1, <4>2 DEF Threads
    <3> QED BY <3>1 DEF Open
  <2>1. CASE discover_scan(t)
    <3>1. \A u \in Threads : pc'[u] = "rediscover" => pc[u] = "rediscover" /\ loc'[u].failed = loc[u].failed
      <4>1. \A u \in Threads \ {t} : pc'[u] = pc[u] /\ loc'[u] = loc[u]
        BY <1>0, <2>1 DEF discover_scan, GoTo, Local
      <4>2. pc'[t] # "rediscover" BY <1>0, <2>1 DEF discover_scan, GoTo
      <4> QED BY <4>1, <4>2
    <3> QED BY <1>s, <2>1, <2>o, <3>1 DEF discover_scan
  <2>2. CASE discover_prune(t)
    <3> DEFINE dead == {d.id : d \in {e \in Range(avDevices) : ~Kept(t, e)}}
    <3>1. DeleteDevices(dead) BY <2>2 DEF discover_prune
    <3>2. dead \subseteq Ids(avDevices) BY DEF Ids, Range
    <3> HIDE DEF dead
    <3>3. /\ Ids(avDevices') = Ids(avDevices) \ dead /\ elements' = elements \ dead
          /\ freed' = freed \cup dead /\ nextId' = nextId /\ stale' = stale /\ slaveMode' = slaveMode
      BY <2>2, <3>1, ErasedIds DEF DeleteDevices, discover_prune
    <3>4. ASSUME NEW u \in Threads, pc'[u] = "rediscover" PROVE loc'[u].failed \subseteq 0..(nextId - 1)
      <4>1. CASE u = t
        <5>1. loc'[t] = [loc[t] EXCEPT !.i = 1, !.failed = {}] BY <1>0, <2>2 DEF discover_prune, Local
        <5>2. loc'[t].failed = {} BY <1>0, <5>1 DEF Locals
        <5> QED BY <4>1, <5>2
      <4>2. CASE u # t
        <5>1. pc'[u] = pc[u] /\ loc'[u] = loc[u] BY <1>0, <2>2, <4>2 DEF discover_prune, GoTo, Local
        <5> QED BY <3>4, <5>1 DEF LiveInv
      <4> QED BY <4>1, <4>2
    <3>5. Ids(avDevices)' = Ids(avDevices') BY DEF Ids
    <3> QED BY <1>0, <2>o, <3>2, <3>3, <3>4, <3>5 DEF LiveInv
  <2>3. CASE discover_rediscover(t)
    <3>p. pc[t] = "rediscover" /\ loc[t].failed \subseteq 0..(nextId - 1)
      BY <2>3 DEF discover_rediscover, LiveInv
    <3>1. CASE loc[t].i <= Len(avDevices)
      <4>i. loc[t].i \in Nat \ {0} BY LocalSteps
      <4>1. loc[t].i \in DOMAIN avDevices BY <3>1, <4>i, Entries
      <4>2. avDevices[loc[t].i].id \in Ids(avDevices) BY <4>1 DEF Ids
      <4>3. \/ loc'[t] = [loc[t] EXCEPT !.i = @ + 1]
            \/ loc'[t] = [loc[t] EXCEPT !.i = @ + 1, !.failed = @ \cup {avDevices[loc[t].i].id}]
        BY <1>0, <2>3, <3>1 DEF discover_rediscover, Local
      <4>4. loc'[t].failed \subseteq 0..(nextId - 1)
        <5>1. loc[t] \in Locals BY <1>0
        <5>2. loc'[t].failed \subseteq loc[t].failed \cup {avDevices[loc[t].i].id} BY <4>3, <5>1 DEF Locals
        <5> QED BY <1>0, <3>p, <4>2, <5>2
      <4>5. \A u \in Threads \ {t} : pc'[u] = pc[u] /\ loc'[u] = loc[u]
        BY <1>0, <2>3, <3>1 DEF discover_rediscover, Local
      <4>6. UNCHANGED <<listVars, slaveMode, stale>> BY <2>3, <3>1 DEF discover_rediscover
      <4>7. Ids(avDevices)' = Ids(avDevices) BY <4>6 DEF Ids
      <4> QED BY <2>o, <4>4, <4>5, <4>6, <4>7 DEF LiveInv
    <3>2. CASE ~(loc[t].i <= Len(avDevices))
      <4>1. DeleteDevices(loc[t].failed) BY <2>3, <3>2 DEF discover_rediscover
      <4>2. PICK dead : dead = loc[t].failed OBVIOUS
      <4>3. /\ Ids(avDevices') = Ids(avDevices) \ dead /\ elements' = elements \ dead
            /\ freed' = freed \cup dead /\ nextId' = nextId /\ stale' = stale /\ slaveMode' = slaveMode
        BY <2>3, <4>1, <4>2, ErasedIds DEF DeleteDevices, discover_rediscover
      <4>4. pc'[t] # "rediscover" /\ \A u \in Threads \ {t} : pc'[u] = pc[u] /\ loc'[u] = loc[u]
        BY <1>0, <2>3, <3>2 DEF discover_rediscover, GoTo, Local
      <4>5. Ids(avDevices)' = Ids(avDevices') BY DEF Ids
      <4> QED BY <1>0, <2>o, <3>p, <4>2, <4>3, <4>4, <4>5 DEF LiveInv
    <3> QED BY <3>1, <3>2
  <2>4. CASE discover_add(t)
    <3>1. pc' = pc /\ pc[t] = "add" /\ UNCHANGED <<freed, stale, slaveMode>>
          /\ \A u \in Threads \ {t} : loc'[u] = loc[u]
      BY <1>0, <2>4 DEF discover_add, Local
    <3>2. CASE UNCHANGED <<avDevices, elements, nextId>>
      <4>1. Ids(avDevices)' = Ids(avDevices) BY <3>2 DEF Ids
      <4> QED BY <2>o, <3>1, <3>2, <4>1 DEF LiveInv
    <3>3. CASE ~UNCHANGED <<avDevices, elements, nextId>>
      <4>1. PICK g : /\ avDevices' = Append(avDevices, [guid |-> g, id |-> nextId, node |-> loc[t].i])
                     /\ elements' = elements \cup {nextId} /\ nextId' = nextId + 1
        BY <2>4, <3>3 DEF discover_add
      <4>2. Ids(avDevices') = Ids(avDevices) \cup {nextId}
        <5> DEFINE d == [guid |-> g, id |-> nextId, node |-> loc[t].i]
        <5>1. d.id = nextId OBVIOUS
        <5> HIDE DEF d
        <5>2. avDevices \in Seq(DeviceRecords) BY DEF DiscoveryTypeOK
        <5>3. /\ Len(avDevices) \in Nat /\ DOMAIN avDevices = 1..Len(avDevices)
              /\ DOMAIN Append(avDevices, d) = 1..(Len(avDevices) + 1)
              /\ Append(avDevices, d)[Len(avDevices) + 1] = d
              /\ \A i \in 1..Len(avDevices) : Append(avDevices, d)[i] = avDevices[i]
          BY <5>2
        <5>4. PICK n \in Nat : n = Len(avDevices) BY <5>3
        <5>5. 1..(n + 1) = 1..n \cup {n + 1} OBVIOUS
        <5>6. Ids(Append(avDevices, d)) = Ids(avDevices) \cup {d.id} BY <5>3, <5>4, <5>5 DEF Ids
        <5> QED BY <4>1, <5>1, <5>6 DEF d
      <4>3. Ids(avDevices)' = Ids(avDevices') BY DEF Ids
      <4>4. nextId \notin freed /\ 0..(nextId - 1) \subseteq 0..(nextId' - 1) /\ nextId \in 0..(nextId' - 1)
        BY <1>0, <4>1
      <4>5. \A u \in Threads : pc'[u] = "rediscover" => loc'[u].failed \subseteq 0..(nextId - 1)
        BY <3>1 DEF LiveInv
      <4> QED BY <1>0, <2>o, <3>1, <4>1, <4>2, <4>3, <4>4, <4>5 DEF LiveInv
    <3> QED BY <3>2, <3>3
  <2>5. CASE discover_sort(t)
    <3>1. PICK p \in Bijection(DOMAIN avDevices, DOMAIN avDevices) :
            avDevices' = [i \in DOMAIN avDevices |-> avDevices[p[i]]]
      BY <2>5 DEF discover_sort, sorted, Rearranged
    <3>2. /\ p \in [DOMAIN avDevices -> DOMAIN avDevices]
          /\ \A w \in DOMAIN avDevices : \E v \in DOMAIN avDevices : p[v] = w
      BY <3>1 DEF Bijection, Injection, Surjection
    <3>3. Ids(avDevices)' = Ids(avDevices) BY <3>1, <3>2 DEF Ids
    <3>4. /\ UNCHANGED <<elements, freed, nextId, loc, stale, slaveMode>> /\ pc'[t] # "rediscover"
          /\ \A u \in Threads \ {t} : pc'[u] = pc[u]
      BY <1>0, <2>5 DEF discover_sort, GoTo
    <3> QED BY <2>o, <3>3, <3>4 DEF LiveInv
  <2>6. CASE discover_post(t)
    <3>1. \A u \in Threads : pc'[u] = "rediscover" => pc[u] = "rediscover" /\ loc'[u].failed = loc[u].failed
      <4>1. \A u \in Threads \ {t} : pc'[u] = pc[u] /\ loc'[u] = loc[u]
        BY <1>0, <2>6 DEF discover_post, GoTo, Local
      <4>2. pc'[t] # "rediscover" BY <1>0, <2>6 DEF discover_post, GoTo
      <4> QED BY <4>1, <4>2
    <3> QED BY <1>s, <2>6, <2>o, <3>1 DEF discover_post
  <2>7. CASE discover_slave(t)
    <3>1. slaveMode /\ UNCHANGED <<slaveMode, stale>> BY <2>7 DEF discover_slave, LockInv
    <3>2. pc'[t] # "rediscover" /\ \A u \in Threads \ {t} : pc'[u] = pc[u] /\ loc'[u] = loc[u]
      BY <1>0, <2>7 DEF discover_slave, GoTo, Local
    <3>3. CASE UNCHANGED listVars
      <4>1. Ids(avDevices)' = Ids(avDevices) BY <3>3 DEF Ids
      <4> QED BY <2>o, <3>1, <3>2, <3>3, <4>1 DEF LiveInv
    <3>4. CASE ~UNCHANGED listVars
      <4>1. /\ avDevices' = <<[guid |-> Gone, id |-> nextId, node |-> Gone]>> /\ nextId' = nextId + 1
            /\ freed' = freed \cup Ids(avDevices)
        BY <2>7, <3>4 DEF discover_slave
      <4>2. Ids(avDevices)' = {nextId} BY <4>1 DEF Ids
      <4>3. nextId \notin freed' /\ 0..(nextId - 1) \subseteq 0..(nextId' - 1) /\ nextId \in 0..(nextId' - 1)
        BY <1>0, <4>1
      <4> QED BY <1>0, <2>o, <3>1, <3>2, <4>1, <4>2, <4>3 DEF LiveInv
    <3> QED BY <3>3, <3>4
  <2> QED BY <1>2, <2>1, <2>2, <2>3, <2>4, <2>5, <2>6, <2>7 DEF discover
<1>3. CASE busresetHandler
  <2>1. (Open' => Open) /\ \A u \in Threads : pc'[u] = "rediscover" => pc[u] = "rediscover" /\ loc'[u].failed = loc[u].failed
    BY <1>0, <1>3 DEF busresetHandler, GoTo, Open
  <2> QED BY <1>3, <1>s, <2>1 DEF busresetHandler
<1>4. CASE handleBusReset
  <2>1. /\ avDevices' = [i \in DOMAIN avDevices |-> updatedNodeId(avDevices[i])]
        /\ stale' = IF Ids(avDevices) \cap freed # {} THEN stale \cup {"reset"} ELSE stale
        /\ UNCHANGED <<elements, freed, nextId, slaveMode>>
    BY <1>4 DEF handleBusReset
  <2>2. \A i \in DOMAIN avDevices : updatedNodeId(avDevices[i]).id = avDevices[i].id
    BY Entries, Renumbered DEF DiscoveryTypeOK
  <2>3. Ids(avDevices)' = Ids(avDevices) BY <2>1, <2>2 DEF Ids
  <2>4. pc'["client"] = pc["client"] /\ pc'["reset"] # "rediscover" /\ loc'["client"] = loc["client"]
    BY <1>0, <1>4 DEF handleBusReset, GoTo, Local, Threads
  <2>5. Open' = Open BY <2>4 DEF Open
  <2>6. \A u \in Threads : pc'[u] = "rediscover" => loc'[u].failed \subseteq 0..(nextId - 1)
    BY <2>4 DEF LiveInv, Threads
  <2> QED BY <2>1, <2>3, <2>5, <2>6 DEF LiveInv
<1>5. CASE signalNotifiers
  <2>1. (Open' => Open) /\ \A u \in Threads : pc'[u] = "rediscover" => pc[u] = "rediscover" /\ loc'[u].failed = loc[u].failed
    BY <1>0, <1>5 DEF signalNotifiers, GoTo, Open
  <2> QED BY <1>5, <1>s, <2>1 DEF signalNotifiers
<1>6. CASE WalkStep
  <2>0. \A u \in Threads : pc'[u] = "rediscover" => u # "client" /\ pc[u] = "rediscover" /\ loc'[u] = loc[u]
    BY <1>0, <1>6 DEF WalkStep, GoTo, Local
  <2>1. Open BY <1>6 DEF WalkStep, Open
  <2> QED BY <1>6, <1>s, <2>0, <2>1 DEF WalkStep
<1>7. CASE UseDevice
  <2>0. \A u \in Threads : pc'[u] = "rediscover" => u # "client" /\ pc[u] = "rediscover" /\ loc'[u] = loc[u]
    BY <1>0, <1>7 DEF UseDevice, Local
  <2>1. Open /\ ("reset" \in stale' => "reset" \in stale) BY <1>7 DEF UseDevice, Open
  <2> QED BY <1>7, <1>s, <2>0, <2>1 DEF UseDevice
<1>8. CASE deleteManager
  <2>1. ~Open' /\ \A u \in Threads : pc'[u] = "rediscover" => pc[u] = "rediscover"
    BY <1>0, <1>8 DEF deleteManager, GoTo, Open, Threads
  <2>2. Ids(avDevices)' = Ids(avDevices) BY <1>8 DEF deleteManager, Ids
  <2>3. freed' = freed \cup Ids(avDevices) /\ UNCHANGED <<nextId, loc>> BY <1>8 DEF deleteManager
  <2> QED BY <1>0, <2>1, <2>2, <2>3 DEF LiveInv
<1>9. CASE deleteService
  <2>1. (Open' => Open) /\ \A u \in Threads : pc'[u] = "rediscover" => pc[u] = "rediscover" /\ loc'[u].failed = loc[u].failed
    BY <1>0, <1>9 DEF deleteService, GoTo, Open, Threads
  <2> QED BY <1>9, <1>s, <2>1 DEF deleteService
<1>10. CASE BusReset BY <1>10, <1>s DEF BusReset, Open
<1>11. CASE UNCHANGED discoveryVars BY <1>11, <1>s DEF discoveryVars, Open
<1> QED BY <1>1, <1>2, <1>3, <1>4, <1>5, <1>6, <1>7, <1>8, <1>9, <1>10, <1>11
    DEF DiscoveryNext, Stopped

-----------------------------------------------------------------------------
\* What is in the list.
LEMMA FlagKept ==
  ASSUME NEW x \in Locals
  PROVE  /\ [x EXCEPT !.i = @ + 1].rediscover = x.rediscover /\ [x EXCEPT !.i = 1].rediscover = x.rediscover
         /\ \A s : [x EXCEPT !.i = @ + 1, !.roms = @ \cup s].rediscover = x.rediscover
         /\ \A s : [x EXCEPT !.i = @ + 1, !.failed = @ \cup s].rediscover = x.rediscover
         /\ \A s : [x EXCEPT !.i = @ + 1, !.failed = s].rediscover = x.rediscover
<1>1. /\ [x EXCEPT !.i = @ + 1].rediscover = x.rediscover /\ [x EXCEPT !.i = 1].rediscover = x.rediscover
  BY DEF Locals
<1>2. \A s : [x EXCEPT !.i = @ + 1, !.roms = @ \cup s].rediscover = x.rediscover BY DEF Locals
<1>3. \A s : [x EXCEPT !.i = @ + 1, !.failed = @ \cup s].rediscover = x.rediscover BY DEF Locals
<1>4. \A s : [x EXCEPT !.i = @ + 1, !.failed = s].rediscover = x.rediscover BY DEF Locals
<1> QED BY <1>1, <1>2, <1>3, <1>4

LEMMA StartStep ==
  ASSUME DiscoveryTypeOK, LockInv, StartInv, [DiscoveryNext]_discoveryVars
  PROVE  StartInv'
<1> USE DEF busVars, restVars, listVars, GoTo, Local
<1>0. /\ pc \in [Threads -> DiscoverSteps \cup {"init", "walk", "close", "service", "done", "crashed",
                                                "idle", "nodes", "notify"}]
      /\ loc \in [Threads -> Locals] /\ "client" \in Threads /\ "reset" \in Threads /\ misses \in Nat
  BY DEF DiscoveryTypeOK, LockInv, Threads
<1>1. CASE initialize
  <2>1. /\ pc'["reset"] = pc["reset"] /\ pc["client"] = "init" /\ pc'["client"] \in {"scan", "close"}
        /\ loc' = loc /\ avDevices' = avDevices
        /\ misses' = 0 => service' = "up"
    BY <1>0, <1>1 DEF initialize, Fail
  <2> QED BY <2>1 DEF StartInv
<1>2. ASSUME NEW t \in Threads, discover(t) PROVE StartInv'
  <2>0. /\ pc[t] \in DiscoverSteps /\ UNCHANGED <<service, node, pending>> /\ (misses' = 0 => misses = 0)
        /\ pc'[t] # "init"
    <3>1. CASE discover_scan(t) BY <1>0, <3>1 DEF discover_scan, Fail, DiscoverSteps
    <3>2. CASE discover_prune(t) BY <1>0, <3>2 DEF discover_prune, DiscoverSteps
    <3>3. CASE discover_rediscover(t) BY <1>0, <3>3 DEF discover_rediscover, Fail, DiscoverSteps, Locked
    <3>4. CASE discover_add(t) BY <1>0, <3>4 DEF discover_add, Fail, DiscoverSteps, Locked
    <3>5. CASE discover_sort(t) BY <1>0, <3>5 DEF discover_sort, DiscoverSteps, Locked
    <3>6. CASE discover_post(t) BY <1>0, <3>6 DEF discover_post, DiscoverSteps
    <3>7. CASE discover_slave(t) BY <1>0, <3>7 DEF discover_slave, Fail, DiscoverSteps, Locked
    <3> QED BY <1>2, <3>1, <3>2, <3>3, <3>4, <3>5, <3>6, <3>7 DEF discover
  <2>1. loc'[t].rediscover = loc[t].rediscover
    <3>0. loc[t] \in Locals BY <1>0
    <3>x. PICK x \in Locals : x = loc[t] BY <3>0
    <3>1. CASE discover_scan(t)
      <4>1. \/ loc'[t] = x \/ loc'[t] = [x EXCEPT !.i = @ + 1]
            \/ \E a : loc'[t] = [x EXCEPT !.i = @ + 1, !.roms = @ \cup a]
        BY <1>0, <3>1, <3>x DEF discover_scan
      <4>2. [x EXCEPT !.i = @ + 1].rediscover = x.rediscover
        BY FlagKept
      <4>3. \A a : [x EXCEPT !.i = @ + 1, !.roms = @ \cup a].rediscover = x.rediscover BY FlagKept
      <4> QED BY <3>x, <4>1, <4>2, <4>3, ZenonT(40)
    <3>2. CASE discover_prune(t) BY <1>0, <3>0, <3>2 DEF discover_prune, Locals
    <3>3. CASE discover_rediscover(t)
      <4>1. \/ loc'[t] = [x EXCEPT !.i = 1] \/ loc'[t] = [x EXCEPT !.i = @ + 1]
            \/ \E a : loc'[t] = [x EXCEPT !.i = @ + 1, !.failed = @ \cup a]
        BY <1>0, <3>3, <3>x DEF discover_rediscover
      <4>2. [x EXCEPT !.i = @ + 1].rediscover = x.rediscover /\ [x EXCEPT !.i = 1].rediscover = x.rediscover
        BY FlagKept
      <4>3. \A a : [x EXCEPT !.i = @ + 1, !.failed = @ \cup a].rediscover = x.rediscover BY FlagKept
      <4>4. ASSUME NEW a, loc'[t] = [x EXCEPT !.i = @ + 1, !.failed = @ \cup a]
            PROVE  loc'[t].rediscover = x.rediscover
        BY <4>3, <4>4
      <4>5. CASE loc'[t] = [x EXCEPT !.i = 1] \/ loc'[t] = [x EXCEPT !.i = @ + 1] BY <3>x, <4>2, <4>5
      <4> QED BY <3>x, <4>1, <4>4, <4>5
    <3>4. CASE discover_add(t) BY <1>0, <3>0, <3>4 DEF discover_add, Locals
    <3>5. CASE discover_sort(t) BY <1>0, <3>0, <3>5 DEF discover_sort
    <3>6. CASE discover_post(t) BY <1>0, <3>0, <3>6 DEF discover_post, Locals
    <3>7. CASE discover_slave(t) BY <1>0, <3>0, <3>7 DEF discover_slave, Locals
    <3> QED BY <1>2, <3>1, <3>2, <3>3, <3>4, <3>5, <3>6, <3>7 DEF discover
  <2>2. pc'[t] \in {"scan", "prune"} => pc[t] \in {"scan", "prune"}
    <3>1. CASE discover_scan(t) BY <3>1 DEF discover_scan
    <3>2. CASE discover_prune(t) BY <3>2 DEF discover_prune
    <3>3. CASE discover_rediscover(t) BY <1>0, <3>3 DEF discover_rediscover
    <3>4. CASE discover_add(t) BY <3>4 DEF discover_add
    <3>5. CASE discover_sort(t) BY <1>0, <3>5 DEF discover_sort
    <3>6. CASE discover_post(t) BY <1>0, <3>6 DEF discover_post
    <3>7. CASE discover_slave(t) BY <1>0, <3>7 DEF discover_slave
    <3> QED BY <1>2, <3>1, <3>2, <3>3, <3>4, <3>5, <3>6, <3>7 DEF discover
  <2>3. CASE t = "client"
    <3>1. pc'["reset"] = pc["reset"] /\ loc'["reset"] = loc["reset"] BY <1>0, <1>2, <2>3, OthersStay
    <3>2. pc["client"] # "init" /\ Open BY <2>0, <2>3 DEF DiscoverSteps, Locked, Open
    <3> QED BY <2>0, <2>1, <2>3, <3>1, <3>2 DEF StartInv
  <2>4. CASE t = "reset"
    <3>1. pc'["client"] = pc["client"] /\ loc'["client"] = loc["client"] BY <1>0, <1>2, <2>4, OthersStay
    <3>2. pc["client"] # "init" BY <2>0, <2>4 DEF DiscoverSteps, Locked, StartInv
    <3> QED BY <2>0, <2>1, <2>2, <2>4, <3>1, <3>2 DEF StartInv, Open
  <2> QED BY <2>3, <2>4 DEF Threads
<1>3. CASE busresetHandler
  <2>1. pc["client"] # "init" BY <1>3 DEF busresetHandler, StartInv
  <2>2. pc'["client"] = pc["client"] /\ pc'["reset"] = "nodes" /\ UNCHANGED <<loc, service, misses>>
    BY <1>0, <1>3 DEF busresetHandler
  <2> QED BY <2>1, <2>2 DEF StartInv, Open
<1>4. CASE handleBusReset
  <2>1. pc["client"] # "init" BY <1>4 DEF handleBusReset, StartInv
  <2>2. /\ pc'["client"] = pc["client"] /\ pc'["reset"] = "scan" /\ loc'["client"] = loc["client"]
        /\ loc'["reset"] = [NoLocals EXCEPT !.rediscover = TRUE] /\ UNCHANGED <<service, misses>>
    BY <1>0, <1>4 DEF handleBusReset
  <2>3. loc'["reset"].rediscover BY <2>2 DEF NoLocals
  <2> QED BY <2>1, <2>2, <2>3 DEF StartInv, Open
<1>5. CASE signalNotifiers
  <2>1. pc["client"] # "init" BY <1>5 DEF signalNotifiers, StartInv
  <2>2. pc'["client"] = pc["client"] /\ pc'["reset"] = "idle" /\ UNCHANGED <<loc, service, misses>>
    BY <1>0, <1>5 DEF signalNotifiers
  <2> QED BY <2>1, <2>2 DEF StartInv, Open
<1>6. CASE WalkStep
  <2>1. /\ pc["client"] = "walk" /\ pc'["client"] \in {"walk", "close"} /\ pc'["reset"] = pc["reset"]
        /\ loc'["reset"] = loc["reset"] /\ UNCHANGED <<service, misses>>
    BY <1>0, <1>6 DEF WalkStep
  <2>2. ~loc'["client"].rediscover
    <3>1. loc["client"] \in Locals BY <1>0
    <3>2. \/ loc'["client"] = NoLocals
          \/ \E a : loc'["client"] = [loc["client"] EXCEPT !.i = @ + 1, !.failed = a]
      BY <1>0, <1>6 DEF WalkStep
    <3>3. NoLocals.rediscover = FALSE BY DEF NoLocals
    <3>4. PICK x \in Locals : x = loc["client"] BY <3>1
    <3>5. \A a : [x EXCEPT !.i = @ + 1, !.failed = a].rediscover = x.rediscover BY FlagKept
    <3>6. loc'["client"] = NoLocals \/ \E a : loc'["client"] = [x EXCEPT !.i = @ + 1, !.failed = a]
      BY <3>2, <3>4
    <3> QED BY <3>3, <3>4, <3>5, <3>6, ZenonT(40) DEF StartInv
  <2> QED BY <2>1, <2>2 DEF StartInv, Open
<1>7. CASE UseDevice
  <2>1. /\ pc["client"] = "walk" /\ pc' = pc /\ loc'["reset"] = loc["reset"] /\ UNCHANGED <<service, misses>>
        /\ loc'["client"] = [loc["client"] EXCEPT !.failed = {}] /\ loc["client"] \in Locals
    BY <1>0, <1>7 DEF UseDevice
  <2>2. ~loc'["client"].rediscover BY <2>1 DEF Locals, StartInv
  <2> QED BY <2>1, <2>2 DEF StartInv, Open
<1>8. CASE deleteManager
  <2>1. pc'["client"] = "service" /\ pc'["reset"] = pc["reset"] /\ loc' = loc BY <1>0, <1>8 DEF deleteManager
  <2> QED BY <2>1 DEF StartInv, Open
<1>9. CASE deleteService
  <2>1. pc'["client"] \in {"done", "crashed"} /\ pc'["reset"] = pc["reset"] /\ loc' = loc
    BY <1>0, <1>9 DEF deleteService
  <2> QED BY <2>1 DEF StartInv, Open
<1>10. CASE BusReset
  <2>1. UNCHANGED <<pc, loc, service, misses, avDevices>> /\ (service # "up" => pending' = pending)
    BY <1>10 DEF BusReset
  <2> QED BY <2>1 DEF StartInv, Open
<1>11. CASE UNCHANGED discoveryVars BY <1>11 DEF discoveryVars, StartInv, Open
<1> QED BY <1>1, <1>2, <1>3, <1>4, <1>5, <1>6, <1>7, <1>8, <1>9, <1>10, <1>11
    DEF DiscoveryNext, Stopped

\* The list after the deletion of devices, after a new one, after the sort, with new nodes.
LEMMA ListDeleted ==
  ASSUME DiscoveryTypeOK, NEW dead, DeleteDevices(dead)
  PROVE  /\ Range(avDevices') = {d \in Range(avDevices) : d.id \notin dead}
         /\ Listed' \subseteq Listed /\ (Distinct(avDevices) => Distinct(avDevices)')
<1>1. avDevices \in Seq(DeviceRecords) BY DEF DiscoveryTypeOK
<1>2. /\ Range(avDevices') = {d \in Range(avDevices) : d.id \notin dead}
      /\ Distinct(avDevices) => Distinct(avDevices')
  BY <1>1, ErasedIs DEF DeleteDevices
<1>3. Listed' = {d.guid : d \in Range(avDevices')} BY DEF Listed, Range
<1>4. Distinct(avDevices)' = Distinct(avDevices') BY DEF Distinct
<1> QED BY <1>2, <1>3, <1>4 DEF Listed

LEMMA ListAppended ==
  ASSUME DiscoveryTypeOK, NEW d, avDevices' = Append(avDevices, d),
         \A e \in Range(avDevices) : e.guid # d.guid
  PROVE  /\ Range(avDevices') = Range(avDevices) \cup {d} /\ Listed' = Listed \cup {d.guid}
         /\ Distinct(avDevices) => Distinct(avDevices)'
<1>1. avDevices \in Seq(DeviceRecords) BY DEF DiscoveryTypeOK
<1>2. PICK n \in Nat : n = Len(avDevices) BY Entries
<1>3. /\ DOMAIN avDevices = 1..n /\ DOMAIN avDevices' = 1..(n + 1) /\ avDevices'[n + 1] = d
      /\ \A i \in 1..n : avDevices'[i] = avDevices[i]
  BY <1>1, <1>2
<1>4. 1..(n + 1) = 1..n \cup {n + 1} OBVIOUS
<1>5. Range(avDevices') = Range(avDevices) \cup {d} BY <1>3, <1>4 DEF Range
<1>6. Listed' = {e.guid : e \in Range(avDevices')} BY DEF Listed, Range
<1>7. Listed' = Listed \cup {d.guid} BY <1>5, <1>6 DEF Listed
<1>8. ASSUME Distinct(avDevices) PROVE Distinct(avDevices)'
  <2>1. \A i \in 1..n : avDevices[i].guid # d.guid BY <1>3 DEF Range
  <2>2. ASSUME NEW i \in 1..(n + 1), NEW j \in 1..(n + 1), avDevices'[i].guid = avDevices'[j].guid PROVE i = j
    <3>1. CASE i \in 1..n /\ j \in 1..n BY <1>3, <1>8, <2>2, <3>1 DEF Distinct
    <3>2. CASE i \in 1..n /\ j = n + 1 BY <1>3, <2>1, <2>2, <3>2
    <3>3. CASE i = n + 1 /\ j \in 1..n BY <1>3, <2>1, <2>2, <3>3
    <3>4. CASE i = n + 1 /\ j = n + 1 BY <3>4
    <3> QED BY <1>4, <3>1, <3>2, <3>3, <3>4
  <2> QED BY <1>3, <2>2 DEF Distinct
<1> QED BY <1>5, <1>7, <1>8

LEMMA ListSorted ==
  ASSUME DiscoveryTypeOK, avDevices' \in sorted(avDevices), Distinct(avDevices)
  PROVE  Range(avDevices') = Range(avDevices) /\ Listed' = Listed /\ Distinct(avDevices)' /\ Ordered(avDevices)'
<1>1. avDevices \in Seq(DeviceRecords) BY DEF DiscoveryTypeOK
<1>2. PICK r \in sorted(avDevices) : r = avDevices' OBVIOUS
<1>3. Range(r) = Range(avDevices) /\ Distinct(r) /\ Ordered(r) BY <1>1, <1>2, SortedIs
<1>4. Listed' = {e.guid : e \in Range(avDevices')} BY DEF Listed, Range
<1>5. Distinct(avDevices)' = Distinct(avDevices') BY DEF Distinct
<1>6. Ordered(avDevices)' = Ordered(avDevices') BY DEF Ordered, compare, compareGUID, matchPosition
<1> QED BY <1>2, <1>3, <1>4, <1>5, <1>6 DEF Listed

LEMMA ListRenumbered ==
  ASSUME DiscoveryTypeOK, EntriesInv, ~slaveMode,
         avDevices' = [i \in DOMAIN avDevices |-> updatedNodeId(avDevices[i])]
  PROVE  /\ Listed' = Listed /\ Distinct(avDevices)'
         /\ \A d \in Range(avDevices') : d.node = node[d.guid]
<1>1. ASSUME NEW i \in DOMAIN avDevices
      PROVE  /\ avDevices'[i].guid = avDevices[i].guid
             /\ avDevices'[i].node = node[avDevices'[i].guid]
  <2>1. PICK d \in DeviceRecords : d = avDevices[i] BY Entries
  <2>2. PICK f \in Placements : node = f BY DEF DiscoveryTypeOK
  <2>3. d.guid \in Guids BY <2>1 DEF EntriesInv, Listed, Range, Wanted
  <2>4. updatedNodeId(d).guid = d.guid /\ updatedNodeId(d).node = node[d.guid] BY <2>2, <2>3, Renumbered
  <2> QED BY <2>1, <2>4
<1>2. DOMAIN avDevices' = DOMAIN avDevices OBVIOUS
<1>3. Listed' = {avDevices'[i].guid : i \in DOMAIN avDevices'} BY DEF Listed, Range
<1>4. Listed = {avDevices[i].guid : i \in DOMAIN avDevices} BY DEF Listed, Range
<1>5. Listed' = Listed BY <1>1, <1>2, <1>3, <1>4
<1>6. Distinct(avDevices)' BY <1>1, <1>2 DEF Distinct, EntriesInv
<1>7. \A d \in Range(avDevices') : d.node = node[d.guid] BY <1>1, <1>2 DEF Range
<1> QED BY <1>5, <1>6, <1>7

LEMMA EntriesStep ==
  ASSUME DiscoveryTypeOK, LockInv, EntriesInv, [DiscoveryNext]_discoveryVars
  PROVE  EntriesInv'
<1> USE DEF busVars, restVars, listVars
<1>s. ASSUME UNCHANGED <<avDevices, slaveMode>> PROVE EntriesInv'
  BY <1>s DEF EntriesInv, Listed, Distinct, Range
<1>d. ASSUME NEW dead, DeleteDevices(dead), slaveMode' = slaveMode PROVE EntriesInv'
  BY <1>d, ListDeleted DEF EntriesInv
<1>1. CASE initialize BY <1>1, <1>s DEF initialize
<1>2. ASSUME NEW t \in Threads, discover(t) PROVE EntriesInv'
  <2>1. CASE discover_scan(t) BY <2>1, <1>s DEF discover_scan
  <2>2. CASE discover_prune(t) BY <2>2, <1>d DEF discover_prune
  <2>3. CASE discover_rediscover(t) BY <2>3, <1>s, <1>d DEF discover_rediscover
  <2>4. CASE discover_add(t)
    <3>0. slaveMode' = slaveMode BY <2>4 DEF discover_add
    <3>1. CASE avDevices' = avDevices BY <1>s, <3>0, <3>1
    <3>2. CASE avDevices' # avDevices
      <4>1. PICK g \in Wanted : /\ \A d \in Range(avDevices) : d.guid # g
                                /\ avDevices' = Append(avDevices, [guid |-> g, id |-> nextId, node |-> loc[t].i])
        BY <2>4, <3>2 DEF discover_add
      <4>2. PICK d : d = [guid |-> g, id |-> nextId, node |-> loc[t].i] OBVIOUS
      <4>3. d.guid = g BY <4>2
      <4>4. Listed' = Listed \cup {d.guid} /\ (Distinct(avDevices) => Distinct(avDevices)')
        BY <4>1, <4>2, <4>3, ListAppended
      <4> QED BY <3>0, <4>3, <4>4 DEF EntriesInv
    <3> QED BY <3>1, <3>2
  <2>5. CASE discover_sort(t)
    <3>1. slaveMode' = slaveMode /\ avDevices' \in sorted(avDevices) BY <2>5 DEF discover_sort
    <3> QED BY <3>1, ListSorted DEF EntriesInv
  <2>6. CASE discover_post(t) BY <2>6, <1>s DEF discover_post
  <2>7. CASE discover_slave(t) BY <2>7 DEF discover_slave, LockInv, EntriesInv
  <2> QED BY <1>2, <2>1, <2>2, <2>3, <2>4, <2>5, <2>6, <2>7 DEF discover
<1>3. CASE busresetHandler BY <1>3, <1>s DEF busresetHandler
<1>4. CASE handleBusReset
  <2>1. slaveMode' = slaveMode /\ avDevices' = [i \in DOMAIN avDevices |-> updatedNodeId(avDevices[i])]
    BY <1>4 DEF handleBusReset
  <2> QED BY <2>1, ListRenumbered DEF EntriesInv
<1>5. CASE signalNotifiers BY <1>5, <1>s DEF signalNotifiers
<1>6. CASE WalkStep BY <1>6, <1>s DEF WalkStep
<1>7. CASE UseDevice BY <1>7, <1>s DEF UseDevice
<1>8. CASE deleteManager BY <1>8, <1>s DEF deleteManager
<1>9. CASE deleteService BY <1>9, <1>s DEF deleteService
<1>10. CASE BusReset BY <1>10, <1>s DEF BusReset
<1>11. CASE UNCHANGED discoveryVars BY <1>11, <1>s DEF discoveryVars
<1> QED BY <1>1, <1>2, <1>3, <1>4, <1>5, <1>6, <1>7, <1>8, <1>9, <1>10, <1>11
    DEF DiscoveryNext, Stopped

-----------------------------------------------------------------------------
\* How much of the bus the list covers.
LEMMA BusStays ==
  ASSUME BusInv, UNCHANGED <<avDevices, node>>, Caught' => Caught, RomsRight => RomsRight',
         \A t \in Threads : Covered(t) => Covered(t)', Searched' => Searched
  PROVE  BusInv'
<1>1. NodesRight => NodesRight' BY DEF NodesRight, Range
<1>2. Listed' = Listed /\ Present' = Present BY DEF Listed, Present, Range
<1>3. Ordered(avDevices)' = Ordered(avDevices) BY DEF Ordered, compare, compareGUID, matchPosition
<1>4. Complete => Complete' BY <1>2, <1>3 DEF Complete
<1> QED BY <1>1, <1>4 DEF BusInv

LEMMA CoveredStays ==
  ASSUME NEW t \in Threads, UNCHANGED <<avDevices, node>>, Covered(t), pc'[t] = pc[t], loc'[t] = loc[t]
  PROVE  Covered(t)'
BY DEF Covered, Listed, Range

LEMMA RomsStay ==
  ASSUME UNCHANGED node, RomsRight, pc'["reset"] = pc["reset"], loc'["reset"] = loc["reset"]
  PROVE  RomsRight'
BY DEF RomsRight

\* The client, before anything is in the list.
LEMMA BusEmpty ==
  ASSUME avDevices' = <<>>, pc'["reset"] = "idle", pc'["client"] \in {"init", "scan"}
  PROVE  BusInv'
<1>1. Range(avDevices') = {} BY DEF Range
<1>2. NodesRight' BY <1>1 DEF NodesRight, Range
<1>3. RomsRight' BY DEF RomsRight
<1>4. \A t \in Threads : Covered(t)' BY DEF Covered, Threads
<1>5. Complete' BY DEF Complete, Searched
<1> QED BY <1>2, <1>3, <1>4, <1>5 DEF BusInv

LEMMA BusDiscover ==
  ASSUME DiscoveryTypeOK, LockInv, StartInv, EntriesInv, BusInv, NEW t \in Threads, discover(t)
  PROVE  BusInv'
<1> USE DEF busVars, restVars, listVars, GoTo, Local
<1>0. /\ DOMAIN pc = Threads /\ DOMAIN loc = Threads /\ "client" \in Threads /\ "reset" \in Threads
      /\ loc[t] \in Locals /\ loc[t].i \in Nat \ {0} /\ misses \in Nat
  BY LocalSteps DEF DiscoveryTypeOK, LockInv, Threads
<1>n. PICK N \in Nat : N = Cardinality(Guids) BY NodesAre
<1>f. node \in [Guids -> {Gone} \cup 1..N] /\ \A g, h \in Guids : node[g] = node[h] => g = h \/ node[g] = Gone
  BY <1>n DEF DiscoveryTypeOK, Placements, Nodes
<1>o. \A u \in Threads : u # t => pc'[u] = pc[u] /\ loc'[u] = loc[u] BY OthersStay
<1>r. t = "client" => (RomsRight /\ node' = node => RomsRight') BY <1>0, <1>o, RomsStay
<1>1. CASE discover_scan(t)
  <2>1. /\ pc[t] = "scan" /\ pc'[t] \in {"scan", "prune"} /\ UNCHANGED <<avDevices, node, pending, slaveMode>>
        /\ misses' = 0 => misses = 0
    BY <1>0, <1>1 DEF discover_scan, Fail
  <2>2. Caught' => Caught BY <1>0, <1>o, <2>1 DEF Caught, Open, Threads
  <2>3. ~Searched' BY <2>1 DEF Searched, Threads
  <2>4. \A u \in Threads : Covered(u) => Covered(u)'
    <3>1. Covered(t)' BY <2>1 DEF Covered
    <3> QED BY <1>o, <2>1, <3>1, CoveredStays
  <2>5. ASSUME Caught', t = "reset", RomsRight PROVE RomsRight'
    <3>0. misses' = 0 BY <2>5 DEF Caught
    <3>1. CASE loc[t].i \in Nodes
      <4>1. loc'[t] = [loc[t] EXCEPT !.i = @ + 1, !.roms = @ \cup At(loc[t].i)] /\ pc'[t] = "scan"
        BY <1>0, <1>1, <3>0, <3>1 DEF discover_scan, Fail
      <4>2. loc'[t].i = loc[t].i + 1 /\ loc'[t].roms = loc[t].roms \cup At(loc[t].i)
        <5>1. PICK x \in Locals : x = loc[t] BY <1>0
        <5>2. \A a : [x EXCEPT !.i = @ + 1, !.roms = @ \cup a].i = x.i + 1 BY DEF Locals
        <5>3. \A a : [x EXCEPT !.i = @ + 1, !.roms = @ \cup a].roms = x.roms \cup a BY DEF Locals
        <5> QED BY <4>1, <5>1, <5>2, <5>3
      <4>3. \A g \in loc'[t].roms : node[g] # Gone BY <2>1, <2>5, <3>1, <4>2 DEF RomsRight, At, Gone, Nodes
      <4>4. ASSUME NEW g \in Guids, node[g] \in 1..(loc'[t].i - 1) PROVE g \in loc'[t].roms
        <5>1. node[g] \in 1..(loc[t].i - 1) \/ node[g] = loc[t].i BY <1>0, <4>2, <4>4
        <5> QED BY <2>1, <2>5, <4>2, <5>1 DEF RomsRight, At
      <4> QED BY <2>1, <2>5, <4>1, <4>3, <4>4 DEF RomsRight
    <3>2. CASE loc[t].i \notin Nodes
      <4>1. pc'[t] = "prune" /\ loc' = loc BY <1>0, <1>1, <3>2 DEF discover_scan
      <4>2. loc[t].i >= N + 1 BY <1>0, <1>n, <3>2 DEF Nodes
      <4>3. \A g \in Guids : node[g] # Gone => node[g] \in 1..(loc[t].i - 1) BY <1>0, <1>f, <4>2
      <4>4. loc[t].roms \subseteq Guids BY LocalSteps
      <4>5. loc[t].roms = {g \in Guids : node[g] # Gone} BY <2>1, <2>5, <4>3, <4>4 DEF RomsRight
      <4> QED BY <2>1, <2>5, <4>1, <4>5 DEF RomsRight
    <3> QED BY <3>1, <3>2
  <2>6. CASE Caught'
    <3>1. RomsRight => RomsRight' BY <1>r, <2>1, <2>5, <2>6 DEF Threads
    <3> QED BY <2>1, <2>2, <2>3, <2>4, <3>1, BusStays
  <2> QED BY <2>6 DEF BusInv
<1>2. CASE discover_prune(t)
  <2> DEFINE dead == {d.id : d \in {e \in Range(avDevices) : ~Kept(t, e)}}
  <2>1. /\ pc[t] = "prune" /\ pc'[t] \in {"slave", "rediscover"} /\ listLock = Free
        /\ UNCHANGED <<node, pending, slaveMode, misses>> /\ DeleteDevices(dead)
    BY <1>0, <1>2 DEF discover_prune
  <2>2. \A d \in Range(avDevices') : d \in Range(avDevices) /\ Kept(t, d)
    <3>1. \A d \in Range(avDevices) : ~Kept(t, d) => d.id \in dead OBVIOUS
    <3> HIDE DEF dead
    <3> QED BY <2>1, <3>1, ListDeleted
  <2> HIDE DEF dead
  <2> SUFFICES ASSUME Caught' PROVE BusInv' BY DEF BusInv
  <2>3. Caught BY <1>0, <1>o, <2>1 DEF Caught, Open, Threads
  <2>4. NodesRight' BY <2>1, <2>2, <2>3 DEF BusInv, NodesRight
  <2>5. RomsRight'
    <3>1. CASE t = "client" BY <1>r, <2>1, <2>3, <3>1 DEF BusInv
    <3>2. CASE t = "reset" BY <2>1, <3>2 DEF RomsRight
    <3> QED BY <3>1, <3>2 DEF Threads
  <2>6. Covered(t)'
    <3>1. ASSUME NEW d \in Range(avDevices') PROVE d.node # Gone
      <4>1. loc[t].rediscover /\ d.guid \in loc[t].roms /\ d \in Range(avDevices) BY <2>2 DEF Kept
      <4>2. t = "reset" BY <4>1 DEF StartInv, Threads
      <4>3. loc[t].roms = {g \in Guids : node[g] # Gone} /\ d.node = node[d.guid]
        BY <2>1, <2>3, <4>1, <4>2 DEF BusInv, RomsRight, NodesRight
      <4> QED BY <4>1, <4>3
    <3> QED BY <2>1, <3>1 DEF Covered
  <2>7. \A u \in Threads : u # t => Covered(u)'
    <3>1. \A u \in Threads : pc[u] \notin Locked BY <2>1 DEF LockInv, Free, Threads
    <3> QED BY <1>o, <3>1 DEF Covered, Locked
  <2>8. Complete' BY <2>1 DEF Complete, Searched, Threads
  <2> QED BY <2>4, <2>5, <2>6, <2>7, <2>8 DEF BusInv
<1>3. CASE discover_rediscover(t)
  <2>1. /\ pc[t] = "rediscover" /\ pc'[t] \in {"rediscover", "add"}
        /\ UNCHANGED <<node, pending, slaveMode>> /\ (misses' = 0 => misses = 0)
        /\ avDevices' = avDevices \/ DeleteDevices(loc[t].failed)
        /\ pc'[t] = "add" => loc'[t] = [loc[t] EXCEPT !.i = 1]
    BY <1>0, <1>3 DEF discover_rediscover, Fail
  <2>2. \A d \in Range(avDevices') : d \in Range(avDevices) BY <2>1, ListDeleted
  <2> SUFFICES ASSUME Caught' PROVE BusInv' BY DEF BusInv
  <2>3. Caught BY <1>0, <1>o, <2>1 DEF Caught, Open, Threads
  <2>4. NodesRight' BY <2>1, <2>2, <2>3 DEF BusInv, NodesRight
  <2>5. RomsRight'
    <3>1. CASE t = "client" BY <1>r, <2>1, <2>3, <3>1 DEF BusInv
    <3>2. CASE t = "reset" BY <2>1, <3>2 DEF RomsRight
    <3> QED BY <3>1, <3>2 DEF Threads
  <2>6. Covered(t)'
    <3>1. \A d \in Range(avDevices') : d.node # Gone BY <2>1, <2>2, <2>3 DEF BusInv, Covered
    <3>2. ASSUME pc'[t] = "add" PROVE loc'[t].i = 1 BY <1>0, <2>1, <3>2 DEF Locals
    <3>3. \A g \in Wanted : node'[g] \notin 1..0 OBVIOUS
    <3> QED BY <3>1, <3>2, <3>3 DEF Covered
  <2>7. \A u \in Threads : u # t => Covered(u)'
    <3>1. \A u \in Threads : u # t => pc[u] \notin Locked BY <2>1 DEF LockInv, Locked
    <3> QED BY <1>o, <3>1 DEF Covered, Locked
  <2>8. Complete' BY <2>1 DEF Complete, Searched, Threads
  <2> QED BY <2>4, <2>5, <2>6, <2>7, <2>8 DEF BusInv
<1>4. CASE discover_add(t)
  <2>1. /\ pc[t] = "add" /\ pc' = pc /\ loc[t].i \in Nodes /\ loc'[t] = [loc[t] EXCEPT !.i = @ + 1]
        /\ UNCHANGED <<node, pending, slaveMode>> /\ (misses' = 0 => misses = 0)
    BY <1>0, <1>4 DEF discover_add, Fail
  <2>2. loc'[t].i = loc[t].i + 1 BY <1>0, <2>1 DEF Locals
  <2> SUFFICES ASSUME Caught' PROVE BusInv' BY DEF BusInv
  <2>3. Caught BY <2>1 DEF Caught, Open
  <2>4. /\ NodesRight' /\ Listed \subseteq Listed' /\ \A d \in Range(avDevices') : d.node # Gone
        /\ \A g \in Wanted : node[g] = loc[t].i => g \in Listed'
    <3>0. NodesRight /\ \A d \in Range(avDevices) : d.node # Gone BY <2>1, <2>3 DEF BusInv, Covered
    <3> DEFINE new == {g \in At(loc[t].i) \cap Wanted : \A d \in Range(avDevices) : d.guid # g}
    <3>1. \A g \in Wanted : node[g] = loc[t].i => g \in Listed \cup new BY DEF At, Listed, Wanted
    <3>2. CASE new = {}
      <4>1. avDevices' = avDevices BY <1>4, <3>2 DEF discover_add
      <4>2. Listed' = Listed BY <4>1 DEF Listed, Range
      <4> QED BY <2>1, <3>0, <3>1, <3>2, <4>1, <4>2 DEF NodesRight
    <3>3. CASE new # {}
      <4>1. PICK g \in new : avDevices' = Append(avDevices, [guid |-> g, id |-> nextId, node |-> loc[t].i])
        <5>1. misses' # misses + 1 BY <1>0, <2>3 DEF Caught
        <5> QED BY <1>4, <3>3, <5>1 DEF discover_add, Fail
      <4>2. PICK d : d = [guid |-> g, id |-> nextId, node |-> loc[t].i] OBVIOUS
      <4>3. d.guid = g /\ d.node = loc[t].i /\ node[g] = loc[t].i /\ g \in Guids BY <4>1, <4>2 DEF At
      <4>4. \A e \in Range(avDevices) : e.guid # d.guid BY <4>1, <4>3
      <4>5. Range(avDevices') = Range(avDevices) \cup {d} /\ Listed' = Listed \cup {d.guid}
        BY <4>1, <4>2, <4>4, ListAppended
      <4>6. \A h \in new : h = g BY <1>0, <1>f, <4>3 DEF At, Gone
      <4>7. loc[t].i # Gone BY <1>0 DEF Gone
      <4> QED BY <2>1, <3>0, <3>1, <4>3, <4>5, <4>6, <4>7 DEF NodesRight
    <3> QED BY <3>2, <3>3
  <2>5. RomsRight'
    <3>1. CASE t = "client" BY <1>r, <2>1, <2>3, <3>1 DEF BusInv
    <3>2. CASE t = "reset" BY <2>1, <3>2 DEF RomsRight
    <3> QED BY <3>1, <3>2 DEF Threads
  <2>6. Covered(t)'
    <3>1. ASSUME NEW g \in Wanted, node[g] \in 1..(loc'[t].i - 1) PROVE g \in Listed'
      <4>1. node[g] \in 1..(loc[t].i - 1) \/ node[g] = loc[t].i BY <1>0, <2>2, <3>1
      <4>2. node[g] \in 1..(loc[t].i - 1) => g \in Listed BY <2>1, <2>3 DEF BusInv, Covered
      <4> QED BY <2>4, <4>1, <4>2
    <3> QED BY <2>1, <2>4, <3>1 DEF Covered
  <2>7. \A u \in Threads : u # t => Covered(u)'
    <3>1. \A u \in Threads : u # t => pc[u] \notin Locked BY <2>1 DEF LockInv, Locked
    <3> QED BY <2>1, <3>1 DEF Covered, Locked
  <2>8. Complete' BY <2>1 DEF Complete, Searched, Threads
  <2> QED BY <2>4, <2>5, <2>6, <2>7, <2>8 DEF BusInv
<1>5. CASE discover_sort(t)
  <2>1. /\ pc[t] = "add" /\ pc'[t] = "post" /\ loc[t].i \notin Nodes /\ ~slaveMode
        /\ avDevices' \in sorted(avDevices) /\ UNCHANGED <<node, pending, slaveMode, misses>>
    BY <1>0, <1>5 DEF discover_sort, LockInv
  <2>2. Range(avDevices') = Range(avDevices) /\ Listed' = Listed /\ Ordered(avDevices)'
    BY <2>1, ListSorted DEF EntriesInv
  <2> SUFFICES ASSUME Caught' PROVE BusInv' BY DEF BusInv
  <2>3. Caught BY <1>0, <1>o, <2>1 DEF Caught, Open, Threads
  <2>4. NodesRight' BY <2>1, <2>2, <2>3 DEF BusInv, NodesRight
  <2>5. RomsRight'
    <3>1. CASE t = "client" BY <1>r, <2>1, <2>3, <3>1 DEF BusInv
    <3>2. CASE t = "reset" BY <2>1, <3>2 DEF RomsRight
    <3> QED BY <3>1, <3>2 DEF Threads
  <2>6. \A u \in Threads : Covered(u)'
    <3>1. \A u \in Threads : u # t => pc[u] \notin Locked BY <2>1 DEF LockInv, Locked
    <3> QED BY <1>o, <2>1, <3>1 DEF Covered, Locked
  <2>7. Listed = Present
    <3>1. loc[t].i >= N + 1 BY <1>0, <1>n, <2>1 DEF Nodes
    <3>2. \A g \in Guids : node[g] # Gone => node[g] \in 1..(loc[t].i - 1) BY <1>0, <1>f, <3>1
    <3>3. Present \subseteq Listed BY <2>1, <2>3, <3>2 DEF BusInv, Covered, Present, Wanted
    <3>4. ASSUME NEW d \in Range(avDevices) PROVE d.guid \in Present
      <4>1. d.node # Gone /\ d.node = node[d.guid] BY <2>1, <2>3 DEF BusInv, Covered, NodesRight
      <4>2. d.guid \in Wanted BY <2>1 DEF EntriesInv, Listed
      <4> QED BY <4>1, <4>2 DEF Present
    <3> QED BY <3>3, <3>4 DEF Listed
  <2>8. Complete'
    <3>1. Present' = Present BY <2>1 DEF Present
    <3> QED BY <2>2, <2>7, <3>1 DEF Complete
  <2> QED BY <2>4, <2>5, <2>6, <2>8 DEF BusInv
<1>6. CASE discover_post(t)
  <2>1. /\ pc[t] = "post" /\ pc'[t] = (IF t = "client" THEN "walk" ELSE "notify")
        /\ UNCHANGED <<avDevices, node, pending, slaveMode, misses>>
    BY <1>0, <1>6 DEF discover_post
  <2>2. Caught' => Caught BY <1>0, <1>o, <2>1 DEF Caught, Open, Threads
  <2>3. Searched' => Searched BY <1>0, <1>o, <2>1 DEF Searched, Threads
  <2>4. \A u \in Threads : Covered(u) => Covered(u)'
    <3>1. Covered(t)' BY <2>1 DEF Covered
    <3> QED BY <1>o, <2>1, <3>1, CoveredStays
  <2>5. RomsRight => RomsRight'
    <3>1. CASE t = "client" BY <1>r, <2>1, <3>1
    <3>2. CASE t = "reset" BY <2>1, <3>2 DEF RomsRight
    <3> QED BY <3>1, <3>2 DEF Threads
  <2> QED BY <2>1, <2>2, <2>3, <2>4, <2>5, BusStays
<1>7. CASE discover_slave(t)
  <2>1. slaveMode' BY <1>7 DEF discover_slave, LockInv
  <2> QED BY <2>1 DEF BusInv, Caught
<1> QED BY <1>1, <1>2, <1>3, <1>4, <1>5, <1>6, <1>7 DEF discover

LEMMA BusStep ==
  ASSUME DiscoveryTypeOK, LockInv, StartInv, EntriesInv, BusInv, [DiscoveryNext]_discoveryVars
  PROVE  BusInv'
<1> USE DEF busVars, restVars, listVars, GoTo, Local
<1>0. /\ DOMAIN pc = Threads /\ DOMAIN loc = Threads /\ "client" \in Threads /\ "reset" \in Threads
      /\ misses \in Nat /\ pending \in Nat
  BY DEF DiscoveryTypeOK, LockInv, Threads
\* Steps of one thread outside of discover, that leave list and bus alone.
<1>s. ASSUME UNCHANGED <<avDevices, node>>, Caught' => Caught, RomsRight => RomsRight', Searched' => Searched,
             \A u \in Threads : \/ pc'[u] \notin {"rediscover", "add"}
                                \/ pc'[u] = pc[u] /\ loc'[u] = loc[u]
      PROVE  BusInv'
  <2>1. \A u \in Threads : Covered(u) => Covered(u)' BY <1>s, CoveredStays DEF Covered
  <2> QED BY <1>s, <2>1, BusStays
<1>1. CASE initialize
  <2>1. avDevices' = <<>> /\ pc'["reset"] = "idle" /\ pc'["client"] \in {"scan", "close"}
    BY <1>0, <1>1 DEF initialize, StartInv
  <2>2. misses' = 0 => pc'["client"] = "scan" BY <1>0, <1>1 DEF initialize, Fail
  <2> QED BY <2>1, <2>2, BusEmpty DEF BusInv, Caught
<1>2. ASSUME NEW t \in Threads, discover(t) PROVE BusInv' BY <1>2, BusDiscover
<1>3. CASE busresetHandler BY <1>0, <1>3 DEF busresetHandler, BusInv, Caught
<1>4. CASE handleBusReset
  <2>1. /\ avDevices' = [i \in DOMAIN avDevices |-> updatedNodeId(avDevices[i])]
        /\ pc'["reset"] = "scan" /\ pc'["client"] = pc["client"] /\ listLock = Free
        /\ loc'["reset"] = [NoLocals EXCEPT !.rediscover = TRUE] /\ UNCHANGED <<node, slaveMode>>
    BY <1>0, <1>4 DEF handleBusReset
  <2> SUFFICES ASSUME Caught' PROVE BusInv' BY DEF BusInv
  <2>2. ~slaveMode BY <2>1 DEF Caught
  <2>3. NodesRight' BY <2>1, <2>2, ListRenumbered DEF NodesRight
  <2>4. loc'["reset"].i = 1 /\ loc'["reset"].roms = {} BY <2>1 DEF NoLocals
  <2>5. RomsRight'
    <3>1. 1..(loc'["reset"].i - 1) = {} BY <2>4
    <3> QED BY <2>1, <2>4, <3>1 DEF RomsRight
  <2>6. \A u \in Threads : Covered(u)'
    <3>1. pc["client"] \notin Locked BY <1>0, <2>1 DEF LockInv, Free
    <3> QED BY <2>1, <3>1 DEF Covered, Locked, Threads
  <2>7. Complete' BY <2>1 DEF Complete, Searched
  <2> QED BY <2>3, <2>5, <2>6, <2>7 DEF BusInv
<1>5. CASE signalNotifiers
  <2>1. /\ pc["reset"] = "notify" /\ pc'["reset"] = "idle" /\ pc'["client"] = pc["client"]
        /\ UNCHANGED <<loc, avDevices, node, slaveMode, misses, pending>>
    BY <1>0, <1>5 DEF signalNotifiers
  <2>2. (Caught' => Caught) /\ (Searched' => Searched) /\ RomsRight' BY <2>1 DEF Caught, Open, Searched, RomsRight
  <2> QED BY <1>s, <2>1, <2>2 DEF Threads
<1>6. CASE WalkStep
  <2>1. /\ pc["client"] = "walk" /\ pc'["client"] \in {"walk", "close"} /\ pc'["reset"] = pc["reset"]
        /\ loc'["reset"] = loc["reset"] /\ UNCHANGED <<avDevices, node, slaveMode, misses, pending>>
    BY <1>0, <1>6 DEF WalkStep
  <2>2. (Caught' => Caught) /\ (Searched' => Searched) BY <2>1 DEF Caught, Open, Searched
  <2>3. RomsRight => RomsRight' BY <2>1, RomsStay
  <2> QED BY <1>s, <2>1, <2>2, <2>3 DEF Threads
<1>7. CASE UseDevice
  <2>1. /\ pc["client"] = "walk" /\ pc' = pc
        /\ loc'["reset"] = loc["reset"] /\ UNCHANGED <<avDevices, node, slaveMode, misses, pending>>
    BY <1>0, <1>7 DEF UseDevice
  <2>2. (Caught' => Caught) /\ (Searched' => Searched) BY <2>1 DEF Caught, Open, Searched
  <2>3. RomsRight => RomsRight' BY <2>1, RomsStay
  <2> QED BY <1>s, <2>1, <2>2, <2>3 DEF Threads
<1>8. CASE deleteManager BY <1>0, <1>8 DEF deleteManager, BusInv, Caught, Open
<1>9. CASE deleteService BY <1>0, <1>9 DEF deleteService, BusInv, Caught, Open
<1>10. CASE BusReset
  <2>1. UNCHANGED <<pc, loc, avDevices, service, misses>> /\ (service = "up" => pending' = pending + 1)
    BY <1>10 DEF BusReset
  <2> SUFFICES ASSUME Caught' PROVE BusInv' BY DEF BusInv
  <2>2. service # "up" /\ Open /\ misses = 0 BY <1>0, <2>1 DEF Caught, Open
  <2>3. pc["client"] = "init" BY <2>2 DEF StartInv
  <2> QED BY <2>1, <2>3, BusEmpty DEF StartInv
<1>11. CASE UNCHANGED discoveryVars
  <2>1. /\ UNCHANGED <<avDevices, node>> /\ (Caught' => Caught) /\ (Searched' => Searched)
        /\ \A u \in Threads : pc'[u] = pc[u] /\ loc'[u] = loc[u]
    BY <1>11 DEF discoveryVars, Caught, Open, Searched
  <2>2. RomsRight => RomsRight' BY <1>0, <2>1, RomsStay
  <2> QED BY <1>s, <2>1, <2>2
<1> QED BY <1>1, <1>2, <1>3, <1>4, <1>5, <1>6, <1>7, <1>8, <1>9, <1>10, <1>11
    DEF DiscoveryNext, Stopped

LEMMA DiscoveryInitial == DiscoveryInit => DiscoveryIInv
<1> SUFFICES ASSUME DiscoveryInit PROVE DiscoveryIInv OBVIOUS
<1>1. /\ node \in Placements /\ pending = 0 /\ service = "none" /\ avDevices = <<>> /\ freed = {} /\ nextId = 1
      /\ elements = {} /\ listLock = Free /\ resetLock = Free /\ misses = 0 /\ updating = 0 /\ stale = {}
      /\ slaveMode \in BOOLEAN /\ abandoned = FALSE
  BY DEF DiscoveryInit
<1>2. /\ pc \in [Threads -> {"init", "idle"}] /\ pc["client"] = "init" /\ pc["reset"] = "idle"
      /\ loc = [t \in Threads |-> NoLocals]
  BY DEF DiscoveryInit, Threads
<1>3. NoLocals \in Locals /\ NoLocals.rediscover = FALSE BY DEF NoLocals, Locals
<1>4. <<>> \in Seq(DeviceRecords) OBVIOUS
<1>5. DiscoveryTypeOK
  <2>1. loc \in [Threads -> Locals] BY <1>2, <1>3
  <2>2. abandoned \in BOOLEAN BY <1>1
  <2> QED BY <1>1, <1>4, <2>1, <2>2 DEF DiscoveryTypeOK
<1>6. LockInv BY <1>1, <1>2 DEF LockInv, Locked, DiscoverSteps, Notified, Threads, Free
<1>7. Ids(avDevices) = {} /\ Range(avDevices) = {} /\ Listed = {} BY <1>1 DEF Ids, Range, Listed
<1>8. LiveInv
  <2>1. \A t \in Threads : pc[t] # "rediscover" BY <1>2
  <2> QED BY <1>1, <1>7, <2>1 DEF LiveInv
<1>9. StartInv BY <1>1, <1>2, <1>3 DEF StartInv, Threads
<1>10. EntriesInv BY <1>1, <1>7 DEF EntriesInv, Distinct
<1>11. BusInv BY <1>2, <1>7 DEF BusInv, NodesRight, RomsRight, Covered, Complete, Searched, Threads
<1> QED BY <1>5, <1>6, <1>8, <1>9, <1>10, <1>11 DEF DiscoveryIInv

-----------------------------------------------------------------------------
\* Throughout, the thread in a section of discover holds the lock of the list, deleted objects
\* have left the list and the tree, and the list covers the part of the bus that the threads
\* have read since the last reset: for any number of devices, resets and failures.
THEOREM AlwaysDiscoveryIInv == DiscoverySpec => []DiscoveryIInv
<1>1. DiscoveryIInv /\ [DiscoveryNext]_discoveryVars => DiscoveryIInv'
  BY TypeStep, LockStep, LiveStep, StartStep, EntriesStep, BusStep DEF DiscoveryIInv
<1> QED BY <1>1, DiscoveryInitial, PTL DEF DiscoverySpec

\* When every reset has been handled and nothing failed, the list is the bus, whatever changed
\* while the client and the reset thread were reading ROMs.
THEOREM AlwaysSettledListIsBus == DiscoverySpec => []SettledListIsBus
<1>1. DiscoveryIInv => SettledListIsBus
  BY DEF DiscoveryIInv, SettledListIsBus, Settled, BusInv, Caught, Open, Complete, Searched, NodesRight, EntriesInv
<1> QED BY <1>1, AlwaysDiscoveryIInv, PTL

\* The reset thread uses no deleted device, and list and tree agree whenever the list is free.
THEOREM AlwaysLiveDevicesOnly == DiscoverySpec => []LiveDevicesOnly
<1>1. DiscoveryIInv => LiveDevicesOnly BY DEF DiscoveryIInv, LiveInv, LiveDevicesOnly
<1> QED BY <1>1, AlwaysDiscoveryIInv, PTL

\* Outside of discover and the handler no lock is held and no notification is missing, but
\* after a failure in slave mode.
THEOREM AlwaysNothingHeldOutside == DiscoverySpec => []NothingHeldOutside
<1>1. DiscoveryIInv => NothingHeldOutside
  BY DEF DiscoveryIInv, DiscoveryTypeOK, LockInv, NothingHeldOutside, Outside, Notified, Locked, Threads, Free
<1> QED BY <1>1, AlwaysDiscoveryIInv, PTL
=============================================================================
