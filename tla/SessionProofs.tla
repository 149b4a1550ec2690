---------------------------- MODULE SessionProofs ----------------------------
(***************************************************************************)
(* Proofs about streaming on the devices of the bus: the channels that a   *)
(* device plays on and gives back are its own, and a session that nothing  *)
(* disturbed leaves nothing taken behind.                                  *)
(***************************************************************************)
EXTENDS DeviceStreams, WellFoundedInduction, FiniteSetTheorems, TLAPS

-----------------------------------------------------------------------------
\* A set of naturals has a least member: the order is well founded.
Less == {p \in Nat \X Nat : p[1] < p[2]}

LEMMA Least ==
  ASSUME NEW T, T \subseteq Nat, T # {}
  PROVE  \E x \in T : \A y \in T : ~(y < x)
<1>1. IsWellFoundedOn(Less, Nat) BY NatLessThanWellFounded DEF OpToRel, Less
<1>2. \E x \in T : \A y \in T : ~(<<y, x>> \in Less) BY <1>1, WFMin
<1> QED BY <1>2 DEF Less

\* The bus.  What taking a channel and giving one back do to it.
LEMMA StreamConstants ==
  /\ NrChannels \in Nat /\ NrChannels >= 1 /\ Channels = 0..(NrChannels - 1)
  /\ Nobody \notin Devices /\ Other \notin Devices /\ Own \notin Devices
  /\ Nobody # Other /\ Nobody # Own /\ Other # Own
  /\ None = -1 /\ Absent = -2 /\ None \notin Channels /\ Absent \notin Channels
  /\ Streams = {"rx", "tx"}
BY ChannelsAssumption, ListsAssumption DEF Channels, Nobody, Other, Own, None, Absent, Streams

Takes(b, r, c, d) ==
    /\ DOMAIN r = {"irm", "units", "chan"}
    /\ c \in Channels /\ b.irm[c] = Nobody /\ r.irm = [b.irm EXCEPT ![c] = d]
    /\ b.units # 0 /\ r.units = b.units - 1
    /\ \A e \in Channels : r.chan[e] = b.chan[e] \/ (e = c /\ d \in Devices /\ r.chan[e] # "free")
    /\ r.chan \in [Channels -> {"free", "generic", "cmp"}]
Gives(b, r, c) ==
    /\ DOMAIN r = {"irm", "units", "chan"}
    /\ Registered(b, c) /\ r.irm = [b.irm EXCEPT ![c] = Nobody] /\ r.chan = [b.chan EXCEPT ![c] = "free"]
    /\ r.units = b.units + 1

\* What a step may do to the channels of others; it pays for what it takes.
Spares(b, r, E) ==
    /\ \A c, e : e \in E /\ Has(b, c, e) => Has(r, c, e)
    /\ \A c \in Channels : b.irm[c] = Own => r.irm[c] = Own
    /\ Balanced(b) => Balanced(r)

LEMMA Pays ==
  ASSUME NEW b, NEW r, NEW c \in Channels, NEW d, b.irm \in [Channels -> Devices \cup {Nobody, Other, Own}],
         d # Nobody,
         \/ b.irm[c] = Nobody /\ r.irm = [b.irm EXCEPT ![c] = d] /\ b.units # 0 /\ r.units = b.units - 1
         \/ b.irm[c] # Nobody /\ r.irm = [b.irm EXCEPT ![c] = Nobody] /\ r.units = b.units + 1
  PROVE  Balanced(b) => Balanced(r)
<1> DEFINE B == {e \in Channels : b.irm[e] # Nobody}
           R == {e \in Channels : r.irm[e] # Nobody}
<1>0. IsFiniteSet(B)
  <2>1. IsFiniteSet(Channels) BY FS_Interval, StreamConstants
  <2> QED BY <2>1, FS_Subset
<1>1. Cardinality(B) \in Nat BY <1>0, FS_CardinalityType
<1>2. CASE b.irm[c] = Nobody /\ r.irm = [b.irm EXCEPT ![c] = d] /\ b.units # 0 /\ r.units = b.units - 1
  <2>1. R = B \cup {c} /\ c \notin B BY <1>2
  <2>2. Cardinality(R) = Cardinality(B) + 1 BY <1>0, <2>1, FS_AddElement
  <2> HIDE DEF B, R
  <2>3. ASSUME b.units \in Nat, b.units + Cardinality(B) = MaxUnits
        PROVE  r.units \in Nat /\ r.units + Cardinality(R) = MaxUnits
    BY <1>1, <1>2, <2>2, <2>3
  <2> QED BY <2>3 DEF Balanced, B, R
<1>3. CASE b.irm[c] # Nobody /\ r.irm = [b.irm EXCEPT ![c] = Nobody] /\ r.units = b.units + 1
  <2>1. R = B \ {c} /\ c \in B BY <1>3
  <2>2. Cardinality(R) = Cardinality(B) - 1 BY <1>0, <2>1, FS_RemoveElement
  <2> HIDE DEF B, R
  <2>3. ASSUME b.units \in Nat, b.units + Cardinality(B) = MaxUnits
        PROVE  r.units \in Nat /\ r.units + Cardinality(R) = MaxUnits
    BY <1>1, <1>3, <2>2, <2>3
  <2> QED BY <2>3 DEF Balanced, B, R
<1> QED BY <1>2, <1>3

LEMMA TakeFacts ==
  ASSUME NEW b, NEW r, NEW c, NEW d, BusOK(b), Takes(b, r, c, d), d \in Devices \cup {Other, Own}
  PROVE  BusOK(r) /\ Spares(b, r, Devices) /\ r.irm[c] = d
<1>1. /\ b.irm \in [Channels -> Devices \cup {Nobody, Other, Own}] /\ b.chan \in [Channels -> {"free", "generic", "cmp"}]
      /\ \A e \in Channels : b.chan[e] # "free" => b.irm[e] \in Devices
  BY DEF BusOK
<1>2. /\ c \in Channels /\ b.irm[c] = Nobody /\ r.irm = [b.irm EXCEPT ![c] = d]
      /\ \A e \in Channels : r.chan[e] = b.chan[e] \/ (e = c /\ d \in Devices /\ r.chan[e] # "free")
      /\ r.chan \in [Channels -> {"free", "generic", "cmp"}]
  BY DEF Takes
<1>3. r.irm[c] = d /\ \A e \in Channels : e # c => r.irm[e] = b.irm[e] BY <1>1, <1>2
<1>4. BusOK(r)
  <2>1. r.irm \in [Channels -> Devices \cup {Nobody, Other, Own}] BY <1>1, <1>2
  <2>2. ASSUME NEW e \in Channels, r.chan[e] # "free" PROVE r.irm[e] \in Devices
    BY <1>1, <1>2, <1>3, <2>2, StreamConstants
  <2> QED BY <1>2, <2>1, <2>2 DEF BusOK, Takes
<1>5. \A e \in Channels, f \in Devices : Has(b, e, f) => Has(r, e, f)
  BY <1>1, <1>2, <1>3, StreamConstants DEF Has, Registered
<1>6. \A e : e \in 0..(NrChannels - 2) => e \in Channels BY StreamConstants
<1>7. \A e \in Channels : b.irm[e] = Own => r.irm[e] = Own BY <1>2, <1>3, StreamConstants
<1>8. Balanced(b) => Balanced(r)
  <2>1. d # Nobody BY StreamConstants
  <2> QED BY <1>1, <2>1, Pays DEF Takes
<1> QED BY <1>3, <1>4, <1>5, <1>6, <1>7, <1>8 DEF Spares, Has, Registered

LEMMA GiveFacts ==
  ASSUME NEW b, NEW r, NEW c, BusOK(b), Gives(b, r, c)
  PROVE  BusOK(r) /\ Spares(b, r, Devices \ {b.irm[c]}) /\ b.irm[c] \in Devices
         /\ \A e, f : e # c /\ Has(b, e, f) => Has(r, e, f)
<1>1. /\ b.irm \in [Channels -> Devices \cup {Nobody, Other, Own}] /\ b.chan \in [Channels -> {"free", "generic", "cmp"}]
      /\ \A e \in Channels : b.chan[e] # "free" => b.irm[e] \in Devices
  BY DEF BusOK
<1>2. /\ c \in Channels /\ b.chan[c] # "free" /\ r.irm = [b.irm EXCEPT ![c] = Nobody]
      /\ r.chan = [b.chan EXCEPT ![c] = "free"]
  BY StreamConstants DEF Gives, Registered
<1>3. /\ r.irm[c] = Nobody /\ r.chan[c] = "free"
      /\ \A e \in Channels : e # c => r.irm[e] = b.irm[e] /\ r.chan[e] = b.chan[e]
  BY <1>1, <1>2
<1>4. BusOK(r)
  <2>1. r.irm \in [Channels -> Devices \cup {Nobody, Other, Own}] /\ r.chan \in [Channels -> {"free", "generic", "cmp"}]
    BY <1>1, <1>2
  <2>2. ASSUME NEW e \in Channels, r.chan[e] # "free" PROVE r.irm[e] \in Devices
    BY <1>1, <1>2, <1>3, <2>2
  <2> QED BY <2>1, <2>2 DEF BusOK, Gives
<1>5. b.irm[c] \in Devices BY <1>1, <1>2
<1>6. \A e : e \in 0..(NrChannels - 2) => e \in Channels BY StreamConstants
<1>7. \A e, f : e # c /\ Has(b, e, f) => Has(r, e, f) BY <1>3, <1>6 DEF Has, Registered
<1>8. \A e \in Channels : b.irm[e] = Own => r.irm[e] = Own BY <1>2, <1>3, <1>5, StreamConstants
<1>9. \A e, f : f \in Devices \ {b.irm[c]} /\ Has(b, e, f) => e # c BY DEF Has
<1>10. Balanced(b) => Balanced(r)
  <2>1. b.irm[c] # Nobody /\ Other # Nobody BY <1>5, StreamConstants
  <2> QED BY <1>1, <1>2, <2>1, Pays DEF Gives
<1> QED BY <1>4, <1>5, <1>7, <1>8, <1>9, <1>10 DEF Spares

Gets(b, a, d) == Takes(b, a.b, a.c, d) /\ a.c \in 0..(NrChannels - 2) /\ Registered(a.b, a.c)

LEMMA GenericAllocation ==
  ASSUME NEW b, NEW d \in Devices, BusOK(b)
  PROVE  LET a == allocateIsoChannelGeneric(b, d)
         IN  (a.c = None /\ a.b = b) \/ Gets(b, a, d)
<1> DEFINE a == allocateIsoChannelGeneric(b, d)
           free == {c \in 0..(NrChannels - 2) : b.irm[c] = Nobody}
           n == CHOOSE c \in free : \A e \in free : c <= e
<1>1. CASE free = {} \/ b.units = 0 BY <1>1 DEF allocateIsoChannelGeneric
<1>2. CASE ~(free = {} \/ b.units = 0)
  <2>1. free \subseteq Nat /\ free # {} BY <1>2
  <2>2. \E x \in free : \A e \in free : x <= e
    <3> HIDE DEF free
    <3>1. PICK x \in free : \A y \in free : ~(y < x) BY <2>1, Least
    <3> QED BY <2>1, <3>1
  <2>3. n \in free BY <2>2
  <2>4. a = registerIsoChannel([b EXCEPT !.irm[n] = d, !.units = @ - 1], n, "generic")
    BY <1>2 DEF allocateIsoChannelGeneric
  <2> HIDE DEF n, a
  <2>5. n \in 0..(NrChannels - 2) /\ b.irm[n] = Nobody /\ n < NrChannels - 1 /\ n \in Channels
    BY <2>3, StreamConstants
  <2>6. a.c = n /\ a.b = [[b EXCEPT !.irm[n] = d, !.units = @ - 1] EXCEPT !.chan[n] = "generic"]
    BY <2>4, <2>5 DEF registerIsoChannel
  <2>7. /\ DOMAIN a.b = {"irm", "units", "chan"} /\ a.b.irm = [b.irm EXCEPT ![n] = d]
        /\ a.b.chan = [b.chan EXCEPT ![n] = "generic"] /\ a.b.units = b.units - 1
    BY <2>6 DEF BusOK
  <2>8. Takes(b, a.b, a.c, d) /\ Registered(a.b, a.c)
    BY <1>2, <2>5, <2>6, <2>7 DEF BusOK, Takes, Registered
  <2> QED BY <2>5, <2>6, <2>8 DEF Gets, a
<1> QED BY <1>1, <1>2

LEMMA ConnectionAllocation ==
  ASSUME NEW b, NEW d \in Devices, BusOK(b), NEW a \in allocateIsoChannelCMP(b, d)
  PROVE  \/ a.c = None /\ (a.b = b \/ Takes(b, a.b, NrChannels - 1, d))
         \/ Gets(b, a, d)
<1>1. CASE a = [b |-> b, c |-> None] BY <1>1
<1>2. ASSUME NEW c \in Channels, b.irm[c] = Nobody, b.units # 0,
             a = registerIsoChannel([b EXCEPT !.irm[c] = d, !.units = @ - 1], c, "cmp")
      PROVE  (a.c = None /\ Takes(b, a.b, NrChannels - 1, d)) \/ Gets(b, a, d)
  <2> DEFINE t == [b EXCEPT !.irm[c] = d, !.units = @ - 1]
  <2>1. DOMAIN t = {"irm", "units", "chan"} /\ t.irm = [b.irm EXCEPT ![c] = d] /\ t.chan = b.chan /\ t.units = b.units - 1
    BY DEF BusOK
  <2> HIDE DEF t
  <2>2. CASE c < NrChannels - 1
    <3>1. a.c = c /\ a.b = [t EXCEPT !.chan[c] = "cmp"] BY <1>2, <2>2 DEF registerIsoChannel, t
    <3>2. /\ DOMAIN a.b = {"irm", "units", "chan"} /\ a.b.irm = [b.irm EXCEPT ![c] = d]
          /\ a.b.chan = [b.chan EXCEPT ![c] = "cmp"] /\ a.b.units = b.units - 1
      BY <2>1, <3>1
    <3>3. c \in 0..(NrChannels - 2) BY <2>2, StreamConstants
    <3> QED BY <1>2, <3>1, <3>2, <3>3 DEF BusOK, Takes, Gets, Registered
  <2>3. CASE ~(c < NrChannels - 1)
    <3>1. a.c = None /\ a.b = t BY <1>2, <2>3 DEF registerIsoChannel, t
    <3>2. c = NrChannels - 1 BY <2>3, StreamConstants
    <3> QED BY <1>2, <2>1, <3>1, <3>2 DEF BusOK, Takes
  <2> QED BY <2>2, <2>3
<1>3. \A c \in Channels : b.units > 0 => b.units # 0 OBVIOUS
<1> QED BY <1>1, <1>2, <1>3 DEF allocateIsoChannelCMP

LEMMA Freeing ==
  ASSUME NEW b, NEW c, BusOK(b)
  PROVE  LET f == freeIsoChannel(b, c)
         IN  \/ ~Registered(b, c) /\ f.b = b /\ f.ok = FALSE
             \/ Registered(b, c) /\ Gives(b, f.b, c) /\ f.ok = TRUE
<1> DEFINE f == freeIsoChannel(b, c)
<1>1. CASE ~Registered(b, c) BY <1>1 DEF freeIsoChannel
<1>2. CASE Registered(b, c)
  <2>1. c \in Channels BY <1>2, StreamConstants DEF Registered
  <2>2. f.b = [[b EXCEPT !.irm[c] = Nobody, !.units = @ + 1] EXCEPT !.chan[c] = "free"] /\ f.ok = TRUE
    BY <1>2 DEF freeIsoChannel, unregisterIsoChannel
  <2>3. Gives(b, f.b, c) BY <1>2, <2>1, <2>2 DEF Gives, BusOK
  <2> QED BY <1>2, <2>2, <2>3
<1> QED BY <1>1, <1>2

\* A channel that was just taken and is given back: the bus is as it was but for the books.
LEMMA Returned ==
  ASSUME NEW b, NEW a, NEW d \in Devices, BusOK(b), Gets(b, a, d)
  PROVE  LET f == freeIsoChannel(a.b, a.c)
         IN  BusOK(f.b) /\ Spares(b, f.b, Devices) /\ f.ok = TRUE
<1> DEFINE f == freeIsoChannel(a.b, a.c)
<1>1. BusOK(a.b) /\ Spares(b, a.b, Devices) /\ a.b.irm[a.c] = d BY TakeFacts DEF Gets
<1>2. Gives(a.b, f.b, a.c) /\ f.ok = TRUE
  <2>1. Registered(a.b, a.c) BY DEF Gets
  <2> QED BY <1>1, <2>1, Freeing
<1> HIDE DEF f
<1>3. BusOK(f.b) /\ Spares(a.b, f.b, Devices \ {d}) /\ \A e, g : e # a.c /\ Has(a.b, e, g) => Has(f.b, e, g)
  BY <1>1, <1>2, GiveFacts
<1>4. ASSUME NEW e, NEW g \in Devices, Has(b, e, g) PROVE e # a.c
  <2>1. b.irm[a.c] = Nobody BY DEF Gets, Takes
  <2> QED BY <1>4, <2>1, StreamConstants DEF Has
<1>5. \A e, g : g \in Devices /\ Has(b, e, g) => Has(f.b, e, g) BY <1>1, <1>3, <1>4 DEF Spares
<1>6. \A e \in Channels : b.irm[e] = Own => f.b.irm[e] = Own BY <1>1, <1>3 DEF Spares
<1>7. Balanced(b) => Balanced(f.b) BY <1>1, <1>3 DEF Spares
<1> QED BY <1>2, <1>3, <1>5, <1>6, <1>7 DEF Spares, f

-----------------------------------------------------------------------------
\* Outcomes.  What is needed of one: it spares what others hold, but for the victims it names.
Sound(o, d) ==
    /\ BusOK(o.b) /\ NumbersOK(o.x) /\ ForeignOK(o.b, o.x, d)
    /\ o.rob \subseteq Devices \ {d} /\ Spares(bus, o.b, Devices \ ({d} \cup o.rob))
    /\ Family[d] = "rme800" =>
          o.x.reg["rx"] = dev[d].reg["rx"] \/ (o.x.reg["rx"] \in Channels /\ bus.irm[o.x.reg["rx"]] # Own)
    /\ d \notin odd /\ ~o.odd => o.rob = {} /\ KeepsOwn(o.b, o.x, d)

OutcomeFields == {"x", "b", "ok", "fault", "crash", "odd", "rob"}
LEMMA OutcomeIs ==
  ASSUME NEW x, NEW b, NEW ok
  PROVE  LET o == Outcome(x, b, ok)
         IN  DOMAIN o = OutcomeFields /\ o.x = x /\ o.b = b /\ o.ok = ok /\ ~o.crash /\ ~o.odd /\ o.rob = {}
BY DEF Outcome, OutcomeFields

LEMMA FailingIs ==
  ASSUME NEW o, DOMAIN o = OutcomeFields
  PROVE  LET p == Failing(o)
         IN  /\ DOMAIN p = OutcomeFields /\ p.x = o.x /\ p.b = o.b /\ p.ok = o.ok /\ p.crash = o.crash /\ p.odd = o.odd
             /\ p.rob = o.rob
BY DEF Failing, OutcomeFields

LEMMA Unregistered == ASSUME NEW b, NEW c, NEW d, c \in {None, Absent} PROVE ~Has(b, c, d) /\ ~Registered(b, c)
BY StreamConstants DEF Has, Registered

\* An object that keeps numbers of before, or one it has just got.
GotFrom(b, x, r, y, d, j) ==
    \A k \in Streams :
        \/ Number(y, d, k) \in {None, Absent}
        \/ Number(y, d, k) = Number(x, d, k) /\ Has(r, Number(x, d, k), d)
        \/ k = j /\ Has(r, Number(y, d, k), d) /\ b.irm[Number(y, d, k)] = Nobody
LEMMA KeepsBy ==
  ASSUME NEW d \in Devices, NEW x, NEW y, NEW b, NEW r, NEW j \in Streams, KeepsOwn(b, x, d),
         GotFrom(b, x, r, y, d, j), Family[d] \notin Renting
  PROVE  KeepsOwn(r, y, d)
<1> USE DEF GotFrom
<1>1. \A k \in Streams : Number(y, d, k) \notin {None, Absent} => Has(r, Number(y, d, k), d) OBVIOUS
<1>2. ASSUME Number(y, d, "rx") = Number(y, d, "tx"), Number(y, d, "rx") \notin {None, Absent} PROVE FALSE
  <2>1. \A k \in Streams : Number(x, d, k) \notin {None, Absent} => b.irm[Number(x, d, k)] = d
    BY DEF KeepsOwn, Has
  <2>2. Nobody # d /\ Streams = {"rx", "tx"} BY StreamConstants
  <2>3. \A k \in Streams : Has(r, Number(x, d, k), d) => Number(x, d, k) \notin {None, Absent}
    BY Unregistered
  <2>4. Number(x, d, "rx") = Number(x, d, "tx") => Number(x, d, "rx") \in {None, Absent} BY DEF KeepsOwn
  <2> QED BY <1>2, <2>1, <2>2, <2>3, <2>4
<1> QED BY <1>1, <1>2 DEF KeepsOwn

LEMMA KeepsSame ==
  ASSUME NEW d \in Devices, NEW x, NEW y, NEW b, NEW r, KeepsOwn(b, x, d),
         \A c : Has(b, c, d) => Has(r, c, d),
         \A k \in Streams : Number(y, d, k) \in {None, Absent, Number(x, d, k)},
         Family[d] \in Renting => \A k \in Streams : y.proc[k] # Absent => y.mem[k] # None
  PROVE  KeepsOwn(r, y, d)
<1>1. \A k \in Streams : Number(y, d, k) \notin {None, Absent} => Has(r, Number(y, d, k), d) BY DEF KeepsOwn
<1>2. "rx" \in Streams /\ "tx" \in Streams BY DEF Streams
<1>3. Number(y, d, "rx") = Number(y, d, "tx") => Number(y, d, "rx") \in {None, Absent} BY <1>2 DEF KeepsOwn
<1> QED BY <1>1, <1>3 DEF KeepsOwn

\* Outcomes that leave the bus alone, or give to and take from it.
LEMMA SoundQuiet ==
  ASSUME OwnInv, NEW d \in Devices, NEW o, Spares(bus, o.b, Devices), BusOK(o.b), o.rob = {}, NumbersOK(o.x),
         \A k \in Streams : Number(o.x, d, k) \in {None, Absent, Number(dev[d], d, k)},
         Family[d] \in Renting => /\ \A k \in Streams : o.x.proc[k] # Absent => dev[d].proc[k] # Absent /\ o.x.mem[k] = dev[d].mem[k]
                                  /\ o.x.reg["rx"] = dev[d].reg["rx"] /\ o.x.mem["rx"] \in {None, dev[d].mem["rx"]}
  PROVE  Sound(o, d)
<1>1. \A c : Has(bus, c, d) => Has(o.b, c, d) BY DEF Spares
<1>2. ForeignOK(o.b, o.x, d)
  <2>1. ForeignOK(bus, dev[d], d) /\ NumbersOK(dev[d]) BY DEF OwnInv
  <2>2. Family[d] = "rme800" => dev[d].reg["rx"] \in Channels \cup {None} BY <2>1 DEF NumbersOK, Channel, Streams
  <2> QED BY <2>1, <2>2 DEF ForeignOK, Spares, Renting
<1>3. ASSUME d \notin odd PROVE KeepsOwn(o.b, o.x, d)
  <2>1. KeepsOwn(bus, dev[d], d) BY <1>3 DEF OwnInv
  <2>2. Family[d] \in Renting => \A k \in Streams : o.x.proc[k] # Absent => o.x.mem[k] # None BY <2>1 DEF KeepsOwn
  <2> QED BY <1>1, <2>1, <2>2, KeepsSame
<1>4. Family[d] = "rme800" => o.x.reg["rx"] = dev[d].reg["rx"] BY DEF Renting
<1>5. Spares(bus, o.b, Devices \ ({d} \cup o.rob)) BY DEF Spares
<1> QED BY <1>2, <1>3, <1>4, <1>5 DEF Sound

LEMMA SparesSelf == ASSUME NEW b, NEW E PROVE Spares(b, b, E)
BY DEF Spares

PlainOutcome(o, y, b) == o.x = y /\ o.b = b /\ o.rob = {} /\ ~o.odd
LEMMA PlainIs ==
  ASSUME NEW y, NEW b, NEW ok
  PROVE  PlainOutcome(Outcome(y, b, ok), y, b) /\ PlainOutcome(Failing(Outcome(y, b, ok)), y, b)
BY OutcomeIs, FailingIs DEF PlainOutcome

\* The object keeps all its numbers.
Alike(y, x) == NumbersOK(y) /\ y.proc = x.proc /\ y.mem = x.mem
LEMMA SoundStill ==
  ASSUME OwnInv, NEW d \in Devices, NEW o, NEW y, PlainOutcome(o, y, bus), Alike(y, dev[d]),
         Family[d] = "slave" \/ y.reg = dev[d].reg
  PROVE  Sound(o, d) /\ o.x = y
<1>1. \A k \in Streams : Number(y, d, k) = Number(dev[d], d, k) BY DEF Number, Alike
<1>2. Spares(bus, o.b, Devices) /\ BusOK(o.b) /\ o.rob = {} /\ o.x = y BY SparesSelf DEF PlainOutcome, OwnInv
<1>3. Family[d] \in Renting => Family[d] # "slave" BY DEF Renting
<1> QED BY <1>1, <1>2, <1>3, SoundQuiet DEF Alike

LEMMA DeviceOK == ASSUME OwnInv, NEW d \in Devices PROVE NumbersOK(dev[d]) /\ Alike(dev[d], dev[d])
BY DEF OwnInv, Alike

LEMMA LockSound ==
  ASSUME OwnInv, NEW d \in Devices, NEW o \in lock(d)
  PROVE  Sound(o, d) /\ Alike(o.x, dev[d])
<1> DEFINE x == dev[d]
<1>0. NumbersOK(x) BY DeviceOK
<1>1. ASSUME NEW y, PlainOutcome(o, y, bus), Alike(y, x), Family[d] = "slave" \/ y.reg = x.reg
      PROVE  Sound(o, d) /\ Alike(o.x, dev[d])
  BY <1>1, SoundStill
<1>2. /\ Alike(x, x)
      /\ Alike([x EXCEPT !.notifier = TRUE], x) /\ [x EXCEPT !.notifier = TRUE].reg = x.reg
      /\ Alike([x EXCEPT !.notifier = TRUE, !.owner = TRUE], x)
      /\ [x EXCEPT !.notifier = TRUE, !.owner = TRUE].reg = x.reg
      /\ Alike([x EXCEPT !.notifier = TRUE, !.reg = [k \in Streams |-> None]], x)
  BY <1>0 DEF Alike, NumbersOK, Channel
<1> HIDE DEF x
<1>3. CASE Family[d] = "dice"
  <2>1. o \in lock_dice(x) BY <1>3 DEF lock, x
  <2>2. \/ PlainOutcome(o, x, bus) \/ PlainOutcome(o, [x EXCEPT !.notifier = TRUE], bus)
        \/ PlainOutcome(o, [x EXCEPT !.notifier = TRUE, !.owner = TRUE], bus)
    BY <2>1, PlainIs DEF lock_dice, LockFails
  <2> QED BY <1>1, <1>2, <2>2
<1>4. CASE Family[d] = "slave"
  <2>1. o \in lock_slave(x) BY <1>4 DEF lock, x
  <2>2. \/ PlainOutcome(o, x, bus) \/ PlainOutcome(o, [x EXCEPT !.notifier = TRUE], bus)
        \/ PlainOutcome(o, [x EXCEPT !.notifier = TRUE, !.reg = [k \in Streams |-> None]], bus)
    BY <2>1, PlainIs DEF lock_slave, LockFails
  <2> QED BY <1>1, <1>2, <1>4, <2>2
<1>5. CASE Family[d] \notin {"dice", "slave"}
  <2>1. PlainOutcome(o, x, bus) BY <1>5, PlainIs DEF lock, x
  <2> QED BY <1>1, <1>2, <2>1
<1> QED BY <1>3, <1>4, <1>5

LEMMA UnlockSound ==
  ASSUME OwnInv, NEW d \in Devices, NEW o \in unlock(d)
  PROVE  Sound(o, d) /\ Alike(o.x, dev[d]) /\ PlainOutcome(o, o.x, bus)
<1> DEFINE x == dev[d]
<1>0. NumbersOK(x) BY DeviceOK
<1>1. ASSUME NEW y, PlainOutcome(o, y, bus), Alike(y, x), y.reg = x.reg
      PROVE  Sound(o, d) /\ Alike(o.x, dev[d]) /\ PlainOutcome(o, o.x, bus)
  BY <1>1, SoundStill
<1>2. /\ Alike(x, x)
      /\ Alike([x EXCEPT !.notifier = FALSE], x) /\ [x EXCEPT !.notifier = FALSE].reg = x.reg
      /\ Alike([x EXCEPT !.notifier = FALSE, !.owner = FALSE], x)
      /\ [x EXCEPT !.notifier = FALSE, !.owner = FALSE].reg = x.reg
  BY <1>0 DEF Alike, NumbersOK, Channel
<1> HIDE DEF x
<1>3. CASE Family[d] = "dice"
  <2>1. o \in unlock_dice(x) BY <1>3 DEF unlock, x
  <2>2. \/ PlainOutcome(o, x, bus) \/ PlainOutcome(o, [x EXCEPT !.notifier = FALSE, !.owner = FALSE], bus)
    BY <2>1, PlainIs DEF unlock_dice
  <2> QED BY <1>1, <1>2, <2>2
<1>4. CASE Family[d] = "slave"
  <2>1. o \in unlock_slave(x) BY <1>4 DEF unlock, x
  <2>2. PlainOutcome(o, [x EXCEPT !.notifier = FALSE], bus) BY <2>1, PlainIs DEF unlock_slave
  <2> QED BY <1>1, <1>2, <2>2
<1>5. CASE Family[d] \notin {"dice", "slave"}
  <2>1. PlainOutcome(o, x, bus) BY <1>5, PlainIs DEF unlock, x
  <2> QED BY <1>1, <1>2, <2>1
<1> QED BY <1>3, <1>4, <1>5

LEMMA EnableSound ==
  ASSUME OwnInv, NEW d \in Devices, NEW o \in enableStreaming(d)
  PROVE  Sound(o, d) /\ o.x = dev[d] /\ PlainOutcome(o, dev[d], bus)
<1>1. PlainOutcome(o, dev[d], bus) BY PlainIs DEF enableStreaming
<1> QED BY <1>1, DeviceOK, SoundStill

LEMMA SparesMore ==
  ASSUME NEW b, NEW r, NEW t, NEW E, NEW F, Spares(b, r, E), Spares(r, t, E), F \subseteq E
  PROVE  Spares(b, t, F)
BY DEF Spares

LEMMA SoundWithout ==
  ASSUME NEW d \in Devices, NEW o, BusOK(o.b), NumbersOK(o.x), o.rob = {}, Spares(bus, o.b, Devices \ {d}),
         Family[d] # "rme800", d \notin odd /\ ~o.odd => KeepsOwn(o.b, o.x, d)
  PROVE  Sound(o, d)
BY DEF Sound, ForeignOK

LEMMA ProcessorsAre ==
  ASSUME NEW x, NEW b, NumbersOK(x), NEW o \in Processors(x, b)
  PROVE  \E y : /\ PlainOutcome(o, y, b) /\ DOMAIN o = OutcomeFields /\ NumbersOK(y) /\ y.mem = x.mem /\ y.reg = x.reg
                /\ \A k \in Streams : y.proc[k] \in {None, Absent}
<1> DEFINE made(K) == [x EXCEPT !.proc = [k \in Streams |-> IF k \in K THEN None ELSE Absent]]
<1>1. \A K : /\ NumbersOK(made(K)) /\ made(K).mem = x.mem /\ made(K).reg = x.reg
             /\ \A k \in Streams : made(K).proc[k] \in {None, Absent}
  BY DEF NumbersOK, Channel
<1>2. \E K : o = Outcome(made(K), b, TRUE) \/ o = Failing(Outcome(made(K), b, FALSE)) BY DEF Processors
<1> HIDE DEF made
<1>3. \E K : PlainOutcome(o, made(K), b) /\ DOMAIN o = OutcomeFields
  <2>1. PICK K : o = Outcome(made(K), b, TRUE) \/ o = Failing(Outcome(made(K), b, FALSE)) BY <1>2
  <2>2. PlainOutcome(o, made(K), b) BY <2>1, PlainIs
  <2>3. DOMAIN o = OutcomeFields BY <2>1 DEF Outcome, Failing, OutcomeFields
  <2> QED BY <2>2, <2>3
<1> QED BY <1>1, <1>3

\* Where prepare takes no channel.
LEMMA PrepareSimple ==
  ASSUME OwnInv, NEW d \in Devices, Empty(d), NEW o \in prepare(d), Family[d] \in Vectors
  PROVE  Sound(o, d)
<1> DEFINE x == dev[d]
<1>0. NumbersOK(x) BY DeviceOK
<1>1. \E y : PlainOutcome(o, y, bus) /\ NumbersOK(y) /\ \A k \in Streams : y.proc[k] \in {None, Absent}
  <2>1. CASE o \in Processors(x, bus) BY <1>0, <2>1, ProcessorsAre
  <2>2. CASE o = Failing(Outcome([x EXCEPT !.proc["tx"] = None], bus, TRUE))
    <3>1. PlainOutcome(o, [x EXCEPT !.proc["tx"] = None], bus) BY <2>2, PlainIs
    <3>2. NumbersOK([x EXCEPT !.proc["tx"] = None]) BY <1>0 DEF NumbersOK, Channel
    <3>3. \A k \in Streams : [x EXCEPT !.proc["tx"] = None].proc[k] \in {None, Absent}
      BY <1>0 DEF NumbersOK, Empty, Streams
    <3> QED BY <3>1, <3>2, <3>3
  <2> QED BY <2>1, <2>2 DEF prepare, prepare_avc, prepare_dice, prepare_bounce, prepare_slave, Vectors, Registers
<1>2. PICK y : PlainOutcome(o, y, bus) /\ NumbersOK(y) /\ \A k \in Streams : y.proc[k] \in {None, Absent} BY <1>1
<1>3. Family[d] \notin Renting BY DEF Vectors, Registers, Renting
<1>4. \A k \in Streams : Number(y, d, k) \in {None, Absent} BY <1>2, <1>3 DEF Number
<1>5. Spares(bus, o.b, Devices) /\ BusOK(o.b) /\ o.rob = {} /\ o.x = y BY <1>2, SparesSelf DEF PlainOutcome, OwnInv
<1> QED BY <1>2, <1>3, <1>4, <1>5, SoundQuiet

\* MOTU and Digidesign.
LEMMA PrepareBoth ==
  ASSUME OwnInv, NEW d \in Devices, Empty(d), Family[d] \in {"motu", "digidesign"}, NEW o \in prepare_both(d)
  PROVE  Sound(o, d)
<1> DEFINE t == allocateIsoChannelGeneric(bus, d)
           r == allocateIsoChannelGeneric(t.b, d)
           x == [dev[d] EXCEPT !.mem["tx"] = t.c, !.mem["rx"] = r.c]
           back == IF t.c # None THEN freeIsoChannel(r.b, t.c).b ELSE r.b
<1>0. NumbersOK(dev[d]) /\ BusOK(bus) BY DeviceOK DEF OwnInv
<1>1. (t.c = None /\ t.b = bus) \/ Gets(bus, t, d) BY <1>0, GenericAllocation
<1>2. BusOK(t.b) /\ Spares(bus, t.b, Devices) /\ (t.c # None => t.b.irm[t.c] = d /\ Has(t.b, t.c, d))
  <2>1. CASE Gets(bus, t, d) BY <1>0, <2>1, TakeFacts DEF Gets, Has
  <2> QED BY <1>0, <1>1, <2>1, SparesSelf
<1>3. (r.c = None /\ r.b = t.b) \/ Gets(t.b, r, d) BY <1>2, GenericAllocation
<1>4. t.c = None => r.c = None /\ r.b = bus
  <2>1. t.c = None => t.b = bus BY <1>1, StreamConstants DEF Gets
  <2>2. t.c = None => r = t BY <2>1
  <2> QED BY <2>1, <2>2
<1> HIDE DEF r, t
<1>5. BusOK(r.b) /\ Spares(t.b, r.b, Devices) /\ (r.c # None => t.b.irm[r.c] = Nobody /\ Has(r.b, r.c, d))
  <2>1. CASE Gets(t.b, r, d)
    <3>1. t.b.irm[r.c] = Nobody BY <2>1 DEF Gets, Takes
    <3> QED BY <1>2, <2>1, <3>1, TakeFacts DEF Gets, Has
  <2> QED BY <1>2, <1>3, <2>1, SparesSelf
<1>6. t.c \in Channels \cup {None} /\ r.c \in Channels \cup {None} BY <1>1, <1>3 DEF Gets, Takes
<1>7. NumbersOK(x) /\ x.mem["tx"] = t.c /\ x.mem["rx"] = r.c /\ x.proc = dev[d].proc
  BY <1>0, <1>6 DEF NumbersOK, Channel, Streams
<1>8. Spares(bus, r.b, Devices) BY <1>2, <1>5, SparesMore
<1>9. Family[d] # "rme800" /\ Family[d] \in Renting /\ \A y, k : Number(y, d, k) = y.mem[k]
  BY DEF Renting, Number, Foreign
<1> HIDE DEF x
<1>10. CASE t.c # None /\ r.c # None
  <2>1. o \in Processors(x, r.b) BY <1>10 DEF prepare_both, x, r, t
  <2>2. PICK y : /\ PlainOutcome(o, y, r.b) /\ NumbersOK(y) /\ y.mem = x.mem /\ y.reg = x.reg
                 /\ \A k \in Streams : y.proc[k] \in {None, Absent}
    BY <1>7, <2>1, ProcessorsAre
  <2>3. Has(r.b, t.c, d) /\ Has(r.b, r.c, d) /\ t.c # r.c BY <1>2, <1>5, <1>10, StreamConstants DEF Spares
  <2>4. KeepsOwn(r.b, y, d) BY <1>7, <1>9, <1>10, <2>2, <2>3 DEF KeepsOwn, Streams
  <2>5. Spares(bus, o.b, Devices \ {d}) BY <1>8, <2>2, SparesMore, SparesSelf DEF PlainOutcome
  <2> QED BY <1>5, <1>9, <2>2, <2>4, <2>5, SoundWithout DEF PlainOutcome
<1>11. CASE ~(t.c # None /\ r.c # None)
  <2>1. o = [Outcome(x, back, FALSE) EXCEPT !.odd = t.c # None] BY <1>11 DEF prepare_both, x, r, t
  <2>2. o.x = x /\ o.b = back /\ o.rob = {} /\ (t.c # None => o.odd)
    <3> HIDE DEF back
    <3> QED BY <2>1 DEF Outcome
  <2>3. CASE t.c = None
    <3>1. o.b = bus BY <1>4, <2>2, <2>3
    <3>2. KeepsOwn(o.b, o.x, d) BY <1>4, <1>7, <1>9, <2>2, <2>3 DEF KeepsOwn, Streams, Empty
    <3> QED BY <1>0, <1>7, <1>9, <2>2, <3>1, <3>2, SoundWithout, SparesSelf
  <2>4. CASE t.c # None
    <3>1. Has(r.b, t.c, d) BY <1>2, <1>5, <2>4 DEF Spares
    <3>2. BusOK(back) /\ Spares(r.b, back, Devices \ {d})
      <4>1. back = freeIsoChannel(r.b, t.c).b /\ Registered(r.b, t.c) /\ r.b.irm[t.c] = d BY <2>4, <3>1 DEF Has
      <4>2. Gives(r.b, back, t.c) BY <1>5, <4>1, Freeing
      <4> QED BY <1>5, <4>1, <4>2, GiveFacts
    <3>3. Spares(bus, back, Devices \ {d}) BY <1>8, <3>2 DEF Spares
    <3> QED BY <1>7, <1>9, <2>2, <2>4, <3>2, <3>3, SoundWithout
  <2> QED BY <2>3, <2>4
<1> QED BY <1>10, <1>11

\* RME: what the reset does.
LEMMA ResetIs ==
  ASSUME NEW x, NEW b, NEW d \in Devices, NumbersOK(x), BusOK(b), NEW o \in reset(x, b, d)
  PROVE  \E y : /\ PlainOutcome(o, y, o.b) /\ NumbersOK(y) /\ y.proc = x.proc /\ y.mem["tx"] = x.mem["tx"]
                /\ \/ o.b = b /\ y = x /\ (o.ok => Family[d] = "rme400")
                   \/ /\ Family[d] # "rme400" /\ y.mem["rx"] = y.reg["rx"] /\ y.reg["rx"] \in Channels
                      /\ \/ o.b = b /\ y.reg["rx"] = x.reg["rx"]
                         \/ Takes(b, o.b, y.reg["rx"], Own)
<1> DEFINE fresh == {c \in Channels : b.irm[c] = Nobody /\ b.units > 0}
           taken(c) == [b EXCEPT !.irm[c] = Own, !.units = @ - 1]
           got(c) == [x EXCEPT !.mem["rx"] = c, !.reg["rx"] = c]
<1>1. CASE o = Failing(Outcome(x, b, FALSE)) \/ o = Outcome(x, b, FALSE) \/ (Family[d] = "rme400" /\ o = Outcome(x, b, TRUE))
  <2>1. PlainOutcome(o, x, b) BY <1>1, PlainIs
  <2>2. o.ok => Family[d] = "rme400" BY <1>1 DEF Outcome, Failing
  <2> QED BY <2>1, <2>2 DEF PlainOutcome
<1>2. \A c \in Channels : /\ NumbersOK(got(c)) /\ got(c).proc = x.proc /\ got(c).mem["tx"] = x.mem["tx"]
                          /\ got(c).mem["rx"] = c /\ got(c).reg["rx"] = c
  BY DEF NumbersOK, Channel, Streams
<1>3. CASE Family[d] # "rme400" /\ x.reg["rx"] # None /\ o = Outcome(got(x.reg["rx"]), b, TRUE)
  <2>1. PICK c \in Channels : c = x.reg["rx"] BY <1>3 DEF NumbersOK, Channel, Streams
  <2> HIDE DEF got
  <2>2. PlainOutcome(o, got(c), b) BY <1>3, <2>1, PlainIs
  <2>3. o.b = b BY <2>2 DEF PlainOutcome
  <2> QED BY <1>2, <1>3, <2>1, <2>2, <2>3, ZenonT(40)
<1>4. ASSUME Family[d] # "rme400", NEW c \in fresh, o = Outcome(got(c), taken(c), TRUE)
      PROVE  \E y : /\ PlainOutcome(o, y, o.b) /\ NumbersOK(y) /\ y.proc = x.proc /\ y.mem["tx"] = x.mem["tx"]
                    /\ y.mem["rx"] = y.reg["rx"] /\ y.reg["rx"] \in Channels /\ Takes(b, o.b, y.reg["rx"], Own)
  <2>1. Takes(b, taken(c), c, Own) BY <1>4 DEF Takes, BusOK
  <2> HIDE DEF got, taken
  <2>2. PlainOutcome(o, got(c), taken(c)) BY <1>4, PlainIs
  <2>3. o.b = taken(c) BY <2>2 DEF PlainOutcome
  <2> QED BY <1>2, <1>4, <2>1, <2>2, <2>3, ZenonT(40)
<1> HIDE DEF got, taken, fresh
<1>5. \/ o = Failing(Outcome(x, b, FALSE)) \/ o = Outcome(x, b, FALSE) \/ (Family[d] = "rme400" /\ o = Outcome(x, b, TRUE))
      \/ (Family[d] # "rme400" /\ x.reg["rx"] # None /\ o = Outcome(got(x.reg["rx"]), b, TRUE))
      \/ (Family[d] # "rme400" /\ \E c \in fresh : o = Outcome(got(c), taken(c), TRUE))
  BY DEF reset, got, taken, fresh
<1> QED BY <1>1, <1>3, <1>4, <1>5

LEMMA ResetSound ==
  ASSUME OwnInv, NEW d \in Devices, NEW o \in resetForStreaming(d)
  PROVE  Sound(o, d) /\ o.x.proc = dev[d].proc
<1>0. NumbersOK(dev[d]) /\ BusOK(bus) /\ ForeignOK(bus, dev[d], d) BY DeviceOK DEF OwnInv
<1>1. CASE Family[d] \notin {"rme400", "rme800"}
  <2>1. PlainOutcome(o, dev[d], bus) BY <1>1, PlainIs DEF resetForStreaming
  <2> QED BY <2>1, DeviceOK, SoundStill
<1>2. CASE Family[d] \in {"rme400", "rme800"}
  <2>1. o \in reset(dev[d], bus, d) BY <1>2 DEF resetForStreaming
  <2>2. PICK y : /\ PlainOutcome(o, y, o.b) /\ NumbersOK(y) /\ y.proc = dev[d].proc /\ y.mem["tx"] = dev[d].mem["tx"]
                 /\ \/ o.b = bus /\ y = dev[d] /\ (o.ok => Family[d] = "rme400")
                    \/ /\ Family[d] # "rme400" /\ y.mem["rx"] = y.reg["rx"] /\ y.reg["rx"] \in Channels
                       /\ \/ o.b = bus /\ y.reg["rx"] = dev[d].reg["rx"]
                          \/ Takes(bus, o.b, y.reg["rx"], Own)
    BY <1>0, <2>1, ResetIs
  <2>3. CASE o.b = bus /\ y = dev[d]
    <3>1. PlainOutcome(o, dev[d], bus) BY <2>2, <2>3
    <3> QED BY <3>1, DeviceOK, SoundStill
  <2>4. CASE /\ Family[d] # "rme400" /\ y.mem["rx"] = y.reg["rx"] /\ y.reg["rx"] \in Channels
             /\ \/ o.b = bus /\ y.reg["rx"] = dev[d].reg["rx"]
                \/ Takes(bus, o.b, y.reg["rx"], Own)
    <3>1. BusOK(o.b) /\ Spares(bus, o.b, Devices) /\ o.b.irm[y.reg["rx"]] = Own
      <4>1. CASE o.b = bus /\ y.reg["rx"] = dev[d].reg["rx"]
        BY <1>0, <1>2, <2>4, <4>1, SparesSelf, StreamConstants DEF ForeignOK
      <4>2. CASE Takes(bus, o.b, y.reg["rx"], Own) BY <1>0, <4>2, TakeFacts
      <4> QED BY <2>4, <4>1, <4>2
    <3>2. o.x = y /\ o.rob = {} /\ Family[d] = "rme800" BY <1>2, <2>2, <2>4 DEF PlainOutcome
    <3>3. ForeignOK(o.b, y, d) BY <2>4, <3>1 DEF ForeignOK
    <3>4. y.reg["rx"] = dev[d].reg["rx"] \/ bus.irm[y.reg["rx"]] # Own BY <2>4, StreamConstants DEF Takes
    <3>5. Spares(bus, o.b, Devices \ ({d} \cup o.rob)) BY <3>1 DEF Spares
    <3>6. ASSUME d \notin odd PROVE KeepsOwn(o.b, y, d)
      <4>1. KeepsOwn(bus, dev[d], d) BY <3>6 DEF OwnInv
      <4>2. \A k \in Streams : Number(y, d, k) \in {None, Absent, Number(dev[d], d, k)}
        BY <2>2, <3>2 DEF Number, Foreign, Renting, Streams
      <4>3. \A k \in Streams : y.proc[k] # Absent => y.mem[k] # None
        BY <2>2, <2>4, <3>2, <4>1, StreamConstants DEF KeepsOwn, Renting
      <4>4. \A c : Has(bus, c, d) => Has(o.b, c, d) BY <3>1 DEF Spares
      <4> QED BY <4>1, <4>2, <4>3, <4>4, KeepsSame
    <3> QED BY <2>2, <2>4, <3>1, <3>2, <3>3, <3>4, <3>5, <3>6 DEF Sound
  <2> QED BY <2>2, <2>3, <2>4
<1> QED BY <1>1, <1>2

\* What prepare of RME ends in once the transmit channel is taken.
LEMMA PrepareRmeIs ==
  ASSUME NEW d, NEW p \in prepare_rme(d), allocateIsoChannelGeneric(bus, d).c # None
  PROVE  LET t == allocateIsoChannelGeneric(bus, d)
         IN  \E o \in reset([dev[d] EXCEPT !.mem["tx"] = t.c], t.b, d) :
                LET r == allocateIsoChannelGeneric(o.b, d)
                IN  \/ ~o.ok /\ p = o
                    \/ o.ok /\ Family[d] = "rme800" /\ p \in Processors(o.x, o.b)
                    \/ o.ok /\ Family[d] # "rme800" /\ \E q \in Processors([o.x EXCEPT !.mem["rx"] = r.c], r.b) :
                                                        p = [q EXCEPT !.odd = r.c = None]
<1> DEFINE t == allocateIsoChannelGeneric(bus, d)
           x == [dev[d] EXCEPT !.mem["tx"] = t.c]
           r(o) == allocateIsoChannelGeneric(o.b, d)
           last(o) == {[q EXCEPT !.odd = r(o).c = None] : q \in Processors([o.x EXCEPT !.mem["rx"] = r(o).c], r(o).b)}
           after(o) == CASE ~o.ok -> {o}
                         [] o.ok /\ Family[d] = "rme800" -> Processors(o.x, o.b)
                         [] OTHER -> last(o)
<1>1. p \in UNION {after(o) : o \in reset(x, t.b, d)} BY DEF prepare_rme
<1> HIDE DEF last
<1>2. PICK o \in reset(x, t.b, d) : p \in after(o) BY <1>1
<1>3. \/ ~o.ok /\ p = o
      \/ o.ok /\ Family[d] = "rme800" /\ p \in Processors(o.x, o.b)
      \/ o.ok /\ Family[d] # "rme800" /\ p \in last(o)
  <2>1. CASE ~o.ok
    <3>1. after(o) = {o} BY <2>1
    <3> HIDE DEF after
    <3>2. p \in {o} BY <1>2, <3>1
    <3> QED BY <2>1, <3>2
  <2>2. CASE o.ok /\ Family[d] = "rme800"
    <3>1. after(o) = Processors(o.x, o.b) BY <2>2
    <3> QED BY <1>2, <2>2, <3>1
  <2>3. CASE o.ok /\ Family[d] # "rme800"
    <3>1. after(o) = last(o) BY <2>3
    <3> QED BY <1>2, <2>3, <3>1
  <2> QED BY <2>1, <2>2, <2>3
<1> QED BY <1>2, <1>3 DEF last

\* prepare of RME: first what is there once the transmit channel is taken and the system reset.
LEMMA PrepareRme ==
  ASSUME OwnInv, NEW d \in Devices, Empty(d), Family[d] \in {"rme400", "rme800"}, NEW p \in prepare_rme(d)
  PROVE  Sound(p, d)
<1> DEFINE t == allocateIsoChannelGeneric(bus, d)
           x == [dev[d] EXCEPT !.mem["tx"] = t.c]
<1>0. NumbersOK(dev[d]) /\ BusOK(bus) /\ ForeignOK(bus, dev[d], d) BY DeviceOK DEF OwnInv
<1>1. (t.c = None /\ t.b = bus) \/ Gets(bus, t, d) BY <1>0, GenericAllocation
<1>2. CASE t.c = None
  <2>1. PlainOutcome(p, dev[d], bus) BY <1>2, PlainIs DEF prepare_rme
  <2> QED BY <2>1, DeviceOK, SoundStill
<1>3. CASE t.c # None
  <2>1. BusOK(t.b) /\ Spares(bus, t.b, Devices) /\ Has(t.b, t.c, d) /\ t.c \in Channels
    <3>1. Gets(bus, t, d) BY <1>1, <1>3
    <3>2. Takes(bus, t.b, t.c, d) /\ Registered(t.b, t.c) /\ t.c \in Channels BY <3>1 DEF Gets, Takes
    <3> QED BY <1>0, <3>2, TakeFacts DEF Has
  <2>2. NumbersOK(x) /\ x.mem["tx"] = t.c /\ x.mem["rx"] = None /\ x.proc = dev[d].proc /\ x.reg = dev[d].reg
    BY <1>0, <2>1 DEF NumbersOK, Channel, Streams, Empty
  <2>3. PICK o \in reset(x, t.b, d) :
              LET r == allocateIsoChannelGeneric(o.b, d)
              IN  \/ ~o.ok /\ p = o
                  \/ o.ok /\ Family[d] = "rme800" /\ p \in Processors(o.x, o.b)
                  \/ o.ok /\ Family[d] # "rme800" /\ \E q \in Processors([o.x EXCEPT !.mem["rx"] = r.c], r.b) :
                                                      p = [q EXCEPT !.odd = r.c = None]
    BY <1>3, PrepareRmeIs
  <2> HIDE DEF x, t
  <2>4. PICK y : /\ PlainOutcome(o, y, o.b) /\ NumbersOK(y) /\ y.proc = x.proc /\ y.mem["tx"] = x.mem["tx"]
                 /\ \/ o.b = t.b /\ y = x /\ (o.ok => Family[d] = "rme400")
                    \/ /\ Family[d] # "rme400" /\ y.mem["rx"] = y.reg["rx"] /\ y.reg["rx"] \in Channels
                       /\ \/ o.b = t.b /\ y.reg["rx"] = x.reg["rx"]
                          \/ Takes(t.b, o.b, y.reg["rx"], Own)
    BY <2>1, <2>2, ResetIs
  <2>5. o.x = y /\ o.rob = {} /\ ~o.odd BY <2>4 DEF PlainOutcome
  <2>6. BusOK(o.b) /\ Spares(t.b, o.b, Devices)
    <3>1. CASE Takes(t.b, o.b, y.reg["rx"], Own) BY <2>1, <3>1, TakeFacts
    <3> QED BY <2>1, <2>4, <3>1, SparesSelf
  <2>7. Spares(bus, o.b, Devices) /\ Has(o.b, t.c, d) BY <2>1, <2>6 DEF Spares
  <2>8. ForeignOK(o.b, y, d) /\ (Family[d] = "rme800" => y.reg["rx"] = dev[d].reg["rx"] \/ (y.reg["rx"] \in Channels /\ bus.irm[y.reg["rx"]] # Own))
    <3>1. CASE y = x
      <4>1. Family[d] = "rme800" => dev[d].reg["rx"] \in Channels \cup {None} BY <1>0 DEF NumbersOK, Channel, Streams
      <4> QED BY <1>0, <2>2, <2>7, <3>1, <4>1 DEF ForeignOK, Spares
    <3>2. CASE o.b = t.b /\ y.reg["rx"] = x.reg["rx"] /\ y.mem["rx"] = y.reg["rx"] /\ y.reg["rx"] \in Channels
      BY <1>0, <2>2, <2>7, <3>2 DEF ForeignOK, Spares
    <3>3. CASE Takes(t.b, o.b, y.reg["rx"], Own) /\ y.mem["rx"] = y.reg["rx"] /\ y.reg["rx"] \in Channels
      <4>1. o.b.irm[y.reg["rx"]] = Own BY <2>1, <3>3, TakeFacts
      <4>2. bus.irm[y.reg["rx"]] # Own BY <2>1, <3>3, StreamConstants DEF Spares, Takes
      <4> QED BY <3>3, <4>1, <4>2 DEF ForeignOK
    <3> QED BY <2>4, <3>1, <3>2, <3>3
  <2>9. Family[d] \in Renting BY DEF Renting
  <2>10. CASE ~o.ok /\ p = o
    <3>1. KeepsOwn(o.b, y, d)
      <4>1. Number(y, d, "tx") = t.c BY <2>2, <2>4, <2>9 DEF Number, Foreign
      <4>2. Number(y, d, "rx") = None BY <2>2, <2>4, <2>9 DEF Number, Foreign
      <4>3. \A k \in Streams : y.proc[k] = Absent BY <2>2, <2>4 DEF Empty
      <4> QED BY <1>3, <2>7, <4>1, <4>2, <4>3 DEF KeepsOwn, Streams
    <3>2. Spares(bus, o.b, Devices \ ({d} \cup o.rob)) BY <2>7 DEF Spares
    <3> QED BY <2>4, <2>5, <2>6, <2>8, <2>10, <3>1, <3>2 DEF Sound
  <2>11. CASE o.ok /\ Family[d] = "rme800" /\ p \in Processors(o.x, o.b)
    <3>1. PICK z : /\ PlainOutcome(p, z, o.b) /\ NumbersOK(z) /\ z.mem = y.mem /\ z.reg = y.reg
      BY <2>4, <2>5, <2>11, ProcessorsAre
    <3>2. y.mem["rx"] \in Channels BY <2>4, <2>11
    <3>3. KeepsOwn(o.b, z, d)
      <4>1. Number(z, d, "tx") = t.c BY <2>2, <2>4, <2>9, <3>1 DEF Number, Foreign
      <4>2. Number(z, d, "rx") = None BY <2>9, <2>11 DEF Number, Foreign
      <4>3. \A k \in Streams : z.mem[k] # None BY <1>3, <2>2, <2>4, <3>1, <3>2, StreamConstants
      <4> QED BY <1>3, <2>7, <4>1, <4>2, <4>3 DEF KeepsOwn, Streams
    <3>4. p.x = z /\ p.b = o.b /\ p.rob = {} BY <3>1 DEF PlainOutcome
    <3>5. Spares(bus, p.b, Devices \ ({d} \cup p.rob)) BY <2>7, <3>4 DEF Spares
    <3>6. ForeignOK(p.b, z, d) BY <2>8, <3>1, <3>4 DEF ForeignOK
    <3> QED BY <2>6, <2>8, <3>1, <3>3, <3>4, <3>5, <3>6 DEF Sound
  <2>12. CASE o.ok /\ Family[d] # "rme800" /\
              LET r == allocateIsoChannelGeneric(o.b, d)
              IN  \E q \in Processors([o.x EXCEPT !.mem["rx"] = r.c], r.b) : p = [q EXCEPT !.odd = r.c = None]
    <3> DEFINE r == allocateIsoChannelGeneric(o.b, d)
               w == [y EXCEPT !.mem["rx"] = r.c]
    <3>1. (r.c = None /\ r.b = o.b) \/ Gets(o.b, r, d) BY <2>6, GenericAllocation
    <3>2. PICK q \in Processors(w, r.b) : p = [q EXCEPT !.odd = r.c = None] BY <2>5, <2>12
    <3> HIDE DEF r
    <3>3. r.c \in Channels \cup {None} BY <3>1 DEF Gets, Takes
    <3>4. NumbersOK(w) /\ w.mem["rx"] = r.c /\ w.mem["tx"] = t.c BY <2>2, <2>4, <3>3 DEF NumbersOK, Channel, Streams
    <3> HIDE DEF w
    <3>5. PICK z : PlainOutcome(q, z, r.b) /\ DOMAIN q = OutcomeFields /\ NumbersOK(z) /\ z.mem = w.mem
      BY <3>2, <3>4, ProcessorsAre
    <3>6. p.x = z /\ p.b = r.b /\ p.rob = {} /\ (r.c = None => p.odd)
      BY <3>2, <3>5 DEF PlainOutcome, OutcomeFields
    <3>7. /\ BusOK(r.b) /\ Spares(o.b, r.b, Devices)
          /\ (r.c # None => Has(r.b, r.c, d) /\ o.b.irm[r.c] = Nobody)
      <4>1. CASE Gets(o.b, r, d)
        <5>1. o.b.irm[r.c] = Nobody BY <4>1 DEF Gets, Takes
        <5> QED BY <2>6, <4>1, <5>1, TakeFacts DEF Gets, Has
      <4> QED BY <2>6, <3>1, <4>1, SparesSelf
    <3>8. ASSUME r.c # None PROVE KeepsOwn(r.b, z, d)
      <4>1. Number(z, d, "tx") = t.c /\ Number(z, d, "rx") = r.c BY <2>9, <2>12, <3>4, <3>5 DEF Number, Foreign
      <4>2. Has(r.b, t.c, d) /\ t.c # r.c BY <2>7, <3>7, <3>8, StreamConstants DEF Spares, Has
      <4>3. \A k \in Streams : z.mem[k] # None BY <1>3, <3>4, <3>5, <3>8, StreamConstants
      <4> QED BY <3>7, <3>8, <4>1, <4>2, <4>3 DEF KeepsOwn, Streams
    <3>9. Spares(bus, p.b, Devices \ {d}) BY <2>7, <3>6, <3>7 DEF Spares
    <3> QED BY <2>12, <3>5, <3>6, <3>7, <3>8, <3>9, SoundWithout
  <2> QED BY <2>3, <2>10, <2>11, <2>12
<1> QED BY <1>2, <1>3

LEMMA PrepareSound ==
  ASSUME OwnInv, NEW d \in Devices, Empty(d), NEW o \in prepare(d), Family[d] \in Vectors \cup Renting
  PROVE  Sound(o, d)
<1>1. CASE Family[d] \in Vectors BY <1>1, PrepareSimple
<1>2. CASE Family[d] \in {"motu", "digidesign"}
  <2>1. o \in prepare_both(d) BY <1>2 DEF prepare, prepare_motu, prepare_digidesign
  <2> QED BY <1>2, <2>1, PrepareBoth
<1>3. CASE Family[d] \in {"rme400", "rme800"}
  <2>1. o \in prepare_rme(d) BY <1>3 DEF prepare
  <2> QED BY <1>3, <2>1, PrepareRme
<1> QED BY <1>1, <1>2, <1>3 DEF Renting

-----------------------------------------------------------------------------
\* Starting and stopping a stream.
SameStreams(o, d) == \A j \in Streams : o.x.proc[j] = Absent <=> dev[d].proc[j] = Absent
Once(d) == Family[d] \in Renting \ {"motu"}   \* all streams start with the first
StartOK(o, d, k) ==
    /\ Sound(o, d) /\ SameStreams(o, d)
    /\ ~snoop /\ d \notin odd /\ ~o.odd /\ Family[d] # "slave" /\ o.ok /\ ~o.crash =>
          /\ \A j \in Streams : Ready(dev[d], d, j) => Ready(o.x, d, j)
          /\ Ready(o.x, d, k) \/ (Once(d) /\ k # "rx")
          /\ Once(d) /\ k = "rx" => \A j \in Streams : Ready(o.x, d, j)
StopOK(o, d) == Sound(o, d) /\ SameStreams(o, d)

\* A stream of a driver that takes channels as streams start gets a channel.
GetsNew(o, d, k, a) ==
    Gets(bus, a, d) /\ o.b = a.b /\ o.rob = {} /\ NumbersOK(o.x) /\ o.x.proc = [dev[d].proc EXCEPT ![k] = a.c]
LEMMA SoundNew ==
  ASSUME OwnInv, NEW d \in Devices, NEW k \in Streams, Family[d] \notin Renting, NEW a, NEW o, GetsNew(o, d, k, a)
  PROVE  Sound(o, d)
<1> USE DEF GetsNew
<1> DEFINE x == dev[d]
           y == o.x
<1>0. NumbersOK(x) /\ BusOK(bus) BY DeviceOK DEF OwnInv
<1>1. BusOK(o.b) /\ Spares(bus, o.b, Devices) /\ Has(o.b, a.c, d) /\ bus.irm[a.c] = Nobody
  <2>1. Takes(bus, a.b, a.c, d) /\ Registered(a.b, a.c) /\ bus.irm[a.c] = Nobody BY DEF Gets, Takes
  <2> QED BY <1>0, <2>1, TakeFacts DEF Has
<1>2. y.proc[k] = a.c /\ \A j \in Streams : j # k => y.proc[j] = x.proc[j] BY <1>0 DEF NumbersOK
<1>3. ASSUME d \notin odd PROVE KeepsOwn(o.b, y, d)
  <2>1. KeepsOwn(bus, x, d) BY <1>3 DEF OwnInv
  <2>2. ASSUME NEW j \in Streams
        PROVE  \/ Number(y, d, j) \in {None, Absent}
               \/ Number(y, d, j) = Number(x, d, j) /\ Has(o.b, Number(x, d, j), d)
               \/ j = k /\ Has(o.b, Number(y, d, j), d) /\ bus.irm[Number(y, d, j)] = Nobody
    <3>1. \/ Number(y, d, j) = None
          \/ Number(y, d, j) = y.proc[j] /\ Number(x, d, j) = x.proc[j]
      BY DEF Number
    <3>2. Number(x, d, j) \notin {None, Absent} => Has(o.b, Number(x, d, j), d) BY <1>1, <2>1 DEF KeepsOwn, Spares
    <3> QED BY <1>1, <1>2, <3>1, <3>2
  <2>3. GotFrom(bus, x, o.b, y, d, k)
    <3> HIDE DEF x, y
    <3> QED BY <2>2, Zenon DEF GotFrom
  <2> QED BY <2>1, <2>3, KeepsBy
<1>4. Spares(bus, o.b, Devices \ {d}) BY <1>1 DEF Spares
<1>5. Family[d] # "rme800" BY DEF Renting
<1> QED BY <1>1, <1>3, <1>4, <1>5, SoundWithout

\* A stream gives its channel back, if the service has it on its books.
LEMMA SoundRelease ==
  ASSUME OwnInv, NEW d \in Devices, NEW k \in Streams, Family[d] \notin Renting, Number(dev[d], d, k) = dev[d].proc[k],
         NEW o, o.b = freeIsoChannel(bus, dev[d].proc[k]).b, o.rob = Victims(bus, dev[d].proc[k], d), NumbersOK(o.x),
         \A j \in Streams : j # k => o.x.proc[j] = dev[d].proc[j],
         o.x.proc[k] = None \/ (~Registered(bus, dev[d].proc[k]) /\ o.x.proc[k] = dev[d].proc[k])
  PROVE  Sound(o, d)
<1> DEFINE x == dev[d]
           y == o.x
           c == dev[d].proc[k]
<1>0. NumbersOK(x) /\ BusOK(bus) BY DeviceOK DEF OwnInv
<1>1. ASSUME NEW j \in Streams PROVE Number(y, d, j) \in {None, Number(x, d, j)} /\ (y.proc[k] = None => Number(y, d, k) = None)
  BY DEF Number
<1>2. CASE ~Registered(bus, c)
  <2>1. o.b = bus /\ o.rob = {} BY <1>0, <1>2, Freeing DEF Victims
  <2> QED BY <1>0, <1>1, <2>1, SoundQuiet, SparesSelf
<1>3. CASE Registered(bus, c)
  <2>1. Gives(bus, o.b, c) BY <1>0, <1>3, Freeing
  <2>2. /\ BusOK(o.b) /\ Spares(bus, o.b, Devices \ {bus.irm[c]}) /\ bus.irm[c] \in Devices
        /\ \A e, f : e # c /\ Has(bus, e, f) => Has(o.b, e, f)
    BY <1>0, <2>1, GiveFacts, ZenonT(40)
  <2>3. o.rob = {bus.irm[c]} \ {d} BY <1>3, <2>2, StreamConstants DEF Victims
  <2>4. Spares(bus, o.b, Devices \ ({d} \cup o.rob)) BY <2>2, <2>3 DEF Spares
  <2>5. ASSUME d \notin odd PROVE o.rob = {} /\ KeepsOwn(o.b, y, d)
    <3>1. KeepsOwn(bus, x, d) BY <2>5 DEF OwnInv
    <3>2. c \notin {None, Absent} BY <1>3, Unregistered
    <3>3. bus.irm[c] = d BY <3>1, <3>2 DEF KeepsOwn, Has
    <3>4. ASSUME NEW j \in Streams, Number(y, d, j) \notin {None, Absent} PROVE Has(o.b, Number(y, d, j), d)
      <4>1. j # k /\ Number(y, d, j) = Number(x, d, j) BY <1>1, <1>3, <3>4
      <4>2. Has(bus, Number(x, d, j), d) BY <3>1, <3>4, <4>1 DEF KeepsOwn
      <4>3. Number(x, d, j) # c BY <3>1, <3>2, <4>1 DEF KeepsOwn, Streams
      <4> QED BY <2>2, <4>1, <4>2, <4>3
    <3>5. Number(y, d, k) = None BY <1>1, <1>3
    <3>6. Number(y, d, "rx") = Number(y, d, "tx") => Number(y, d, "rx") \in {None, Absent} BY <3>5 DEF Streams
    <3> QED BY <2>3, <3>3, <3>4, <3>6 DEF KeepsOwn
  <2>6. Family[d] # "rme800" BY DEF Renting
  <2> QED BY <1>0, <2>2, <2>3, <2>4, <2>5, <2>6 DEF Sound, ForeignOK
<1> QED BY <1>2, <1>3

\* Where a driver takes its channels as streams start, and a stream falls silent at most.
LEMMA SoundProc ==
  ASSUME OwnInv, NEW d \in Devices, NEW o, Family[d] \notin Renting, Spares(bus, o.b, Devices), BusOK(o.b), o.rob = {},
         NumbersOK(o.x), \A j \in Streams : o.x.proc[j] \in {None, Absent, dev[d].proc[j]}
  PROVE  Sound(o, d)
<1>1. \A j \in Streams : Number(o.x, d, j) \in {None, Absent, Number(dev[d], d, j)} BY DEF Number
<1> QED BY <1>1, SoundQuiet

LEMMA SoundNumberless ==
  ASSUME OwnInv, NEW d \in Devices, NEW o, Family[d] = "slave" \/ (snoop /\ Family[d] \in {"avc", "dice"}),
         o.b = bus, o.rob = {}, NumbersOK(o.x)
  PROVE  Sound(o, d)
<1>1. \A j \in Streams : Number(o.x, d, j) = None /\ Family[d] \notin Renting BY DEF Number, Renting
<1>2. BusOK(o.b) /\ Spares(bus, o.b, Devices) BY SparesSelf DEF OwnInv
<1>3. \A j \in Streams : Number(o.x, d, j) \in {None, Absent, Number(dev[d], d, j)} BY <1>1
<1>4. Family[d] \notin Renting BY DEF Renting
<1> QED BY <1>2, <1>3, <1>4, SoundQuiet

\* The stream of a start or a stop exists; the others go on as they do.
OneStream(o, d, k) ==
    /\ NumbersOK(o.x) /\ dev[d].proc[k] # Absent /\ o.x.proc[k] # Absent
    /\ \A j \in Streams : j # k => o.x.proc[j] = dev[d].proc[j] /\ o.x.mem[j] = dev[d].mem[j] /\ o.x.reg[j] = dev[d].reg[j]
LEMMA OneStreamSame ==
  ASSUME NEW d, NEW o, NEW k, OneStream(o, d, k)
  PROVE  SameStreams(o, d)
BY DEF OneStream, SameStreams
LEMMA OneStreamStart ==
  ASSUME NEW d, NEW o, NEW k \in Streams, OneStream(o, d, k), Sound(o, d), ~Once(d),
         ~snoop /\ ~o.odd /\ Family[d] # "slave" /\ o.ok => Ready(o.x, d, k)
  PROVE  StartOK(o, d, k)
<1>1. \A j \in Streams : j # k => (Ready(dev[d], d, j) => Ready(o.x, d, j)) BY DEF OneStream, Ready
<1> QED BY <1>1, OneStreamSame DEF StartOK

LEMMA StartAvc ==
  ASSUME OwnInv, NEW d \in Devices, Family[d] = "avc", NEW k \in Streams, dev[d].proc[k] # Absent, NEW o \in start_avc(d, k)
  PROVE  StartOK(o, d, k)
<1> DEFINE x == dev[d]
<1>0. NumbersOK(x) /\ BusOK(bus) /\ ~Once(d) /\ Family[d] \notin Renting BY DeviceOK DEF OwnInv, Once, Renting
<1>1. CASE snoop
  <2>1. CASE o = Failing(Outcome(dev[d], bus, FALSE))
    <3>1. o.x = dev[d] /\ o.b = bus /\ o.rob = {} BY <2>1 DEF Failing, Outcome
    <3>2. OneStream(o, d, k) BY <1>0, <3>1 DEF OneStream
    <3> QED BY <1>0, <1>1, <3>1, <3>2, SoundNumberless, OneStreamStart
  <2>2. ASSUME NEW c \in Channels, o = Outcome([dev[d] EXCEPT !.proc[k] = c], bus, TRUE) PROVE StartOK(o, d, k)
    <3> DEFINE y == [x EXCEPT !.proc[k] = c]
    <3>1. NumbersOK(y) /\ y.proc = [x.proc EXCEPT ![k] = c] /\ y.mem = x.mem /\ y.reg = x.reg
      BY <1>0 DEF NumbersOK, Channel
    <3> HIDE DEF y
    <3>2. o.x = y /\ o.b = bus /\ o.rob = {} BY <2>2 DEF Outcome, y
    <3>3. y.proc[k] = c /\ \A j \in Streams : j # k => y.proc[j] = x.proc[j] BY <1>0, <3>1 DEF NumbersOK
    <3>4. OneStream(o, d, k) BY <3>1, <3>2, <3>3, StreamConstants DEF OneStream
    <3> QED BY <1>0, <1>1, <3>1, <3>2, <3>4, SoundNumberless, OneStreamStart
  <2> QED BY <1>1, <2>1, <2>2 DEF start_avc
<1>2. CASE ~snoop
  <2>1. PICK a \in allocateIsoChannelCMP(bus, d) :
            o = IF a.c = None THEN [Outcome(x, a.b, FALSE) EXCEPT !.fault = a.b # bus \/ bus.units > 0]
                ELSE Outcome([x EXCEPT !.proc[k] = a.c, !.on[k] = TRUE], a.b, TRUE)
    BY <1>2 DEF start_avc
  <2>2. \/ a.c = None /\ (a.b = bus \/ Takes(bus, a.b, NrChannels - 1, d))
        \/ Gets(bus, a, d)
    BY <1>0, ConnectionAllocation
  <2>3. CASE a.c = None
    <3>1. o.x = x /\ o.b = a.b /\ o.rob = {} /\ o.ok = FALSE BY <2>1, <2>3 DEF Outcome
    <3>2. BusOK(a.b) /\ Spares(bus, a.b, Devices)
      <4>1. CASE a.b = bus BY <1>0, <4>1, SparesSelf
      <4>2. ASSUME NEW c, Takes(bus, a.b, c, d) PROVE BusOK(a.b) /\ Spares(bus, a.b, Devices)
        BY <1>0, <4>2, TakeFacts
      <4> QED BY <2>2, <2>3, <4>1, <4>2, StreamConstants DEF Gets
    <3>3. OneStream(o, d, k) BY <1>0, <3>1 DEF OneStream
    <3> QED BY <1>0, <3>1, <3>2, <3>3, SoundProc, OneStreamStart
  <2>4. CASE a.c # None
    <3>1. Gets(bus, a, d) /\ a.c \in Channels BY <2>2, <2>4 DEF Gets, Takes
    <3> DEFINE y == [x EXCEPT !.proc[k] = a.c, !.on[k] = TRUE]
    <3>7. o = Outcome(y, a.b, TRUE) BY <2>1, <2>4
    <3> HIDE DEF y
    <3>2. o.x = y /\ o.b = a.b /\ o.rob = {} BY <3>7 DEF Outcome
    <3>3. NumbersOK(o.x) /\ o.x.proc = [x.proc EXCEPT ![k] = a.c] /\ o.x.mem = x.mem /\ o.x.reg = x.reg
      BY <1>0, <3>1, <3>2 DEF NumbersOK, Channel, y
    <3>4. o.x.proc[k] = a.c /\ OneStream(o, d, k) BY <1>0, <3>1, <3>3, StreamConstants DEF OneStream, NumbersOK
    <3>5. Ready(o.x, d, k) BY <2>4, <3>4 DEF Ready, Renting
    <3>8. GetsNew(o, d, k, a) BY <3>1, <3>2, <3>3 DEF GetsNew
    <3>6. Sound(o, d) BY <1>0, <3>8, SoundNew
    <3> QED BY <1>0, <3>4, <3>5, <3>6, OneStreamStart
  <2> QED BY <2>3, <2>4
<1> QED BY <1>1, <1>2

LEMMA StopAvc ==
  ASSUME OwnInv, NEW d \in Devices, Family[d] = "avc", NEW k \in Streams, dev[d].proc[k] # Absent, NEW o \in stop_avc(d, k)
  PROVE  StopOK(o, d)
<1> DEFINE x == dev[d]
           c == x.proc[k]
           f == freeIsoChannel(bus, c)
           off == [x EXCEPT !.proc[k] = None, !.on[k] = FALSE]
<1>0. NumbersOK(x) /\ BusOK(bus) /\ Family[d] \notin Renting BY DeviceOK DEF OwnInv, Renting
<1>1. NumbersOK(off) /\ off.proc = [x.proc EXCEPT ![k] = None] BY <1>0 DEF NumbersOK, Channel
<1>2. off.proc[k] = None /\ \A j \in Streams : j # k => off.proc[j] = x.proc[j] BY <1>0, <1>1 DEF NumbersOK
<1>3. ASSUME o.x = x \/ o.x = off
      PROVE  SameStreams(o, d) /\ NumbersOK(o.x) /\ \A j \in Streams : o.x.proc[j] \in {None, x.proc[j]}
  <2>1. CASE o.x = off
    <3> HIDE DEF off
    <3>1. o.x.proc[k] = None /\ \A j \in Streams : j # k => o.x.proc[j] = x.proc[j] BY <1>2, <2>1
    <3>2. x.proc[k] # Absent /\ None # Absent BY StreamConstants
    <3>3. SameStreams(o, d) BY <3>1, <3>2 DEF SameStreams
    <3> QED BY <1>1, <2>1, <3>1, <3>3
  <2> QED BY <1>0, <1>3, <2>1 DEF SameStreams
<1> HIDE DEF off, f
<1>4. CASE c = None \/ snoop
  <2>1. o = Outcome(x, bus, TRUE) \/ o = Outcome(off, bus, TRUE) BY <1>4 DEF stop_avc, off
  <2>2. (o.x = x \/ o.x = off) /\ o.b = bus /\ o.rob = {} BY <2>1 DEF Outcome
  <2>3. Spares(bus, o.b, Devices) BY <2>2, SparesSelf
  <2> QED BY <1>0, <1>3, <2>2, <2>3, SoundProc DEF StopOK
<1>5. CASE ~(c = None \/ snoop)
  <2>1. o = [Outcome(IF f.ok THEN off ELSE x, f.b, f.ok) EXCEPT !.rob = Victims(bus, c, d)]
    BY <1>5 DEF stop_avc, off, f
  <2>2. o.x = (IF f.ok THEN off ELSE x) /\ o.b = f.b /\ o.rob = Victims(bus, c, d)
    BY <2>1 DEF Outcome
  <2>3. ~Registered(bus, c) \/ f.ok = TRUE BY <1>0, Freeing DEF f
  <2>4. o.x.proc[k] = None \/ (~Registered(bus, c) /\ o.x.proc[k] = c) BY <1>2, <2>2, <2>3
  <2>5. \A j \in Streams : j # k => o.x.proc[j] = x.proc[j] BY <1>2, <2>2
  <2>6. Number(x, d, k) = c BY <1>5, <1>0 DEF Number
  <2>7. Sound(o, d) BY <1>0, <1>3, <2>2, <2>4, <2>5, <2>6, SoundRelease DEF f
  <2> QED BY <1>3, <2>2, <2>7 DEF StopOK
<1> QED BY <1>4, <1>5

\* A stream that falls silent, or stays as it was, on a bus where nobody has lost anything.
LEMMA Silent ==
  ASSUME OwnInv, NEW d \in Devices, Family[d] \notin Renting, NEW k \in Streams, dev[d].proc[k] # Absent, NEW o,
         o.x = dev[d] \/ o.x = [dev[d] EXCEPT !.proc[k] = None], BusOK(o.b), Spares(bus, o.b, Devices), o.rob = {}
  PROVE  Sound(o, d) /\ OneStream(o, d, k)
<1>0. NumbersOK(dev[d]) BY DeviceOK
<1>1. CASE o.x = dev[d] BY <1>0, <1>1, SoundProc DEF OneStream
<1>2. CASE o.x = [dev[d] EXCEPT !.proc[k] = None]
  <2>1. NumbersOK(o.x) /\ o.x.proc = [dev[d].proc EXCEPT ![k] = None] /\ o.x.mem = dev[d].mem /\ o.x.reg = dev[d].reg
    BY <1>0, <1>2 DEF NumbersOK, Channel
  <2>2. o.x.proc[k] = None /\ \A j \in Streams : j # k => o.x.proc[j] = dev[d].proc[j] BY <1>0, <2>1 DEF NumbersOK
  <2>3. \A j \in Streams : o.x.proc[j] \in {None, Absent, dev[d].proc[j]} BY <2>2
  <2>4. OneStream(o, d, k) BY <2>1, <2>2, StreamConstants DEF OneStream
  <2> QED BY <2>1, <2>3, <2>4, SoundProc
<1> QED BY <1>1, <1>2

LEMMA StartDice ==
  ASSUME OwnInv, NEW d \in Devices, Family[d] = "dice", NEW k \in Streams, dev[d].proc[k] # Absent, NEW o \in start_dice(d, k)
  PROVE  StartOK(o, d, k)
<1> DEFINE x == dev[d]
           a == allocateIsoChannelGeneric(bus, d)
           kept == x.reg[k]
           use == IF kept = None THEN a.c ELSE kept
           back == freeIsoChannel(a.b, a.c).b
           held == IF kept = None THEN a.b ELSE back
           quiet == [x EXCEPT !.proc[k] = None]
           lost == freeIsoChannel(held, use)
           playing == [x EXCEPT !.proc[k] = use, !.reg[k] = use, !.on[k] = TRUE]
<1>0. NumbersOK(x) /\ BusOK(bus) /\ ~Once(d) /\ Family[d] \notin Renting BY DeviceOK DEF OwnInv, Once, Renting
<1>1. CASE snoop
  <2>1. o = Outcome([x EXCEPT !.proc[k] = x.reg[k]], bus, TRUE) \/ o = Failing(Outcome(quiet, bus, FALSE))
    BY <1>1 DEF start_dice
  <2>2. x.reg[k] \in Channel BY <1>0 DEF NumbersOK
  <2>3. PICK c \in Channel : o.x = [x EXCEPT !.proc[k] = c] /\ o.b = bus /\ o.rob = {}
    <3>1. CASE o = Outcome([x EXCEPT !.proc[k] = x.reg[k]], bus, TRUE)
      <4> DEFINE y == [x EXCEPT !.proc[k] = x.reg[k]]
      <4> HIDE DEF y
      <4>1. o.x = y /\ o.b = bus /\ o.rob = {} BY <3>1 DEF Outcome, y
      <4> QED BY <2>2, <4>1 DEF y
    <3>2. CASE o = Failing(Outcome(quiet, bus, FALSE))
      <4> HIDE DEF quiet
      <4>1. o.x = quiet /\ o.b = bus /\ o.rob = {} BY <3>2 DEF Outcome, Failing
      <4>2. None \in Channel BY DEF Channel
      <4> QED BY <4>1, <4>2 DEF quiet
    <3> QED BY <2>1, <3>1, <3>2
  <2>4. NumbersOK(o.x) /\ o.x.proc = [x.proc EXCEPT ![k] = c] /\ o.x.mem = x.mem /\ o.x.reg = x.reg
    BY <1>0, <2>3 DEF NumbersOK, Channel
  <2>5. o.x.proc[k] = c /\ \A j \in Streams : j # k => o.x.proc[j] = x.proc[j] BY <1>0, <2>4 DEF NumbersOK
  <2>6. OneStream(o, d, k) BY <2>4, <2>5, StreamConstants DEF OneStream, Channel
  <2> QED BY <1>0, <1>1, <2>3, <2>4, <2>6, SoundNumberless, OneStreamStart
<1>2. (a.c = None /\ a.b = bus) \/ Gets(bus, a, d) BY <1>0, GenericAllocation
<1> HIDE DEF a
<1>3. CASE ~snoop /\ a.c = None
  <2>1. o = Outcome(dev[d], a.b, FALSE) BY <1>3 DEF start_dice, a
  <2>2. o.x = dev[d] /\ o.b = a.b /\ o.rob = {} /\ o.ok = FALSE BY <2>1 DEF Outcome
  <2>3. a.b = bus BY <1>2, <1>3, StreamConstants DEF Gets
  <2>4. BusOK(o.b) /\ Spares(bus, o.b, Devices) BY <1>0, <2>2, <2>3, SparesSelf
  <2>5. Sound(o, d) /\ OneStream(o, d, k) BY <1>0, <2>2, <2>4, Silent
  <2> QED BY <1>0, <2>2, <2>5, OneStreamStart
<1>4. CASE ~snoop /\ a.c # None
  <2>1. Gets(bus, a, d) /\ a.c \in Channels BY <1>2, <1>4 DEF Gets, Takes
  <2>2. BusOK(back) /\ Spares(bus, back, Devices) BY <1>0, <2>1, Returned
  <2>3. kept \in Channel /\ use \in Channels
    BY <1>0, <2>1 DEF NumbersOK, Channel
  <2>4. \/ o = [Outcome(playing, held, TRUE) EXCEPT !.odd = kept # None]
        \/ o = Failing(Outcome(quiet, back, FALSE))
        \/ o = [Failing(Outcome(quiet, lost.b, FALSE)) EXCEPT !.rob = Victims(held, use, d), !.odd = kept # None]
    BY <1>4 DEF start_dice, a
  <2> HIDE DEF back
  <2>5. CASE o = [Outcome(playing, held, TRUE) EXCEPT !.odd = kept # None]
    <3>1. /\ NumbersOK(playing) /\ playing.proc = [x.proc EXCEPT ![k] = use] /\ playing.mem = x.mem
          /\ playing.reg = [x.reg EXCEPT ![k] = use]
      <4> HIDE DEF use
      <4>1. use \in Channel BY <2>3 DEF Channel
      <4> QED BY <1>0, <4>1 DEF NumbersOK, Channel
    <3> HIDE DEF playing, held, use
    <3>2. o.x = playing /\ o.b = held /\ o.rob = {} /\ (kept # None => o.odd) BY <2>5 DEF Outcome
    <3>3. /\ playing.proc[k] = use /\ playing.reg[k] = use
          /\ \A j \in Streams : j # k => playing.proc[j] = x.proc[j] /\ playing.reg[j] = x.reg[j]
      BY <1>0, <3>1 DEF NumbersOK
    <3>4. OneStream(o, d, k) BY <2>3, <3>1, <3>2, <3>3, StreamConstants DEF OneStream
    <3>5. Ready(o.x, d, k) BY <1>0, <2>3, <3>2, <3>3, StreamConstants DEF Ready
    <3>6. Sound(o, d)
      <4>1. CASE kept = None
        <5>1. GetsNew(o, d, k, a) BY <2>1, <3>1, <3>2, <4>1 DEF GetsNew, held, use
        <5> QED BY <1>0, <5>1, SoundNew
      <4>2. CASE kept # None
        <5>1. o.b = back BY <3>2, <4>2 DEF held
        <5>2. Spares(bus, o.b, Devices \ {d}) BY <2>2, <5>1 DEF Spares
        <5>3. Family[d] # "rme800" OBVIOUS
        <5> QED BY <2>2, <3>1, <3>2, <4>2, <5>1, <5>2, <5>3, SoundWithout
      <4> QED BY <4>1, <4>2
    <3> QED BY <1>0, <3>4, <3>5, <3>6, OneStreamStart
  <2>6. CASE o = Failing(Outcome(quiet, back, FALSE))
    <3> HIDE DEF quiet
    <3>1. o.x = quiet /\ o.b = back /\ o.rob = {} /\ o.ok = FALSE BY <2>6 DEF Outcome, Failing
    <3>2. Sound(o, d) /\ OneStream(o, d, k) BY <1>0, <2>2, <3>1, Silent DEF quiet
    <3> QED BY <1>0, <3>1, <3>2, OneStreamStart
  <2>7. CASE o = [Failing(Outcome(quiet, lost.b, FALSE)) EXCEPT !.rob = Victims(held, use, d), !.odd = kept # None]
    <3>0. lost = freeIsoChannel(held, use) OBVIOUS
    <3> HIDE DEF quiet, lost, held, use
    <3>1. o.x = quiet /\ o.b = lost.b /\ o.rob = Victims(held, use, d) /\ (kept # None => o.odd) /\ o.ok = FALSE
      BY <2>7 DEF Outcome, Failing
    <3>2. CASE kept = None
      <4>1. held = a.b /\ use = a.c BY <3>2 DEF held, use
      <4>2. o.b = back BY <3>0, <3>1, <4>1 DEF back
      <4>3. a.b.irm[a.c] = d BY <1>0, <2>1, TakeFacts DEF Gets
      <4>4. o.rob = {} BY <3>1, <4>1, <4>3 DEF Victims
      <4>5. Sound(o, d) /\ OneStream(o, d, k) BY <1>0, <2>2, <3>1, <4>2, <4>4, Silent DEF quiet
      <4> QED BY <1>0, <3>1, <4>5, OneStreamStart
    <3>3. CASE kept # None
      <4>1. held = back /\ use = kept BY <3>3 DEF held, use
      <4>2. /\ BusOK(o.b) /\ o.rob \subseteq Devices \ {d} /\ Spares(back, o.b, Devices \ ({d} \cup o.rob))
        <5>1. CASE ~Registered(back, use)
          <6>1. o.b = back BY <2>2, <3>0, <3>1, <4>1, <5>1, Freeing
          <6>2. o.rob = {} BY <3>1, <4>1, <5>1 DEF Victims
          <6> QED BY <2>2, <6>1, <6>2, SparesSelf
        <5>2. CASE Registered(back, use)
          <6>1. Gives(back, o.b, use) BY <2>2, <3>0, <3>1, <4>1, <5>2, Freeing
          <6>2. BusOK(o.b) /\ Spares(back, o.b, Devices \ {back.irm[use]}) /\ back.irm[use] \in Devices
            BY <2>2, <6>1, GiveFacts
          <6>3. o.rob = {back.irm[use]} \ {d} BY <3>1, <4>1, <5>2, <6>2, StreamConstants DEF Victims
          <6> QED BY <6>2, <6>3 DEF Spares
        <5> QED BY <5>1, <5>2
      <4>3. Spares(bus, o.b, Devices \ ({d} \cup o.rob)) BY <2>2, <4>2 DEF Spares
      <4>4. OneStream(o, d, k) /\ NumbersOK(o.x)
        <5>1. NumbersOK(o.x) /\ o.x.proc = [x.proc EXCEPT ![k] = None] /\ o.x.mem = x.mem /\ o.x.reg = x.reg
          BY <1>0, <3>1 DEF NumbersOK, Channel, quiet
        <5>2. o.x.proc[k] = None /\ \A j \in Streams : j # k => o.x.proc[j] = x.proc[j] BY <1>0, <5>1 DEF NumbersOK
        <5> QED BY <5>1, <5>2, StreamConstants DEF OneStream
      <4>5. Sound(o, d) BY <3>1, <3>3, <4>2, <4>3, <4>4 DEF Sound, ForeignOK
      <4> QED BY <1>0, <3>1, <4>4, <4>5, OneStreamStart
    <3> QED BY <3>2, <3>3
  <2> QED BY <2>4, <2>5, <2>6, <2>7
<1> QED BY <1>1, <1>3, <1>4

\* What stop_dice and stop_bounce end in: the registers are cleared, the channel is given back.
LEMMA ReleaseCleared ==
  ASSUME OwnInv, NEW d \in Devices, Family[d] \notin Renting, NEW k \in Streams, dev[d].proc[k] # Absent,
         Number(dev[d], d, k) = dev[d].proc[k], NEW y, NumbersOK(y), y.proc = dev[d].proc, NEW o,
         LET f == freeIsoChannel(bus, dev[d].proc[k])
         IN  o.x = (IF f.ok THEN [y EXCEPT !.proc[k] = None] ELSE y) /\ o.b = f.b /\ o.rob = Victims(bus, dev[d].proc[k], d)
  PROVE  StopOK(o, d)
<1> DEFINE x == dev[d]
           c == x.proc[k]
           f == freeIsoChannel(bus, c)
           z == [y EXCEPT !.proc[k] = None]
<1>0. NumbersOK(x) /\ BusOK(bus) BY DeviceOK DEF OwnInv
<1>1. NumbersOK(z) /\ z.proc = [x.proc EXCEPT ![k] = None] BY DEF NumbersOK, Channel
<1>2. z.proc[k] = None /\ \A j \in Streams : j # k => z.proc[j] = x.proc[j] BY <1>0, <1>1 DEF NumbersOK
<1> HIDE DEF z
<1>3. ~Registered(bus, c) \/ f.ok = TRUE BY <1>0, Freeing
<1>4. o.x = (IF f.ok THEN z ELSE y) /\ o.b = f.b /\ o.rob = Victims(bus, c, d) BY DEF z
<1> HIDE DEF f
<1>5. NumbersOK(o.x) /\ \A j \in Streams : j # k => o.x.proc[j] = x.proc[j] BY <1>1, <1>2, <1>4
<1>6. o.x.proc[k] = None \/ (~Registered(bus, c) /\ o.x.proc[k] = c) BY <1>2, <1>3, <1>4
<1>7. SameStreams(o, d)
  <2>1. o.x.proc[k] # Absent BY <1>6, StreamConstants
  <2> QED BY <1>5, <2>1 DEF SameStreams
<1>8. Sound(o, d) BY <1>4, <1>5, <1>6, SoundRelease DEF f
<1> QED BY <1>7, <1>8 DEF StopOK

LEMMA StopDice ==
  ASSUME OwnInv, NEW d \in Devices, Family[d] = "dice", NEW k \in Streams, dev[d].proc[k] # Absent, NEW o \in stop_dice(d, k)
  PROVE  StopOK(o, d)
<1> DEFINE x == dev[d]
           c == x.proc[k]
           cleared == [x EXCEPT !.reg["rx"] = None, !.on["rx"] = FALSE]
           f == freeIsoChannel(bus, c)
           quiet == [x EXCEPT !.proc[k] = None]
<1>0. NumbersOK(x) /\ BusOK(bus) /\ Spares(bus, bus, Devices) /\ Family[d] \notin Renting
  BY DeviceOK, SparesSelf DEF OwnInv, Renting
<1>1. CASE o = Outcome(x, bus, FALSE) \/ o = Failing(Outcome(x, bus, FALSE))
  <2>1. o.x = x /\ o.b = bus /\ o.rob = {} BY <1>1 DEF Outcome, Failing
  <2>2. Sound(o, d) /\ OneStream(o, d, k) BY <1>0, <2>1, Silent
  <2> QED BY <2>2, OneStreamSame DEF StopOK
<1>2. CASE o = Outcome(quiet, bus, TRUE)
  <2> HIDE DEF quiet
  <2>1. o.x = quiet /\ o.b = bus /\ o.rob = {} BY <1>2 DEF Outcome
  <2>2. Sound(o, d) /\ OneStream(o, d, k) BY <1>0, <2>1, Silent DEF quiet
  <2> QED BY <2>2, OneStreamSame DEF StopOK
<1>3. CASE ~snoop /\ o = [Outcome(IF f.ok THEN [cleared EXCEPT !.proc[k] = None] ELSE cleared, f.b, f.ok)
                             EXCEPT !.rob = Victims(bus, c, d), !.odd = cleared.reg[k] # None]
  <2> DEFINE y == IF f.ok THEN [cleared EXCEPT !.proc[k] = None] ELSE cleared
  <2>1. NumbersOK(cleared) /\ cleared.proc = x.proc BY <1>0 DEF NumbersOK, Channel
  <2>2. Number(x, d, k) = c BY <1>3 DEF Number, Renting
  <2> HIDE DEF cleared, y
  <2>3. o = [Outcome(y, f.b, f.ok) EXCEPT !.rob = Victims(bus, c, d), !.odd = cleared.reg[k] # None] BY <1>3 DEF y
  <2>4. o.x = y /\ o.b = f.b /\ o.rob = Victims(bus, c, d) BY <2>3 DEF Outcome
  <2> QED BY <1>0, <2>1, <2>2, <2>4, ReleaseCleared DEF y
<1>4. \/ snoop /\ o = Outcome(quiet, bus, TRUE)
      \/ o = Outcome(x, bus, FALSE) \/ o = Failing(Outcome(x, bus, FALSE))
      \/ ~snoop /\ o = [Outcome(IF f.ok THEN [cleared EXCEPT !.proc[k] = None] ELSE cleared, f.b, f.ok)
                            EXCEPT !.rob = Victims(bus, c, d), !.odd = cleared.reg[k] # None]
  BY DEF stop_dice
<1> QED BY <1>1, <1>2, <1>3, <1>4

LEMMA StartBounce ==
  ASSUME OwnInv, NEW d \in Devices, Family[d] = "bounce", NEW k \in Streams, dev[d].proc[k] # Absent, NEW o \in start_bounce(d, k)
  PROVE  StartOK(o, d, k)
<1> DEFINE x == dev[d]
           a == allocateIsoChannelGeneric(bus, d)
           quiet == [x EXCEPT !.proc[k] = None]
           back == freeIsoChannel(a.b, a.c).b
           playing == [x EXCEPT !.proc[k] = a.c, !.reg[RegOf(k)] = a.c, !.on[k] = TRUE]
<1>0. NumbersOK(x) /\ BusOK(bus) /\ ~Once(d) /\ Family[d] \notin Renting /\ RegOf(k) \in Streams
  BY DeviceOK DEF OwnInv, Once, Renting, RegOf, Streams
<1>1. (a.c = None /\ a.b = bus) \/ Gets(bus, a, d) BY <1>0, GenericAllocation
<1> HIDE DEF a
<1>2. CASE a.c = None
  <2>1. o = Outcome(dev[d], a.b, FALSE) BY <1>2 DEF start_bounce, a
  <2>2. o.x = dev[d] /\ o.b = a.b /\ o.rob = {} /\ o.ok = FALSE BY <2>1 DEF Outcome
  <2>3. a.b = bus BY <1>1, <1>2, StreamConstants DEF Gets
  <2>4. BusOK(o.b) /\ Spares(bus, o.b, Devices) BY <1>0, <2>2, <2>3, SparesSelf
  <2>5. Sound(o, d) /\ OneStream(o, d, k) BY <1>0, <2>2, <2>4, Silent
  <2> QED BY <1>0, <2>2, <2>5, OneStreamStart
<1>3. CASE a.c # None
  <2>1. Gets(bus, a, d) /\ a.c \in Channels BY <1>1, <1>3 DEF Gets, Takes
  <2>2. BusOK(back) /\ Spares(bus, back, Devices) BY <1>0, <2>1, Returned
  <2>3. o = Failing(Outcome(quiet, back, FALSE)) \/ o = Outcome(quiet, back, FALSE) \/ o = Outcome(playing, a.b, TRUE)
    BY <1>3 DEF start_bounce, a
  <2> HIDE DEF back
  <2>4. CASE o = Failing(Outcome(quiet, back, FALSE)) \/ o = Outcome(quiet, back, FALSE)
    <3> HIDE DEF quiet
    <3>1. o.x = quiet /\ o.b = back /\ o.rob = {} /\ o.ok = FALSE BY <2>4 DEF Outcome, Failing
    <3>2. Sound(o, d) /\ OneStream(o, d, k) BY <1>0, <2>2, <3>1, Silent DEF quiet
    <3> QED BY <1>0, <3>1, <3>2, OneStreamStart
  <2>5. CASE o = Outcome(playing, a.b, TRUE)
    <3>1. /\ NumbersOK(playing) /\ playing.proc = [x.proc EXCEPT ![k] = a.c] /\ playing.mem = x.mem
          /\ playing.reg = [x.reg EXCEPT ![RegOf(k)] = a.c]
      BY <1>0, <2>1 DEF NumbersOK, Channel
    <3> HIDE DEF playing
    <3>2. o.x = playing /\ o.b = a.b /\ o.rob = {} BY <2>5 DEF Outcome
    <3>3. GetsNew(o, d, k, a) BY <2>1, <3>1, <3>2 DEF GetsNew
    <3>4. Sound(o, d) BY <1>0, <3>3, SoundNew
    <3>5. playing.proc[k] = a.c /\ \A j \in Streams : j # k => playing.proc[j] = x.proc[j] BY <1>0, <3>1 DEF NumbersOK
    <3>6. SameStreams(o, d) BY <2>1, <3>2, <3>5, StreamConstants DEF SameStreams
    <3>7. ASSUME ~snoop
          PROVE  Ready(o.x, d, k) /\ \A j \in Streams : Ready(dev[d], d, j) => Ready(o.x, d, j)
      <4>1. playing.reg[k] = a.c /\ \A j \in Streams : j # k => playing.reg[j] = x.reg[j]
        BY <1>0, <3>1, <3>7 DEF NumbersOK, RegOf
      <4> QED BY <1>0, <1>3, <3>2, <3>5, <4>1 DEF Ready
    <3> QED BY <1>0, <3>4, <3>6, <3>7 DEF StartOK
  <2> QED BY <2>3, <2>4, <2>5
<1> QED BY <1>2, <1>3

LEMMA StopBounce ==
  ASSUME OwnInv, NEW d \in Devices, Family[d] = "bounce", NEW k \in Streams, dev[d].proc[k] # Absent, NEW o \in stop_bounce(d, k)
  PROVE  StopOK(o, d)
<1> DEFINE x == dev[d]
           c == x.proc[k]
           f == freeIsoChannel(bus, c)
           cleared == [x EXCEPT !.reg[RegOf(k)] = None, !.on[k] = FALSE]
<1>0. NumbersOK(x) /\ BusOK(bus) /\ Spares(bus, bus, Devices) /\ Family[d] \notin Renting /\ RegOf(k) \in Streams
  BY DeviceOK, SparesSelf DEF OwnInv, Renting, RegOf, Streams
<1>1. CASE o = Outcome(x, bus, FALSE) \/ o = Failing(Outcome(x, bus, FALSE))
  <2>1. o.x = x /\ o.b = bus /\ o.rob = {} BY <1>1 DEF Outcome, Failing
  <2>2. Sound(o, d) /\ OneStream(o, d, k) BY <1>0, <2>1, Silent
  <2> QED BY <2>2, OneStreamSame DEF StopOK
<1>2. CASE o = [Outcome(IF f.ok THEN [cleared EXCEPT !.proc[k] = None] ELSE cleared, f.b, f.ok)
                    EXCEPT !.rob = Victims(bus, c, d)]
  <2> DEFINE y == IF f.ok THEN [cleared EXCEPT !.proc[k] = None] ELSE cleared
  <2>1. NumbersOK(cleared) /\ cleared.proc = x.proc BY <1>0 DEF NumbersOK, Channel
  <2>2. Number(x, d, k) = c BY <1>2 DEF Number, Renting
  <2> HIDE DEF cleared, y
  <2>3. o = [Outcome(y, f.b, f.ok) EXCEPT !.rob = Victims(bus, c, d)] BY <1>2 DEF y
  <2>4. o.x = y /\ o.b = f.b /\ o.rob = Victims(bus, c, d) BY <2>3 DEF Outcome
  <2> QED BY <1>0, <2>1, <2>2, <2>4, ReleaseCleared DEF y
<1> QED BY <1>1, <1>2 DEF stop_bounce

LEMMA SlaveOK ==
  ASSUME OwnInv, NEW d \in Devices, Family[d] = "slave", NEW k \in Streams, dev[d].proc[k] # Absent
  PROVE  (\A o \in start_slave(d, k) : StartOK(o, d, k)) /\ (\A o \in stop_slave(d, k) : StopOK(o, d))
<1> DEFINE x == dev[d]
           y == [x EXCEPT !.proc[k] = x.reg[k], !.on[k] = TRUE]
<1>0. NumbersOK(x) BY DeviceOK
<1>1. ASSUME NEW o, o.x = x, o.b = bus, o.rob = {} PROVE Sound(o, d) /\ SameStreams(o, d)
  <2>1. SameStreams(o, d) BY <1>1 DEF SameStreams
  <2> QED BY <1>0, <1>1, <2>1, SoundNumberless
<1>2. ASSUME NEW o, o = Outcome(y, bus, TRUE) PROVE Sound(o, d) /\ SameStreams(o, d)
  <2>1. x.reg[k] \in Channel BY <1>0 DEF NumbersOK
  <2>2. NumbersOK(y) /\ y.proc = [x.proc EXCEPT ![k] = x.reg[k]] BY <1>0, <2>1 DEF NumbersOK, Channel
  <2>3. y.proc[k] = x.reg[k] /\ \A j \in Streams : j # k => y.proc[j] = x.proc[j] BY <1>0, <2>2 DEF NumbersOK
  <2> HIDE DEF y
  <2>4. o.x = y /\ o.b = bus /\ o.rob = {} BY <1>2 DEF Outcome
  <2>5. x.reg[k] # Absent BY <2>1, StreamConstants DEF Channel
  <2>6. SameStreams(o, d) BY <2>3, <2>4, <2>5 DEF SameStreams
  <2> QED BY <2>2, <2>4, <2>6, SoundNumberless
<1>3. ASSUME NEW o, o = Outcome(x, bus, FALSE) PROVE Sound(o, d) /\ SameStreams(o, d)
  <2>1. o.x = x /\ o.b = bus /\ o.rob = {} BY <1>3 DEF Outcome
  <2> QED BY <1>1, <2>1
<1> HIDE DEF y
<1>4. \A o \in start_slave(d, k) : o = Outcome(y, bus, TRUE) \/ o = Outcome(x, bus, FALSE) BY DEF start_slave, y
<1>5. \A o \in stop_slave(d, k) : o = Outcome(x, bus, FALSE) BY DEF stop_slave
<1> QED BY <1>2, <1>3, <1>4, <1>5 DEF StartOK, StopOK

\* MOTU, RME and Digidesign: nothing happens to the channels.
Rents(o, d) ==
    /\ o.b = bus /\ o.rob = {} /\ NumbersOK(o.x) /\ o.x.mem = dev[d].mem /\ o.x.reg = dev[d].reg
    /\ \A j \in Streams : o.x.proc[j] = Absent <=> dev[d].proc[j] = Absent
LEMMA RentsSound ==
  ASSUME OwnInv, NEW d \in Devices, Family[d] \in Renting, NEW o, Rents(o, d)
  PROVE  StopOK(o, d)
<1>1. \A k \in Streams : Number(o.x, d, k) = Number(dev[d], d, k) BY DEF Rents, Number
<1>2. BusOK(o.b) /\ Spares(bus, o.b, Devices) BY SparesSelf DEF OwnInv, Rents
<1>3. Sound(o, d) BY <1>1, <1>2, SoundQuiet DEF Rents
<1> QED BY <1>3 DEF StopOK, SameStreams, Rents

LEMMA UseIs ==
  ASSUME NEW x, NumbersOK(x), NEW K \in SUBSET Streams, ~Null(x, K)
  PROVE  LET y == Use(x, K)
         IN  /\ NumbersOK(y) /\ y.mem = x.mem /\ y.reg = x.reg
             /\ \A j \in Streams : y.proc[j] = (IF j \in K THEN x.mem[j] ELSE x.proc[j])
             /\ \A j \in Streams : y.proc[j] = Absent <=> x.proc[j] = Absent
<1> DEFINE y == Use(x, K)
<1>1. NumbersOK(y) /\ y.mem = x.mem /\ y.reg = x.reg /\ y.proc = [k \in Streams |-> IF k \in K THEN x.mem[k] ELSE x.proc[k]]
  BY DEF NumbersOK, Channel, Use
<1> HIDE DEF y
<1>2. \A j \in Streams : x.mem[j] # Absent BY StreamConstants DEF NumbersOK, Channel
<1>3. \A j \in K : x.proc[j] # Absent BY DEF Null
<1> QED BY <1>1, <1>2, <1>3 DEF y

LEMMA UseReady ==
  ASSUME OwnInv, NEW d \in Devices \ odd, Family[d] \in Renting, NEW K \in SUBSET Streams, ~Null(dev[d], K),
         NEW y, y.mem = dev[d].mem, \A j \in Streams : y.proc[j] = (IF j \in K THEN dev[d].mem[j] ELSE dev[d].proc[j])
  PROVE  (\A j \in Streams : Ready(dev[d], d, j) => Ready(y, d, j)) /\ \A j \in K : Ready(y, d, j)
<1>1. \A j \in K : dev[d].mem[j] # None
  <2>1. KeepsOwn(bus, dev[d], d) BY DEF OwnInv
  <2> QED BY <2>1 DEF KeepsOwn, Null
<1>2. Family[d] \notin {"dice", "bounce"} BY DEF Renting
<1> QED BY <1>1, <1>2 DEF Ready

LEMMA CrashIs ==
  ASSUME NEW d \in Devices, NumbersOK(dev[d]), NEW o, o = Crash(dev[d])
  PROVE  Rents(o, d) /\ o.crash = TRUE
<1>1. o.x = dev[d] /\ o.b = bus /\ o.rob = {} /\ o.crash = TRUE BY DEF Crash, Outcome
<1> QED BY <1>1 DEF Rents

LEMMA PlainRents ==
  ASSUME NEW d \in Devices, NumbersOK(dev[d]), NEW o, PlainOutcome(o, dev[d], bus)
  PROVE  Rents(o, d)
BY DEF Rents, PlainOutcome

\* Starting them: what is used is what prepare took.
LEMMA StartRented ==
  ASSUME OwnInv, NEW d \in Devices, Family[d] \in Renting, NEW k \in Streams, NEW o \in startStreamByIndex(d, k)
  PROVE  StartOK(o, d, k)
<1> DEFINE x == dev[d]
<1>0. NumbersOK(x) BY DeviceOK
<1>1. ASSUME o.crash = TRUE, Rents(o, d) PROVE StartOK(o, d, k) BY <1>1, RentsSound DEF StartOK, StopOK
<1>2. CASE Family[d] = "motu"
  <2> DEFINE y == Use(x, {k})
  <2>1. o = (IF Null(x, {k}) THEN Crash(x) ELSE Outcome(y, bus, TRUE)) BY <1>2 DEF startStreamByIndex, start_motu
  <2>2. CASE Null(x, {k}) BY <1>0, <1>1, <2>1, <2>2, CrashIs
  <2>3. CASE ~Null(x, {k})
    <3>1. /\ NumbersOK(y) /\ y.mem = x.mem /\ y.reg = x.reg
          /\ \A j \in Streams : y.proc[j] = (IF j \in {k} THEN x.mem[j] ELSE x.proc[j])
          /\ \A j \in Streams : y.proc[j] = Absent <=> x.proc[j] = Absent
      BY <1>0, <2>3, UseIs, SMTT(30)
    <3> HIDE DEF y
    <3>2. o.x = y /\ o.b = bus /\ o.rob = {} BY <2>1, <2>3 DEF Outcome
    <3>3. Rents(o, d) BY <3>1, <3>2 DEF Rents
    <3>4. d \notin odd => (\A j \in Streams : Ready(dev[d], d, j) => Ready(y, d, j)) /\ \A j \in {k} : Ready(y, d, j)
      BY <2>3, <3>1, UseReady
    <3>5. ~Once(d) BY <1>2 DEF Once
    <3> QED BY <3>2, <3>3, <3>4, <3>5, RentsSound DEF StartOK, StopOK
  <2> QED BY <2>2, <2>3
<1>3. CASE Family[d] # "motu" /\ k # "rx"
  <2>1. o = Outcome(x, bus, TRUE)
    BY <1>3 DEF startStreamByIndex, start_digidesign, start_rme, Renting
  <2>2. Rents(o, d) BY <1>0, <2>1, PlainIs, PlainRents
  <2>3. o.x = x BY <2>1 DEF Outcome
  <2>4. Once(d) BY <1>3 DEF Once
  <2> QED BY <1>3, <2>2, <2>3, <2>4, RentsSound DEF StartOK, StopOK
<1>4. CASE Family[d] # "motu" /\ k = "rx" /\ Null(x, Streams)
  <2>1. o = Crash(x) BY <1>4 DEF startStreamByIndex, start_digidesign, start_rme, Renting
  <2> QED BY <1>0, <1>1, <2>1, CrashIs
<1>5. CASE Family[d] # "motu" /\ k = "rx" /\ ~Null(x, Streams)
  <2> DEFINE y == Use(x, Streams)
             z == [y EXCEPT !.is_streaming = TRUE]
  <2>1. /\ NumbersOK(y) /\ y.mem = x.mem /\ y.reg = x.reg
        /\ \A j \in Streams : y.proc[j] = (IF j \in Streams THEN x.mem[j] ELSE x.proc[j])
        /\ \A j \in Streams : y.proc[j] = Absent <=> x.proc[j] = Absent
    BY <1>0, <1>5, UseIs
  <2> HIDE DEF y
  <2>2. NumbersOK(z) /\ z.mem = y.mem /\ z.reg = y.reg /\ z.proc = y.proc BY <2>1 DEF NumbersOK
  <2> HIDE DEF z
  <2>3. o = Outcome(y, bus, TRUE) \/ o = Outcome(z, bus, TRUE) \/ o = Failing(Outcome(y, bus, FALSE))
    BY <1>5 DEF startStreamByIndex, start_digidesign, start_rme, hardware_start_streaming, Renting, y, z
  <2>4. (o.x = y \/ o.x = z) /\ o.b = bus /\ o.rob = {} BY <2>3 DEF Outcome, Failing
  <2>5. /\ NumbersOK(o.x) /\ o.x.mem = x.mem /\ o.x.reg = x.reg
        /\ \A j \in Streams : o.x.proc[j] = (IF j \in Streams THEN x.mem[j] ELSE x.proc[j])
        /\ \A j \in Streams : o.x.proc[j] = Absent <=> x.proc[j] = Absent
    BY <2>1, <2>2, <2>4
  <2>6. Rents(o, d) BY <2>4, <2>5 DEF Rents
  <2>7. d \notin odd => (\A j \in Streams : Ready(dev[d], d, j) => Ready(o.x, d, j)) /\ \A j \in Streams : Ready(o.x, d, j)
    BY <1>5, <2>5, UseReady
  <2> QED BY <2>6, <2>7, RentsSound DEF StartOK, StopOK
<1> QED BY <1>2, <1>3, <1>4, <1>5

LEMMA StopRented ==
  ASSUME OwnInv, NEW d \in Devices, Family[d] \in Renting, NEW k \in Streams, NEW o \in stopStreamByIndex(d, k)
  PROVE  StopOK(o, d)
<1> DEFINE x == dev[d]
           off == [x EXCEPT !.on[k] = FALSE]
           still == [x EXCEPT !.is_streaming = FALSE, !.on = [j \in Streams |-> FALSE]]
<1>0. NumbersOK(x) BY DeviceOK
<1>1. /\ NumbersOK(off) /\ off.mem = x.mem /\ off.reg = x.reg /\ off.proc = x.proc
      /\ NumbersOK(still) /\ still.mem = x.mem /\ still.reg = x.reg /\ still.proc = x.proc
  BY <1>0 DEF NumbersOK
<1> HIDE DEF off, still
<1>2. \/ o = Outcome(x, bus, TRUE) \/ o = Failing(Outcome(x, bus, FALSE))
      \/ o = Outcome(off, bus, TRUE) \/ o = Outcome(still, bus, TRUE)
  BY DEF stopStreamByIndex, stop_motu, stop_digidesign, stop_rme, hardware_stop_streaming, Renting, off, still
<1>3. (o.x = x \/ o.x = off \/ o.x = still) /\ o.b = bus /\ o.rob = {} BY <1>2 DEF Outcome, Failing
<1>4. Rents(o, d) BY <1>0, <1>1, <1>3 DEF Rents
<1> QED BY <1>4, RentsSound

LEMMA StartStream ==
  ASSUME OwnInv, NEW d \in Devices, NEW k \in Streams, ~Missing(d, k), NEW o \in startStreamByIndex(d, k)
  PROVE  StartOK(o, d, k)
<1>1. CASE Family[d] \in Renting BY <1>1, StartRented
<1>2. CASE Family[d] \in Vectors
  <2>1. dev[d].proc[k] # Absent BY <1>2 DEF Missing
  <2> QED BY <1>2, <2>1, StartAvc, StartDice, StartBounce, SlaveOK DEF startStreamByIndex, Vectors, Registers
<1> QED BY <1>1, <1>2, ListsAssumption DEF Renting
LEMMA StopStream ==
  ASSUME OwnInv, NEW d \in Devices, NEW k \in Streams, ~Missing(d, k), NEW o \in stopStreamByIndex(d, k)
  PROVE  StopOK(o, d)
<1>1. CASE Family[d] \in Renting BY <1>1, StopRented
<1>2. CASE Family[d] \in Vectors
  <2>1. dev[d].proc[k] # Absent BY <1>2 DEF Missing
  <2> QED BY <1>2, <2>1, StopAvc, StopDice, StopBounce, SlaveOK DEF stopStreamByIndex, Vectors, Registers
<1> QED BY <1>1, <1>2, ListsAssumption DEF Renting

-----------------------------------------------------------------------------
\* Deleting the objects.
LEMMA NewObjectIs ==
  ASSUME NEW x, NumbersOK(x)
  PROVE  /\ NumbersOK(NewObject(x)) /\ NewObject(x).reg = x.reg
         /\ \A k \in Streams : NewObject(x).proc[k] = Absent /\ NewObject(x).mem[k] = None
BY DEF NumbersOK, NewObject, Channel
IsNew(x) == \A k \in Streams : x.proc[k] = Absent /\ x.mem[k] = None

LEMMA SoundDelete ==
  ASSUME OwnInv, NEW d \in Devices, NEW o, BusOK(o.b), NumbersOK(o.x), IsNew(o.x), o.rob \subseteq Devices \ {d},
         Family[d] = "rme800" => o.x.reg["rx"] = dev[d].reg["rx"],
         Spares(bus, o.b, Devices \ ({d} \cup o.rob)), d \notin odd => o.rob = {}
  PROVE  Sound(o, d)
<1>1. \A k \in Streams : Number(o.x, d, k) \in {None, Absent} BY DEF Number, IsNew
<1>2. KeepsOwn(o.b, o.x, d) BY <1>1 DEF KeepsOwn, IsNew, Streams
<1>3. ForeignOK(o.b, o.x, d)
  <2>1. ForeignOK(bus, dev[d], d) /\ NumbersOK(dev[d]) BY DEF OwnInv
  <2>2. Family[d] = "rme800" => dev[d].reg["rx"] \in Channels \cup {None} BY <2>1 DEF NumbersOK, Channel, Streams
  <2>3. o.x.mem["rx"] = None BY DEF IsNew, Streams
  <2> QED BY <2>1, <2>2, <2>3 DEF ForeignOK, Spares
<1> QED BY <1>2, <1>3 DEF Sound

LEMMA Release ==
  ASSUME NEW b, BusOK(b), NEW c, NEW d \in Devices
  PROVE  LET r == freeIsoChannel(b, c).b
             V == Victims(b, c, d)
         IN  /\ BusOK(r) /\ V \subseteq Devices \ {d} /\ Spares(b, r, Devices \ ({d} \cup V))
             /\ \A e, g : e # c /\ Has(b, e, g) => Has(r, e, g)
<1> DEFINE r == freeIsoChannel(b, c).b
           V == Victims(b, c, d)
<1>1. CASE ~Registered(b, c)
  <2>1. r = b BY <1>1, Freeing
  <2>2. V = {} BY <1>1 DEF Victims
  <2> QED BY <2>1, <2>2, SparesSelf
<1>2. CASE Registered(b, c)
  <2>1. Gives(b, r, c) BY <1>2, Freeing
  <2> HIDE DEF r
  <2>2. /\ BusOK(r) /\ Spares(b, r, Devices \ {b.irm[c]}) /\ b.irm[c] \in Devices
        /\ \A e, g : e # c /\ Has(b, e, g) => Has(r, e, g)
    BY <2>1, GiveFacts
  <2>3. V = {b.irm[c]} \ {d} BY <1>2, <2>2, StreamConstants DEF Victims
  <2> HIDE DEF V
  <2>4. V \subseteq Devices \ {d} /\ Spares(b, r, Devices \ ({d} \cup V)) BY <2>2, <2>3 DEF Spares
  <2> QED BY <2>2, <2>4 DEF r, V
<1> QED BY <1>1, <1>2

LEMMA DeleteChannels ==
  ASSUME OwnInv, NEW d \in Devices, Family[d] \in Renting, NEW o \in delete_channels(d)
  PROVE  Sound(o, d) /\ IsNew(o.x)
<1> DEFINE x == dev[d]
           release(b, k) == IF k \in Holds(d) THEN freeIsoChannel(b, x.mem[k]).b ELSE b
           b1 == release(bus, "rx")
           b2 == release(b1, "tx")
           V == UNION {Victims(IF k = "tx" THEN b1 ELSE bus, x.mem[k], d) : k \in Holds(d)}
           V1 == IF "rx" \in Holds(d) THEN Victims(bus, x.mem["rx"], d) ELSE {}
           V2 == IF "tx" \in Holds(d) THEN Victims(b1, x.mem["tx"], d) ELSE {}
<1>0. NumbersOK(x) /\ BusOK(bus) BY DeviceOK DEF OwnInv
<1>1. o = [Outcome(NewObject(x), b2, TRUE) EXCEPT !.rob = V] BY DEF delete_channels
<1>2. V = V1 \cup V2
  <2>1. Holds(d) \subseteq {"rx", "tx"} BY DEF Holds, Streams
  <2> HIDE DEF b1
  <2> QED BY <2>1
<1>3. /\ BusOK(b1) /\ V1 \subseteq Devices \ {d} /\ Spares(bus, b1, Devices \ ({d} \cup V1))
      /\ \A e, g : ("rx" \in Holds(d) => e # x.mem["rx"]) /\ Has(bus, e, g) => Has(b1, e, g)
  <2>1. CASE "rx" \in Holds(d) BY <1>0, <2>1, Release
  <2>2. CASE "rx" \notin Holds(d) BY <1>0, <2>2, SparesSelf
  <2> QED BY <2>1, <2>2
<1> HIDE DEF V, V1
<1>4. BusOK(b2) /\ V2 \subseteq Devices \ {d} /\ Spares(b1, b2, Devices \ ({d} \cup V2))
  <2> HIDE DEF b1
  <2>1. CASE "tx" \in Holds(d) BY <1>3, <2>1, Release
  <2>2. CASE "tx" \notin Holds(d) BY <1>3, <2>2, SparesSelf
  <2> QED BY <2>1, <2>2
<1> HIDE DEF b1, b2, V2
<1>5. o.x = NewObject(x) /\ o.b = b2 /\ o.rob = V BY <1>1 DEF Outcome
<1>6. Spares(bus, b2, Devices \ ({d} \cup V)) BY <1>2, <1>3, <1>4 DEF Spares
<1>7. ASSUME d \notin odd PROVE V = {}
  <2>1. KeepsOwn(bus, x, d) BY <1>7 DEF OwnInv
  <2>2. \A k \in Holds(d) : k \in Streams /\ Number(x, d, k) = x.mem[k] /\ x.mem[k] # None /\ x.mem[k] # Absent
    <3>1. \A k \in Holds(d) : k \in Streams /\ x.mem[k] # None /\ ~Foreign(d, k) BY DEF Holds, Foreign
    <3>2. \A k \in Streams : x.mem[k] \in Channels \cup {None} BY <1>0 DEF NumbersOK, Channel
    <3>3. \A k \in Holds(d) : x.mem[k] # Absent BY <3>1, <3>2, StreamConstants
    <3>4. \A y, k : ~Foreign(d, k) => Number(y, d, k) = y.mem[k] BY DEF Number, Renting
    <3> QED BY <3>1, <3>3, <3>4
  <2>3. \A k \in Holds(d) : Has(bus, x.mem[k], d) BY <2>1, <2>2 DEF KeepsOwn
  <2>4. V1 = {} BY <2>3 DEF V1, Victims, Has
  <2>5. ASSUME "tx" \in Holds(d) PROVE Has(b1, x.mem["tx"], d)
    <3>1. "rx" \in Holds(d) => x.mem["rx"] # x.mem["tx"] BY <2>1, <2>2, <2>5 DEF KeepsOwn
    <3> QED BY <1>3, <2>3, <2>5, <3>1
  <2>6. V2 = {} BY <2>5 DEF V2, Victims, Has
  <2> QED BY <1>2, <2>4, <2>6
<1>8. NumbersOK(o.x) /\ IsNew(o.x) /\ o.x.reg = x.reg BY <1>0, <1>5, NewObjectIs DEF IsNew
<1>9. o.rob \subseteq Devices \ {d} BY <1>2, <1>3, <1>4, <1>5
<1> QED BY <1>4, <1>5, <1>6, <1>7, <1>8, <1>9, SoundDelete

LEMMA DeleteSound ==
  ASSUME OwnInv, NEW d \in Devices, NEW o \in delete(d)
  PROVE  Sound(o, d) /\ IsNew(o.x)
<1> DEFINE x == dev[d]
<1>0. NumbersOK(x) /\ BusOK(bus) BY DeviceOK DEF OwnInv
<1>1. CASE Family[d] \in Renting
  <2>1. o \in delete_channels(d) BY <1>1 DEF delete, delete_motu, delete_digidesign, delete_rme, Renting
  <2> QED BY <1>1, <2>1, DeleteChannels
<1>2. ASSUME NEW y, NumbersOK(y), o.x = NewObject(y), o.b = bus, o.rob = {}, Family[d] \notin Renting
      PROVE  Sound(o, d) /\ IsNew(o.x)
  <2>1. NumbersOK(o.x) /\ IsNew(o.x) BY <1>2, NewObjectIs DEF IsNew
  <2>2. Family[d] # "rme800" BY <1>2 DEF Renting
  <2>3. Spares(bus, o.b, Devices \ ({d} \cup o.rob)) BY <1>2, SparesSelf
  <2> QED BY <1>0, <1>2, <2>1, <2>2, <2>3, SoundDelete
<1>3. CASE Family[d] \notin Renting /\ o = Outcome(NewObject(x), bus, TRUE)
  <2>1. o.x = NewObject(x) /\ o.b = bus /\ o.rob = {} BY <1>3 DEF Outcome
  <2> QED BY <1>0, <1>2, <1>3, <2>1
<1>4. CASE Family[d] = "dice" /\ \E p \in unlock(d) : o = [p EXCEPT !.x = NewObject(@)]
  <2>1. PICK p \in unlock(d) : o = [p EXCEPT !.x = NewObject(@)] BY <1>4
  <2>2. PlainOutcome(p, p.x, bus) /\ NumbersOK(p.x) BY UnlockSound DEF Alike
  <2>3. DOMAIN p = OutcomeFields
    <3>1. p \in unlock_dice(dev[d]) BY <1>4 DEF unlock
    <3>2. \E y, v : p = Outcome(y, bus, v) \/ p = Failing(Outcome(y, bus, v)) BY <3>1 DEF unlock_dice
    <3> QED BY <3>2 DEF Outcome, Failing, OutcomeFields
  <2>4. o.x = NewObject(p.x) /\ o.b = p.b /\ o.rob = p.rob BY <2>1, <2>3 DEF OutcomeFields
  <2>5. Family[d] \notin Renting BY <1>4 DEF Renting
  <2> QED BY <1>2, <2>2, <2>4, <2>5 DEF PlainOutcome
<1>5. Family[d] \in Renting \/ (Family[d] \notin Renting /\ o = Outcome(NewObject(x), bus, TRUE))
      \/ (Family[d] = "dice" /\ \E p \in unlock(d) : o = [p EXCEPT !.x = NewObject(@)])
  <2>1. CASE Family[d] = "dice" BY <2>1 DEF delete, delete_dice, Renting
  <2>2. CASE Family[d] \notin Renting /\ Family[d] # "dice" BY <2>2 DEF delete, Renting
  <2> QED BY <2>1, <2>2
<1> QED BY <1>1, <1>3, <1>4, <1>5

-----------------------------------------------------------------------------
\* The manager takes the outcome over.
LEMMA KeepsLater ==
  ASSUME NEW e, snoop' = snoop, KeepsOwn(bus', dev'[e], e)
  PROVE  KeepsOwn(bus, dev[e], e)'
<1>1. \A k \in Streams : Number(dev[e], e, k)' = Number(dev'[e], e, k) BY DEF Number
<1> QED BY <1>1 DEF KeepsOwn, Has, Registered, Streams

LEMMA ApplyOwn ==
  ASSUME OwnInv, NEW o, This \in Devices, Sound(o, This), Apply(o)
  PROVE  OwnInv'
<1> DEFINE d == This
<1>1. /\ dev' = [dev EXCEPT ![d] = o.x] /\ bus' = o.b /\ snoop' = snoop
      /\ odd' = odd \cup o.rob \cup (IF o.odd THEN {d} ELSE {})
      /\ robbed' = robbed \cup (IF o.rob # {} THEN {d} ELSE {})
  BY DEF Apply, This
<1> HIDE DEF d
<1>2. /\ BusOK(bus) /\ DOMAIN dev = Devices /\ snoop \in BOOLEAN /\ odd \subseteq Devices /\ robbed \subseteq odd
      /\ \A e \in Devices : NumbersOK(dev[e]) /\ ForeignOK(bus, dev[e], e)
      /\ \A e \in Devices \ odd : KeepsOwn(bus, dev[e], e)
      /\ \A e, f \in Devices : Family[e] = "rme800" /\ Family[f] = "rme800" /\ dev[e].reg["rx"] = dev[f].reg["rx"] =>
            e = f \/ dev[e].reg["rx"] = None
  BY DEF OwnInv
<1>3. /\ BusOK(o.b) /\ NumbersOK(o.x) /\ ForeignOK(o.b, o.x, d)
      /\ o.rob \subseteq Devices \ {d} /\ Spares(bus, o.b, Devices \ ({d} \cup o.rob))
      /\ Family[d] = "rme800" =>
            o.x.reg["rx"] = dev[d].reg["rx"] \/ (o.x.reg["rx"] \in Channels /\ bus.irm[o.x.reg["rx"]] # Own)
      /\ d \notin odd /\ ~o.odd => o.rob = {} /\ KeepsOwn(o.b, o.x, d)
  BY DEF Sound, d
<1>4. d \in Devices /\ DOMAIN dev' = Devices /\ dev'[d] = o.x /\ \A e \in Devices : e # d => dev'[e] = dev[e]
  BY <1>1, <1>2 DEF d
<1>5. odd' \subseteq Devices /\ robbed' \subseteq odd' BY <1>1, <1>2, <1>3, <1>4
<1>6. ASSUME NEW e \in Devices PROVE NumbersOK(dev'[e]) /\ ForeignOK(bus', dev'[e], e)
  <2>1. CASE e = d BY <1>1, <1>3, <1>4, <2>1
  <2>2. CASE e # d
    <3>1. Family[e] = "rme800" => dev[e].reg["rx"] \in Channels \cup {None} BY <1>2 DEF NumbersOK, Channel, Streams
    <3>2. ForeignOK(bus, dev[e], e) => ForeignOK(o.b, dev[e], e) BY <1>3, <3>1 DEF ForeignOK, Spares
    <3> QED BY <1>1, <1>2, <1>4, <2>2, <3>2
  <2> QED BY <2>1, <2>2
<1>7. ASSUME NEW e \in Devices \ odd' PROVE KeepsOwn(bus', dev'[e], e)
  <2>1. CASE e = d
    <3>1. d \notin odd /\ ~o.odd BY <1>1, <1>7, <2>1
    <3> QED BY <1>1, <1>3, <1>4, <2>1, <3>1
  <2>2. CASE e # d
    <3>1. e \in Devices \ odd /\ e \in Devices \ ({d} \cup o.rob) BY <1>1, <1>7, <2>2
    <3>2. \A c : Has(bus, c, e) => Has(o.b, c, e) BY <1>3, <3>1 DEF Spares
    <3>3. KeepsOwn(bus, dev[e], e) BY <1>2, <3>1
    <3>4. KeepsOwn(o.b, dev[e], e) BY <3>2, <3>3 DEF KeepsOwn
    <3> QED BY <1>1, <1>4, <2>2, <3>4
  <2> QED BY <2>1, <2>2
<1>8. ASSUME NEW e \in Devices, NEW f \in Devices, Family[e] = "rme800", Family[f] = "rme800",
             dev'[e].reg["rx"] = dev'[f].reg["rx"], e # f
      PROVE  dev'[e].reg["rx"] = None
  <2>1. \A g \in Devices : Family[g] = "rme800" /\ dev[g].reg["rx"] # None => bus.irm[dev[g].reg["rx"]] = Own
    BY <1>2 DEF ForeignOK
  <2>2. CASE e # d /\ f # d BY <1>2, <1>4, <1>8, <2>2
  <2>3. CASE e = d BY <1>2, <1>3, <1>4, <1>8, <2>1, <2>3
  <2>4. CASE f = d BY <1>2, <1>3, <1>4, <1>8, <2>1, <2>4
  <2> QED BY <2>2, <2>3, <2>4
<1>9. BusOK(bus') /\ DOMAIN dev' = Devices /\ snoop' \in BOOLEAN BY <1>1, <1>2, <1>3, <1>4
<1>10. /\ \A e \in Devices : NumbersOK(dev'[e]) /\ ForeignOK(bus', dev'[e], e)
       /\ \A e \in Devices \ odd' : KeepsOwn(bus, dev[e], e)'
  BY <1>1, <1>6, <1>7, KeepsLater
<1>11. \A e, f \in Devices : Family[e] = "rme800" /\ Family[f] = "rme800" /\ dev'[e].reg["rx"] = dev'[f].reg["rx"] =>
            e = f \/ dev'[e].reg["rx"] = None
  BY <1>8
<1> QED BY <1>5, <1>9, <1>10, <1>11 DEF OwnInv

-----------------------------------------------------------------------------
\* Where the call is.
LEMMA PlaceFacts ==
  ASSUME PlaceInv
  PROVE  /\ This \in Devices /\ Len(list) \in Nat /\ Len(list) >= 1 /\ DOMAIN list = 1..Len(list) /\ at \in 1..Len(list)
         /\ \A i \in DOMAIN list : list[i] \in Devices
         /\ \A i, j \in DOMAIN list : list[i] = list[j] => i = j
         /\ limit \in 1..(Len(list) + 1)
<1>1. list \in Seq(Devices) /\ list # <<>> /\ IsInjective(list) /\ at \in DOMAIN list BY ListsAssumption DEF PlaceInv
<1>2. Len(list) \in Nat /\ Len(list) >= 1 /\ DOMAIN list = 1..Len(list) BY <1>1
<1>3. \A i \in DOMAIN list : list[i] \in Devices BY <1>1
<1>4. \A i, j \in DOMAIN list : list[i] = list[j] => i = j BY <1>1 DEF IsInjective
<1> QED BY <1>1, <1>2, <1>3, <1>4 DEF This, PlaceInv

LEMMA StreamsOfIs ==
  ASSUME NEW d
  PROVE  /\ Len(StreamsOf(d)) \in 0..2 /\ DOMAIN StreamsOf(d) = 1..Len(StreamsOf(d))
         /\ \A j \in DOMAIN StreamsOf(d) : StreamsOf(d)[j] \in Streams /\ ~Missing(d, StreamsOf(d)[j])
         /\ \A k \in Streams : ~Missing(d, k) => \E j \in DOMAIN StreamsOf(d) : StreamsOf(d)[j] = k
         /\ Len(StreamsOf(d)) = 0 => StreamsOf(d) = <<>>
         /\ Family[d] \in Renting => Len(StreamsOf(d)) = 2 /\ StreamsOf(d)[1] = "rx" /\ StreamsOf(d)[2] = "tx"
<1> DEFINE r == IF Missing(d, "rx") THEN <<>> ELSE <<"rx">>
           t == IF Missing(d, "tx") THEN <<>> ELSE <<"tx">>
<1>0. StreamsOf(d) = r \o t BY DEF StreamsOf
<1>1. CASE Missing(d, "rx") /\ Missing(d, "tx")
  <2>1. StreamsOf(d) = <<>> BY <1>0, <1>1
  <2> QED BY <1>1, <2>1 DEF Missing, Vectors, Registers, Renting, Streams
<1>2. CASE Missing(d, "rx") /\ ~Missing(d, "tx")
  <2>1. StreamsOf(d) = <<"tx">> BY <1>0, <1>2
  <2>2. Family[d] \notin Renting BY <1>2 DEF Missing, Vectors, Registers, Renting
  <2> QED BY <1>2, <2>1, <2>2 DEF Streams
<1>3. CASE ~Missing(d, "rx") /\ Missing(d, "tx")
  <2>1. StreamsOf(d) = <<"rx">> BY <1>0, <1>3
  <2>2. Family[d] \notin Renting BY <1>3 DEF Missing, Vectors, Registers, Renting
  <2> QED BY <1>3, <2>1, <2>2 DEF Streams
<1>4. CASE ~Missing(d, "rx") /\ ~Missing(d, "tx")
  <2>0. StreamsOf(d) = <<"rx">> \o <<"tx">> BY <1>0, <1>4
  <2>1. Len(StreamsOf(d)) = 2 /\ DOMAIN StreamsOf(d) = 1..2 /\ StreamsOf(d)[1] = "rx" /\ StreamsOf(d)[2] = "tx" BY <2>0
  <2> QED BY <1>4, <2>1 DEF Streams
<1> QED BY <1>1, <1>2, <1>3, <1>4

\* What changes only as far as the streams of a device exist.
SameAbsent(x, y) == \A k \in Streams : x.proc[k] = Absent <=> y.proc[k] = Absent
LEMMA StreamsOfLater ==
  ASSUME NEW d, SameAbsent(dev'[d], dev[d])
  PROVE  StreamsOf(d)' = StreamsOf(d)
<1>1. Missing(d, "rx")' <=> Missing(d, "rx") BY DEF Missing, SameAbsent, Streams
<1>2. Missing(d, "tx")' <=> Missing(d, "tx") BY DEF Missing, SameAbsent, Streams
<1> QED BY <1>1, <1>2 DEF StreamsOf

LEMMA StreamsOfThis ==
  ASSUME list' = list, at' = at, SameAbsent(dev'[This], dev[This])
  PROVE  StreamsOf(This)' = StreamsOf(This)
<1>1. PICK d : d = This OBVIOUS
<1>2. StreamsOf(d)' = StreamsOf(d) BY <1>1, StreamsOfLater
<1>3. StreamsOf(This)' = StreamsOf(d)' BY <1>1 DEF This, StreamsOf, Missing
<1> QED BY <1>1, <1>2, <1>3

LEMMA ApplyIs ==
  ASSUME OwnInv, PlaceInv, NEW o, Apply(o)
  PROVE  /\ list' = list /\ snoop' = snoop /\ dev'[This] = o.x /\ odd \subseteq odd' /\ (This \notin odd' => ~o.odd)
         /\ \A e \in Devices : e # This => dev'[e] = dev[e]
<1>1. DOMAIN dev = Devices /\ This \in Devices BY PlaceFacts DEF OwnInv
<1> QED BY <1>1 DEF Apply, This

\* Where a phase asks nothing.
LEMMA PlaceTo ==
  ASSUME PlaceInv, list' = list, at' \in DOMAIN list, limit' \in 1..(Len(list) + 1),
         phase' \notin {"start", "back", "undo", "stop"}
  PROVE  PlaceInv'
BY DEF PlaceInv
LEMMA PlaceStream ==
  ASSUME PlaceInv, list' = list, at' \in DOMAIN list, limit' \in 1..(Len(list) + 1), SameAbsent(dev'[list[at']], dev[list[at']]),
         phase' = "start" => stream' \in DOMAIN StreamsOf(list[at']),
         phase' \in {"back", "undo", "stop"} => stream' \in 0..Len(StreamsOf(list[at'])),
         phase' \in {"undo", "stop"} => at' < limit'
  PROVE  PlaceInv'
<1>1. PICK d : d = list[at'] OBVIOUS
<1>2. StreamsOf(d)' = StreamsOf(d) BY <1>1, StreamsOfLater
<1>3. StreamsOf(This)' = StreamsOf(d)' BY <1>1 DEF This, StreamsOf, Missing
<1> QED BY <1>1, <1>2, <1>3 DEF PlaceInv

LEMMA NewTo ==
  ASSUME PlaceInv, NewInv, list' = list, \A d \in Devices : d \notin Range(list) => dev'[d] = dev[d],
         phase' \notin {"none", "lock", "rate", "prepare", "delete"}
  PROVE  NewInv'
BY DEF NewInv, Empty
LEMMA StartedTo ==
  ASSUME phase' \notin {"reset", "start", "enable", "spm", "running"}
  PROVE  StartedInv'
BY DEF StartedInv

\* A call of the driver: what holds of every step of this kind.
LEMMA Called ==
  ASSUME StreamsInv, NEW o, Apply(o), Sound(o, This)
  PROVE  /\ OwnInv' /\ list' = list /\ snoop' = snoop /\ dev'[This] = o.x /\ odd \subseteq odd' /\ (This \notin odd' => ~o.odd)
         /\ \A e \in Devices : e # This => dev'[e] = dev[e]
         /\ \A e \in Devices : e \notin Range(list) => dev'[e] = dev[e]
<1>1. This \in Devices /\ OwnInv /\ PlaceInv BY PlaceFacts DEF StreamsInv
<1>2. OwnInv' BY <1>1, ApplyOwn
<1>3. This \in Range(list) BY DEF This, Range, StreamsInv, PlaceInv
<1> QED BY <1>1, <1>2, <1>3, ApplyIs

LEMMA NextIs ==
  ASSUME PlaceInv, NEW p, NEW q, NextDevice(p, q)
  PROVE  /\ at' \in DOMAIN list
         /\ \/ IsLast /\ at = Len(list) /\ phase' = q /\ at' = 1 /\ stream' = 1
            \/ ~IsLast /\ at < Len(list) /\ phase' = p /\ at' = at + 1 /\ stream' = 1
BY PlaceFacts DEF NextDevice, IsLast, Go

LEMMA DriverLock ==
  ASSUME StreamsInv, initStreaming_lock
  PROVE  StreamsInv'
<1>0. OwnInv /\ PlaceInv /\ NewInv /\ phase = "lock" BY DEF StreamsInv, initStreaming_lock
<1>1. PICK o \in lock(This) : Apply(o) /\ (IF o.ok THEN Go("rate", at, 1) ELSE NextDevice("lock", "ready"))
  BY DEF initStreaming_lock
<1>2. This \in Devices BY <1>0, PlaceFacts
<1>3. Sound(o, This) /\ Alike(o.x, dev[This]) BY <1>0, <1>2, LockSound
<1>4. /\ OwnInv' /\ list' = list /\ snoop' = snoop /\ dev'[This] = o.x
      /\ \A e \in Devices : e # This => dev'[e] = dev[e]
  BY <1>1, <1>3, Called
<1>5. \A e \in Devices : dev'[e].proc = dev[e].proc /\ dev'[e].mem = dev[e].mem BY <1>3, <1>4 DEF Alike
<1>6. limit' = limit BY DEF initStreaming_lock, Unchanged
<1>7. \/ phase' = "rate" /\ at' = at
      \/ phase' = "lock" /\ at' = at + 1 /\ at < Len(list)
      \/ phase' = "ready" /\ at' = 1
  BY <1>0, <1>1, NextIs DEF Go
<1>8. PlaceInv'
  <2>1. at' \in DOMAIN list BY <1>0, <1>7, PlaceFacts
  <2> QED BY <1>0, <1>4, <1>6, <1>7, <2>1, PlaceTo, PlaceFacts
<1>9. NewInv'
  <2>1. \A i \in DOMAIN list : list[i] \in Devices /\ i \in Nat /\ at \in Nat BY <1>0, PlaceFacts
  <2>2. \A d \in Devices : d \notin Range(list) => Empty(d) BY <1>0 DEF NewInv
  <2>3. \A i \in DOMAIN list : i >= at => Empty(list[i]) BY <1>0 DEF NewInv
  <2>4. \A i \in DOMAIN list : i >= at' /\ phase' # "ready" => i >= at BY <1>7, <2>1
  <2> QED BY <1>4, <1>5, <1>7, <2>1, <2>2, <2>3, <2>4 DEF NewInv, Empty
<1>10. StartedInv' BY <1>7, StartedTo
<1> QED BY <1>4, <1>8, <1>9, <1>10 DEF StreamsInv

LEMMA DriverPrepare ==
  ASSUME StreamsInv, initStreaming_prepare
  PROVE  StreamsInv'
<1>0. OwnInv /\ PlaceInv /\ NewInv /\ phase = "prepare" BY DEF StreamsInv, initStreaming_prepare
<1>1. PICK o \in prepare(This) : Apply(o) BY DEF initStreaming_prepare
<1>2. This \in Devices /\ at \in DOMAIN list BY <1>0, PlaceFacts DEF PlaceInv
<1>3. \A i \in DOMAIN list : i >= at => Empty(list[i]) BY <1>0 DEF NewInv
<1>4. Empty(This) BY <1>0, <1>2, <1>3, PlaceFacts DEF This
<1>5. Sound(o, This)
  <2>1. Family[This] \in Vectors \cup Renting BY <1>2, ListsAssumption DEF Renting
  <2> QED BY <1>0, <1>2, <1>4, <2>1, PrepareSound
<1>6. /\ OwnInv' /\ list' = list /\ snoop' = snoop /\ \A e \in Devices : e # This => dev'[e] = dev[e]
      /\ \A e \in Devices : e \notin Range(list) => dev'[e] = dev[e]
  BY <1>1, <1>5, Called
<1>7. limit' = limit /\ NextDevice("lock", "ready") BY DEF initStreaming_prepare, Unchanged
<1>8. /\ at' \in DOMAIN list
      /\ \/ phase' = "lock" /\ at' = at + 1
         \/ phase' = "ready"
  BY <1>0, <1>7, NextIs
<1>9. PlaceInv' BY <1>0, <1>6, <1>7, <1>8, PlaceTo, PlaceFacts
<1>10. NewInv'
  <2>1. ASSUME NEW i \in DOMAIN list, i >= at', phase' = "lock" PROVE list[i] \in Devices /\ list[i] # This /\ i >= at
    <3>1. i > at /\ i # at BY <1>0, <1>8, <2>1, PlaceFacts
    <3> QED BY <1>0, <1>2, <3>1, PlaceFacts DEF This
  <2>2. \A i \in DOMAIN list : i >= at' /\ phase' = "lock" => list[i] \in Devices /\ dev'[list[i]] = dev[list[i]] /\ Empty(list[i])
    BY <1>3, <1>6, <2>1
  <2>3. \A d \in Devices : d \notin Range(list) => dev'[d] = dev[d] /\ Empty(d) BY <1>0, <1>6 DEF NewInv
  <2> QED BY <1>6, <1>8, <2>2, <2>3 DEF NewInv, Empty
<1>11. StartedInv' BY <1>8, StartedTo
<1> QED BY <1>6, <1>9, <1>10, <1>11 DEF StreamsInv

LEMMA DriverUnlock ==
  ASSUME StreamsInv, finishStreaming
  PROVE  StreamsInv'
<1>0. OwnInv /\ PlaceInv /\ NewInv BY DEF StreamsInv
<1>1. PICK o \in unlock(This) : Apply(o) BY DEF finishStreaming
<1>2. This \in Devices BY <1>0, PlaceFacts
<1>3. Sound(o, This) BY <1>0, <1>2, UnlockSound
<1>4. /\ OwnInv' /\ list' = list /\ snoop' = snoop
      /\ \A e \in Devices : e \notin Range(list) => dev'[e] = dev[e]
  BY <1>1, <1>3, Called
<1>5. limit' = limit /\ NextDevice("unlock", "delete") BY DEF finishStreaming, Unchanged
<1>6. at' \in DOMAIN list /\ (phase' = "unlock" \/ (phase' = "delete" /\ at' = 1)) BY <1>0, <1>5, NextIs
<1>7. PlaceInv' BY <1>0, <1>4, <1>5, <1>6, PlaceTo, PlaceFacts
<1>8. NewInv'
  <2>1. \A i \in DOMAIN list : ~(i < 1) BY <1>0, PlaceFacts
  <2>2. \A d \in Devices : d \notin Range(list) => dev'[d] = dev[d] /\ Empty(d) BY <1>0, <1>4 DEF NewInv
  <2> QED BY <1>4, <1>6, <2>1, <2>2 DEF NewInv, Empty
<1>9. StartedInv' BY <1>6, StartedTo
<1> QED BY <1>4, <1>7, <1>8, <1>9 DEF StreamsInv

LEMMA DriverDelete ==
  ASSUME StreamsInv, DeleteDevice
  PROVE  StreamsInv'
<1>0. OwnInv /\ PlaceInv /\ NewInv /\ phase = "delete" BY DEF StreamsInv, DeleteDevice
<1>1. PICK o \in delete(This) : Apply(o) BY DEF DeleteDevice
<1>2. This \in Devices /\ at \in DOMAIN list BY <1>0, PlaceFacts DEF PlaceInv
<1>3. Sound(o, This) /\ IsNew(o.x) BY <1>0, <1>2, DeleteSound
<1>4. /\ OwnInv' /\ list' = list /\ snoop' = snoop /\ dev'[This] = o.x
      /\ \A e \in Devices : e # This => dev'[e] = dev[e]
      /\ \A e \in Devices : e \notin Range(list) => dev'[e] = dev[e]
  BY <1>1, <1>3, Called
<1>5. limit' = limit /\ NextDevice("delete", "none") BY DEF DeleteDevice, Unchanged
<1>6. /\ at' \in DOMAIN list
      /\ \/ at = Len(list) /\ phase' = "none"
         \/ at < Len(list) /\ phase' = "delete" /\ at' = at + 1
  BY <1>0, <1>5, NextIs
<1>7. PlaceInv' BY <1>0, <1>4, <1>5, <1>6, PlaceTo, PlaceFacts
<1>8. NewInv'
  <2>1. \A i \in DOMAIN list : i < at => Empty(list[i]) BY <1>0 DEF NewInv
  <2>2. ASSUME NEW i \in DOMAIN list, i <= at PROVE IsNew(dev'[list[i]])
    <3>1. CASE i = at BY <1>3, <1>4, <3>1 DEF This
    <3>2. CASE i # at
      <4>1. i < at /\ list[i] # This /\ list[i] \in Devices BY <1>0, <1>2, <2>2, <3>2, PlaceFacts DEF This
      <4> QED BY <1>4, <2>1, <4>1 DEF Empty, IsNew
    <3> QED BY <3>1, <3>2
  <2>3. \A d \in Devices : d \notin Range(list) => IsNew(dev'[d]) BY <1>0, <1>4 DEF NewInv, Empty, IsNew
  <2>4. \A i \in DOMAIN list : i < at' /\ phase' = "delete" => i <= at BY <1>0, <1>6, PlaceFacts
  <2>5. at = Len(list) => \A i \in DOMAIN list : i <= at BY <1>0, PlaceFacts
  <2>6. phase' = "none" => \A d \in Devices : IsNew(dev'[d]) BY <1>6, <2>2, <2>3, <2>5 DEF Range
  <2> QED BY <1>4, <1>6, <2>2, <2>3, <2>4, <2>6 DEF NewInv, Empty, IsNew
<1>9. StartedInv' BY <1>6, StartedTo
<1> QED BY <1>4, <1>7, <1>8, <1>9 DEF StreamsInv

\* Steps of the manager alone.
SameOwn == UNCHANGED <<bus, dev, snoop, odd, robbed>>
LEMMA OwnSame == ASSUME OwnInv, SameOwn PROVE OwnInv'
BY DEF OwnInv, SameOwn, BusOK, NumbersOK, ForeignOK, KeepsOwn, Number, Has, Registered

LEMMA ManagerInit ==
  ASSUME StreamsInv, ffado_streaming_init
  PROVE  StreamsInv'
<1>0. OwnInv /\ PlaceInv /\ NewInv /\ phase = "none" BY DEF StreamsInv, ffado_streaming_init
<1>1. /\ dev' = dev /\ list' = list /\ snoop' = snoop /\ odd' = odd /\ robbed' = robbed /\ limit' = limit
      /\ phase' = "lock" /\ at' = 1 /\ bus' = [bus EXCEPT !.chan = [c \in Channels |-> "free"]]
  BY DEF ffado_streaming_init, Go
<1>2. \A d \in Devices : Empty(d) BY <1>0 DEF NewInv
<1>3. OwnInv'
  <2>1. BusOK(bus) /\ (\A d \in Devices : NumbersOK(dev[d]) /\ ForeignOK(bus, dev[d], d)) BY <1>0 DEF OwnInv
  <2>2. BusOK(bus') /\ bus'.irm = bus.irm BY <1>1, <2>1 DEF BusOK
  <2>3. \A d \in Devices : ForeignOK(bus', dev[d], d) BY <2>1, <2>2 DEF ForeignOK
  <2>4. ASSUME NEW d \in Devices PROVE KeepsOwn(bus, dev[d], d)'
    <3>1. \A k \in Streams : Number(dev[d], d, k)' \in {None, Absent} BY <1>1, <1>2 DEF Number, Empty
    <3> QED BY <1>1, <1>2, <3>1 DEF KeepsOwn, Empty, Streams
  <2> QED BY <1>0, <1>1, <2>1, <2>2, <2>3, <2>4 DEF OwnInv
<1>4. PlaceInv'
  <2>1. 1 \in DOMAIN list BY <1>0, PlaceFacts
  <2> QED BY <1>0, <1>1, <2>1, PlaceTo, PlaceFacts
<1>5. NewInv'
  <2>1. \A i \in DOMAIN list : list[i] \in Devices BY <1>0, PlaceFacts
  <2> QED BY <1>1, <1>2, <2>1 DEF NewInv, Empty
<1>6. StartedInv' BY <1>1, StartedTo
<1> QED BY <1>3, <1>4, <1>5, <1>6 DEF StreamsInv

LEMMA ManagerRate ==
  ASSUME StreamsInv, setSamplingFrequency
  PROVE  StreamsInv'
<1>0. OwnInv /\ PlaceInv /\ NewInv /\ phase = "rate" BY DEF StreamsInv, setSamplingFrequency
<1>1. bus' = bus /\ list' = list /\ snoop' = snoop /\ odd' = odd /\ robbed' = robbed /\ limit' = limit
  BY DEF setSamplingFrequency, Unchanged
<1>2. CASE phase' = "prepare" /\ at' = at /\ dev' = dev
  <2>1. OwnInv' BY <1>0, <1>1, <1>2, OwnSame DEF SameOwn
  <2>2. PlaceInv' BY <1>0, <1>1, <1>2, PlaceTo, PlaceFacts
  <2>3. NewInv' BY <1>0, <1>1, <1>2 DEF NewInv, Empty
  <2>4. StartedInv' BY <1>2, StartedTo
  <2> QED BY <2>1, <2>2, <2>3, <2>4 DEF StreamsInv
<1>3. CASE phase' = "none" /\ at' = 1 /\ dev' = [d \in Devices |-> NewObject(dev[d])]
  <2>0. /\ BusOK(bus) /\ snoop \in BOOLEAN /\ odd \subseteq Devices /\ robbed \subseteq odd
        /\ \A d \in Devices : NumbersOK(dev[d]) /\ ForeignOK(bus, dev[d], d)
        /\ \A d, e \in Devices : Family[d] = "rme800" /\ Family[e] = "rme800" /\ dev[d].reg["rx"] = dev[e].reg["rx"] =>
              d = e \/ dev[d].reg["rx"] = None
    BY <1>0 DEF OwnInv
  <2>1. /\ DOMAIN dev' = Devices
        /\ \A d \in Devices : NumbersOK(dev'[d]) /\ IsNew(dev'[d]) /\ dev'[d].reg = dev[d].reg
    BY <1>3, <2>0, NewObjectIs DEF IsNew
  <2>2. OwnInv'
    <3>1. ASSUME NEW d \in Devices PROVE ForeignOK(bus, dev'[d], d)
      <4>1. dev'[d].mem["rx"] = None BY <2>1 DEF IsNew, Streams
      <4> QED BY <2>0, <2>1, <4>1 DEF ForeignOK
    <3>2. ASSUME NEW d \in Devices PROVE KeepsOwn(bus, dev[d], d)'
      <4>1. \A k \in Streams : Number(dev[d], d, k)' \in {None, Absent} BY <1>1, <2>1 DEF Number, IsNew
      <4> QED BY <1>1, <2>1, <4>1 DEF KeepsOwn, IsNew, Streams
    <3> QED BY <1>1, <2>0, <2>1, <3>1, <3>2 DEF OwnInv
  <2>3. PlaceInv'
    <3>1. 1 \in DOMAIN list BY <1>0, PlaceFacts
    <3> QED BY <1>0, <1>1, <1>3, <3>1, PlaceTo, PlaceFacts
  <2>4. NewInv' BY <1>1, <1>3, <2>1 DEF NewInv, Empty, IsNew
  <2>5. StartedInv' BY <1>3, StartedTo
  <2> QED BY <2>2, <2>3, <2>4, <2>5 DEF StreamsInv
<1> QED BY <1>2, <1>3 DEF setSamplingFrequency, Go

\* From rest to a phase that asks nothing but the place.
LEMMA ManagerQuiet ==
  ASSUME StreamsInv, SameOwn, list' = list, at' \in DOMAIN list, limit' \in 1..(Len(list) + 1),
         phase' \in {"ready", "unlock", "undo", "stop", "crashed"}, phase' \in {"undo", "stop"} => stream' = 0 /\ at' < limit'
  PROVE  StreamsInv'
<1>0. OwnInv /\ PlaceInv /\ NewInv BY DEF StreamsInv
<1>1. OwnInv' BY <1>0, OwnSame
<1>2. dev' = dev BY DEF SameOwn
<1>3. PlaceInv'
  <2>1. CASE phase' \in {"undo", "stop"}
    <3>1. SameAbsent(dev'[list[at']], dev[list[at']]) BY <1>2 DEF SameAbsent
    <3>2. 0 \in 0..Len(StreamsOf(list[at'])) BY StreamsOfIs
    <3> QED BY <1>0, <2>1, <3>1, <3>2, PlaceStream
  <2>2. CASE phase' \notin {"undo", "stop"} BY <1>0, <2>2, PlaceTo
  <2> QED BY <2>1, <2>2
<1>4. NewInv' BY <1>0, <1>2, NewTo
<1>5. StartedInv' BY StartedTo
<1> QED BY <1>1, <1>3, <1>4, <1>5 DEF StreamsInv

LEMMA UndoIs ==
  ASSUME PlaceInv, NEW i \in 1..(Len(list) + 1), Undo(i)
  PROVE  /\ limit' = i /\ at' = 1 /\ 1 \in DOMAIN list /\ phase' \in {"ready", "undo"}
         /\ phase' = "undo" => stream' = 0 /\ at' < limit'
BY PlaceFacts DEF Undo, Go

LEMMA ManagerStart ==
  ASSUME StreamsInv, ffado_streaming_start
  PROVE  StreamsInv'
<1>0. OwnInv /\ PlaceInv /\ NewInv BY DEF StreamsInv
<1>1. SameOwn /\ list' = list /\ limit' = limit /\ phase' = "reset" /\ at' = 1 /\ dev' = dev
  BY DEF ffado_streaming_start, Go, SameOwn
<1>2. OwnInv' BY <1>0, <1>1, OwnSame
<1>3. 1 \in DOMAIN list /\ \A i \in DOMAIN list : ~(i < 1) BY <1>0, PlaceFacts
<1>4. PlaceInv' BY <1>0, <1>1, <1>3, PlaceTo, PlaceFacts
<1>5. NewInv' BY <1>0, <1>1, NewTo
<1>6. StartedInv' BY <1>1, <1>3 DEF StartedInv
<1> QED BY <1>2, <1>4, <1>5, <1>6 DEF StreamsInv

LEMMA ManagerRest ==
  ASSUME StreamsInv, ffado_streaming_stop \/ ffado_streaming_finish
  PROVE  StreamsInv'
<1>0. PlaceInv BY DEF StreamsInv
<1>1. Len(list) + 1 \in 1..(Len(list) + 1) /\ 1 \in DOMAIN list /\ 1 < Len(list) + 1 BY <1>0, PlaceFacts
<1>2. CASE ffado_streaming_stop
  <2>1. SameOwn /\ list' = list /\ limit' = Len(list) + 1 /\ phase' = "stop" /\ at' = 1 /\ stream' = 0
    BY <1>2 DEF ffado_streaming_stop, SameOwn, Go
  <2> QED BY <1>1, <2>1, ManagerQuiet
<1>3. CASE ffado_streaming_finish
  <2>1. SameOwn /\ list' = list /\ limit' = limit /\ phase' = "unlock" /\ at' = 1
    BY <1>3 DEF ffado_streaming_finish, SameOwn, Go, Unchanged
  <2> QED BY <1>0, <1>1, <2>1, ManagerQuiet DEF PlaceInv
<1> QED BY <1>2, <1>3

LEMMA ManagerSpm ==
  ASSUME StreamsInv, startStreaming_spm
  PROVE  StreamsInv'
<1>0. OwnInv /\ PlaceInv /\ NewInv /\ StartedInv /\ phase = "spm" BY DEF StreamsInv, startStreaming_spm
<1>1. SameOwn /\ list' = list /\ snoop' = snoop /\ odd' = odd /\ dev' = dev BY DEF startStreaming_spm, SameOwn
<1>2. CASE Undo(Len(list) + 1)
  <2>1. Len(list) + 1 \in 1..(Len(list) + 1) BY <1>0, PlaceFacts
  <2> QED BY <1>0, <1>1, <1>2, <2>1, UndoIs, ManagerQuiet
<1>3. CASE phase' = "running" /\ at' = 1 /\ limit' = limit
  <2>1. OwnInv' BY <1>0, <1>1, OwnSame
  <2>2. 1 \in DOMAIN list BY <1>0, PlaceFacts
  <2>3. PlaceInv' BY <1>0, <1>1, <1>3, <2>2, PlaceTo, PlaceFacts
  <2>4. NewInv' BY <1>0, <1>1, <1>3, NewTo
  <2>5. StartedInv' BY <1>0, <1>1, <1>3 DEF StartedInv, AllReady, Regular
  <2> QED BY <2>1, <2>3, <2>4, <2>5 DEF StreamsInv
<1> QED BY <1>2, <1>3 DEF startStreaming_spm, Go

\* The devices whose streams have started keep them while another one is called.
LEMMA OthersReady ==
  ASSUME PlaceInv, NEW o, list' = list, odd \subseteq odd', \A e \in Devices : e # This => dev'[e] = dev[e],
         \A i \in DOMAIN list : i < at => AllReady(list[i])
  PROVE  \A i \in DOMAIN list : i < at => AllReady(list[i])'
<1> SUFFICES ASSUME NEW i \in DOMAIN list, i < at PROVE AllReady(list[i])' OBVIOUS
<1>1. list[i] \in Devices /\ list[i] # This /\ AllReady(list[i])
  BY PlaceFacts DEF This, PlaceInv
<1>2. dev'[list[i]] = dev[list[i]] BY <1>1
<1> QED BY <1>1, <1>2 DEF AllReady, Regular

LEMMA DriverReset ==
  ASSUME StreamsInv, startStreamingOnDevice_reset
  PROVE  StreamsInv'
<1>0. OwnInv /\ PlaceInv /\ NewInv /\ StartedInv /\ phase = "reset" BY DEF StreamsInv, startStreamingOnDevice_reset
<1>1. PICK o \in resetForStreaming(This) :
          /\ Apply(o)
          /\ IF ~o.ok THEN Undo(at)
             ELSE /\ Go(IF StreamsOf(This) = <<>> THEN "enable" ELSE "start", at, 1)
                  /\ UNCHANGED limit
  BY DEF startStreamingOnDevice_reset
<1>2. This \in Devices /\ at \in DOMAIN list /\ at \in 1..(Len(list) + 1) BY <1>0, PlaceFacts
<1>3. Sound(o, This) /\ o.x.proc = dev[This].proc BY <1>0, <1>2, ResetSound
<1>4. /\ OwnInv' /\ list' = list /\ snoop' = snoop /\ dev'[This] = o.x /\ odd \subseteq odd'
      /\ \A e \in Devices : e # This => dev'[e] = dev[e]
      /\ \A e \in Devices : e \notin Range(list) => dev'[e] = dev[e]
  BY <1>1, <1>3, Called
<1>5. \A e \in Devices : SameAbsent(dev'[e], dev[e]) BY <1>3, <1>4 DEF SameAbsent
<1>6. CASE ~o.ok
  <2>1. /\ limit' = at /\ at' = 1 /\ 1 \in DOMAIN list /\ phase' \in {"ready", "undo"}
        /\ phase' = "undo" => stream' = 0 /\ at' < limit'
    BY <1>0, <1>1, <1>2, <1>6, UndoIs
  <2>2. list[1] \in Devices BY <1>0, <2>1, PlaceFacts
  <2>3. 0 \in 0..Len(StreamsOf(list[1])) BY StreamsOfIs
  <2>4. PlaceInv' BY <1>0, <1>2, <1>4, <1>5, <2>1, <2>2, <2>3, PlaceStream
  <2>5. NewInv' BY <1>0, <1>4, <2>1, NewTo
  <2>6. StartedInv' BY <2>1, StartedTo
  <2> QED BY <1>4, <2>4, <2>5, <2>6 DEF StreamsInv
<1>7. CASE o.ok
  <2>1. /\ at' = at /\ stream' = 1 /\ limit' = limit
        /\ \/ StreamsOf(This) = <<>> /\ phase' = "enable"
           \/ StreamsOf(This) # <<>> /\ phase' = "start"
    BY <1>1, <1>7 DEF Go
  <2>2. PlaceInv'
    <3>1. StreamsOf(This) # <<>> => 1 \in DOMAIN StreamsOf(This)
      <4>1. Len(StreamsOf(This)) \in 0..2 /\ DOMAIN StreamsOf(This) = 1..Len(StreamsOf(This)) BY StreamsOfIs
      <4>2. Len(StreamsOf(This)) = 0 => StreamsOf(This) = <<>> BY StreamsOfIs
      <4> QED BY <4>1, <4>2
    <3>2. This = list[at] /\ SameAbsent(dev'[This], dev[This]) BY <1>2, <1>5 DEF This
    <3> QED BY <1>0, <1>2, <1>4, <2>1, <3>1, <3>2, PlaceStream, PlaceFacts
  <2>3. NewInv' BY <1>0, <1>4, <2>1, NewTo
  <2>4. ASSUME ~snoop PROVE \A i \in DOMAIN list : i < at => AllReady(list[i])'
    <3>1. \A i \in DOMAIN list : i < at => AllReady(list[i]) BY <1>0, <2>4 DEF StartedInv
    <3> QED BY <1>0, <1>4, <3>1, OthersReady
  <2>5. ASSUME StreamsOf(This) = <<>> PROVE \A k \in Streams : dev'[This].proc[k] = Absent
    <3>1. DOMAIN StreamsOf(This) = {} BY <2>5
    <3>2. \A k \in Streams : Missing(This, k) BY <3>1, StreamsOfIs
    <3> QED BY <1>3, <1>4, <3>2 DEF Missing
  <2>6. StreamsOf(This) = <<>> => AllReady(This)' BY <1>4, <2>1, <2>5 DEF AllReady, Ready, This
  <2>7. phase' = "start" => StartedHere'
    <3>1. StreamsOf(This)' = StreamsOf(This) BY <1>2, <1>4, <1>5, <2>1, StreamsOfThis
    <3>2. \A j \in DOMAIN StreamsOf(This) : ~(j < 1) /\ ~(1 < 1)
      <4>1. Len(StreamsOf(This)) \in 0..2 /\ DOMAIN StreamsOf(This) = 1..Len(StreamsOf(This)) BY StreamsOfIs
      <4> QED BY <4>1
    <3> QED BY <2>1, <3>1, <3>2 DEF StartedHere
  <2>8. StartedInv'
    <3>1. ~snoop' => \A i \in DOMAIN list' : i < at' => AllReady(list[i])' BY <1>4, <2>1, <2>4
    <3> QED BY <2>1, <2>6, <2>7, <3>1 DEF StartedInv
  <2> QED BY <1>4, <2>2, <2>3, <2>8 DEF StreamsInv
<1> QED BY <1>6, <1>7

LEMMA DriverStart ==
  ASSUME StreamsInv, startStreamingOnDevice_start
  PROVE  StreamsInv'
<1> DEFINE ks == StreamsOf(This)
<1>0. OwnInv /\ PlaceInv /\ NewInv /\ StartedInv /\ phase = "start" BY DEF StreamsInv, startStreamingOnDevice_start
<1>1. PICK o \in startStreamByIndex(This, ks[stream]) :
          /\ Apply(o)
          /\ CASE o.crash -> Go("crashed", at, 1)
               [] ~o.crash /\ o.ok -> IF stream = Len(ks) THEN Go("enable", at, 1) ELSE Go("start", at, stream + 1)
               [] OTHER -> Go("back", at, stream - 1)
  BY DEF startStreamingOnDevice_start
<1>2. This \in Devices /\ This = list[at] /\ at \in DOMAIN list BY <1>0, PlaceFacts DEF This
<1>3. stream \in DOMAIN ks /\ DOMAIN ks = 1..Len(ks) /\ Len(ks) \in 0..2 BY <1>0, StreamsOfIs DEF PlaceInv
<1>4. ks[stream] \in Streams /\ ~Missing(This, ks[stream]) BY <1>3, StreamsOfIs
<1>5. StartOK(o, This, ks[stream]) BY <1>0, <1>2, <1>4, StartStream
<1>6. Sound(o, This) /\ SameStreams(o, This) BY <1>5 DEF StartOK
<1>7. /\ OwnInv' /\ list' = list /\ snoop' = snoop /\ dev'[This] = o.x /\ odd \subseteq odd' /\ (This \notin odd' => ~o.odd)
      /\ \A e \in Devices : e # This => dev'[e] = dev[e]
      /\ \A e \in Devices : e \notin Range(list) => dev'[e] = dev[e]
  BY <1>1, <1>6, Called
<1>8. SameAbsent(dev'[This], dev[This]) BY <1>6, <1>7 DEF SameStreams, SameAbsent
<1>9. limit' = limit /\ limit \in 1..(Len(list) + 1) BY <1>0 DEF startStreamingOnDevice_start, Unchanged, PlaceInv
<1>10. /\ at' = at
       /\ \/ phase' = "crashed"
          \/ phase' = "enable" /\ ~o.crash /\ o.ok /\ stream = Len(ks)
          \/ phase' = "start" /\ ~o.crash /\ o.ok /\ stream # Len(ks) /\ stream' = stream + 1
          \/ phase' = "back" /\ stream' = stream - 1
  <2>1. CASE o.crash BY <1>1, <2>1 DEF Go
  <2>2. CASE ~o.crash /\ o.ok BY <1>1, <2>2 DEF Go
  <2>3. CASE ~o.crash /\ ~o.ok BY <1>1, <2>3 DEF Go
  <2> QED BY <2>1, <2>2, <2>3
<1> HIDE DEF ks
<1>11. PlaceInv'
  <2>1. phase' = "start" => stream' \in DOMAIN ks BY <1>3, <1>10
  <2>2. phase' = "back" => stream' \in 0..Len(ks) BY <1>3, <1>10
  <2>3. at' \in DOMAIN list /\ list[at'] = This BY <1>2, <1>10
  <2> QED BY <1>0, <1>7, <1>8, <1>9, <1>10, <2>1, <2>2, <2>3, PlaceStream DEF ks
<1>12. NewInv' BY <1>0, <1>7, <1>10, NewTo
<1>13. ASSUME ~snoop PROVE \A i \in DOMAIN list : i < at => AllReady(list[i])'
  <2>1. \A i \in DOMAIN list : i < at => AllReady(list[i]) BY <1>0, <1>13 DEF StartedInv
  <2> QED BY <1>0, <1>7, <2>1, OthersReady
<1>14. StreamsOf(This)' = ks BY <1>7, <1>8, <1>10, StreamsOfThis DEF ks
<1>15. This' = This BY <1>7, <1>10 DEF This
<1>16. ASSUME ~snoop, This \in Regular', o.ok, ~o.crash
       PROVE  /\ \A j \in DOMAIN ks : j <= stream => Ready(o.x, This, ks[j])
              /\ Once(This) => \A j \in Streams : Ready(o.x, This, j)
  <2>1. This \notin odd' /\ This \notin odd /\ Family[This] # "slave" BY <1>2, <1>7, <1>16 DEF Regular
  <2>2. /\ \A j \in Streams : Ready(dev[This], This, j) => Ready(o.x, This, j)
        /\ Ready(o.x, This, ks[stream]) \/ (Once(This) /\ ks[stream] # "rx")
        /\ Once(This) /\ ks[stream] = "rx" => \A j \in Streams : Ready(o.x, This, j)
    BY <1>5, <1>7, <1>16, <2>1 DEF StartOK
  <2>3. StartedHere /\ This \in Regular BY <1>0, <1>2, <1>16, <2>1 DEF StartedInv, Regular
  <2>4. \A j \in DOMAIN ks : j < stream \/ (1 < stream /\ Once(This)) => Ready(dev[This], This, ks[j])
    BY <2>3 DEF StartedHere, ks, Once
  <2>5. \A j \in DOMAIN ks : ks[j] \in Streams BY StreamsOfIs DEF ks
  <2>6. CASE ~Once(This)
    <3>1. \A j \in DOMAIN ks : j <= stream => j < stream \/ j = stream BY <1>3
    <3> QED BY <2>2, <2>4, <2>5, <2>6, <3>1
  <2>7. CASE Once(This)
    <3>1. Len(ks) = 2 /\ ks[1] = "rx" /\ ks[2] = "tx" BY <2>7, StreamsOfIs DEF ks, Once
    <3>2. CASE stream = 1
      <4>1. \A j \in Streams : Ready(o.x, This, j) BY <2>2, <2>7, <3>1, <3>2
      <4> QED BY <2>5, <4>1
    <3>3. CASE stream = 2
      <4>1. 1 \in DOMAIN ks /\ 2 \in DOMAIN ks BY <1>3, <3>1
      <4>2. Ready(dev[This], This, "rx") /\ Ready(dev[This], This, "tx") BY <2>4, <2>7, <3>1, <3>3, <4>1
      <4>3. \A j \in Streams : Ready(o.x, This, j) BY <2>2, <4>2 DEF Streams
      <4> QED BY <2>5, <4>3
    <3>4. stream \in {1, 2} BY <1>3, <3>1
    <3> QED BY <3>2, <3>3, <3>4
  <2> QED BY <2>6, <2>7
<1>17. ASSUME ~snoop, phase' = "enable" PROVE AllReady(This)'
  <2>1. ASSUME This \in Regular', NEW k \in Streams PROVE Ready(o.x, This, k)
    <3>1. CASE Missing(This, k)
      <4>1. o.x.proc[k] = Absent BY <1>6, <3>1 DEF Missing, SameStreams
      <4> QED BY <4>1 DEF Ready
    <3>2. CASE ~Missing(This, k)
      <4>1. PICK j \in DOMAIN ks : ks[j] = k BY <3>2, StreamsOfIs DEF ks
      <4>2. j <= stream /\ o.ok /\ ~o.crash BY <1>3, <1>10, <1>17
      <4> QED BY <1>16, <1>17, <2>1, <4>1, <4>2
    <3> QED BY <3>1, <3>2
  <2> QED BY <1>7, <1>15, <2>1 DEF AllReady
<1>18. ASSUME ~snoop, phase' = "start" PROVE StartedHere'
  <2>1. o.ok /\ ~o.crash /\ stream' = stream + 1 BY <1>10, <1>18
  <2>2. \A j \in DOMAIN ks : ks[j] \in Streams BY StreamsOfIs DEF ks
  <2>3. ASSUME This \in Regular', NEW j \in DOMAIN ks, j < stream + 1 \/ Once(This) PROVE Ready(o.x, This, ks[j])
    <3>1. j < stream + 1 => j <= stream BY <1>3
    <3> QED BY <1>16, <1>18, <2>1, <2>2, <2>3, <3>1
  <2> QED BY <1>7, <1>14, <1>15, <2>1, <2>3 DEF StartedHere, Once
<1>19. StartedInv'
  <2>1. ~snoop' => \A i \in DOMAIN list' : i < at' => AllReady(list[i])' BY <1>7, <1>10, <1>13
  <2> QED BY <1>7, <1>10, <1>17, <1>18, <2>1 DEF StartedInv
<1> QED BY <1>7, <1>11, <1>12, <1>19 DEF StreamsInv

LEMMA DriverEnable ==
  ASSUME StreamsInv, startStreamingOnDevice_enable
  PROVE  StreamsInv'
<1>0. OwnInv /\ PlaceInv /\ NewInv /\ StartedInv /\ phase = "enable" BY DEF StreamsInv, startStreamingOnDevice_enable
<1>1. PICK o \in enableStreaming(This) :
          Apply(o) /\ (IF o.ok THEN NextDevice("reset", "spm") /\ UNCHANGED limit ELSE Undo(at))
  BY DEF startStreamingOnDevice_enable
<1>2. This \in Devices /\ This = list[at] /\ at \in DOMAIN list /\ at \in 1..(Len(list) + 1) BY <1>0, PlaceFacts DEF This
<1>3. Sound(o, This) /\ o.x = dev[This] BY <1>0, <1>2, EnableSound
<1>4. /\ OwnInv' /\ list' = list /\ snoop' = snoop /\ dev'[This] = o.x /\ odd \subseteq odd'
      /\ \A e \in Devices : e # This => dev'[e] = dev[e]
      /\ \A e \in Devices : e \notin Range(list) => dev'[e] = dev[e]
  BY <1>1, <1>3, Called
<1>5. \A e \in Devices : dev'[e] = dev[e] BY <1>3, <1>4
<1>6. CASE ~o.ok
  <2>1. /\ limit' = at /\ at' = 1 /\ 1 \in DOMAIN list /\ phase' \in {"ready", "undo"}
        /\ phase' = "undo" => stream' = 0 /\ at' < limit'
    BY <1>0, <1>1, <1>2, <1>6, UndoIs
  <2>2. list[1] \in Devices BY <1>0, <2>1, PlaceFacts
  <2>3. 0 \in 0..Len(StreamsOf(list[1])) /\ SameAbsent(dev'[list[1]], dev[list[1]]) BY <1>5, <2>2, StreamsOfIs DEF SameAbsent
  <2>4. PlaceInv' BY <1>0, <1>2, <1>4, <2>1, <2>3, PlaceStream
  <2>5. NewInv' BY <1>0, <1>4, <2>1, NewTo
  <2>6. StartedInv' BY <2>1, StartedTo
  <2> QED BY <1>4, <2>4, <2>5, <2>6 DEF StreamsInv
<1>7. CASE o.ok
  <2>1. /\ at' \in DOMAIN list /\ limit' = limit
        /\ \/ at = Len(list) /\ phase' = "spm"
           \/ phase' = "reset" /\ at' = at + 1
    BY <1>0, <1>1, <1>7, NextIs
  <2>2. PlaceInv' BY <1>0, <1>4, <2>1, PlaceTo, PlaceFacts
  <2>3. NewInv' BY <1>0, <1>4, <2>1, NewTo
  <2>4. ASSUME ~snoop, NEW i \in DOMAIN list, i <= at PROVE AllReady(list[i])'
    <3>1. AllReady(list[i])
      <4>1. i < at \/ i = at BY <1>0, <2>4, PlaceFacts
      <4> QED BY <1>0, <1>2, <2>4, <4>1 DEF StartedInv
    <3>2. list[i] \in Devices /\ dev'[list[i]] = dev[list[i]] BY <1>0, <1>5, PlaceFacts
    <3> QED BY <1>4, <3>1, <3>2 DEF AllReady, Regular
  <2>5. \A i \in DOMAIN list : /\ i < at' /\ phase' = "reset" => i <= at
                               /\ phase' = "spm" => i <= at
    BY <1>0, <2>1, PlaceFacts
  <2>6. ~snoop' => \A i \in DOMAIN list' : /\ i < at' /\ phase' = "reset" => AllReady(list[i])'
                                           /\ phase' = "spm" => AllReady(list[i])'
    BY <1>4, <2>4, <2>5
  <2>7. StartedInv' BY <2>1, <2>6 DEF StartedInv
  <2> QED BY <1>4, <2>2, <2>3, <2>7 DEF StreamsInv
<1> QED BY <1>6, <1>7

\* A stream is stopped: after a failure, or because the client or an earlier failure asks for it.
LEMMA StreamStopped ==
  ASSUME StreamsInv, NEW o, Apply(o), StopOK(o, This), list[at'] \in Devices, at' \in DOMAIN list, limit' = limit,
         phase' \in {"ready", "back", "undo", "stop"},
         phase' # "ready" => stream' \in 0..Len(StreamsOf(list[at'])), phase' \in {"undo", "stop"} => at' < limit
  PROVE  StreamsInv'
<1>0. OwnInv /\ PlaceInv /\ NewInv /\ Sound(o, This) /\ SameStreams(o, This) BY DEF StreamsInv, StopOK
<1>1. /\ OwnInv' /\ list' = list /\ dev'[This] = o.x
      /\ \A e \in Devices : e # This => dev'[e] = dev[e]
      /\ \A e \in Devices : e \notin Range(list) => dev'[e] = dev[e]
  BY <1>0, Called
<1>2. SameAbsent(dev'[list[at']], dev[list[at']]) BY <1>0, <1>1 DEF SameStreams, SameAbsent
<1>3. PlaceInv' BY <1>0, <1>1, <1>2, PlaceStream, PlaceFacts
<1>4. NewInv' BY <1>0, <1>1, NewTo
<1>5. StartedInv' BY StartedTo
<1> QED BY <1>1, <1>3, <1>4, <1>5 DEF StreamsInv

LEMMA DriverBack ==
  ASSUME StreamsInv, startStreamingOnDevice_back
  PROVE  StreamsInv'
<1> DEFINE ks == StreamsOf(This)
<1>0. OwnInv /\ PlaceInv /\ phase = "back" BY DEF StreamsInv, startStreamingOnDevice_back
<1>1. This \in Devices /\ This = list[at] /\ at \in DOMAIN list /\ at \in 1..(Len(list) + 1) BY <1>0, PlaceFacts DEF This
<1>2. stream \in 0..Len(ks) /\ DOMAIN ks = 1..Len(ks) /\ Len(ks) \in 0..2 BY <1>0, StreamsOfIs DEF PlaceInv
<1>3. CASE stream = 0
  <2>1. Undo(at) /\ SameOwn /\ list' = list BY <1>3 DEF startStreamingOnDevice_back, SameOwn
  <2> QED BY <1>0, <1>1, <2>1, UndoIs, ManagerQuiet
<1>4. CASE stream # 0
  <2>1. PICK o \in stopStreamByIndex(This, ks[stream]) : Apply(o) BY <1>4 DEF startStreamingOnDevice_back
  <2>2. phase' = "back" /\ at' = at /\ stream' = stream - 1 /\ limit' = limit BY <1>4 DEF startStreamingOnDevice_back, Go
  <2>3. stream \in DOMAIN ks /\ stream - 1 \in 0..Len(ks) BY <1>2, <1>4
  <2>4. StopOK(o, This) BY <1>0, <1>1, <2>3, StreamsOfIs, StopStream
  <2> QED BY <1>1, <2>1, <2>2, <2>3, <2>4, StreamStopped
<1> QED BY <1>3, <1>4

LEMMA DriverStop ==
  ASSUME StreamsInv, stopStreamingOnDevice
  PROVE  StreamsInv'
<1> DEFINE ks == StreamsOf(This)
<1>0. OwnInv /\ PlaceInv /\ phase \in {"undo", "stop"} BY DEF StreamsInv, stopStreamingOnDevice
<1>1. This \in Devices /\ This = list[at] /\ at \in DOMAIN list /\ at < limit BY <1>0, PlaceFacts DEF This, PlaceInv
<1>2. stream \in 0..Len(ks) /\ DOMAIN ks = 1..Len(ks) /\ Len(ks) \in 0..2 BY <1>0, StreamsOfIs DEF PlaceInv
<1>3. PICK o \in (IF stream = 0 THEN disableStreaming(This) ELSE stopStreamByIndex(This, ks[stream])) : Apply(o)
  BY DEF stopStreamingOnDevice
<1>4. StopOK(o, This)
  <2>1. CASE stream = 0
    <3>1. Sound(o, This) /\ o.x = dev[This] BY <1>0, <1>1, <1>3, <2>1, EnableSound DEF disableStreaming
    <3> QED BY <3>1 DEF StopOK, SameStreams
  <2>2. CASE stream # 0
    <3>1. stream \in DOMAIN ks BY <1>2, <2>2
    <3> QED BY <1>0, <1>1, <1>3, <2>2, <3>1, StreamsOfIs, StopStream
  <2> QED BY <2>1, <2>2
<1>5. /\ limit' = limit
      /\ \/ phase' = phase /\ at' = at /\ stream' = stream + 1 /\ stream < Len(ks)
         \/ phase' = phase /\ at' = at + 1 /\ stream' = 0 /\ at + 1 < limit
         \/ phase' = "ready" /\ at' = 1
  <2>1. CASE stream < Len(ks) BY <1>2, <2>1 DEF stopStreamingOnDevice, Go
  <2>2. CASE stream = Len(ks) /\ at + 1 < limit BY <1>2, <2>2 DEF stopStreamingOnDevice, Go
  <2>3. CASE ~(stream < Len(ks)) /\ ~(stream = Len(ks) /\ at + 1 < limit) BY <2>3 DEF stopStreamingOnDevice, Go
  <2> QED BY <2>1, <2>2, <2>3
<1>6. at' \in DOMAIN list /\ list[at'] \in Devices BY <1>0, <1>1, <1>5, PlaceFacts
<1>7. phase' # "ready" => stream' \in 0..Len(StreamsOf(list[at'])) /\ at' < limit
  <2>1. 0 \in 0..Len(StreamsOf(list[at'])) BY StreamsOfIs
  <2> QED BY <1>1, <1>2, <1>5, <2>1
<1>8. phase' \in {"ready", "back", "undo", "stop"} BY <1>0, <1>5
<1> QED BY <1>3, <1>4, <1>5, <1>6, <1>7, <1>8, StreamStopped

\* The surroundings.
LEMMA OtherNodeStep ==
  ASSUME StreamsInv, OtherNode
  PROVE  StreamsInv'
<1>0. OwnInv /\ PlaceInv /\ NewInv BY DEF StreamsInv
<1>1. /\ UNCHANGED <<dev, list, snoop, phase, at, stream, limit, odd, robbed>> /\ phase \in {"none", "ready"}
  BY DEF OtherNode
<1>2. BusOK(bus) BY <1>0 DEF OwnInv
<1>3. PICK c \in Channels : \/ bus.irm[c] = Nobody /\ bus' = [bus EXCEPT !.irm[c] = Other, !.units = @ - 1]
                            \/ bus.irm[c] = Other /\ bus' = [bus EXCEPT !.irm[c] = Nobody, !.units = @ + 1]
  BY DEF OtherNode
<1>4. /\ DOMAIN bus' = {"irm", "units", "chan"} /\ bus'.chan = bus.chan
      /\ bus'.irm \in [Channels -> Devices \cup {Nobody, Other, Own}]
      /\ \A e \in Channels : bus'.irm[e] = bus.irm[e] \/ (bus.irm[e] \in {Nobody, Other} /\ bus'.irm[e] \in {Nobody, Other})
  <2>1. PICK w \in {Nobody, Other} : bus.irm[c] \in {Nobody, Other} /\ bus'.irm = [bus.irm EXCEPT ![c] = w]
                                   /\ DOMAIN bus' = {"irm", "units", "chan"} /\ bus'.chan = bus.chan
    <3>1. CASE bus.irm[c] = Nobody /\ bus' = [bus EXCEPT !.irm[c] = Other, !.units = @ - 1] BY <1>2, <3>1 DEF BusOK
    <3>2. CASE bus.irm[c] = Other /\ bus' = [bus EXCEPT !.irm[c] = Nobody, !.units = @ + 1] BY <1>2, <3>2 DEF BusOK
    <3> QED BY <1>3, <3>1, <3>2
  <2>2. bus.irm \in [Channels -> Devices \cup {Nobody, Other, Own}] BY <1>2 DEF BusOK
  <2> QED BY <2>1, <2>2
<1>5. BusOK(bus') BY <1>2, <1>4, StreamConstants DEF BusOK
<1>6. \A e \in Channels : bus.irm[e] \in Devices \cup {Own} => bus'.irm[e] = bus.irm[e] BY <1>4, StreamConstants
<1>7. OwnInv'
  <2>1. \A d \in Devices : NumbersOK(dev[d]) /\ ForeignOK(bus, dev[d], d) BY <1>0 DEF OwnInv
  <2>2. ASSUME NEW d \in Devices PROVE ForeignOK(bus', dev[d], d)
    <3>1. Family[d] = "rme800" => dev[d].reg["rx"] \in Channels \cup {None} BY <2>1 DEF NumbersOK, Channel, Streams
    <3> QED BY <1>6, <2>1, <3>1 DEF ForeignOK
  <2>3. \A e, d : d \in Devices /\ Has(bus, e, d) => Has(bus', e, d)
    <3>1. \A e : e \in 0..(NrChannels - 2) => e \in Channels BY StreamConstants
    <3> QED BY <1>4, <1>6, <3>1 DEF Has, Registered
  <2>4. ASSUME NEW d \in Devices \ odd' PROVE KeepsOwn(bus, dev[d], d)'
    <3>1. KeepsOwn(bus, dev[d], d) BY <1>0, <1>1 DEF OwnInv
    <3>2. KeepsOwn(bus', dev[d], d) BY <2>3, <3>1 DEF KeepsOwn
    <3>3. KeepsOwn(bus', dev'[d], d) BY <1>1, <3>2
    <3> QED BY <1>1, <3>3, KeepsLater
  <2> QED BY <1>0, <1>1, <1>5, <2>1, <2>2, <2>4 DEF OwnInv
<1>8. PlaceInv'
  <2>1. SameAbsent(dev'[list[at']], dev[list[at']]) BY <1>1 DEF SameAbsent
  <2> QED BY <1>0, <1>1, PlaceTo DEF PlaceInv
<1>9. NewInv' BY <1>0, <1>1 DEF NewInv, Empty
<1>10. StartedInv' BY <1>1, StartedTo
<1> QED BY <1>7, <1>8, <1>9, <1>10 DEF StreamsInv

LEMMA MasterStep ==
  ASSUME StreamsInv, MasterWrites
  PROVE  StreamsInv'
<1>0. OwnInv /\ PlaceInv /\ NewInv /\ StartedInv BY DEF StreamsInv
<1>1. UNCHANGED <<bus, list, snoop, phase, at, stream, limit, odd, robbed>> /\ phase \in {"ready", "start"}
  BY DEF MasterWrites
<1>2. PICK d \in Devices, k \in Streams, c \in Channels : Family[d] = "slave" /\ dev' = [dev EXCEPT ![d].reg[k] = c]
  BY DEF MasterWrites
<1>3. /\ BusOK(bus) /\ DOMAIN dev = Devices
      /\ \A e \in Devices : NumbersOK(dev[e]) /\ ForeignOK(bus, dev[e], e)
  BY <1>0 DEF OwnInv
<1>4. /\ DOMAIN dev' = Devices /\ NumbersOK(dev'[d]) /\ dev'[d].proc = dev[d].proc /\ dev'[d].mem = dev[d].mem
      /\ \A e \in Devices : e # d => dev'[e] = dev[e]
  <2>1. DOMAIN dev' = Devices /\ dev'[d] = [dev[d] EXCEPT !.reg[k] = c] /\ \A e \in Devices : e # d => dev'[e] = dev[e]
    BY <1>2, <1>3
  <2> QED BY <1>3, <2>1 DEF NumbersOK, Channel
<1>5. \A e \in Devices : SameAbsent(dev'[e], dev[e]) BY <1>4 DEF SameAbsent
<1>6. OwnInv'
  <2>1. ASSUME NEW e \in Devices PROVE NumbersOK(dev'[e]) /\ ForeignOK(bus, dev'[e], e)
    BY <1>2, <1>3, <1>4 DEF ForeignOK
  <2>2. ASSUME NEW e \in Devices \ odd' PROVE KeepsOwn(bus, dev[e], e)'
    <3>1. KeepsOwn(bus, dev[e], e) BY <1>0, <1>1 DEF OwnInv
    <3>2. CASE e = d
      <4>1. Family[e] \notin Renting /\ \A j \in Streams : Number(dev'[e], e, j) = None BY <1>2, <3>2 DEF Number, Renting
      <4>2. KeepsOwn(bus', dev'[e], e) BY <4>1 DEF KeepsOwn, Streams
      <4> QED BY <1>1, <4>2, KeepsLater
    <3>3. CASE e # d
      <4>1. KeepsOwn(bus', dev'[e], e) BY <1>1, <1>4, <3>1, <3>3
      <4> QED BY <1>1, <4>1, KeepsLater
    <3> QED BY <3>2, <3>3
  <2>3. \A e \in Devices : Family[e] = "rme800" => dev'[e] = dev[e] BY <1>2, <1>4
  <2> QED BY <1>0, <1>1, <1>3, <1>4, <2>1, <2>2, <2>3 DEF OwnInv
<1>7. This \in Devices /\ This = list[at] /\ at \in DOMAIN list BY <1>0, PlaceFacts DEF This
<1>8. PlaceInv'
  <2>1. SameAbsent(dev'[list[at']], dev[list[at']]) BY <1>1, <1>5, <1>7
  <2> QED BY <1>0, <1>1, <1>7, <2>1, PlaceStream DEF PlaceInv
<1>9. NewInv'
  <2>1. \A e \in Devices : Empty(e) => Empty(e)' BY <1>4 DEF Empty
  <2> QED BY <1>0, <1>1, <2>1 DEF NewInv
<1>10. StartedInv'
  <2>1. StreamsOf(This)' = StreamsOf(This) /\ This' = This BY <1>1, <1>5, <1>7, StreamsOfThis DEF This
  <2>2. \A e \in Devices : e \in Regular' => e \in Regular /\ dev'[e] = dev[e] BY <1>1, <1>2, <1>4 DEF Regular
  <2>3. ASSUME StartedHere PROVE StartedHere' BY <1>1, <1>7, <2>1, <2>2, <2>3 DEF StartedHere
  <2>4. ASSUME NEW i \in DOMAIN list, AllReady(list[i]) PROVE AllReady(list[i])'
    <3>1. list[i] \in Devices BY <1>0, PlaceFacts
    <3> QED BY <1>1, <2>2, <2>4, <3>1 DEF AllReady
  <2>5. ~snoop' /\ phase' = "start" => \A i \in DOMAIN list' : i < at' => AllReady(list[i])' BY <1>0, <1>1, <2>4 DEF StartedInv
  <2> QED BY <1>0, <1>1, <2>3, <2>5 DEF StartedInv
<1> QED BY <1>6, <1>8, <1>9, <1>10 DEF StreamsInv

LEMMA StreamsSame == ASSUME StreamsInv, UNCHANGED streamVars PROVE StreamsInv'
<1>1. /\ bus' = bus /\ dev' = dev /\ list' = list /\ snoop' = snoop /\ phase' = phase /\ at' = at /\ stream' = stream
      /\ limit' = limit /\ odd' = odd /\ robbed' = robbed
  BY DEF streamVars
<1>2. OwnInv' BY <1>1, OwnSame DEF StreamsInv, SameOwn
<1>3. PlaceInv' BY <1>1 DEF StreamsInv, PlaceInv, This, StreamsOf, Missing
<1>4. NewInv' BY <1>1 DEF StreamsInv, NewInv, Empty
<1>5. StartedInv' BY <1>1 DEF StreamsInv, StartedInv, StartedHere, AllReady, Regular, This, StreamsOf, Missing
<1> QED BY <1>2, <1>3, <1>4, <1>5 DEF StreamsInv

LEMMA StreamsStart == StreamsInit => StreamsInv
<1> SUFFICES ASSUME StreamsInit PROVE StreamsInv OBVIOUS
<1>1. /\ bus = [irm |-> [c \in Channels |-> Nobody], units |-> MaxUnits, chan |-> [c \in Channels |-> "free"]]
      /\ dev = [d \in Devices |-> NewDevice] /\ list \in DeviceLists /\ snoop \in BOOLEAN
      /\ phase = "none" /\ at = 1 /\ limit = 1 /\ odd = {} /\ robbed = {}
  BY DEF StreamsInit
<1>2. NumbersOK(NewDevice) /\ IsNew(NewDevice) /\ NewDevice.reg["rx"] = None
  BY DEF NumbersOK, NewDevice, Channel, IsNew, Streams
<1>3. BusOK(bus) BY <1>1 DEF BusOK
<1>4. ASSUME NEW d \in Devices
      PROVE  NumbersOK(dev[d]) /\ ForeignOK(bus, dev[d], d) /\ KeepsOwn(bus, dev[d], d) /\ Empty(d) /\ dev[d].reg["rx"] = None
  <2>1. dev[d] = NewDevice BY <1>1
  <2>2. \A k \in Streams : Number(dev[d], d, k) \in {None, Absent} BY <1>2, <2>1 DEF Number, IsNew
  <2>3. KeepsOwn(bus, dev[d], d) BY <1>2, <2>1, <2>2 DEF KeepsOwn, IsNew, Streams
  <2>4. ForeignOK(bus, dev[d], d) BY <1>2, <2>1 DEF ForeignOK, IsNew, Streams
  <2> QED BY <1>2, <2>1, <2>3, <2>4 DEF Empty, IsNew
<1>5. OwnInv BY <1>1, <1>3, <1>4 DEF OwnInv
<1>6. PlaceInv
  <2>1. list \in Seq(Devices) /\ list # <<>> BY <1>1, ListsAssumption
  <2>2. Len(list) \in Nat /\ Len(list) >= 1 /\ DOMAIN list = 1..Len(list) BY <2>1
  <2> QED BY <1>1, <2>2 DEF PlaceInv
<1>7. NewInv BY <1>1, <1>4 DEF NewInv
<1>8. StartedInv BY <1>1 DEF StartedInv
<1> QED BY <1>5, <1>6, <1>7, <1>8 DEF StreamsInv

LEMMA StreamsStep == StreamsInv /\ [StreamsNext]_streamVars => StreamsInv'
<1> SUFFICES ASSUME StreamsInv, [StreamsNext]_streamVars PROVE StreamsInv' OBVIOUS
<1>1. CASE ffado_streaming_init BY <1>1, ManagerInit
<1>2. CASE initStreaming_lock BY <1>2, DriverLock
<1>3. CASE setSamplingFrequency BY <1>3, ManagerRate
<1>4. CASE initStreaming_prepare BY <1>4, DriverPrepare
<1>5. CASE ffado_streaming_start BY <1>5, ManagerStart
<1>6. CASE startStreamingOnDevice_reset BY <1>6, DriverReset
<1>7. CASE startStreamingOnDevice_start BY <1>7, DriverStart
<1>8. CASE startStreamingOnDevice_back BY <1>8, DriverBack
<1>9. CASE startStreamingOnDevice_enable BY <1>9, DriverEnable
<1>10. CASE startStreaming_spm BY <1>10, ManagerSpm
<1>11. CASE stopStreamingOnDevice BY <1>11, DriverStop
<1>12. CASE ffado_streaming_stop \/ ffado_streaming_finish BY <1>12, ManagerRest
<1>13. CASE finishStreaming BY <1>13, DriverUnlock
<1>14. CASE DeleteDevice BY <1>14, DriverDelete
<1>15. CASE OtherNode BY <1>15, OtherNodeStep
<1>16. CASE MasterWrites BY <1>16, MasterStep
<1>17. CASE Finished \/ UNCHANGED streamVars BY <1>17, StreamsSame DEF Finished
<1> QED BY <1>1, <1>2, <1>3, <1>4, <1>5, <1>6, <1>7, <1>8, <1>9, <1>10, <1>11, <1>12, <1>13, <1>14, <1>15, <1>16, <1>17
        DEF StreamsNext

\* What plays is ready; so it has its channel, from the resource manager or, a Fireface 800, from itself.
LEMMA PlayingHas ==
  ASSUME StreamsInv, phase = "running", ~snoop, NEW d \in Regular, NEW k \in Streams, dev[d].proc[k] # Absent
  PROVE  LET c == dev[d].proc[k]
         IN  /\ c # None
             /\ Foreign(d, k) => c = dev[d].reg["rx"] /\ bus.irm[c] = Own
             /\ ~Foreign(d, k) => Number(dev[d], d, k) = c /\ Has(bus, c, d)
             /\ Family[d] \in Registers => dev[d].reg[k] = c
<1>0. OwnInv /\ PlaceInv /\ NewInv /\ StartedInv /\ d \in Devices /\ d \notin odd /\ Family[d] # "slave"
  BY DEF StreamsInv, Regular
<1>1. Ready(dev[d], d, k)
  <2>1. d \in Range(list) BY <1>0 DEF NewInv, Empty
  <2>2. PICK i \in DOMAIN list : d = list[i] BY <2>1 DEF Range
  <2>3. AllReady(d) BY <1>0, <2>2 DEF StartedInv
  <2> QED BY <2>3 DEF AllReady
<1>2. KeepsOwn(bus, dev[d], d) /\ ForeignOK(bus, dev[d], d) BY <1>0 DEF OwnInv
<1>3. /\ dev[d].proc[k] # None /\ (Family[d] \in Renting => dev[d].proc[k] = dev[d].mem[k])
      /\ (Family[d] \in {"dice", "bounce"} => dev[d].proc[k] = dev[d].reg[k])
  BY <1>1 DEF Ready
<1>4. Foreign(d, k) => dev[d].proc[k] = dev[d].reg["rx"] /\ bus.irm[dev[d].proc[k]] = Own
  BY <1>2, <1>3 DEF Foreign, ForeignOK, Renting
<1>5. ASSUME ~Foreign(d, k) PROVE Number(dev[d], d, k) = dev[d].proc[k] /\ Has(bus, dev[d].proc[k], d)
  <2>1. Number(dev[d], d, k) = dev[d].proc[k]
    <3>1. CASE Family[d] \in Renting BY <1>3, <1>5, <3>1 DEF Number, Renting
    <3>2. CASE Family[d] \notin Renting BY <1>0, <3>2 DEF Number
    <3> QED BY <3>1, <3>2
  <2>2. Number(dev[d], d, k) \notin {None, Absent} BY <1>3, <2>1
  <2> QED BY <1>2, <2>1, <2>2 DEF KeepsOwn
<1>6. Family[d] \in Registers => dev[d].reg[k] = dev[d].proc[k] BY <1>0, <1>3 DEF Registers
<1> QED BY <1>3, <1>4, <1>5, <1>6

LEMMA OwnChannels == StreamsInv => ChannelsAreOwn
<1> SUFFICES ASSUME StreamsInv PROVE ChannelsAreOwn OBVIOUS
<1>0. OwnInv BY DEF StreamsInv
<1>1. OnlyOwnFreed BY <1>0 DEF OwnInv, OnlyOwnFreed, RegisteredIsHeld, BusOK
<1>2. ASSUME phase = "running", ~snoop, NEW p \in Playing
      PROVE  /\ p[1] \in Regular /\ p[1] \in Devices /\ p[2] \in Streams /\ p = <<p[1], p[2]>> /\ dev[p[1]].proc[p[2]] # Absent
             /\ dev[p[1]].proc[p[2]] # None
             /\ Foreign(p[1], p[2]) => dev[p[1]].proc[p[2]] = dev[p[1]].reg["rx"] /\ bus.irm[dev[p[1]].proc[p[2]]] = Own
             /\ ~Foreign(p[1], p[2]) => /\ Number(dev[p[1]], p[1], p[2]) = dev[p[1]].proc[p[2]]
                                        /\ Has(bus, dev[p[1]].proc[p[2]], p[1])
             /\ Family[p[1]] \in Registers => dev[p[1]].reg[p[2]] = dev[p[1]].proc[p[2]]
  <2>1. PICK d \in Regular, k \in Streams : p = <<d, k>> BY <1>2 DEF Playing
  <2>2. p[1] = d /\ p[2] = k /\ d \in Devices /\ dev[d].proc[k] # Absent BY <1>2, <2>1 DEF Playing, Regular
  <2>3. /\ dev[d].proc[k] # None
        /\ Foreign(d, k) => dev[d].proc[k] = dev[d].reg["rx"] /\ bus.irm[dev[d].proc[k]] = Own
        /\ ~Foreign(d, k) => Number(dev[d], d, k) = dev[d].proc[k] /\ Has(bus, dev[d].proc[k], d)
        /\ Family[d] \in Registers => dev[d].reg[k] = dev[d].proc[k]
    BY <1>2, <2>2, PlayingHas
  <2> QED BY <2>1, <2>2, <2>3
<1>3. ASSUME phase = "running", ~snoop, NEW p \in Playing, NEW q \in Playing, dev[p[1]].proc[p[2]] = dev[q[1]].proc[q[2]]
      PROVE  p = q
  <2>1. Foreign(p[1], p[2]) <=> Foreign(q[1], q[2]) BY <1>2, <1>3, StreamConstants, SMTT(30) DEF Has
  <2>2. CASE Foreign(p[1], p[2])
    <3>1. dev[p[1]].reg["rx"] = dev[q[1]].reg["rx"] /\ dev[p[1]].reg["rx"] # None BY <1>2, <1>3, <2>1, <2>2
    <3>2. Family[p[1]] = "rme800" /\ Family[q[1]] = "rme800" /\ p[2] = "rx" /\ q[2] = "rx" BY <2>1, <2>2 DEF Foreign
    <3>3. p[1] = q[1] BY <1>0, <1>2, <1>3, <3>1, <3>2 DEF OwnInv
    <3> QED BY <1>2, <1>3, <3>2, <3>3
  <2>3. CASE ~Foreign(p[1], p[2])
    <3>1. p[1] = q[1] BY <1>2, <1>3, <2>1, <2>3 DEF Has
    <3>2. KeepsOwn(bus, dev[p[1]], p[1]) BY <1>0, <1>2, <1>3 DEF OwnInv, Regular
    <3>3. Number(dev[p[1]], p[1], p[2]) = Number(dev[p[1]], p[1], q[2])
          /\ Number(dev[p[1]], p[1], p[2]) \notin {None, Absent}
      BY <1>2, <1>3, <2>1, <2>3, <3>1
    <3>4. p[2] = q[2] BY <1>2, <1>3, <3>2, <3>3 DEF KeepsOwn, Streams
    <3> QED BY <1>2, <1>3, <3>1, <3>4
  <2> QED BY <2>2, <2>3
<1>4. RunningOnOwnChannels
  <2>1. ASSUME phase = "running", ~snoop, NEW p \in Playing
        PROVE  LET x == dev[p[1]]
                   c == x.proc[p[2]]
                   foreign == Family[p[1]] = "rme800" /\ p[2] = "rx"
               IN  /\ c # None
                   /\ bus.irm[c] = (IF foreign THEN Own ELSE p[1])
                   /\ ~foreign => Registered(bus, c)
                   /\ Family[p[1]] \in Registers => x.reg[p[2]] = c
    BY <1>2, <2>1 DEF Foreign, Has
  <2> QED BY <1>3, <2>1 DEF RunningOnOwnChannels
<1> QED BY <1>1, <1>4 DEF ChannelsAreOwn

\* No device plays on a channel that is not its own, and none that never kept a stale number releases a
\* channel of another, whichever calls of the drivers fail, in every session on every list of devices:
\* what each start, stop, prepare and destructor leaves on the bus and in the object, composed by the
\* loops of DeviceManager.
THEOREM AlwaysChannelsAreOwn == StreamsSpec => []ChannelsAreOwn
<1>1. StreamsInit => StreamsInv BY StreamsStart
<1>2. StreamsInv /\ [StreamsNext]_streamVars => StreamsInv' BY StreamsStep
<1>3. StreamsInv => ChannelsAreOwn BY OwnChannels
<1> QED BY <1>1, <1>2, <1>3, PTL DEF StreamsSpec

-----------------------------------------------------------------------------
(***************************************************************************)
(* What a session leaves behind.                                           *)
(***************************************************************************)
\* Who has got a channel: nobody but d, and one of G.
Low == 0..(NrChannels - 2)
Gain(b, r, d, G) == \A c \in Channels : r.irm[c] \in Devices => r.irm[c] = b.irm[c] \/ (r.irm[c] = d /\ c \in G)
LEMMA LowChannels == Low \subseteq Channels /\ None \notin Low /\ Absent \notin Low /\ NrChannels - 1 \in Channels \ Low
BY StreamConstants DEF Low

LEMMA GainTake ==
  ASSUME NEW b, NEW r, NEW c, NEW d, NEW w, Takes(b, r, c, w), BusOK(b)
  PROVE  Gain(b, r, d, IF w = d THEN {c} ELSE {}) \/ w \in Devices \ {d}
<1>1. \A e \in Channels : r.irm[e] = IF e = c THEN w ELSE b.irm[e] BY DEF Takes, BusOK
<1> QED BY <1>1 DEF Gain

LEMMA GainGive ==
  ASSUME NEW b, NEW r, NEW c, NEW d, Gives(b, r, c), BusOK(b)
  PROVE  Gain(b, r, d, {}) /\ r.irm[c] = Nobody /\ c \in Low
<1>1. c \in Low /\ c \in Channels BY LowChannels DEF Gives, Registered, Low
<1>2. \A e \in Channels : r.irm[e] = IF e = c THEN Nobody ELSE b.irm[e] BY <1>1 DEF Gives, BusOK
<1> QED BY <1>1, <1>2, StreamConstants DEF Gain

LEMMA GainMore ==
  ASSUME NEW b, NEW r, NEW t, NEW d, NEW G, NEW H, Gain(b, r, d, G), Gain(r, t, d, H)
  PROVE  Gain(b, t, d, G \cup H)
BY DEF Gain

LEMMA GainFree ==
  ASSUME NEW b, NEW c, NEW d, BusOK(b)
  PROVE  Gain(b, freeIsoChannel(b, c).b, d, {})
<1>1. CASE ~Registered(b, c)
  <2>1. freeIsoChannel(b, c).b = b BY <1>1, Freeing
  <2> QED BY <2>1 DEF Gain
<1>2. CASE Registered(b, c) BY <1>2, Freeing, GainGive
<1> QED BY <1>1, <1>2

LEMMA GainReturned ==
  ASSUME NEW b, NEW a, NEW d \in Devices, BusOK(b), Gets(b, a, d)
  PROVE  Gain(b, freeIsoChannel(a.b, a.c).b, d, {})
<1>1. BusOK(a.b) /\ Takes(b, a.b, a.c, d) /\ Registered(a.b, a.c) BY TakeFacts DEF Gets
<1>2. PICK r : r = freeIsoChannel(a.b, a.c).b OBVIOUS
<1>3. Gives(a.b, r, a.c) BY <1>1, <1>2, Freeing
<1>4. Gain(b, a.b, d, {a.c}) BY <1>1, GainTake
<1>5. Gain(a.b, r, d, {}) /\ r.irm[a.c] = Nobody BY <1>1, <1>3, GainGive
<1>6. Gain(b, r, d, {}) BY <1>4, <1>5, StreamConstants DEF Gain
<1> QED BY <1>2, <1>6

-----------------------------------------------------------------------------
\* What an outcome leaves: on the bus nobody but d gets a channel, and the last one only in a
\* failure; and if the object had the numbers of all that d held it has them still.
Knows(b, x, d) == \A c \in Low : b.irm[c] = d => Numbered(x, d, c)
Tidy(o, d) ==
    \A c \in Channels : o.b.irm[c] \in Devices => o.b.irm[c] = bus.irm[c] \/ (o.b.irm[c] = d /\ (c \in Low \/ o.fault))
Tells(o, d) == Knows(bus, dev[d], d) => Knows(o.b, o.x, d)
NumbersKept(x, y, d) == \A k \in Streams : Number(x, d, k) \in {None, Absent, Number(y, d, k)}

LEMMA TidyQuiet == ASSUME NEW d, NEW o, Gain(bus, o.b, d, {}) PROVE Tidy(o, d)
BY DEF Tidy, Gain
LEMMA TellsQuiet ==
  ASSUME NEW d \in Devices, NEW o, Gain(bus, o.b, d, {}), NumbersKept(dev[d], o.x, d)
  PROVE  Tells(o, d)
<1> SUFFICES ASSUME Knows(bus, dev[d], d), NEW c \in Low, o.b.irm[c] = d PROVE Numbered(o.x, d, c) BY DEF Tells, Knows
<1>1. bus.irm[c] = d BY LowChannels DEF Gain
<1>2. PICK k \in Streams : c = Number(dev[d], d, k) BY <1>1 DEF Knows, Numbered
<1>3. c = Number(o.x, d, k) BY <1>2, LowChannels DEF NumbersKept
<1> QED BY <1>3 DEF Numbered
LEMMA TellsNew ==
  ASSUME NEW d \in Devices, NEW o, NEW a, BusOK(bus), Gets(bus, a, d), o.b = a.b
  PROVE  /\ Tidy(o, d)
         /\ NumbersKept(dev[d], o.x, d) /\ Numbered(o.x, d, a.c) => Tells(o, d)
<1>1. Gain(bus, o.b, d, {a.c}) /\ a.c \in Low BY GainTake DEF Gets, Low
<1>2. Tidy(o, d) BY <1>1 DEF Tidy, Gain
<1>3. ASSUME NumbersKept(dev[d], o.x, d), Numbered(o.x, d, a.c), Knows(bus, dev[d], d), NEW c \in Low, o.b.irm[c] = d
      PROVE  Numbered(o.x, d, c)
  <2>1. CASE c = a.c BY <1>3, <2>1
  <2>2. CASE c # a.c
    <3>1. bus.irm[c] = d BY <1>1, <1>3, <2>2, LowChannels DEF Gain
    <3>2. PICK k \in Streams : c = Number(dev[d], d, k) BY <1>3, <3>1 DEF Knows, Numbered
    <3>3. c = Number(o.x, d, k) BY <1>3, <3>2, LowChannels DEF NumbersKept
    <3> QED BY <3>3 DEF Numbered
  <2> QED BY <2>1, <2>2
<1> QED BY <1>2, <1>3 DEF Tells, Knows
LEMMA TellsRelease ==
  ASSUME NEW d \in Devices, NEW o, NEW n, BusOK(bus), o.b = freeIsoChannel(bus, n).b,
         \A k \in Streams : \/ Number(dev[d], d, k) \in {None, Absent, Number(o.x, d, k)}
                            \/ Number(dev[d], d, k) = n /\ Registered(bus, n)
  PROVE  Tidy(o, d) /\ Tells(o, d)
<1>1. Gain(bus, o.b, d, {}) BY GainFree
<1>2. Registered(bus, n) => o.b.irm[n] = Nobody BY Freeing, GainGive
<1>3. ASSUME Knows(bus, dev[d], d), NEW c \in Low, o.b.irm[c] = d PROVE Numbered(o.x, d, c)
  <2>1. bus.irm[c] = d BY <1>1, <1>3, LowChannels DEF Gain
  <2>2. PICK k \in Streams : c = Number(dev[d], d, k) BY <1>3, <2>1 DEF Knows, Numbered
  <2>3. ~(c = n /\ Registered(bus, n)) BY <1>2, <1>3, StreamConstants
  <2>4. c = Number(o.x, d, k) BY <2>2, <2>3, LowChannels
  <2> QED BY <2>4 DEF Numbered
<1> QED BY <1>1, <1>3, TidyQuiet DEF Tells, Knows

-----------------------------------------------------------------------------
\* What the start and the stop of a stream leave, where streams take channels as they start.
Taking == {"avc", "dice", "bounce"}
Agreed(x, d) ==
    \A k \in Streams : Family[d] = "bounce" \/ (Family[d] = "dice" /\ ~snoop) => x.proc[k] \in {None, Absent, x.reg[RegOf(k)]}
OwnerSame(o, d) == o.x.owner = dev[d].owner /\ o.x.notifier = dev[d].notifier
OthersSame(o, d, k) == \A j \in Streams \ {k} : o.x.proc[j] = dev[d].proc[j]
StartLeaves(o, d, k) ==
    /\ Tidy(o, d) /\ OwnerSame(o, d)
    /\ ~o.odd /\ (Family[d] \in Taking => dev[d].proc[k] \in {None, Absent}) => Tells(o, d)
    /\ Family[d] \in Taking => OthersSame(o, d, k) /\ (~o.ok => o.x.proc[k] \in {None, dev[d].proc[k]})
    /\ ~o.odd /\ Agreed(dev[d], d) => Agreed(o.x, d)
StopLeaves(o, d, k) ==
    /\ Tidy(o, d) /\ OwnerSame(o, d) /\ Tells(o, d)
    /\ Family[d] \in Taking => OthersSame(o, d, k) /\ o.x.proc[k] \in {None, dev[d].proc[k]}
    /\ Family[d] \in Taking /\ d \notin odd /\ (o.ok \/ (~o.fault /\ Agreed(dev[d], d))) => o.x.proc[k] = None
    /\ d \notin odd /\ ~o.odd /\ Agreed(dev[d], d) /\ (k = "tx" => dev[d].proc["rx"] \in {None, Absent}) => Agreed(o.x, d)

LEMMA TakingIs == Taking \cap Renting = {} /\ Taking \subseteq Vectors /\ "slave" \notin Taking
BY DEF Taking, Renting, Vectors, Registers
LEMMA GainSelf == ASSUME NEW b, NEW d PROVE Gain(b, b, d, {})
BY DEF Gain

\* The numbers of an object whose streams but k are as they were.
LEMMA NumbersOfOthers ==
  ASSUME NEW d, Family[d] \in Taking, NEW k \in Streams, NEW x, NEW y,
         \A j \in Streams \ {k} : y.proc[j] = x.proc[j], x.proc[k] \in {None, Absent, y.proc[k]}
  PROVE  NumbersKept(x, y, d)
BY TakingIs DEF NumbersKept, Number

\* Nobody gets a channel, and at most a stream that had none, or gave its own back, falls silent.
LEMMA StartNothing ==
  ASSUME NEW d \in Devices, Family[d] \in Taking, NEW k \in Streams, NEW o, Gain(bus, o.b, d, {}), NumbersOK(dev[d]),
         o.x = dev[d] \/ o.x = [dev[d] EXCEPT !.proc[k] = None]
  PROVE  StartLeaves(o, d, k)
<1>1. /\ o.x.owner = dev[d].owner /\ o.x.notifier = dev[d].notifier /\ o.x.reg = dev[d].reg
      /\ o.x.proc = dev[d].proc \/ o.x.proc = [dev[d].proc EXCEPT ![k] = None]
  BY DEF NumbersOK
<1>2. OthersSame(o, d, k) /\ o.x.proc[k] \in {None, dev[d].proc[k]} BY <1>1 DEF OthersSame, NumbersOK
<1>3. ASSUME dev[d].proc[k] \in {None, Absent} PROVE Tells(o, d)
  <2>1. NumbersKept(dev[d], o.x, d) BY <1>2, <1>3, NumbersOfOthers DEF OthersSame
  <2> QED BY <2>1, TellsQuiet
<1>4. Agreed(dev[d], d) => Agreed(o.x, d) BY <1>1, <1>2 DEF Agreed, OthersSame
<1> QED BY <1>1, <1>2, <1>3, <1>4, TidyQuiet DEF StartLeaves, OwnerSame

\* A stream gets a channel.
LEMMA StartGets ==
  ASSUME NEW d \in Devices, Family[d] \in Taking, ~snoop \/ Family[d] = "bounce", NEW k \in Streams, NEW o, NEW a,
         BusOK(bus), Gets(bus, a, d), o.b = a.b, o.ok, OwnerSame(o, d), OthersSame(o, d, k), o.x.proc[k] = a.c,
         Agreed(dev[d], d) => Agreed(o.x, d)
  PROVE  StartLeaves(o, d, k)
<1>1. Number(o.x, d, k) = a.c BY TakingIs DEF Number, Taking
<1>2. Numbered(o.x, d, a.c) BY <1>1 DEF Numbered
<1>3. dev[d].proc[k] \in {None, Absent} => NumbersKept(dev[d], o.x, d) BY NumbersOfOthers DEF OthersSame
<1> QED BY <1>2, <1>3, TellsNew DEF StartLeaves

LEMMA StartAvcLeaves ==
  ASSUME OwnInv, NEW d \in Devices, Family[d] = "avc", NEW k \in Streams, NEW o \in start_avc(d, k)
  PROVE  StartLeaves(o, d, k)
<1> DEFINE x == dev[d]
<1>0. NumbersOK(x) /\ BusOK(bus) /\ Family[d] \in Taking BY DeviceOK DEF OwnInv, Taking
<1>1. CASE snoop
  <2>1. CASE o = Failing(Outcome(x, bus, FALSE))
    <3>1. o.x = x /\ o.b = bus BY <2>1 DEF Failing, Outcome
    <3> QED BY <1>0, <3>1, StartNothing, GainSelf
  <2>2. ASSUME NEW c \in Channels, o = Outcome([x EXCEPT !.proc[k] = c], bus, TRUE) PROVE StartLeaves(o, d, k)
    <3> DEFINE y == [x EXCEPT !.proc[k] = c]
    <3>1. y.proc = [x.proc EXCEPT ![k] = c] /\ y.owner = x.owner /\ y.notifier = x.notifier BY <1>0 DEF NumbersOK
    <3> HIDE DEF y
    <3>2. o.x = y /\ o.b = bus /\ o.ok BY <2>2 DEF Outcome, y
    <3>3. OthersSame(o, d, k) BY <1>0, <3>1, <3>2 DEF OthersSame, NumbersOK
    <3>4. NumbersKept(x, y, d) BY <1>0, <1>1, TakingIs DEF NumbersKept, Number
    <3>5. Tells(o, d) /\ Tidy(o, d) BY <3>2, <3>4, TellsQuiet, TidyQuiet, GainSelf
    <3>6. Agreed(o.x, d) BY DEF Agreed
    <3> QED BY <3>1, <3>2, <3>3, <3>5, <3>6 DEF StartLeaves, OwnerSame
  <2> QED BY <1>1, <2>1, <2>2 DEF start_avc
<1>2. CASE ~snoop
  <2>1. PICK a \in allocateIsoChannelCMP(bus, d) :
            o = IF a.c = None THEN [Outcome(x, a.b, FALSE) EXCEPT !.fault = a.b # bus \/ bus.units > 0]
                ELSE Outcome([x EXCEPT !.proc[k] = a.c, !.on[k] = TRUE], a.b, TRUE)
    BY <1>2 DEF start_avc
  <2>2. \/ a.c = None /\ (a.b = bus \/ Takes(bus, a.b, NrChannels - 1, d))
        \/ Gets(bus, a, d)
    BY <1>0, ConnectionAllocation
  <2>3. CASE a.c = None /\ a.b = bus
    <3>1. o.x = x /\ o.b = bus BY <2>1, <2>3 DEF Outcome
    <3> QED BY <1>0, <3>1, StartNothing, GainSelf
  <2>4. CASE a.c = None /\ Takes(bus, a.b, NrChannels - 1, d)
    <3>1. a.b # bus
      <4>1. a.b.irm[NrChannels - 1] = d BY <1>0, <2>4, TakeFacts
      <4>2. bus.irm[NrChannels - 1] = Nobody BY <2>4 DEF Takes
      <4> QED BY <4>1, <4>2, StreamConstants
    <3>2. o.x = x /\ o.b = a.b /\ o.fault /\ o.ok = FALSE BY <2>1, <2>4, <3>1 DEF Outcome
    <3>3. Gain(bus, o.b, d, {NrChannels - 1}) BY <1>0, <2>4, <3>2, GainTake
    <3>4. Tidy(o, d) BY <3>2, <3>3 DEF Tidy, Gain
    <3>5. \A c \in Low : o.b.irm[c] = d => bus.irm[c] = d BY <3>3, LowChannels DEF Gain
    <3>6. Tells(o, d) BY <3>2, <3>5 DEF Tells, Knows
    <3> QED BY <3>2, <3>4, <3>6 DEF StartLeaves, OwnerSame, OthersSame
  <2>5. CASE Gets(bus, a, d)
    <3>1. a.c # None BY <2>5, StreamConstants DEF Gets
    <3> DEFINE y == [x EXCEPT !.proc[k] = a.c, !.on[k] = TRUE]
    <3>2. y.proc = [x.proc EXCEPT ![k] = a.c] /\ y.owner = x.owner /\ y.notifier = x.notifier BY <1>0 DEF NumbersOK
    <3>3. o = Outcome(y, a.b, TRUE) BY <2>1, <3>1
    <3> HIDE DEF y
    <3>4. o.x = y /\ o.b = a.b /\ o.ok BY <3>3 DEF Outcome
    <3>5. OthersSame(o, d, k) /\ o.x.proc[k] = a.c /\ OwnerSame(o, d) BY <1>0, <3>2, <3>4 DEF OthersSame, NumbersOK, OwnerSame
    <3>6. Agreed(o.x, d) BY DEF Agreed
    <3> QED BY <1>0, <1>2, <2>5, <3>4, <3>5, <3>6, StartGets
  <2> QED BY <2>2, <2>3, <2>4, <2>5
<1> QED BY <1>1, <1>2

LEMMA StartDiceLeaves ==
  ASSUME OwnInv, NEW d \in Devices, Family[d] = "dice", NEW k \in Streams, NEW o \in start_dice(d, k)
  PROVE  StartLeaves(o, d, k)
<1> DEFINE x == dev[d]
           a == allocateIsoChannelGeneric(bus, d)
           kept == x.reg[k]
           use == IF kept = None THEN a.c ELSE kept
           back == freeIsoChannel(a.b, a.c).b
           held == IF kept = None THEN a.b ELSE back
           quiet == [x EXCEPT !.proc[k] = None]
           lost == freeIsoChannel(held, use)
           playing == [x EXCEPT !.proc[k] = use, !.reg[k] = use, !.on[k] = TRUE]
<1>0. NumbersOK(x) /\ BusOK(bus) /\ Family[d] \in Taking BY DeviceOK DEF OwnInv, Taking
<1>1. CASE snoop
  <2>1. CASE o = Failing(Outcome(quiet, bus, FALSE))
    <3> HIDE DEF quiet
    <3>1. o.x = quiet /\ o.b = bus BY <2>1 DEF Outcome, Failing
    <3> QED BY <1>0, <3>1, StartNothing, GainSelf DEF quiet
  <2>2. CASE o = Outcome([x EXCEPT !.proc[k] = x.reg[k]], bus, TRUE)
    <3> DEFINE y == [x EXCEPT !.proc[k] = x.reg[k]]
    <3>1. y.proc = [x.proc EXCEPT ![k] = x.reg[k]] /\ y.owner = x.owner /\ y.notifier = x.notifier BY <1>0 DEF NumbersOK
    <3> HIDE DEF y
    <3>2. o.x = y /\ o.b = bus /\ o.ok BY <2>2 DEF Outcome, y
    <3>3. OthersSame(o, d, k) BY <1>0, <3>1, <3>2 DEF OthersSame, NumbersOK
    <3>4. NumbersKept(x, y, d) BY <1>0, <1>1, TakingIs DEF NumbersKept, Number
    <3>5. Tells(o, d) /\ Tidy(o, d) BY <3>2, <3>4, TellsQuiet, TidyQuiet, GainSelf
    <3>6. Agreed(o.x, d) BY <1>1 DEF Agreed
    <3> QED BY <3>1, <3>2, <3>3, <3>5, <3>6 DEF StartLeaves, OwnerSame
  <2> QED BY <1>1, <2>1, <2>2 DEF start_dice
<1>2. (a.c = None /\ a.b = bus) \/ Gets(bus, a, d) BY <1>0, GenericAllocation
<1> HIDE DEF a
<1>3. CASE ~snoop /\ a.c = None
  <2>1. o = Outcome(x, a.b, FALSE) BY <1>3 DEF start_dice, a
  <2>2. o.x = x /\ o.b = a.b BY <2>1 DEF Outcome
  <2>3. a.b = bus BY <1>2, <1>3, StreamConstants DEF Gets
  <2> QED BY <1>0, <2>2, <2>3, StartNothing, GainSelf
<1>4. CASE ~snoop /\ a.c # None
  <2>1. Gets(bus, a, d) BY <1>2, <1>4
  <2>2. Gain(bus, back, d, {}) /\ BusOK(back) BY <1>0, <2>1, GainReturned, Returned
  <2>3. \/ o = [Outcome(playing, held, TRUE) EXCEPT !.odd = kept # None]
        \/ o = Failing(Outcome(quiet, back, FALSE))
        \/ o = [Failing(Outcome(quiet, lost.b, FALSE)) EXCEPT !.rob = Victims(held, use, d), !.odd = kept # None]
    BY <1>4 DEF start_dice, a
  <2>0. back = freeIsoChannel(a.b, a.c).b OBVIOUS
  <2> HIDE DEF back
  <2>4. CASE o = Failing(Outcome(quiet, back, FALSE))
    <3> HIDE DEF quiet
    <3>1. o.x = quiet /\ o.b = back BY <2>4 DEF Outcome, Failing
    <3> QED BY <1>0, <2>2, <3>1, StartNothing DEF quiet
  <2>5. CASE o = [Failing(Outcome(quiet, lost.b, FALSE)) EXCEPT !.rob = Victims(held, use, d), !.odd = kept # None]
    <3>1. Gain(bus, lost.b, d, {})
      <4>1. CASE kept = None BY <2>0, <2>2, <4>1
      <4>2. CASE kept # None
        <5>1. Gain(back, lost.b, d, {}) BY <2>2, <4>2, GainFree
        <5> QED BY <2>2, <5>1 DEF Gain
      <4> QED BY <4>1, <4>2
    <3> HIDE DEF quiet, lost, held, use
    <3>2. o.x = quiet /\ o.b = lost.b BY <2>5 DEF Outcome, Failing
    <3> QED BY <1>0, <3>1, <3>2, StartNothing DEF quiet
  <2>6. CASE o = [Outcome(playing, held, TRUE) EXCEPT !.odd = kept # None]
    <3>1. /\ playing.proc = [x.proc EXCEPT ![k] = use] /\ playing.reg = [x.reg EXCEPT ![k] = use]
          /\ playing.owner = x.owner /\ playing.notifier = x.notifier
      <4> HIDE DEF use
      <4> QED BY <1>0 DEF NumbersOK
    <3> HIDE DEF playing, held, use
    <3>2. o.x = playing /\ o.b = held /\ o.ok /\ (o.odd <=> kept # None) BY <2>6 DEF Outcome
    <3>3. OthersSame(o, d, k) /\ o.x.proc[k] = use /\ OwnerSame(o, d) BY <1>0, <3>1, <3>2 DEF OthersSame, NumbersOK, OwnerSame
    <3>4. ASSUME Agreed(x, d) PROVE Agreed(o.x, d)
      <4>1. \A j \in Streams : RegOf(j) = j BY <1>4 DEF RegOf
      <4>2. \A j \in Streams : o.x.reg[j] = IF j = k THEN use ELSE x.reg[j] BY <1>0, <3>1, <3>2 DEF NumbersOK
      <4> QED BY <3>3, <3>4, <4>1, <4>2 DEF Agreed, OthersSame
    <3>5. CASE kept = None
      <4>1. o.b = a.b /\ use = a.c BY <3>2, <3>5 DEF held, use
      <4> QED BY <1>0, <1>4, <2>1, <3>2, <3>3, <3>4, <4>1, StartGets
    <3>6. CASE kept # None
      <4>1. o.b = back BY <3>2, <3>6 DEF held
      <4>2. Tidy(o, d) BY <2>2, <4>1, TidyQuiet
      <4> QED BY <3>2, <3>3, <3>6, <4>2 DEF StartLeaves
    <3> QED BY <3>5, <3>6
  <2> QED BY <2>3, <2>4, <2>5, <2>6
<1> QED BY <1>1, <1>3, <1>4

LEMMA StartBounceLeaves ==
  ASSUME OwnInv, NEW d \in Devices, Family[d] = "bounce", NEW k \in Streams, NEW o \in start_bounce(d, k)
  PROVE  StartLeaves(o, d, k)
<1> DEFINE x == dev[d]
           a == allocateIsoChannelGeneric(bus, d)
           quiet == [x EXCEPT !.proc[k] = None]
           back == freeIsoChannel(a.b, a.c).b
           playing == [x EXCEPT !.proc[k] = a.c, !.reg[RegOf(k)] = a.c, !.on[k] = TRUE]
<1>0. NumbersOK(x) /\ BusOK(bus) /\ Family[d] \in Taking /\ \A j \in Streams : RegOf(j) \in Streams
  BY DeviceOK DEF OwnInv, Taking, RegOf, Streams
<1>1. (a.c = None /\ a.b = bus) \/ Gets(bus, a, d) BY <1>0, GenericAllocation
<1> HIDE DEF a
<1>2. CASE a.c = None
  <2>1. o = Outcome(x, a.b, FALSE) BY <1>2 DEF start_bounce, a
  <2>2. o.x = x /\ o.b = a.b BY <2>1 DEF Outcome
  <2>3. a.b = bus BY <1>1, <1>2, StreamConstants DEF Gets
  <2> QED BY <1>0, <2>2, <2>3, StartNothing, GainSelf
<1>3. CASE a.c # None
  <2>1. Gets(bus, a, d) BY <1>1, <1>3
  <2>2. Gain(bus, back, d, {}) BY <1>0, <2>1, GainReturned
  <2>3. o = Failing(Outcome(quiet, back, FALSE)) \/ o = Outcome(quiet, back, FALSE)
        \/ (x.reg[RegOf(k)] = None /\ o = Outcome(playing, a.b, TRUE))
    BY <1>3 DEF start_bounce, a
  <2> HIDE DEF back
  <2>4. CASE o = Failing(Outcome(quiet, back, FALSE)) \/ o = Outcome(quiet, back, FALSE)
    <3> HIDE DEF quiet
    <3>1. o.x = quiet /\ o.b = back BY <2>4 DEF Outcome, Failing
    <3> QED BY <1>0, <2>2, <3>1, StartNothing DEF quiet
  <2>5. CASE x.reg[RegOf(k)] = None /\ o = Outcome(playing, a.b, TRUE)
    <3>1. /\ playing.proc = [x.proc EXCEPT ![k] = a.c] /\ playing.reg = [x.reg EXCEPT ![RegOf(k)] = a.c]
          /\ playing.owner = x.owner /\ playing.notifier = x.notifier
      BY <1>0 DEF NumbersOK
    <3> HIDE DEF playing
    <3>2. o.x = playing /\ o.b = a.b /\ o.ok BY <2>5 DEF Outcome
    <3>3. OthersSame(o, d, k) /\ o.x.proc[k] = a.c /\ OwnerSame(o, d) BY <1>0, <3>1, <3>2 DEF OthersSame, NumbersOK, OwnerSame
    <3>4. ASSUME Agreed(x, d) PROVE Agreed(o.x, d)
      <4>1. \A j \in Streams : o.x.reg[RegOf(j)] = IF RegOf(j) = RegOf(k) THEN a.c ELSE x.reg[RegOf(j)]
        BY <1>0, <3>1, <3>2 DEF NumbersOK
      <4>2. \A j \in Streams \ {k} : o.x.proc[j] \in {None, Absent, o.x.reg[RegOf(j)]}
        BY <2>5, <3>3, <3>4, <4>1 DEF Agreed, OthersSame
      <4> QED BY <3>3, <4>1, <4>2 DEF Agreed
    <3> QED BY <1>0, <2>1, <3>2, <3>3, <3>4, StartGets
  <2> QED BY <2>3, <2>4, <2>5
<1> QED BY <1>2, <1>3

\* A stop that leaves the bus alone; the stream, if it falls silent, had no number.
LEMMA StopNothing ==
  ASSUME NEW d \in Devices, Family[d] \in Taking, NEW k \in Streams, NEW o, o.b = bus, NumbersOK(dev[d]),
         \/ o.x = dev[d]
         \/ Number(dev[d], d, k) = None /\ o.x.proc = [dev[d].proc EXCEPT ![k] = None] /\ OwnerSame(o, d)
               /\ (Family[d] = "avc" \/ (Family[d] = "dice" /\ snoop)),
         o.ok \/ (~o.fault /\ Agreed(dev[d], d)) => o.x.proc[k] = None
  PROVE  StopLeaves(o, d, k)
<1>1. OwnerSame(o, d) BY DEF OwnerSame
<1>2. OthersSame(o, d, k) /\ o.x.proc[k] \in {None, dev[d].proc[k]} BY DEF OthersSame, NumbersOK
<1>3. NumbersKept(dev[d], o.x, d)
  <2>1. CASE o.x = dev[d] BY <2>1 DEF NumbersKept
  <2>2. CASE Number(dev[d], d, k) = None
    <3>1. \A j \in Streams \ {k} : Number(o.x, d, j) = Number(dev[d], d, j) BY <1>2, TakingIs DEF Number, OthersSame
    <3> QED BY <2>2, <3>1 DEF NumbersKept
  <2> QED BY <2>1, <2>2
<1>4. Tidy(o, d) /\ Tells(o, d) BY <1>3, TidyQuiet, TellsQuiet, GainSelf
<1>5. Agreed(dev[d], d) => Agreed(o.x, d) BY DEF Agreed
<1> QED BY <1>1, <1>2, <1>4, <1>5 DEF StopLeaves

\* The channel of the stream is given back, if the service has it on its books.
LEMMA StopGives ==
  ASSUME OwnInv, NEW d \in Devices, Family[d] \in Taking, NEW k \in Streams, dev[d].proc[k] # Absent,
         ~snoop \/ Family[d] = "bounce", NEW o, OwnerSame(o, d), OthersSame(o, d, k),
         LET f == freeIsoChannel(bus, dev[d].proc[k])
         IN  o.b = f.b /\ o.ok = f.ok /\ o.x.proc[k] = (IF f.ok THEN None ELSE dev[d].proc[k]),
         d \notin odd /\ ~o.odd /\ Agreed(dev[d], d) /\ (k = "tx" => dev[d].proc["rx"] \in {None, Absent})
            /\ o.x.proc[k] = None => Agreed(o.x, d)
  PROVE  StopLeaves(o, d, k)
<1> DEFINE c == dev[d].proc[k]
           f == freeIsoChannel(bus, c)
<1>0. BusOK(bus) BY DEF OwnInv
<1>1. \A x, j : Number(x, d, j) = x.proc[j] BY TakingIs DEF Number, Taking
<1>2. (~Registered(bus, c) /\ f.b = bus /\ f.ok = FALSE) \/ (Registered(bus, c) /\ f.ok = TRUE) BY <1>0, Freeing
<1> HIDE DEF f
<1>3. o.b = f.b /\ o.ok = f.ok /\ o.x.proc[k] = (IF f.ok THEN None ELSE c) BY DEF f
<1>4. \A j \in Streams : \/ Number(dev[d], d, j) \in {None, Absent, Number(o.x, d, j)}
                         \/ Number(dev[d], d, j) = c /\ Registered(bus, c)
  BY <1>1, <1>2, <1>3 DEF OthersSame
<1>5. Tidy(o, d) /\ Tells(o, d) BY <1>0, <1>3, <1>4, TellsRelease DEF f
<1>6. d \notin odd => o.x.proc[k] = None
  <2>1. d \notin odd => KeepsOwn(bus, dev[d], d) BY DEF OwnInv
  <2>2. d \notin odd /\ c # None => Registered(bus, c) BY <1>1, <2>1 DEF KeepsOwn, Has
  <2> QED BY <1>2, <1>3, <2>2
<1>7. o.x.proc[k] \in {None, c} BY <1>3
<1> QED BY <1>5, <1>6, <1>7 DEF StopLeaves

LEMMA StopAvcLeaves ==
  ASSUME OwnInv, NEW d \in Devices, Family[d] = "avc", NEW k \in Streams, dev[d].proc[k] # Absent, NEW o \in stop_avc(d, k)
  PROVE  StopLeaves(o, d, k)
<1> DEFINE x == dev[d]
           c == x.proc[k]
           f == freeIsoChannel(bus, c)
           off == [x EXCEPT !.proc[k] = None, !.on[k] = FALSE]
<1>0. NumbersOK(x) /\ Family[d] \in Taking BY DeviceOK DEF Taking
<1>1. off.proc = [x.proc EXCEPT ![k] = None] /\ off.owner = x.owner /\ off.notifier = x.notifier BY <1>0 DEF NumbersOK
<1>2. off.proc[k] = None /\ \A j \in Streams : j # k => off.proc[j] = x.proc[j] BY <1>0, <1>1 DEF NumbersOK
<1> HIDE DEF off, f
<1>3. CASE c = None /\ ~snoop
  <2>1. o = Outcome(x, bus, TRUE) BY <1>3 DEF stop_avc
  <2>2. o.x = x /\ o.b = bus BY <2>1 DEF Outcome
  <2> QED BY <1>0, <1>3, <2>2, StopNothing
<1>4. CASE snoop
  <2>1. (c = None /\ o = Outcome(x, bus, TRUE)) \/ o = Outcome(off, bus, TRUE) BY <1>4 DEF stop_avc, off
  <2>2. ((c = None /\ o.x = x) \/ o.x = off) /\ o.b = bus BY <2>1 DEF Outcome
  <2>3. Number(x, d, k) = None BY <1>0, <1>4, TakingIs DEF Number
  <2>4. OwnerSame(o, d) BY <1>1, <2>2 DEF OwnerSame
  <2> QED BY <1>0, <1>1, <1>2, <2>2, <2>3, <2>4, StopNothing
<1>5. CASE c # None /\ ~snoop
  <2>1. o = [Outcome(IF f.ok THEN off ELSE x, f.b, f.ok) EXCEPT !.rob = Victims(bus, c, d)]
    BY <1>5 DEF stop_avc, off, f
  <2>2. o.x = (IF f.ok THEN off ELSE x) /\ o.b = f.b /\ o.ok = f.ok BY <2>1 DEF Outcome
  <2>3. OwnerSame(o, d) /\ OthersSame(o, d, k) /\ o.x.proc[k] = (IF f.ok THEN None ELSE c)
    BY <1>1, <1>2, <2>2 DEF OwnerSame, OthersSame
  <2>4. Agreed(o.x, d) BY DEF Agreed
  <2> QED BY <1>0, <1>5, <2>2, <2>3, <2>4, StopGives DEF f
<1> QED BY <1>3, <1>4, <1>5

LEMMA StopDiceLeaves ==
  ASSUME OwnInv, NEW d \in Devices, Family[d] = "dice", NEW k \in Streams, dev[d].proc[k] # Absent, NEW o \in stop_dice(d, k)
  PROVE  StopLeaves(o, d, k)
<1> DEFINE x == dev[d]
           c == x.proc[k]
           cleared == [x EXCEPT !.reg["rx"] = None, !.on["rx"] = FALSE]
           f == freeIsoChannel(bus, c)
           quiet == [x EXCEPT !.proc[k] = None]
           y == IF f.ok THEN [cleared EXCEPT !.proc[k] = None] ELSE cleared
<1>0. NumbersOK(x) /\ Family[d] \in Taking BY DeviceOK DEF Taking
<1>1. CASE snoop
  <2>1. o = Outcome(quiet, bus, TRUE) BY <1>1 DEF stop_dice
  <2>2. quiet.proc = [x.proc EXCEPT ![k] = None] /\ quiet.owner = x.owner /\ quiet.notifier = x.notifier BY <1>0 DEF NumbersOK
  <2> HIDE DEF quiet
  <2>3. o.x = quiet /\ o.b = bus BY <2>1 DEF Outcome
  <2>4. Number(x, d, k) = None BY <1>0, <1>1, TakingIs DEF Number
  <2>5. OwnerSame(o, d) /\ o.x.proc[k] = None BY <1>0, <2>2, <2>3 DEF OwnerSame, NumbersOK
  <2> QED BY <1>0, <1>1, <2>2, <2>3, <2>4, <2>5, StopNothing
<1>2. CASE ~snoop /\ o = Failing(Outcome(x, bus, FALSE))
  <2>1. o.x = x /\ o.b = bus /\ o.fault /\ o.ok = FALSE BY <1>2 DEF Outcome, Failing
  <2> QED BY <1>0, <2>1, StopNothing
<1>3. CASE ~snoop /\ x.reg[k] # c /\ o = Outcome(x, bus, FALSE)
  <2>1. o.x = x /\ o.b = bus /\ o.ok = FALSE BY <1>3 DEF Outcome
  <2>2. Agreed(x, d) => c = None BY <1>3 DEF Agreed, RegOf
  <2> QED BY <1>0, <2>1, <2>2, StopNothing
<1>4. CASE ~snoop /\ o = [Outcome(y, f.b, f.ok) EXCEPT !.rob = Victims(bus, c, d), !.odd = cleared.reg[k] # None]
  <2>1. /\ cleared.proc = x.proc /\ cleared.reg = [x.reg EXCEPT !["rx"] = None] /\ cleared.owner = x.owner
        /\ cleared.notifier = x.notifier /\ "proc" \in DOMAIN cleared
    BY <1>0 DEF NumbersOK
  <2> HIDE DEF cleared
  <2>2. /\ y.proc = (IF f.ok THEN [x.proc EXCEPT ![k] = None] ELSE x.proc) /\ y.reg = cleared.reg
        /\ y.owner = x.owner /\ y.notifier = x.notifier
    BY <2>1
  <2> HIDE DEF y, f
  <2>3. o.x = y /\ o.b = f.b /\ o.ok = f.ok /\ (o.odd <=> cleared.reg[k] # None) BY <1>4 DEF Outcome
  <2>4. OwnerSame(o, d) /\ OthersSame(o, d, k) /\ o.x.proc[k] = (IF f.ok THEN None ELSE c)
    BY <1>0, <2>2, <2>3 DEF OwnerSame, OthersSame, NumbersOK
  <2>5. ASSUME Agreed(x, d), k = "tx" => x.proc["rx"] \in {None, Absent}, o.x.proc[k] = None PROVE Agreed(o.x, d)
    <3>1. \A j \in Streams : RegOf(j) = j BY <1>4 DEF RegOf
    <3>2. \A j \in Streams : o.x.reg[j] = IF j = "rx" THEN None ELSE x.reg[j] BY <1>0, <2>1, <2>2, <2>3 DEF NumbersOK
    <3>3. ASSUME NEW j \in Streams PROVE o.x.proc[j] \in {None, Absent, o.x.reg[j]}
      <4>1. CASE j = k BY <2>5, <4>1
      <4>2. CASE j # k /\ k = "tx" BY <2>4, <2>5, <4>2 DEF OthersSame, Streams
      <4>3. CASE j # k /\ k = "rx"
        <5>1. o.x.proc[j] = x.proc[j] /\ o.x.reg[j] = x.reg[j] BY <2>4, <3>2, <4>3 DEF OthersSame
        <5> QED BY <1>4, <2>5, <3>1, <5>1 DEF Agreed
      <4> QED BY <4>1, <4>2, <4>3 DEF Streams
    <3> QED BY <3>1, <3>3 DEF Agreed
  <2> QED BY <1>0, <1>4, <2>3, <2>4, <2>5, StopGives DEF f
<1>5. \/ snoop
      \/ ~snoop /\ o = Failing(Outcome(x, bus, FALSE))
      \/ ~snoop /\ x.reg[k] # c /\ o = Outcome(x, bus, FALSE)
      \/ ~snoop /\ o = [Outcome(y, f.b, f.ok) EXCEPT !.rob = Victims(bus, c, d), !.odd = cleared.reg[k] # None]
  BY DEF stop_dice
<1> QED BY <1>1, <1>2, <1>3, <1>4, <1>5

LEMMA StopBounceLeaves ==
  ASSUME OwnInv, NEW d \in Devices, Family[d] = "bounce", NEW k \in Streams, dev[d].proc[k] # Absent, NEW o \in stop_bounce(d, k)
  PROVE  StopLeaves(o, d, k)
<1> DEFINE x == dev[d]
           c == x.proc[k]
           f == freeIsoChannel(bus, c)
           cleared == [x EXCEPT !.reg[RegOf(k)] = None, !.on[k] = FALSE]
           y == IF f.ok THEN [cleared EXCEPT !.proc[k] = None] ELSE cleared
<1>0. NumbersOK(x) /\ Family[d] \in Taking /\ \A j \in Streams : RegOf(j) \in Streams
  BY DeviceOK DEF Taking, RegOf, Streams
<1>1. CASE o = Failing(Outcome(x, bus, FALSE))
  <2>1. o.x = x /\ o.b = bus /\ o.fault /\ o.ok = FALSE BY <1>1 DEF Outcome, Failing
  <2> QED BY <1>0, <2>1, StopNothing
<1>2. CASE x.reg[RegOf(k)] # c /\ o = Outcome(x, bus, FALSE)
  <2>1. o.x = x /\ o.b = bus /\ o.ok = FALSE BY <1>2 DEF Outcome
  <2>2. Agreed(x, d) => c = None BY <1>2 DEF Agreed
  <2> QED BY <1>0, <2>1, <2>2, StopNothing
<1>3. CASE x.reg[RegOf(k)] = c /\ o = [Outcome(y, f.b, f.ok) EXCEPT !.rob = Victims(bus, c, d)]
  <2>1. /\ cleared.proc = x.proc /\ cleared.reg = [x.reg EXCEPT ![RegOf(k)] = None] /\ cleared.owner = x.owner
        /\ cleared.notifier = x.notifier /\ "proc" \in DOMAIN cleared
    BY <1>0 DEF NumbersOK
  <2> HIDE DEF cleared
  <2>2. /\ y.proc = (IF f.ok THEN [x.proc EXCEPT ![k] = None] ELSE x.proc) /\ y.reg = cleared.reg
        /\ y.owner = x.owner /\ y.notifier = x.notifier
    BY <2>1
  <2> HIDE DEF y, f
  <2>3. o.x = y /\ o.b = f.b /\ o.ok = f.ok BY <1>3 DEF Outcome
  <2>4. OwnerSame(o, d) /\ OthersSame(o, d, k) /\ o.x.proc[k] = (IF f.ok THEN None ELSE c)
    BY <1>0, <2>2, <2>3 DEF OwnerSame, OthersSame, NumbersOK
  <2>5. ASSUME d \notin odd, Agreed(x, d), o.x.proc[k] = None PROVE Agreed(o.x, d)
    <3>1. KeepsOwn(bus, x, d) BY <2>5 DEF OwnInv
    <3>2. \A j \in Streams : Number(x, d, j) = x.proc[j] BY <1>0, TakingIs DEF Number
    <3>3. \A j \in Streams \ {k} : x.proc[j] = c => x.proc[j] \in {None, Absent}
      BY <3>1, <3>2 DEF KeepsOwn, Streams
    <3>4. \A j \in Streams : o.x.reg[RegOf(j)] = IF RegOf(j) = RegOf(k) THEN None ELSE x.reg[RegOf(j)]
      BY <1>0, <2>1, <2>2, <2>3 DEF NumbersOK
    <3>5. ASSUME NEW j \in Streams \ {k} PROVE o.x.proc[j] \in {None, Absent, o.x.reg[RegOf(j)]}
      <4>1. o.x.proc[j] = x.proc[j] BY <2>4 DEF OthersSame
      <4>2. x.proc[j] \in {None, Absent, x.reg[RegOf(j)]} BY <2>5 DEF Agreed
      <4> QED BY <1>3, <3>3, <3>4, <4>1, <4>2
    <3> QED BY <2>5, <3>5 DEF Agreed
  <2> QED BY <1>0, <2>3, <2>4, <2>5, StopGives DEF f
<1> QED BY <1>1, <1>2, <1>3 DEF stop_bounce

\* The slave and the devices that took their channels in prepare take and give none.
LEMMA OthersLeave ==
  ASSUME OwnInv, NEW d \in Devices, Family[d] \notin Taking, NEW k \in Streams, NEW o, o.b = bus, OwnerSame(o, d),
         Family[d] # "slave" => o.x.mem = dev[d].mem
  PROVE  StartLeaves(o, d, k) /\ StopLeaves(o, d, k)
<1>1. Family[d] = "slave" \/ Family[d] \in Renting BY ListsAssumption DEF Taking, Renting, Vectors, Registers
<1>2. NumbersKept(dev[d], o.x, d) BY <1>1 DEF NumbersKept, Number, Renting
<1>3. Tidy(o, d) /\ Tells(o, d) BY <1>2, TidyQuiet, TellsQuiet, GainSelf
<1>4. Agreed(o.x, d) BY DEF Agreed, Taking
<1> QED BY <1>3, <1>4 DEF StartLeaves, StopLeaves

LEMMA RentedLeave ==
  ASSUME OwnInv, NEW d \in Devices, Family[d] \in Renting, NEW k \in Streams
  PROVE  /\ \A o \in startStreamByIndex(d, k) : StartLeaves(o, d, k)
         /\ \A o \in stopStreamByIndex(d, k) : StopLeaves(o, d, k)
<1> DEFINE x == dev[d]
           Y == {x, [x EXCEPT !.on[k] = FALSE], [x EXCEPT !.is_streaming = FALSE, !.on = [j \in Streams |-> FALSE]]}
                \cup {Use(x, K) : K \in SUBSET Streams} \cup {[Use(x, K) EXCEPT !.is_streaming = TRUE] : K \in SUBSET Streams}
<1>0. NumbersOK(x) /\ Family[d] \notin Taking /\ Family[d] # "slave" BY DeviceOK, TakingIs DEF Renting
<1>1. \A y \in Y : y.mem = x.mem /\ y.owner = x.owner /\ y.notifier = x.notifier
  <2>1. ASSUME NEW K \in SUBSET Streams, NEW y, y = Use(x, K)
        PROVE  y.mem = x.mem /\ y.owner = x.owner /\ y.notifier = x.notifier /\ DOMAIN y = DOMAIN x
    BY <1>0, <2>1 DEF Use, NumbersOK
  <2>2. ASSUME NEW K \in SUBSET Streams, NEW y, y = [Use(x, K) EXCEPT !.is_streaming = TRUE]
        PROVE  y.mem = x.mem /\ y.owner = x.owner /\ y.notifier = x.notifier
    BY <1>0, <2>1, <2>2 DEF NumbersOK
  <2>3. \A y \in {[x EXCEPT !.on[k] = FALSE], [x EXCEPT !.is_streaming = FALSE, !.on = [j \in Streams |-> FALSE]]} :
                  y.mem = x.mem /\ y.owner = x.owner /\ y.notifier = x.notifier
    BY <1>0 DEF NumbersOK
  <2> HIDE DEF x
  <2> QED BY <2>1, <2>2, <2>3
<1> HIDE DEF Y
<1>2. ASSUME NEW o, NEW y \in Y, NEW v,
             o = Outcome(y, bus, v) \/ o = Failing(Outcome(y, bus, v)) \/ o = [Outcome(y, bus, v) EXCEPT !.crash = TRUE]
      PROVE  StartLeaves(o, d, k) /\ StopLeaves(o, d, k)
  <2>1. o.x = y /\ o.b = bus BY <1>2 DEF Outcome, Failing
  <2> QED BY <1>0, <1>1, <2>1, OthersLeave DEF OwnerSame
<1>3. ASSUME NEW o \in startStreamByIndex(d, k)
      PROVE  \E y \in Y, v \in BOOLEAN : o = Outcome(y, bus, v) \/ o = Failing(Outcome(y, bus, v)) \/ o = [Outcome(y, bus, v) EXCEPT !.crash = TRUE]
  <2>1. x \in Y /\ Use(x, {k}) \in Y /\ Use(x, Streams) \in Y /\ [Use(x, Streams) EXCEPT !.is_streaming = TRUE] \in Y BY DEF Y
  <2> HIDE DEF x
  <2>2. CASE Family[d] = "motu"
    <3>1. o = Crash(x) \/ o = Outcome(Use(x, {k}), bus, TRUE) BY <2>2 DEF startStreamByIndex, start_motu, x
    <3> QED BY <2>1, <3>1 DEF Crash
  <2>3. CASE Family[d] # "motu"
    <3>1. o = Crash(x) \/ o = Outcome(x, bus, TRUE) \/ o = Outcome(Use(x, Streams), bus, TRUE)
          \/ o = Outcome([Use(x, Streams) EXCEPT !.is_streaming = TRUE], bus, TRUE) \/ o = Failing(Outcome(Use(x, Streams), bus, FALSE))
      BY <2>3 DEF startStreamByIndex, start_digidesign, start_rme, hardware_start_streaming, Renting, x
    <3> QED BY <2>1, <3>1 DEF Crash
  <2> QED BY <2>2, <2>3
<1>4. ASSUME NEW o \in stopStreamByIndex(d, k)
      PROVE  \E y \in Y, v \in BOOLEAN : o = Outcome(y, bus, v) \/ o = Failing(Outcome(y, bus, v))
  <2> DEFINE off == [x EXCEPT !.on[k] = FALSE]
             still == [x EXCEPT !.is_streaming = FALSE, !.on = [j \in Streams |-> FALSE]]
  <2>1. x \in Y /\ off \in Y /\ still \in Y BY DEF Y
  <2> HIDE DEF x, off, still
  <2>2. \/ o = Outcome(x, bus, TRUE) \/ o = Failing(Outcome(x, bus, FALSE))
        \/ o = Outcome(off, bus, TRUE) \/ o = Outcome(still, bus, TRUE)
    BY DEF stopStreamByIndex, stop_motu, stop_digidesign, stop_rme, hardware_stop_streaming, Renting, off, still, x
  <2> QED BY <2>1, <2>2
<1>5. \A o \in startStreamByIndex(d, k) : StartLeaves(o, d, k) BY <1>2, <1>3
<1>6. \A o \in stopStreamByIndex(d, k) : StopLeaves(o, d, k) BY <1>2, <1>4
<1> QED BY <1>5, <1>6

LEMMA SlaveLeaves ==
  ASSUME OwnInv, NEW d \in Devices, Family[d] = "slave", NEW k \in Streams
  PROVE  /\ \A o \in start_slave(d, k) : StartLeaves(o, d, k)
         /\ \A o \in stop_slave(d, k) : StopLeaves(o, d, k)
<1> DEFINE x == dev[d]
           y == [x EXCEPT !.proc[k] = x.reg[k], !.on[k] = TRUE]
<1>0. NumbersOK(x) /\ Family[d] \notin Taking BY DeviceOK, TakingIs
<1>1. y.owner = x.owner /\ y.notifier = x.notifier BY <1>0 DEF NumbersOK
<1> HIDE DEF y
<1>2. ASSUME NEW o, o = Outcome(x, bus, FALSE) \/ o = Outcome(y, bus, TRUE) PROVE StartLeaves(o, d, k) /\ StopLeaves(o, d, k)
  <2>1. (o.x = x \/ o.x = y) /\ o.b = bus BY <1>2 DEF Outcome
  <2> QED BY <1>0, <1>1, <2>1, OthersLeave DEF OwnerSame
<1>3. \A o \in start_slave(d, k) : o = Outcome(x, bus, FALSE) \/ o = Outcome(y, bus, TRUE) BY DEF start_slave, y
<1>4. \A o \in stop_slave(d, k) : o = Outcome(x, bus, FALSE) BY DEF stop_slave
<1> QED BY <1>2, <1>3, <1>4

LEMMA StreamLeaves ==
  ASSUME OwnInv, NEW d \in Devices, NEW k \in Streams, ~Missing(d, k)
  PROVE  /\ \A o \in startStreamByIndex(d, k) : StartLeaves(o, d, k)
         /\ \A o \in stopStreamByIndex(d, k) : StopLeaves(o, d, k)
<1>1. CASE Family[d] \in Renting BY <1>1, RentedLeave
<1>2. CASE Family[d] \in Vectors
  <2>1. dev[d].proc[k] # Absent BY <1>2 DEF Missing
  <2>2. CASE Family[d] = "avc" BY <2>1, <2>2, StartAvcLeaves, StopAvcLeaves DEF startStreamByIndex, stopStreamByIndex
  <2>3. CASE Family[d] = "dice" BY <2>1, <2>3, StartDiceLeaves, StopDiceLeaves DEF startStreamByIndex, stopStreamByIndex
  <2>4. CASE Family[d] = "bounce" BY <2>1, <2>4, StartBounceLeaves, StopBounceLeaves DEF startStreamByIndex, stopStreamByIndex
  <2>5. CASE Family[d] = "slave" BY <2>5, SlaveLeaves DEF startStreamByIndex, stopStreamByIndex
  <2> QED BY <1>2, <2>2, <2>3, <2>4, <2>5 DEF Vectors, Registers
<1> QED BY <1>1, <1>2, ListsAssumption DEF Renting

-----------------------------------------------------------------------------
\* What the other calls leave.
Owned(x, d) == x.owner => Family[d] = "dice" /\ ~snoop /\ x.notifier
LEMMA QuietLeaves ==
  ASSUME NEW d \in Devices, NEW o, o.b = bus, Alike(o.x, dev[d]), Family[d] = "slave" \/ o.x.reg = dev[d].reg
  PROVE  Tidy(o, d) /\ Tells(o, d) /\ (Agreed(dev[d], d) => Agreed(o.x, d))
<1>1. NumbersKept(dev[d], o.x, d) BY DEF NumbersKept, Number, Alike
<1>2. Agreed(dev[d], d) => Agreed(o.x, d) BY DEF Agreed, Alike
<1> QED BY <1>1, <1>2, TidyQuiet, TellsQuiet, GainSelf

LEMMA LockLeaves ==
  ASSUME OwnInv, NEW d \in Devices, NEW o \in lock(d)
  PROVE  /\ Tidy(o, d) /\ Tells(o, d) /\ (Agreed(dev[d], d) => Agreed(o.x, d)) /\ o.x.proc = dev[d].proc
         /\ Owned(dev[d], d) => Owned(o.x, d)
<1> DEFINE x == dev[d]
           n == [x EXCEPT !.notifier = TRUE]
           w == [x EXCEPT !.notifier = TRUE, !.owner = TRUE]
           s == [x EXCEPT !.notifier = TRUE, !.reg = [k \in Streams |-> None]]
<1>0. NumbersOK(x) BY DeviceOK
<1>1. /\ n.reg = x.reg /\ n.owner = x.owner /\ n.notifier = TRUE
      /\ w.reg = x.reg /\ w.notifier = TRUE
      /\ s.owner = x.owner /\ s.notifier = TRUE
  BY <1>0 DEF NumbersOK
<1> HIDE DEF n, w, s
<1>2. /\ o.b = bus
      /\ \/ o.x = x \/ o.x = n \/ (Family[d] = "dice" /\ ~snoop /\ o.x = w)
         \/ Family[d] = "slave" /\ o.x = s
  <2>1. CASE Family[d] = "dice"
    <3>1. o \in lock_dice(x) BY <2>1 DEF lock
    <3>2. \/ PlainOutcome(o, x, bus) \/ PlainOutcome(o, n, bus) \/ (~snoop /\ PlainOutcome(o, w, bus))
      BY <3>1, PlainIs DEF lock_dice, LockFails, n, w
    <3> QED BY <2>1, <3>2 DEF PlainOutcome
  <2>2. CASE Family[d] = "slave"
    <3>1. o \in lock_slave(x) BY <2>2 DEF lock
    <3>2. \/ PlainOutcome(o, x, bus) \/ PlainOutcome(o, n, bus) \/ PlainOutcome(o, s, bus)
      BY <3>1, PlainIs DEF lock_slave, LockFails, n, s
    <3> QED BY <2>2, <3>2 DEF PlainOutcome
  <2>3. CASE Family[d] \notin {"dice", "slave"}
    <3>1. PlainOutcome(o, x, bus) BY <2>3, PlainIs DEF lock
    <3> QED BY <3>1 DEF PlainOutcome
  <2> QED BY <2>1, <2>2, <2>3
<1>3. Alike(o.x, x) BY LockSound
<1>4. Tidy(o, d) /\ Tells(o, d) /\ (Agreed(x, d) => Agreed(o.x, d)) BY <1>1, <1>2, <1>3, QuietLeaves
<1>5. Owned(x, d) => Owned(o.x, d) BY <1>1, <1>2 DEF Owned
<1> QED BY <1>3, <1>4, <1>5 DEF Alike

LEMMA UnlockLeaves ==
  ASSUME OwnInv, NEW d \in Devices, NEW o \in unlock(d)
  PROVE  /\ Tidy(o, d) /\ Tells(o, d) /\ (Agreed(dev[d], d) => Agreed(o.x, d)) /\ o.x.proc = dev[d].proc
         /\ Owned(dev[d], d) => Owned(o.x, d) /\ (~o.fault => ~o.x.owner)
         /\ ~dev[d].owner => ~o.x.owner
<1> DEFINE x == dev[d]
           n == [x EXCEPT !.notifier = FALSE]
           w == [x EXCEPT !.notifier = FALSE, !.owner = FALSE]
<1>0. NumbersOK(x) BY DeviceOK
<1>1. /\ n.reg = x.reg /\ n.owner = x.owner
      /\ w.reg = x.reg /\ w.owner = FALSE
  BY <1>0 DEF NumbersOK
<1> HIDE DEF n, w
<1>2. /\ o.b = bus
      /\ \/ o.x = x /\ (o.fault \/ Family[d] # "dice" \/ snoop \/ ~x.notifier)
         \/ o.x = w
         \/ Family[d] = "slave" /\ o.x = n
  <2>1. CASE Family[d] = "dice"
    <3>1. o \in unlock_dice(x) BY <2>1 DEF unlock
    <3>2. \/ (snoop \/ ~x.notifier) /\ \E v : o = Outcome(x, bus, v)
          \/ o = Outcome(w, bus, TRUE) \/ o = Failing(Outcome(x, bus, FALSE))
      BY <3>1 DEF unlock_dice, w
    <3> QED BY <2>1, <3>2 DEF Outcome, Failing
  <2>2. CASE Family[d] = "slave"
    <3>1. o = Outcome(n, bus, TRUE) BY <2>2 DEF unlock, unlock_slave, n
    <3> QED BY <2>2, <3>1 DEF Outcome
  <2>3. CASE Family[d] \notin {"dice", "slave"}
    <3>1. o = Outcome(x, bus, TRUE) BY <2>3 DEF unlock
    <3> QED BY <2>3, <3>1 DEF Outcome
  <2> QED BY <2>1, <2>2, <2>3
<1>3. Alike(o.x, x) BY UnlockSound
<1>4. Tidy(o, d) /\ Tells(o, d) /\ (Agreed(x, d) => Agreed(o.x, d)) BY <1>1, <1>2, <1>3, QuietLeaves
<1>5. Owned(x, d) => Owned(o.x, d) /\ (~o.fault => ~o.x.owner) BY <1>1, <1>2 DEF Owned
<1>6. ~x.owner => ~o.x.owner BY <1>1, <1>2
<1> QED BY <1>3, <1>4, <1>5, <1>6 DEF Alike

LEMMA EnableLeaves ==
  ASSUME OwnInv, NEW d \in Devices, NEW o \in enableStreaming(d)
  PROVE  /\ Tidy(o, d) /\ Tells(o, d) /\ o.x = dev[d] /\ (~o.ok => o.fault)
<1>1. o.x = dev[d] /\ o.b = bus BY EnableSound DEF PlainOutcome
<1>2. ~o.ok => o.fault
  <2>1. o = Outcome(dev[d], bus, TRUE) \/ o = Failing(Outcome(dev[d], bus, FALSE)) BY DEF enableStreaming
  <2> QED BY <2>1 DEF Outcome, Failing
<1> QED BY <1>1, <1>2, DeviceOK, QuietLeaves

LEMMA TellsGain ==
  ASSUME NEW d \in Devices, NEW o, NEW G, G \subseteq Low, Gain(bus, o.b, d, G), NumbersKept(dev[d], o.x, d)
  PROVE  Tidy(o, d) /\ ((\A c \in G : Numbered(o.x, d, c)) => Tells(o, d))
<1>1. Tidy(o, d) BY DEF Tidy, Gain
<1>2. ASSUME \A c \in G : Numbered(o.x, d, c), Knows(bus, dev[d], d), NEW c \in Low, o.b.irm[c] = d PROVE Numbered(o.x, d, c)
  <2>1. c \in G \/ bus.irm[c] = d BY <1>2, LowChannels DEF Gain
  <2>2. CASE bus.irm[c] = d
    <3>1. PICK k \in Streams : c = Number(dev[d], d, k) BY <1>2, <2>2 DEF Knows, Numbered
    <3>2. c = Number(o.x, d, k) BY <3>1, LowChannels DEF NumbersKept
    <3> QED BY <3>2 DEF Numbered
  <2> QED BY <1>2, <2>1, <2>2
<1> QED BY <1>1, <1>2 DEF Tells, Knows

LEMMA ProcessorsKeep ==
  ASSUME NEW x, NEW b, NumbersOK(x), NEW o \in Processors(x, b)
  PROVE  o.x.owner = x.owner /\ o.x.notifier = x.notifier
<1> DEFINE made(K) == [x EXCEPT !.proc = [k \in Streams |-> IF k \in K THEN None ELSE Absent]]
<1>1. \A K : made(K).owner = x.owner /\ made(K).notifier = x.notifier BY DEF NumbersOK
<1>2. \E K : o = Outcome(made(K), b, TRUE) \/ o = Failing(Outcome(made(K), b, FALSE)) BY DEF Processors
<1> HIDE DEF made
<1>3. PICK K : o = Outcome(made(K), b, TRUE) \/ o = Failing(Outcome(made(K), b, FALSE)) BY <1>2
<1>4. o.x = made(K) BY <1>3 DEF Outcome, Failing
<1> QED BY <1>1, <1>4

LEMMA ResetKeeps ==
  ASSUME NEW x, NEW b, NEW d, NumbersOK(x), NEW o \in reset(x, b, d)
  PROVE  o.x.owner = x.owner /\ o.x.notifier = x.notifier
<1> DEFINE got(c) == [x EXCEPT !.mem["rx"] = c, !.reg["rx"] = c]
<1>1. \A c : got(c).owner = x.owner /\ got(c).notifier = x.notifier BY DEF NumbersOK
<1> HIDE DEF got
<1>2. \/ \E v : o = Outcome(x, b, v) \/ o = Failing(Outcome(x, b, v))
      \/ \E c, r : o = Outcome(got(c), r, TRUE)
  BY DEF reset, got
<1>3. o.x = x \/ \E c : o.x = got(c)
  <2>1. CASE \E v : o = Outcome(x, b, v) \/ o = Failing(Outcome(x, b, v))
    <3>1. PICK v : o = Outcome(x, b, v) \/ o = Failing(Outcome(x, b, v)) BY <2>1
    <3> QED BY <3>1 DEF Outcome, Failing
  <2>2. CASE \E c, r : o = Outcome(got(c), r, TRUE)
    <3>1. PICK c, r : o = Outcome(got(c), r, TRUE) BY <2>2
    <3>2. o.x = got(c) BY <3>1 DEF Outcome
    <3> QED BY <3>2
  <2> QED BY <1>2, <2>1, <2>2
<1> QED BY <1>1, <1>3

LEMMA GainOwn ==
  ASSUME NEW b, NEW r, NEW c, NEW d, BusOK(b), Takes(b, r, c, Own), d \in Devices
  PROVE  Gain(b, r, d, {})
BY GainTake, StreamConstants

PrepareLeaves(o, d) ==
    /\ Tidy(o, d) /\ OwnerSame(o, d) /\ (~o.odd => Tells(o, d))
    /\ Family[d] \in Taking => \A k \in Streams : o.x.proc[k] \in {None, Absent}
LEMMA EmptyNumbers ==
  ASSUME NEW d, Empty(d), NEW y
  PROVE  NumbersKept(dev[d], y, d)
BY DEF NumbersKept, Number, Empty

LEMMA PrepareSimpleLeaves ==
  ASSUME OwnInv, NEW d \in Devices, Empty(d), NEW o \in prepare(d), Family[d] \in Vectors
  PROVE  PrepareLeaves(o, d)
<1> DEFINE x == dev[d]
           z == [x EXCEPT !.proc["tx"] = None]
<1>0. NumbersOK(x) BY DeviceOK
<1>1. z.owner = x.owner /\ z.notifier = x.notifier /\ \A k \in Streams : z.proc[k] \in {None, Absent}
  BY <1>0 DEF NumbersOK, Empty
<1> HIDE DEF z
<1>2. o.b = bus /\ OwnerSame(o, d) /\ \A k \in Streams : o.x.proc[k] \in {None, Absent}
  <2>1. CASE o \in Processors(x, bus)
    <3>1. o.b = bus /\ \A k \in Streams : o.x.proc[k] \in {None, Absent} BY <1>0, <2>1, ProcessorsAre DEF PlainOutcome
    <3> QED BY <1>0, <2>1, <3>1, ProcessorsKeep DEF OwnerSame
  <2>2. CASE o = Failing(Outcome(z, bus, TRUE))
    <3>1. o.x = z /\ o.b = bus BY <2>2 DEF Failing, Outcome
    <3> QED BY <1>1, <3>1 DEF OwnerSame
  <2> QED BY <2>1, <2>2 DEF prepare, prepare_avc, prepare_dice, prepare_bounce, prepare_slave, Vectors, Registers, z
<1> QED BY <1>2, EmptyNumbers, TidyQuiet, TellsQuiet, GainSelf DEF PrepareLeaves

LEMMA PrepareBothLeaves ==
  ASSUME OwnInv, NEW d \in Devices, Empty(d), Family[d] \in {"motu", "digidesign"}, NEW o \in prepare_both(d)
  PROVE  PrepareLeaves(o, d)
<1> DEFINE t == allocateIsoChannelGeneric(bus, d)
           r == allocateIsoChannelGeneric(t.b, d)
           x == [dev[d] EXCEPT !.mem["tx"] = t.c, !.mem["rx"] = r.c]
           back == IF t.c # None THEN freeIsoChannel(r.b, t.c).b ELSE r.b
<1>0. NumbersOK(dev[d]) /\ BusOK(bus) /\ Family[d] \notin Taking BY DeviceOK DEF OwnInv, Taking
<1>1. (t.c = None /\ t.b = bus) \/ Gets(bus, t, d) BY <1>0, GenericAllocation
<1>2. BusOK(t.b)
  <2>1. CASE Gets(bus, t, d) BY <1>0, <2>1, TakeFacts DEF Gets
  <2> QED BY <1>0, <1>1, <2>1
<1>3. (r.c = None /\ r.b = t.b) \/ Gets(t.b, r, d) BY <1>2, GenericAllocation
<1>4. t.c = None => r.c = None /\ r.b = bus
  <2>1. t.c = None => t.b = bus BY <1>1, StreamConstants DEF Gets
  <2>2. t.c = None => r = t BY <2>1
  <2> QED BY <2>1, <2>2
<1> HIDE DEF r, t
<1>5. t.c \in Channels \cup {None} /\ r.c \in Channels \cup {None} BY <1>1, <1>3 DEF Gets, Takes
<1>6. /\ NumbersOK(x) /\ x.mem["tx"] = t.c /\ x.mem["rx"] = r.c
      /\ x.owner = dev[d].owner /\ x.notifier = dev[d].notifier
  BY <1>0, <1>5 DEF NumbersOK, Channel, Streams
<1>7. \A y : NumbersKept(dev[d], y, d) BY EmptyNumbers
<1>8. \A y, k : Number(y, d, k) = y.mem[k] BY DEF Renting, Number, Foreign
<1> HIDE DEF x
<1>9. CASE t.c # None /\ r.c # None
  <2>1. o \in Processors(x, r.b) BY <1>9 DEF prepare_both, x, r, t
  <2>2. o.b = r.b /\ o.x.mem = x.mem BY <1>6, <2>1, ProcessorsAre DEF PlainOutcome
  <2>3. OwnerSame(o, d) BY <1>6, <2>1, ProcessorsKeep DEF OwnerSame
  <2>4. Gain(bus, t.b, d, {t.c}) /\ Gain(t.b, r.b, d, {r.c}) /\ {t.c} \cup {r.c} \subseteq Low
    BY <1>0, <1>1, <1>2, <1>3, <1>9, GainTake DEF Gets, Low
  <2>5. Gain(bus, o.b, d, {t.c} \cup {r.c}) BY <2>2, <2>4, GainMore
  <2>6. Number(o.x, d, "tx") = t.c /\ Number(o.x, d, "rx") = r.c BY <1>6, <1>8, <2>2
  <2>7. \A c \in {t.c} \cup {r.c} : Numbered(o.x, d, c) BY <2>6 DEF Numbered, Streams
  <2> QED BY <1>0, <1>7, <2>3, <2>4, <2>5, <2>7, TellsGain DEF PrepareLeaves
<1>10. CASE ~(t.c # None /\ r.c # None)
  <2>1. o = [Outcome(x, back, FALSE) EXCEPT !.odd = t.c # None] BY <1>10 DEF prepare_both, x, r, t
  <2>2. o.x = x /\ o.b = back /\ (o.odd <=> t.c # None)
    <3> HIDE DEF back
    <3> QED BY <2>1 DEF Outcome
  <2>3. OwnerSame(o, d) BY <1>6, <2>2 DEF OwnerSame
  <2>4. Gain(bus, o.b, d, {})
    <3>1. CASE t.c = None BY <1>4, <2>2, <3>1, GainSelf
    <3>2. CASE t.c # None
      <4>1. r.b = t.b /\ Gets(bus, t, d) BY <1>1, <1>3, <1>10, <3>2, StreamConstants DEF Gets
      <4> QED BY <1>0, <2>2, <3>2, <4>1, GainReturned
    <3> QED BY <3>1, <3>2
  <2> QED BY <1>0, <1>7, <2>3, <2>4, TidyQuiet, TellsQuiet DEF PrepareLeaves
<1> QED BY <1>9, <1>10

LEMMA PrepareRmeLeaves ==
  ASSUME OwnInv, NEW d \in Devices, Empty(d), Family[d] \in {"rme400", "rme800"}, NEW p \in prepare_rme(d)
  PROVE  PrepareLeaves(p, d)
<1> DEFINE t == allocateIsoChannelGeneric(bus, d)
           x == [dev[d] EXCEPT !.mem["tx"] = t.c]
<1>0. NumbersOK(dev[d]) /\ BusOK(bus) /\ Family[d] \notin Taking /\ Family[d] \in Renting BY DeviceOK DEF OwnInv, Taking, Renting
<1>1. (t.c = None /\ t.b = bus) \/ Gets(bus, t, d) BY <1>0, GenericAllocation
<1>2. CASE t.c = None
  <2>1. PlainOutcome(p, dev[d], bus) BY <1>2, PlainIs DEF prepare_rme
  <2>2. p.x = dev[d] /\ p.b = bus BY <2>1 DEF PlainOutcome
  <2> QED BY <1>0, <2>2, EmptyNumbers, TidyQuiet, TellsQuiet, GainSelf DEF PrepareLeaves, OwnerSame
<1>3. CASE t.c # None
  <2>1. PICK o \in reset(x, t.b, d) :
              LET r == allocateIsoChannelGeneric(o.b, d)
              IN  \/ ~o.ok /\ p = o
                  \/ o.ok /\ Family[d] = "rme800" /\ p \in Processors(o.x, o.b)
                  \/ o.ok /\ Family[d] # "rme800" /\ \E q \in Processors([o.x EXCEPT !.mem["rx"] = r.c], r.b) :
                                                      p = [q EXCEPT !.odd = r.c = None]
    BY <1>3, PrepareRmeIs
  <2> HIDE DEF t
  <2>2. Gets(bus, t, d) BY <1>1, <1>3
  <2>3. BusOK(t.b) /\ Gain(bus, t.b, d, {t.c}) /\ {t.c} \subseteq Low /\ t.c \in Channels
    <3>1. Takes(bus, t.b, t.c, d) /\ t.c \in Low /\ t.c \in Channels BY <2>2 DEF Gets, Low, Takes
    <3> QED BY <1>0, <3>1, TakeFacts, GainTake
  <2>4. NumbersOK(x) /\ x.mem["tx"] = t.c /\ x.owner = dev[d].owner /\ x.notifier = dev[d].notifier
    BY <1>0, <2>3 DEF NumbersOK, Channel, Streams
  <2> HIDE DEF x
  <2>5. PICK y : /\ PlainOutcome(o, y, o.b) /\ NumbersOK(y) /\ y.mem["tx"] = x.mem["tx"]
                 /\ o.b = t.b \/ Takes(t.b, o.b, y.reg["rx"], Own)
    BY <2>3, <2>4, ResetIs
  <2>6. o.x = y /\ y.owner = dev[d].owner /\ y.notifier = dev[d].notifier BY <2>4, <2>5, ResetKeeps DEF PlainOutcome
  <2>7. BusOK(o.b) /\ Gain(bus, o.b, d, {t.c})
    <3>1. CASE o.b = t.b BY <2>3, <3>1
    <3>2. CASE Takes(t.b, o.b, y.reg["rx"], Own)
      <4>1. BusOK(o.b) /\ Gain(t.b, o.b, d, {}) BY <2>3, <3>2, TakeFacts, GainOwn
      <4>2. Gain(bus, o.b, d, {t.c} \cup {}) BY <2>3, <4>1, GainMore
      <4> QED BY <4>1, <4>2
    <3> QED BY <2>5, <3>1, <3>2
  <2>8. \A z : NumbersKept(dev[d], z, d) BY EmptyNumbers
  <2>9. \A z : Number(z, d, "tx") = z.mem["tx"] BY <1>0 DEF Number, Foreign
  <2>10. \A z : z.mem["tx"] = t.c => Numbered(z, d, t.c) BY <2>9 DEF Numbered, Streams
  <2>11. ASSUME p.b = o.b, p.x.mem["tx"] = t.c, OwnerSame(p, d) PROVE PrepareLeaves(p, d)
    <3>1. \A c \in {t.c} : Numbered(p.x, d, c) BY <2>10, <2>11
    <3> QED BY <1>0, <2>3, <2>7, <2>8, <2>11, <3>1, TellsGain DEF PrepareLeaves
  <2>12. CASE ~o.ok /\ p = o BY <2>4, <2>5, <2>6, <2>11, <2>12 DEF OwnerSame
  <2>13. CASE o.ok /\ Family[d] = "rme800" /\ p \in Processors(o.x, o.b)
    <3>1. p.b = o.b /\ p.x.mem = y.mem BY <2>5, <2>6, <2>13, ProcessorsAre DEF PlainOutcome
    <3>2. OwnerSame(p, d) BY <2>5, <2>6, <2>13, ProcessorsKeep DEF OwnerSame
    <3> QED BY <2>4, <2>5, <2>11, <3>1, <3>2
  <2>14. CASE o.ok /\ Family[d] # "rme800" /\
              LET r == allocateIsoChannelGeneric(o.b, d)
              IN  \E q \in Processors([o.x EXCEPT !.mem["rx"] = r.c], r.b) : p = [q EXCEPT !.odd = r.c = None]
    <3> DEFINE r == allocateIsoChannelGeneric(o.b, d)
               w == [y EXCEPT !.mem["rx"] = r.c]
    <3>1. (r.c = None /\ r.b = o.b) \/ Gets(o.b, r, d) BY <2>7, GenericAllocation
    <3>2. PICK q \in Processors(w, r.b) : p = [q EXCEPT !.odd = r.c = None] BY <2>6, <2>14
    <3> HIDE DEF r
    <3>3. r.c \in Channels \cup {None} BY <3>1 DEF Gets, Takes
    <3>4. /\ NumbersOK(w) /\ w.mem["rx"] = r.c /\ w.mem["tx"] = t.c
          /\ w.owner = dev[d].owner /\ w.notifier = dev[d].notifier
      BY <2>4, <2>5, <2>6, <3>3 DEF NumbersOK, Channel, Streams
    <3> HIDE DEF w
    <3>5. q.b = r.b /\ DOMAIN q = OutcomeFields /\ q.x.mem = w.mem BY <3>2, <3>4, ProcessorsAre DEF PlainOutcome
    <3>6. q.x.owner = w.owner /\ q.x.notifier = w.notifier BY <3>2, <3>4, ProcessorsKeep
    <3>7. p.x = q.x /\ p.b = r.b /\ (p.odd <=> r.c = None) BY <3>2, <3>5 DEF OutcomeFields
    <3>8. OwnerSame(p, d) BY <3>4, <3>6, <3>7 DEF OwnerSame
    <3>9. CASE r.c = None
      <4>1. p.b = o.b BY <3>1, <3>7, <3>9, StreamConstants DEF Gets
      <4> QED BY <2>11, <3>4, <3>5, <3>7, <3>8, <4>1
    <3>10. CASE r.c # None
      <4>1. Gain(o.b, r.b, d, {r.c}) /\ r.c \in Low BY <2>7, <3>1, <3>10, GainTake DEF Gets, Low
      <4>2. Gain(bus, p.b, d, {t.c} \cup {r.c}) /\ {t.c} \cup {r.c} \subseteq Low BY <2>3, <2>7, <3>7, <4>1, GainMore
      <4>3. Number(p.x, d, "rx") = r.c BY <1>0, <2>14, <3>4, <3>5, <3>7 DEF Number, Foreign
      <4>4. Numbered(p.x, d, r.c) BY <4>3 DEF Numbered, Streams
      <4>5. \A c \in {t.c} \cup {r.c} : Numbered(p.x, d, c) BY <2>10, <3>4, <3>5, <3>7, <4>4
      <4> QED BY <1>0, <2>8, <3>8, <4>2, <4>5, TellsGain DEF PrepareLeaves
    <3> QED BY <3>9, <3>10
  <2> QED BY <2>1, <2>12, <2>13, <2>14
<1> QED BY <1>2, <1>3

LEMMA PreparedLeaves ==
  ASSUME OwnInv, NEW d \in Devices, Empty(d), NEW o \in prepare(d)
  PROVE  PrepareLeaves(o, d)
<1>1. CASE Family[d] \in Vectors BY <1>1, PrepareSimpleLeaves
<1>2. CASE Family[d] \in {"motu", "digidesign"}
  <2>1. o \in prepare_both(d) BY <1>2 DEF prepare, prepare_motu, prepare_digidesign
  <2> QED BY <1>2, <2>1, PrepareBothLeaves
<1>3. CASE Family[d] \in {"rme400", "rme800"}
  <2>1. o \in prepare_rme(d) BY <1>3 DEF prepare
  <2> QED BY <1>3, <2>1, PrepareRmeLeaves
<1> QED BY <1>1, <1>2, <1>3, ListsAssumption

LEMMA ResetLeaves ==
  ASSUME OwnInv, NEW d \in Devices, NEW o \in resetForStreaming(d)
  PROVE  Tidy(o, d) /\ Tells(o, d) /\ OwnerSame(o, d) /\ (Agreed(dev[d], d) => Agreed(o.x, d))
<1>0. NumbersOK(dev[d]) /\ BusOK(bus) BY DeviceOK DEF OwnInv
<1>1. CASE Family[d] \notin {"rme400", "rme800"}
  <2>0. PlainOutcome(o, dev[d], bus) BY <1>1, PlainIs DEF resetForStreaming
  <2>1. o.x = dev[d] /\ o.b = bus BY <2>0 DEF PlainOutcome
  <2> QED BY <2>1, DeviceOK, QuietLeaves DEF OwnerSame
<1>2. CASE Family[d] \in {"rme400", "rme800"}
  <2>1. o \in reset(dev[d], bus, d) BY <1>2 DEF resetForStreaming
  <2>2. PICK y : /\ PlainOutcome(o, y, o.b) /\ y.mem["tx"] = dev[d].mem["tx"]
                 /\ \/ o.b = bus /\ y = dev[d]
                    \/ Family[d] # "rme400" /\ (o.b = bus \/ Takes(bus, o.b, y.reg["rx"], Own))
    BY <1>0, <2>1, ResetIs
  <2>3. o.x = y BY <2>2 DEF PlainOutcome
  <2>4. Gain(bus, o.b, d, {}) BY <1>0, <2>2, GainOwn, GainSelf
  <2>5. NumbersKept(dev[d], o.x, d) BY <1>2, <2>2, <2>3 DEF NumbersKept, Number, Foreign, Renting, Streams
  <2>6. OwnerSame(o, d) BY <1>0, <2>1, ResetKeeps DEF OwnerSame
  <2>7. Agreed(o.x, d) BY <1>2 DEF Agreed
  <2> QED BY <2>4, <2>5, <2>6, <2>7, TidyQuiet, TellsQuiet
<1> QED BY <1>1, <1>2

\* The destructors.
NoNumbers(d) == \A k \in Streams : Number(dev[d], d, k) \in {None, Absent}
LEMMA DeleteChannelsLeaves ==
  ASSUME OwnInv, NEW d \in Devices, Family[d] \in Renting, NEW o \in delete_channels(d)
  PROVE  Tidy(o, d) /\ (d \notin odd => Tells(o, d)) /\ o.x = NewObject(dev[d])
<1> DEFINE x == dev[d]
           release(b, k) == IF k \in Holds(d) THEN freeIsoChannel(b, x.mem[k]).b ELSE b
           b1 == release(bus, "rx")
           b2 == release(b1, "tx")
           V == UNION {Victims(IF k = "tx" THEN b1 ELSE bus, x.mem[k], d) : k \in Holds(d)}
<1>0. NumbersOK(x) /\ BusOK(bus) BY DeviceOK DEF OwnInv
<1>1. o = [Outcome(NewObject(x), b2, TRUE) EXCEPT !.rob = V] BY DEF delete_channels
<1>2. BusOK(b1) /\ Gain(bus, b1, d, {})
      /\ \A e, g : ("rx" \in Holds(d) => e # x.mem["rx"]) /\ Has(bus, e, g) => Has(b1, e, g)
  <2>1. CASE "rx" \in Holds(d) BY <1>0, <2>1, Release, GainFree
  <2>2. CASE "rx" \notin Holds(d) BY <1>0, <2>2, GainSelf
  <2> QED BY <2>1, <2>2
<1>3. \A c : "rx" \in Holds(d) /\ c = x.mem["rx"] /\ Registered(bus, c) => b1.irm[c] = Nobody BY <1>0, Freeing, GainGive
<1> HIDE DEF b1, V
<1>4. Gain(b1, b2, d, {}) BY <1>2, GainFree, GainSelf
<1>5. \A c : "tx" \in Holds(d) /\ c = x.mem["tx"] /\ Registered(b1, c) => b2.irm[c] = Nobody BY <1>2, Freeing, GainGive
<1> HIDE DEF b2
<1>6. o.x = NewObject(x) /\ o.b = b2 BY <1>1 DEF Outcome
<1>7. Gain(bus, o.b, d, {}) BY <1>2, <1>4, <1>6 DEF Gain
<1>8. ASSUME d \notin odd, Knows(bus, x, d), NEW c \in Low, o.b.irm[c] = d PROVE FALSE
  <2>1. b2.irm[c] = d /\ b1.irm[c] = d /\ bus.irm[c] = d BY <1>2, <1>4, <1>6, <1>8, LowChannels DEF Gain
  <2>2. KeepsOwn(bus, x, d) BY <1>8 DEF OwnInv
  <2>3. PICK k \in Streams : c = Number(x, d, k) BY <1>8, <2>1 DEF Knows, Numbered
  <2>4. c = x.mem[k] /\ k \in Holds(d) BY <2>3, LowChannels DEF Number, Holds, Foreign
  <2>5. Has(bus, c, d) BY <2>2, <2>3, LowChannels DEF KeepsOwn
  <2>6. ~("rx" \in Holds(d) /\ c = x.mem["rx"]) BY <1>3, <2>1, <2>5, StreamConstants DEF Has
  <2>7. k = "tx" /\ Registered(b1, c) BY <1>2, <2>4, <2>5, <2>6 DEF Has, Streams
  <2> QED BY <1>5, <2>1, <2>4, <2>7, StreamConstants
<1>9. d \notin odd => Tells(o, d) BY <1>8 DEF Tells, Knows
<1> QED BY <1>6, <1>7, <1>9, TidyQuiet

LEMMA DeleteLeaves ==
  ASSUME OwnInv, NEW d \in Devices, NEW o \in delete(d)
  PROVE  /\ Tidy(o, d) /\ (d \notin odd /\ (Family[d] \in Renting \/ NoNumbers(d)) => Tells(o, d)) /\ ~o.x.notifier
         /\ ~dev[d].owner => ~o.x.owner
<1> DEFINE x == dev[d]
<1>0. NumbersOK(x) BY DeviceOK
<1>1. \A y : NumbersOK(y) => NewObject(y).owner = y.owner /\ NewObject(y).notifier = FALSE BY DEF NewObject, NumbersOK
<1>2. CASE Family[d] \in Renting
  <2>1. o \in delete_channels(d) BY <1>2 DEF delete, delete_motu, delete_digidesign, delete_rme, Renting
  <2> QED BY <1>0, <1>1, <1>2, <2>1, DeleteChannelsLeaves
<1>3. ASSUME NEW y, NumbersOK(y), ~x.owner => ~y.owner, o.x = NewObject(y), o.b = bus, Family[d] \notin Renting
      PROVE  /\ Tidy(o, d) /\ (NoNumbers(d) => Tells(o, d)) /\ ~o.x.notifier
             /\ ~x.owner => ~o.x.owner
  <2>1. NoNumbers(d) => NumbersKept(x, o.x, d) BY DEF NoNumbers, NumbersKept
  <2> QED BY <1>1, <1>3, <2>1, TidyQuiet, TellsQuiet, GainSelf
<1>4. CASE Family[d] \notin Renting /\ o = Outcome(NewObject(x), bus, TRUE)
  <2>1. o.x = NewObject(x) /\ o.b = bus BY <1>4 DEF Outcome
  <2> QED BY <1>0, <1>3, <1>4, <2>1
<1>5. CASE Family[d] = "dice" /\ \E p \in unlock(d) : o = [p EXCEPT !.x = NewObject(@)]
  <2>1. PICK p \in unlock(d) : o = [p EXCEPT !.x = NewObject(@)] BY <1>5
  <2>2. PlainOutcome(p, p.x, bus) /\ NumbersOK(p.x) /\ (~x.owner => ~p.x.owner) BY UnlockSound, UnlockLeaves DEF Alike
  <2>3. DOMAIN p = OutcomeFields
    <3>1. p \in unlock_dice(dev[d]) BY <1>5 DEF unlock
    <3>2. \E y, v : p = Outcome(y, bus, v) \/ p = Failing(Outcome(y, bus, v)) BY <3>1 DEF unlock_dice
    <3> QED BY <3>2 DEF Outcome, Failing, OutcomeFields
  <2>4. o.x = NewObject(p.x) /\ o.b = p.b BY <2>1, <2>3 DEF OutcomeFields
  <2>5. Family[d] \notin Renting BY <1>5 DEF Renting
  <2> QED BY <1>3, <2>2, <2>4, <2>5 DEF PlainOutcome
<1>6. Family[d] \in Renting \/ (Family[d] \notin Renting /\ o = Outcome(NewObject(x), bus, TRUE))
      \/ (Family[d] = "dice" /\ \E p \in unlock(d) : o = [p EXCEPT !.x = NewObject(@)])
  <2>1. CASE Family[d] = "dice" BY <2>1 DEF delete, delete_dice, Renting
  <2>2. CASE Family[d] \notin Renting /\ Family[d] # "dice" BY <2>2 DEF delete, Renting
  <2> QED BY <2>1, <2>2
<1> QED BY <1>2, <1>4, <1>5, <1>6

-----------------------------------------------------------------------------
\* The session.  What is kept by every step that leaves the phase aside.
BooksKept ==
    /\ Balanced(bus)' /\ (faults \in Nat)' /\ HeldIsKept' /\ LastIsFree' /\ AgreeInv'
    /\ (Calm' => Calm) /\ (Clean' => Clean) /\ (faults' = 0 => faults = 0 /\ \A d \in Devices : Owned(dev'[d], d))
LEMMA NumbersLater ==
  ASSUME NEW d, NEW c, snoop' = snoop, Numbered(dev'[d], d, c)
  PROVE  Numbered(dev[d], d, c)'
<1>1. \A k \in Streams : Number(dev[d], d, k)' = Number(dev'[d], d, k) BY DEF Number
<1> QED BY <1>1 DEF Numbered, Streams

LEMMA AgreedLater ==
  ASSUME snoop' = snoop, Clean' => \A d \in Devices : Agreed(dev'[d], d)
  PROVE  AgreeInv'
<1>1. \A k : RegOf(k)' = RegOf(k) BY DEF RegOf
<1> QED BY <1>1 DEF AgreeInv, Agreed, Streams

LEMMA AgreedNow == ASSUME AgreeInv, Clean, NEW d \in Devices PROVE Agreed(dev[d], d)
BY DEF AgreeInv, Agreed
LEMMA OwnedNow == ASSUME OwnerInv, faults = 0, NEW d \in Devices PROVE Owned(dev[d], d)
BY DEF OwnerInv, Owned

LEMMA CallLeaves ==
  ASSUME StreamsInv, LeavesInv, NEW o, Apply(o), Sound(o, This), Tidy(o, This), undone' = "all" => undone = "all",
         This \notin odd' /\ (IF Family[This] \in Renting THEN Clean' ELSE Calm') => Tells(o, This),
         Clean' /\ Agreed(dev[This], This) => Agreed(o.x, This),
         faults' = 0 /\ Owned(dev[This], This) => Owned(o.x, This)
  PROVE  BooksKept /\ (faults' = 0 => ~o.fault) /\ (Clean' => ~o.odd)
<1>0. /\ OwnInv /\ PlaceInv /\ Balanced(bus) /\ faults \in Nat /\ HeldIsKept /\ LastIsFree /\ AgreeInv /\ OwnerInv
      /\ This \in Devices
  BY PlaceFacts DEF StreamsInv, LeavesInv
<1>1. /\ bus' = o.b /\ snoop' = snoop /\ dev'[This] = o.x /\ odd \subseteq odd' /\ (This \notin odd' => ~o.odd)
      /\ \A e \in Devices : e # This => dev'[e] = dev[e]
  BY Called DEF Apply
<1>2. faults' \in Nat /\ (faults' = 0 => faults = 0 /\ ~o.fault) BY <1>0 DEF Apply
<1>3. (Clean' => Clean /\ ~o.odd) /\ (Calm' => Calm) BY <1>1, <1>2 DEF Clean, Calm
<1>4. Balanced(bus)'
  <2>1. Balanced(o.b) BY <1>0 DEF Sound, Spares
  <2> QED BY <1>1, <2>1 DEF Balanced
<1>5. HeldIsKept'
  <2> SUFFICES ASSUME NEW d \in Devices \ odd', NEW c \in Low, bus'.irm[c] = d, IF Family[d] \in Renting THEN Clean' ELSE Calm'
               PROVE  Numbered(dev'[d], d, c)
    BY <1>1, NumbersLater DEF HeldIsKept, Low
  <2>1. d \in Devices \ odd /\ c \in Channels /\ c \in 0..(NrChannels - 2) /\ (IF Family[d] \in Renting THEN Clean ELSE Calm)
    BY <1>1, <1>3, LowChannels DEF Low
  <2>2. CASE d = This
    <3>1. Knows(bus, dev[d], d) BY <1>0, <2>1 DEF HeldIsKept, Knows, Low
    <3>2. Knows(o.b, o.x, d) BY <2>2, <3>1 DEF Tells
    <3> QED BY <1>1, <2>2, <3>2 DEF Knows
  <2>3. CASE d # This
    <3>1. bus.irm[c] = d BY <1>1, <2>1, <2>3 DEF Tidy
    <3>2. Numbered(dev[d], d, c) BY <1>0, <2>1, <3>1 DEF HeldIsKept
    <3> QED BY <1>1, <2>3, <3>2
  <2> QED BY <2>2, <2>3
<1>6. LastIsFree'
  <2>1. NrChannels - 1 \in Channels /\ NrChannels - 1 \notin Low BY LowChannels
  <2> QED BY <1>0, <1>1, <1>2, <2>1 DEF LastIsFree, Tidy
<1>7. AgreeInv'
  <2>1. ASSUME Clean', NEW d \in Devices PROVE Agreed(dev'[d], d)
    <3>1. Agreed(dev[d], d) BY <1>0, <1>3, <2>1, AgreedNow
    <3> QED BY <1>1, <2>1, <3>1
  <2> QED BY <1>1, <2>1, AgreedLater
<1>8. ASSUME faults' = 0, NEW d \in Devices PROVE Owned(dev'[d], d)
  <2>1. Owned(dev[d], d) BY <1>0, <1>2, <1>8, OwnedNow
  <2> QED BY <1>1, <1>8, <2>1
<1> QED BY <1>2, <1>3, <1>4, <1>5, <1>6, <1>7, <1>8 DEF BooksKept

\* A step of the manager alone.
LEMMA ManagerLeaves ==
  ASSUME StreamsInv, LeavesInv, SameOwn, undone' = undone, faults' = faults \/ faults' = faults + 1
  PROVE  BooksKept
<1>0. Balanced(bus) /\ faults \in Nat /\ HeldIsKept /\ LastIsFree /\ AgreeInv /\ OwnerInv BY DEF LeavesInv
<1>1. bus' = bus /\ dev' = dev /\ snoop' = snoop /\ odd' = odd BY DEF SameOwn
<1>2. faults' \in Nat /\ (faults' = 0 => faults = 0) BY <1>0
<1>3. (Clean' => Clean) /\ (Calm' => Calm) BY <1>1, <1>2 DEF Clean, Calm
<1>4. HeldIsKept'
  <2>1. \A d, c : Numbered(dev[d], d, c) => Numbered(dev[d], d, c)' BY <1>1, NumbersLater
  <2> QED BY <1>0, <1>1, <1>3, <2>1 DEF HeldIsKept
<1>5. AgreeInv' BY <1>0, <1>1, <1>3, AgreedNow, AgreedLater
<1>6. faults' = 0 => \A d \in Devices : Owned(dev'[d], d) BY <1>0, <1>1, <1>2, OwnedNow
<1>7. Balanced(bus)' /\ LastIsFree' BY <1>0, <1>1, <1>2 DEF Balanced, LastIsFree
<1> QED BY <1>2, <1>3, <1>4, <1>5, <1>6, <1>7 DEF BooksKept

-----------------------------------------------------------------------------
\* Silence: what keeps it, and where it is asked for.
LEMMA StillKept ==
  ASSUME NEW d, NEW k, odd \subseteq odd', dev'[d].proc[k] \in {None, Absent, dev[d].proc[k]}, Still(d, k)
  PROVE  Still(d, k)'
BY DEF Still, Regular
LEMMA AllStillKept ==
  ASSUME NEW d, odd \subseteq odd', dev'[d].proc = dev[d].proc, AllStill(d)
  PROVE  AllStill(d)'
BY DEF AllStill, Still, Regular
LEMMA EmptyStill == ASSUME NEW d, IsNew(dev'[d]) PROVE AllStill(d)'
BY DEF AllStill, Still, IsNew
LEMMA StillNumbers ==
  ASSUME NEW d \in Devices, d \notin odd, Family[d] \notin Renting, AllStill(d)
  PROVE  NoNumbers(d)
<1>1. Family[d] = "slave" \/ Family[d] \in {"avc", "dice", "bounce"} BY ListsAssumption DEF Renting, Vectors, Registers
<1>2. CASE Family[d] = "slave" BY <1>2 DEF NoNumbers, Number, Renting
<1>3. CASE Family[d] \in {"avc", "dice", "bounce"} BY <1>3 DEF NoNumbers, Number, AllStill, Still, Regular
<1> QED BY <1>1, <1>2, <1>3

\* The devices of the list that are still, but for the one that is called.
LEMMA OthersStill ==
  ASSUME PlaceInv, list' = list, odd \subseteq odd', \A e \in Devices : e # This => dev'[e] = dev[e]
  PROVE  \A i \in DOMAIN list : i # at /\ AllStill(list[i]) => AllStill(list[i])'
<1> SUFFICES ASSUME NEW i \in DOMAIN list, i # at, AllStill(list[i]) PROVE AllStill(list[i])' OBVIOUS
<1>1. PICK d : d = list[i] OBVIOUS
<1>2. d \in Devices /\ d # This BY <1>1, PlaceFacts DEF This, PlaceInv
<1>3. AllStill(d)' BY <1>1, <1>2, AllStillKept
<1>4. list[i]' = d BY <1>1
<1> QED BY <1>3, <1>4 DEF AllStill, Still

LEMMA EverybodyStill ==
  ASSUME NewInv', list' = list, \A i \in DOMAIN list : AllStill(list[i])'
  PROVE  \A d \in Devices : AllStill(d)'
<1> SUFFICES ASSUME NEW d \in Devices PROVE AllStill(d)' OBVIOUS
<1>1. CASE d \in Range(list)
  <2>1. PICK i \in DOMAIN list : d = list[i] BY <1>1 DEF Range
  <2>2. list[i]' = d BY <2>1
  <2> QED BY <2>1, <2>2 DEF AllStill, Still
<1>2. CASE d \notin Range(list)
  <2>1. IsNew(dev'[d]) BY <1>2 DEF NewInv, Empty, IsNew
  <2> QED BY <2>1, EmptyStill
<1> QED BY <1>1, <1>2

Resting == {"none", "lock", "rate", "prepare", "ready", "unlock", "delete"}
LEMMA StoppedRest ==
  ASSUME phase' \in Resting, Calm' => \A d \in Devices : AllStill(d)'
  PROVE  StoppedInv'
BY DEF StoppedInv, Resting
LEMMA RestStill ==
  ASSUME StoppedInv, Calm, phase \in Resting
  PROVE  \A d \in Devices : AllStill(d)
BY DEF StoppedInv, Resting

\* A start has failed at device n: those from n on are still.
LEMMA UndoStopped ==
  ASSUME PlaceInv, StreamsInv', list' = list, NEW n \in 1..(Len(list) + 1), Undo(n),
         Calm' => \A i \in DOMAIN list : i >= n => AllStill(list[i])'
  PROVE  StoppedInv' /\ phase' \in {"ready", "undo"}
<1>1. /\ limit' = n /\ at' = 1 /\ phase' \in {"ready", "undo"} /\ (phase' = "undo" => stream' = 0)
      /\ phase' = "ready" => n = 1
  BY PlaceFacts DEF Undo, Go
<1>2. DOMAIN list = 1..Len(list) /\ Len(list) \in Nat BY PlaceFacts
<1>3. CASE phase' = "ready"
  <2>1. Calm' => \A i \in DOMAIN list : AllStill(list[i])' BY <1>1, <1>2, <1>3
  <2>2. Calm' => \A d \in Devices : AllStill(d)' BY <2>1, EverybodyStill DEF StreamsInv
  <2> QED BY <1>3, <2>2, StoppedRest DEF Resting
<1>4. CASE phase' = "undo"
  <2>1. Calm' => \A i \in DOMAIN list' : i < at' \/ i >= limit' => AllStill(list[i])' BY <1>1, <1>2
  <2>2. StillHere(1..(stream - 1))'
    <3>1. 1..(stream' - 1) = {} BY <1>1, <1>4
    <3> QED BY <3>1 DEF StillHere
  <2> QED BY <1>4, <2>1, <2>2 DEF StoppedInv
<1> QED BY <1>1, <1>3, <1>4

LEMMA OwnerTo ==
  ASSUME BooksKept, OwnerInv, list' = list, snoop' = snoop, phase' \notin {"none", "unlock", "delete"},
         \A d \in Devices : d \notin Range(list) => dev'[d] = dev[d]
  PROVE  OwnerInv'
BY DEF OwnerInv, BooksKept, Owned
LEMMA LeavesTo ==
  ASSUME BooksKept, StoppedInv', OwnerInv', phase' # "back"
  PROVE  LeavesInv'
BY DEF BooksKept, LeavesInv, BackInv

-----------------------------------------------------------------------------
\* The actions.
LEMMA InitLeaves ==
  ASSUME StreamsInv, LeavesInv, ffado_streaming_init
  PROVE  LeavesInv'
<1>0. /\ OwnInv /\ Balanced(bus) /\ faults \in Nat /\ HeldIsKept /\ LastIsFree /\ AgreeInv /\ OwnerInv /\ StoppedInv
      /\ phase = "none" /\ BusOK(bus)
  BY DEF StreamsInv, LeavesInv, OwnInv, ffado_streaming_init
<1>1. /\ dev' = dev /\ list' = list /\ snoop' = snoop /\ odd' = odd /\ faults' = faults /\ undone' = undone
      /\ phase' = "lock" /\ bus' = [bus EXCEPT !.chan = [c \in Channels |-> "free"]]
  BY DEF ffado_streaming_init, Go
<1>2. bus'.irm = bus.irm /\ bus'.units = bus.units BY <1>0, <1>1 DEF BusOK
<1>3. (Clean' <=> Clean) /\ (Calm' <=> Calm) BY <1>1 DEF Clean, Calm
<1>4. HeldIsKept'
  <2>1. \A d, c : Numbered(dev[d], d, c) => Numbered(dev[d], d, c)' BY <1>1, NumbersLater
  <2> QED BY <1>0, <1>1, <1>2, <1>3, <2>1 DEF HeldIsKept
<1>5. AgreeInv' BY <1>0, <1>1, <1>3, AgreedNow, AgreedLater
<1>6. faults' = 0 => \A d \in Devices : Owned(dev'[d], d) BY <1>0, <1>1, OwnedNow
<1>7. Balanced(bus)' /\ LastIsFree' BY <1>0, <1>1, <1>2 DEF Balanced, LastIsFree
<1>8. BooksKept BY <1>0, <1>1, <1>3, <1>4, <1>5, <1>6, <1>7 DEF BooksKept
<1>9. StoppedInv'
  <2>1. Calm => \A d \in Devices : AllStill(d)' BY <1>0, <1>1, RestStill, AllStillKept DEF Resting
  <2> QED BY <1>1, <1>3, <2>1, StoppedRest DEF Resting
<1>10. OwnerInv' BY <1>0, <1>1, <1>8, OwnerTo
<1> QED BY <1>1, <1>8, <1>9, <1>10, LeavesTo

LEMMA LockStepLeaves ==
  ASSUME StreamsInv, LeavesInv, initStreaming_lock
  PROVE  LeavesInv'
<1>0. OwnInv /\ PlaceInv /\ StoppedInv /\ OwnerInv /\ phase = "lock" BY DEF StreamsInv, LeavesInv, initStreaming_lock
<1>1. PICK o \in lock(This) : Apply(o) /\ (IF o.ok THEN Go("rate", at, 1) ELSE NextDevice("lock", "ready"))
  BY DEF initStreaming_lock
<1>2. This \in Devices BY <1>0, PlaceFacts
<1>3. Sound(o, This) BY <1>0, <1>2, LockSound
<1>4. /\ Tidy(o, This) /\ Tells(o, This) /\ (Agreed(dev[This], This) => Agreed(o.x, This)) /\ o.x.proc = dev[This].proc
      /\ Owned(dev[This], This) => Owned(o.x, This)
  BY <1>0, <1>2, LockLeaves
<1>5. undone' = undone BY DEF initStreaming_lock, Unchanged
<1>6. BooksKept BY <1>1, <1>3, <1>4, <1>5, CallLeaves
<1>7. /\ list' = list /\ snoop' = snoop /\ dev'[This] = o.x /\ odd \subseteq odd' /\ \A e \in Devices : e # This => dev'[e] = dev[e]
      /\ \A e \in Devices : e \notin Range(list) => dev'[e] = dev[e]
  BY <1>1, <1>3, Called
<1>8. phase' \in {"rate", "lock", "ready"} BY <1>0, <1>1, NextIs DEF Go
<1>9. StoppedInv'
  <2>1. \A e \in Devices : dev'[e].proc = dev[e].proc BY <1>4, <1>7
  <2>2. Calm' => \A d \in Devices : AllStill(d)' BY <1>0, <1>6, <1>7, <2>1, RestStill, AllStillKept DEF Resting, BooksKept
  <2> QED BY <1>8, <2>2, StoppedRest DEF Resting
<1>10. OwnerInv' BY <1>0, <1>6, <1>7, <1>8, OwnerTo
<1> QED BY <1>6, <1>8, <1>9, <1>10, LeavesTo

LEMMA RateLeaves ==
  ASSUME StreamsInv, LeavesInv, setSamplingFrequency
  PROVE  LeavesInv'
<1>0. /\ OwnInv /\ StoppedInv /\ OwnerInv /\ HeldIsKept /\ LastIsFree /\ Balanced(bus) /\ faults \in Nat /\ phase = "rate"
  BY DEF StreamsInv, LeavesInv, setSamplingFrequency
<1>1. bus' = bus /\ list' = list /\ snoop' = snoop /\ odd' = odd /\ robbed' = robbed /\ undone' = undone
  BY DEF setSamplingFrequency, Unchanged
<1>2. CASE phase' = "prepare" /\ dev' = dev /\ faults' = faults
  <2>1. BooksKept BY <1>1, <1>2, ManagerLeaves DEF SameOwn
  <2>2. Calm' => \A d \in Devices : AllStill(d)' BY <1>0, <1>1, <1>2, <2>1, RestStill, AllStillKept DEF Resting, BooksKept
  <2>3. StoppedInv' BY <1>2, <2>2, StoppedRest DEF Resting
  <2>4. OwnerInv' BY <1>0, <1>1, <1>2, <2>1, OwnerTo
  <2> QED BY <1>2, <2>1, <2>3, <2>4, LeavesTo
<1>3. CASE phase' = "none" /\ dev' = [d \in Devices |-> NewObject(dev[d])] /\ faults' = faults + 1
  <2>1. faults' \in Nat /\ faults' # 0 BY <1>0, <1>3
  <2>2. ~Clean' /\ (Calm' => Calm) BY <1>1, <2>1 DEF Clean, Calm
  <2>3. \A d \in Devices : IsNew(dev'[d]) BY <1>3, <1>0, NewObjectIs DEF OwnInv, IsNew
  <2>4. HeldIsKept'
    <3> SUFFICES ASSUME NEW d \in Devices \ odd, NEW c \in Low, bus.irm[c] = d, Family[d] \notin Renting, Calm' PROVE FALSE
      BY <1>1, <2>2 DEF HeldIsKept, Low
    <3>1. NoNumbers(d) BY <1>0, <2>2, RestStill, StillNumbers DEF Resting
    <3>2. Numbered(dev[d], d, c) BY <1>0, <2>2 DEF HeldIsKept, Low
    <3> QED BY <3>1, <3>2, LowChannels DEF NoNumbers, Numbered
  <2>5. AgreeInv' /\ OwnerInv' /\ LastIsFree' BY <2>1, <2>2 DEF AgreeInv, OwnerInv, LastIsFree
  <2>6. Balanced(bus)' BY <1>0, <1>1 DEF Balanced
  <2>7. StoppedInv' BY <1>3, <2>3, EmptyStill, StoppedRest DEF Resting
  <2> QED BY <1>3, <2>1, <2>4, <2>5, <2>6, <2>7 DEF LeavesInv, BackInv
<1> QED BY <1>2, <1>3 DEF setSamplingFrequency, Go

LEMMA PrepareStepLeaves ==
  ASSUME StreamsInv, LeavesInv, initStreaming_prepare
  PROVE  LeavesInv'
<1>0. OwnInv /\ PlaceInv /\ NewInv /\ StoppedInv /\ OwnerInv /\ phase = "prepare"
  BY DEF StreamsInv, LeavesInv, initStreaming_prepare
<1>1. PICK o \in prepare(This) : Apply(o) BY DEF initStreaming_prepare
<1>2. This \in Devices /\ at \in DOMAIN list BY <1>0, PlaceFacts DEF PlaceInv
<1>3. Empty(This)
  <2>1. \A i \in DOMAIN list : i >= at => Empty(list[i]) BY <1>0 DEF NewInv
  <2> QED BY <1>0, <1>2, <2>1, PlaceFacts DEF This
<1>4. Sound(o, This)
  <2>1. Family[This] \in Vectors \cup Renting BY <1>2, ListsAssumption DEF Renting
  <2> QED BY <1>0, <1>2, <1>3, <2>1, PrepareSound
<1>5. /\ Tidy(o, This) /\ OwnerSame(o, This) /\ (~o.odd => Tells(o, This))
      /\ Family[This] \in Taking => \A k \in Streams : o.x.proc[k] \in {None, Absent}
  BY <1>0, <1>2, <1>3, PreparedLeaves DEF PrepareLeaves
<1>6. /\ list' = list /\ snoop' = snoop /\ dev'[This] = o.x /\ odd \subseteq odd' /\ (This \notin odd' => ~o.odd)
      /\ \A e \in Devices : e # This => dev'[e] = dev[e]
      /\ \A e \in Devices : e \notin Range(list) => dev'[e] = dev[e]
  BY <1>1, <1>4, Called
<1>7. undone' = undone /\ NextDevice("lock", "ready") BY DEF initStreaming_prepare, Unchanged
<1>8. Agreed(o.x, This) /\ (Owned(dev[This], This) => Owned(o.x, This))
  BY <1>5 DEF Agreed, Taking, Owned, OwnerSame
<1>9. BooksKept BY <1>1, <1>4, <1>5, <1>6, <1>7, <1>8, CallLeaves
<1>10. phase' \in {"lock", "ready"} BY <1>0, <1>7, NextIs
<1>11. StoppedInv'
  <2>1. ASSUME Calm', NEW d \in Devices PROVE AllStill(d)'
    <3>1. CASE d = This
      <4>1. \A k \in Streams : Family[d] \in Taking => dev'[d].proc[k] \in {None, Absent} BY <1>5, <1>6, <3>1
      <4> QED BY <4>1 DEF AllStill, Still, Taking
    <3>2. CASE d # This
      <4>1. AllStill(d) BY <1>0, <1>9, <2>1, RestStill DEF Resting, BooksKept
      <4> QED BY <1>6, <3>2, <4>1, AllStillKept
    <3> QED BY <3>1, <3>2
  <2> QED BY <1>10, <2>1, StoppedRest DEF Resting
<1>12. OwnerInv' BY <1>0, <1>6, <1>9, <1>10, OwnerTo
<1> QED BY <1>9, <1>10, <1>11, <1>12, LeavesTo

LEMMA StartLeavesAll ==
  ASSUME StreamsInv, LeavesInv, ffado_streaming_start
  PROVE  LeavesInv'
<1>0. PlaceInv /\ StoppedInv /\ OwnerInv /\ phase = "ready" BY DEF StreamsInv, LeavesInv, ffado_streaming_start
<1>1. SameOwn /\ list' = list /\ snoop' = snoop /\ phase' = "reset" /\ at' = 1 /\ dev' = dev /\ odd' = odd /\ faults' = faults /\ undone' = undone
  BY DEF ffado_streaming_start, Go, SameOwn
<1>2. BooksKept BY <1>1, ManagerLeaves
<1>3. ASSUME Calm', NEW i \in DOMAIN list PROVE AllStill(list[i])'
  <2>1. PICK d \in Devices : d = list[i] BY <1>0, PlaceFacts
  <2>2. AllStill(d)' BY <1>0, <1>1, <1>2, <1>3, RestStill, AllStillKept DEF Resting, BooksKept
  <2>3. list[i]' = d BY <1>1, <2>1
  <2> QED BY <2>2, <2>3 DEF AllStill, Still
<1>4. StoppedInv'
  <2>1. 1 \in DOMAIN list BY <1>0, PlaceFacts
  <2>2. Calm' => AllStill(list[1])' BY <1>3, <2>1
  <2>3. This' = list[1]' BY <1>1 DEF This
  <2>4. Calm' => AllStill(This)' BY <2>2, <2>3 DEF AllStill, Still
  <2> QED BY <1>1, <1>3, <2>4 DEF StoppedInv
<1>5. OwnerInv' BY <1>0, <1>1, <1>2, OwnerTo
<1> QED BY <1>1, <1>2, <1>4, <1>5, LeavesTo

LEMMA ResetStepLeaves ==
  ASSUME StreamsInv, StreamsInv', LeavesInv, startStreamingOnDevice_reset
  PROVE  LeavesInv'
<1>0. OwnInv /\ PlaceInv /\ StoppedInv /\ OwnerInv /\ phase = "reset" BY DEF StreamsInv, LeavesInv, startStreamingOnDevice_reset
<1>1. PICK o \in resetForStreaming(This) :
          /\ Apply(o)
          /\ IF ~o.ok THEN Undo(at)
             ELSE /\ Go(IF StreamsOf(This) = <<>> THEN "enable" ELSE "start", at, 1)
                  /\ UNCHANGED limit
  BY DEF startStreamingOnDevice_reset
<1>2. This \in Devices /\ This = list[at] /\ at \in DOMAIN list /\ at \in 1..(Len(list) + 1) BY <1>0, PlaceFacts DEF This
<1>3. Sound(o, This) /\ o.x.proc = dev[This].proc BY <1>0, <1>2, ResetSound
<1>4. Tidy(o, This) /\ Tells(o, This) /\ OwnerSame(o, This) /\ (Agreed(dev[This], This) => Agreed(o.x, This))
  BY <1>0, <1>2, ResetLeaves
<1>5. /\ list' = list /\ snoop' = snoop /\ dev'[This] = o.x /\ odd \subseteq odd'
      /\ \A e \in Devices : e # This => dev'[e] = dev[e]
      /\ \A e \in Devices : e \notin Range(list) => dev'[e] = dev[e]
  BY <1>1, <1>3, Called
<1>6. undone' = undone BY DEF startStreamingOnDevice_reset
<1>7. BooksKept BY <1>1, <1>3, <1>4, <1>6, CallLeaves DEF Owned, OwnerSame
<1>8. ASSUME Calm', NEW i \in DOMAIN list, i >= at PROVE AllStill(list[i])'
  <2>1. i > at \/ i = at BY <1>0, <1>8, PlaceFacts
  <2>2. AllStill(list[i]) BY <1>0, <1>2, <1>7, <1>8, <2>1 DEF StoppedInv, BooksKept
  <2>3. PICK d \in Devices : d = list[i] BY <1>0, PlaceFacts
  <2>4. dev'[d].proc = dev[d].proc BY <1>3, <1>5
  <2>5. AllStill(d)' BY <1>5, <2>2, <2>3, <2>4, AllStillKept
  <2>6. list[i]' = d BY <1>5, <2>3
  <2> QED BY <2>5, <2>6 DEF AllStill, Still
<1>9. CASE ~o.ok
  <2>1. StoppedInv' /\ phase' \in {"ready", "undo"} BY <1>0, <1>1, <1>2, <1>5, <1>8, <1>9, UndoStopped
  <2>2. OwnerInv' BY <1>0, <1>5, <1>7, <2>1, OwnerTo
  <2> QED BY <1>7, <2>1, <2>2, LeavesTo
<1>10. CASE o.ok
  <2>1. at' = at /\ stream' = 1 /\ phase' \in {"start", "enable"} BY <1>1, <1>10 DEF Go
  <2>2. Calm' => \A i \in DOMAIN list' : i > at' => AllStill(list[i])'
    <3>1. \A i \in DOMAIN list : i > at => i >= at BY <1>0, PlaceFacts
    <3> QED BY <1>5, <1>8, <2>1, <3>1
  <2>3. Calm' => StillHere(stream..2)'
    <3>1. at >= at BY <1>0, PlaceFacts
    <3>2. Calm' => AllStill(list[at])' BY <1>2, <1>8, <3>1, <2>1
    <3>3. Calm' => \A k \in Streams : Still(This, k)' BY <2>1, <3>2 DEF AllStill, This
    <3>4. \A j \in DOMAIN StreamsOf(This)' : StreamsOf(This)'[j] \in Streams
      <4>1. SameAbsent(dev'[This], dev[This]) BY <1>3, <1>5 DEF SameAbsent
      <4>2. StreamsOf(This)' = StreamsOf(This) BY <1>2, <1>5, <2>1, <4>1, StreamsOfThis
      <4> QED BY <4>2, StreamsOfIs
    <3> QED BY <3>3, <3>4 DEF StillHere
  <2>4. StoppedInv' BY <2>1, <2>2, <2>3 DEF StoppedInv
  <2>5. OwnerInv' BY <1>0, <1>5, <1>7, <2>1, OwnerTo
  <2> QED BY <1>7, <2>1, <2>4, <2>5, LeavesTo
<1> QED BY <1>9, <1>10

\* The streams of a device: each once, the receive stream first.
LEMMA StreamsOfOrder ==
  ASSUME NEW d
  PROVE  /\ \A i, j \in DOMAIN StreamsOf(d) : StreamsOf(d)[i] = StreamsOf(d)[j] => i = j
         /\ \A j \in DOMAIN StreamsOf(d) : StreamsOf(d)[j] = "tx" => Missing(d, "rx") \/ (j = 2 /\ StreamsOf(d)[1] = "rx" /\ 1 \in DOMAIN StreamsOf(d))
<1> DEFINE r == IF Missing(d, "rx") THEN <<>> ELSE <<"rx">>
           t == IF Missing(d, "tx") THEN <<>> ELSE <<"tx">>
<1>0. StreamsOf(d) = r \o t BY DEF StreamsOf
<1>1. CASE Missing(d, "rx") /\ Missing(d, "tx")
  <2>1. StreamsOf(d) = <<>> BY <1>0, <1>1
  <2> QED BY <1>1, <2>1
<1>2. CASE Missing(d, "rx") /\ ~Missing(d, "tx")
  <2>1. StreamsOf(d) = <<"tx">> BY <1>0, <1>2
  <2> QED BY <1>2, <2>1
<1>3. CASE ~Missing(d, "rx") /\ Missing(d, "tx")
  <2>1. StreamsOf(d) = <<"rx">> BY <1>0, <1>3
  <2> QED BY <1>3, <2>1
<1>4. CASE ~Missing(d, "rx") /\ ~Missing(d, "tx")
  <2>0. StreamsOf(d) = <<"rx">> \o <<"tx">> BY <1>0, <1>4
  <2>1. Len(StreamsOf(d)) = 2 /\ DOMAIN StreamsOf(d) = 1..2 /\ StreamsOf(d)[1] = "rx" /\ StreamsOf(d)[2] = "tx" BY <2>0
  <2> QED BY <1>4, <2>1
<1> QED BY <1>1, <1>2, <1>3, <1>4

\* A device whose streams are all still is still.
LEMMA WholeStill ==
  ASSUME NEW d, NEW J, \A j \in DOMAIN StreamsOf(d) : j \in J /\ Still(d, StreamsOf(d)[j])
  PROVE  AllStill(d)
<1> SUFFICES ASSUME NEW k \in Streams PROVE Still(d, k) BY DEF AllStill
<1>1. CASE Missing(d, k) BY <1>1 DEF Missing, Still
<1>2. CASE ~Missing(d, k)
  <2>1. PICK j \in DOMAIN StreamsOf(d) : StreamsOf(d)[j] = k BY <1>2, StreamsOfIs
  <2> QED BY <2>1
<1> QED BY <1>1, <1>2

LEMMA StartStepLeaves ==
  ASSUME StreamsInv, LeavesInv, startStreamingOnDevice_start
  PROVE  LeavesInv'
<1> DEFINE ks == StreamsOf(This)
           k == ks[stream]
<1>0. OwnInv /\ PlaceInv /\ StoppedInv /\ OwnerInv /\ phase = "start" BY DEF StreamsInv, LeavesInv, startStreamingOnDevice_start
<1>1. PICK o \in startStreamByIndex(This, k) :
          /\ Apply(o)
          /\ CASE o.crash -> Go("crashed", at, 1)
               [] ~o.crash /\ o.ok -> IF stream = Len(ks) THEN Go("enable", at, 1) ELSE Go("start", at, stream + 1)
               [] OTHER -> Go("back", at, stream - 1)
  BY DEF startStreamingOnDevice_start
<1>2. This \in Devices /\ at \in DOMAIN list BY <1>0, PlaceFacts
<1>3. stream \in DOMAIN ks /\ DOMAIN ks = 1..Len(ks) /\ Len(ks) \in 0..2 BY <1>0, StreamsOfIs DEF PlaceInv
<1>4. k \in Streams /\ ~Missing(This, k) BY <1>3, StreamsOfIs
<1>5. Sound(o, This) /\ SameStreams(o, This) BY <1>0, <1>2, <1>4, StartStream DEF StartOK
<1>6. /\ Tidy(o, This) /\ OwnerSame(o, This)
      /\ ~o.odd /\ (Family[This] \in Taking => dev[This].proc[k] \in {None, Absent}) => Tells(o, This)
      /\ Family[This] \in Taking => OthersSame(o, This, k) /\ (~o.ok => o.x.proc[k] \in {None, dev[This].proc[k]})
      /\ ~o.odd /\ Agreed(dev[This], This) => Agreed(o.x, This)
  BY <1>0, <1>2, <1>4, <1>1, StreamLeaves DEF StartLeaves
<1>7. /\ list' = list /\ snoop' = snoop /\ dev'[This] = o.x /\ odd \subseteq odd' /\ (This \notin odd' => ~o.odd)
      /\ \A e \in Devices : e # This => dev'[e] = dev[e]
      /\ \A e \in Devices : e \notin Range(list) => dev'[e] = dev[e]
  BY <1>1, <1>5, Called
<1>8. SameAbsent(dev'[This], dev[This]) BY <1>5, <1>7 DEF SameStreams, SameAbsent
<1>9. undone' = undone BY DEF startStreamingOnDevice_start, Unchanged
<1>10. /\ at' = at
       /\ \/ phase' = "crashed"
          \/ phase' = "enable"
          \/ phase' = "start" /\ stream' = stream + 1
          \/ phase' = "back" /\ stream' = stream - 1 /\ ~o.ok
  <2>1. CASE o.crash BY <1>1, <2>1 DEF Go
  <2>2. CASE ~o.crash /\ o.ok BY <1>1, <2>2 DEF Go
  <2>3. CASE ~o.crash /\ ~o.ok BY <1>1, <2>3 DEF Go
  <2> QED BY <2>1, <2>2, <2>3
<1>11. Calm => StillHere(stream..2) BY <1>0 DEF StoppedInv
<1>12. (\A j \in DOMAIN ks : ks[j] \in Streams) /\ \A i, j \in DOMAIN ks : ks[i] = ks[j] => i = j
  BY StreamsOfIs, StreamsOfOrder
<1>13. This' = This /\ StreamsOf(This)' = ks BY <1>7, <1>8, <1>10, StreamsOfThis DEF This
<1>14. Calm => Still(This, k)
  <2>1. stream \in stream..2 BY <1>3
  <2> QED BY <1>3, <1>11, <2>1 DEF StillHere
<1> HIDE DEF ks, k
<1>15. ASSUME This \notin odd', IF Family[This] \in Renting THEN Clean' ELSE Calm', Calm' => Calm PROVE Tells(o, This)
  <2>1. ASSUME Family[This] \in Taking PROVE dev[This].proc[k] \in {None, Absent}
    <3>1. Calm BY <1>15, <2>1, TakingIs
    <3>2. This \in Regular BY <1>2, <1>7, <1>15, <2>1, TakingIs DEF Regular
    <3> QED BY <1>14, <2>1, <3>1, <3>2 DEF Still, Taking
  <2> QED BY <1>6, <1>7, <1>15, <2>1
<1>16. Calm' => Calm
  <2>1. faults \in Nat /\ faults' >= faults BY <1>1 DEF LeavesInv, Apply
  <2> QED BY <1>7, <1>9, <2>1 DEF Calm, Clean
<1>17. Clean' => ~o.odd BY <1>2, <1>7 DEF Clean
<1>18. Owned(dev[This], This) => Owned(o.x, This) BY <1>6 DEF Owned, OwnerSame
<1>19. BooksKept BY <1>1, <1>5, <1>6, <1>9, <1>15, <1>16, <1>17, <1>18, CallLeaves
<1>20. Calm' => \A i \in DOMAIN list' : i > at' => AllStill(list[i])'
  <2>1. Calm' => \A i \in DOMAIN list : i > at => AllStill(list[i]) BY <1>0, <1>16 DEF StoppedInv
  <2>2. \A i \in DOMAIN list : i > at => i # at BY <1>0, PlaceFacts
  <2> QED BY <1>0, <1>7, <1>10, <2>1, <2>2, OthersStill
\* The streams that come after this one, and this one if its start failed.
<1>21. ASSUME Calm', NEW j \in DOMAIN ks, j \in stream..2, j # stream \/ ~o.ok PROVE Still(This, ks[j])'
  <2>1. PICK d \in Devices : d = This BY <1>2
  <2>2. PICK h \in Streams : h = ks[j] BY <1>12
  <2>3. Still(d, h) BY <1>11, <1>16, <1>21, <2>1, <2>2 DEF StillHere, ks
  <2>4. Family[d] \in Taking => dev'[d].proc[h] \in {None, dev[d].proc[h]}
    <3>1. CASE j # stream
      <4>1. h # k BY <1>3, <1>12, <2>2, <3>1 DEF k
      <4> QED BY <1>6, <1>7, <2>1, <4>1 DEF OthersSame
    <3>2. CASE j = stream
      <4>1. h = k /\ ~o.ok BY <1>21, <2>2, <3>2 DEF k
      <4> QED BY <1>6, <1>7, <2>1, <4>1
    <3> QED BY <3>1, <3>2
  <2>5. Still(d, h)' BY <1>7, <2>3, <2>4 DEF Still, Regular, Taking
  <2>6. This' = d /\ ks[j]' = h BY <1>13, <2>1, <2>2 DEF ks
  <2> QED BY <2>5, <2>6 DEF Still
<1>22. ASSUME Calm', phase' = "start" PROVE StillHere(stream..2)'
  <2>1. \A j \in DOMAIN ks : j \in stream'..2 => j \in stream..2 /\ j # stream BY <1>3, <1>10, <1>22
  <2>2. \A j \in DOMAIN ks : j \in stream'..2 => Still(This, ks[j])' BY <1>21, <1>22, <2>1
  <2>3. ks' = ks BY <1>13 DEF ks
  <2> QED BY <1>13, <2>2, <2>3 DEF StillHere, ks
<1>23. ASSUME Calm', phase' = "back" PROVE StillHere((stream + 1)..2)'
  <2>1. ~o.ok /\ stream' + 1 = stream BY <1>3, <1>10, <1>23
  <2>2. \A j \in DOMAIN ks : j \in (stream' + 1)..2 => Still(This, ks[j])' BY <1>21, <1>23, <2>1
  <2>3. ks' = ks BY <1>13 DEF ks
  <2> QED BY <1>13, <2>2, <2>3 DEF StillHere, ks
<1>24. StoppedInv' BY <1>10, <1>20, <1>22, <1>23 DEF StoppedInv
<1>25. OwnerInv' BY <1>0, <1>7, <1>10, <1>19, OwnerTo
<1>26. BackInv' BY <1>3, <1>10 DEF BackInv
<1> QED BY <1>19, <1>24, <1>25, <1>26 DEF LeavesInv, BooksKept

\* A stream is stopped.
LEMMA StopCalled ==
  ASSUME StreamsInv, LeavesInv, stream \in DOMAIN StreamsOf(This), NEW o \in stopStreamByIndex(This, StreamsOf(This)[stream]),
         Apply(o), undone' = (IF o.ok THEN undone ELSE "stop"),
         Clean /\ Family[This] \in Taking /\ StreamsOf(This)[stream] = "tx" => dev[This].proc["rx"] \in {None, Absent}
  PROVE  /\ BooksKept /\ SameAbsent(dev'[This], dev[This])
         /\ list' = list /\ snoop' = snoop /\ odd \subseteq odd' /\ \A e \in Devices : e # This => dev'[e] = dev[e]
         /\ \A e \in Devices : e \notin Range(list) => dev'[e] = dev[e]
         /\ \A d, h : Calm' /\ d = This /\ h \in Streams /\ (h = StreamsOf(This)[stream] \/ Still(d, h)) => Still(d, h)'
<1> DEFINE k == StreamsOf(This)[stream]
<1>0. OwnInv /\ PlaceInv /\ AgreeInv BY DEF StreamsInv, LeavesInv
<1>1. This \in Devices BY <1>0, PlaceFacts
<1>2. k \in Streams /\ ~Missing(This, k) BY StreamsOfIs
<1>3. Sound(o, This) /\ SameStreams(o, This) BY <1>0, <1>1, <1>2, StopStream DEF StopOK
<1>4. StopLeaves(o, This, k) BY <1>0, <1>1, <1>2, StreamLeaves
<1> HIDE DEF k
<1>5. /\ Tidy(o, This) /\ OwnerSame(o, This) /\ Tells(o, This)
      /\ Family[This] \in Taking => OthersSame(o, This, k) /\ o.x.proc[k] \in {None, dev[This].proc[k]}
      /\ Family[This] \in Taking /\ This \notin odd /\ (o.ok \/ (~o.fault /\ Agreed(dev[This], This))) => o.x.proc[k] = None
      /\ This \notin odd /\ ~o.odd /\ Agreed(dev[This], This) /\ (k = "tx" => dev[This].proc["rx"] \in {None, Absent})
            => Agreed(o.x, This)
  BY <1>4 DEF StopLeaves
<1>6. /\ list' = list /\ snoop' = snoop /\ dev'[This] = o.x /\ odd \subseteq odd' /\ (This \notin odd' => ~o.odd)
      /\ \A e \in Devices : e # This => dev'[e] = dev[e]
      /\ \A e \in Devices : e \notin Range(list) => dev'[e] = dev[e]
  BY <1>3, Called
<1>7. faults \in Nat /\ (faults' = 0 => faults = 0 /\ ~o.fault) BY DEF LeavesInv, Apply
<1>8. Clean' => Clean /\ ~o.odd /\ ~o.fault /\ This \notin odd BY <1>1, <1>6, <1>7 DEF Clean
<1>9. ASSUME Clean', Agreed(dev[This], This) PROVE Agreed(o.x, This)
  <2>1. CASE Family[This] \in Taking
    <3>1. k = "tx" => dev[This].proc["rx"] \in {None, Absent} BY <1>8, <1>9, <2>1 DEF k
    <3> QED BY <1>5, <1>8, <1>9, <3>1
  <2>2. CASE Family[This] \notin Taking BY <2>2 DEF Agreed, Taking
  <2> QED BY <2>1, <2>2
<1>10. Owned(dev[This], This) => Owned(o.x, This) BY <1>5 DEF Owned, OwnerSame
<1>11. undone' = "all" => undone = "all" /\ o.ok OBVIOUS
<1>12. BooksKept BY <1>3, <1>5, <1>9, <1>10, <1>11, CallLeaves
<1>13. ASSUME Calm', NEW d, NEW h \in Streams, d = This, h = k \/ Still(d, h) PROVE Still(d, h)'
  <2> SUFFICES ASSUME d \in Regular', Family[d] \in Taking PROVE dev'[d].proc[h] \in {None, Absent}
    BY DEF Still, Taking
  <2>1. d \in Regular /\ d \notin odd BY <1>6 DEF Regular
  <2>2. CASE h = k
    <3>1. o.ok \/ (~o.fault /\ Agreed(dev[This], This))
      <4>1. CASE undone' = "all" BY <1>11, <4>1
      <4>2. CASE Clean' BY <1>0, <1>1, <1>8, <4>2, AgreedNow
      <4> QED BY <1>13, <4>1, <4>2 DEF Calm
    <3> QED BY <1>5, <1>6, <1>13, <2>1, <2>2, <3>1
  <2>3. CASE h # k
    <3>1. dev[d].proc[h] \in {None, Absent} BY <1>13, <2>1, <2>3 DEF Still, Taking
    <3> QED BY <1>5, <1>6, <1>13, <2>3, <3>1 DEF OthersSame
  <2> QED BY <2>2, <2>3
<1>14. SameAbsent(dev'[This], dev[This]) BY <1>3, <1>6 DEF SameStreams, SameAbsent
<1> QED BY <1>6, <1>12, <1>13, <1>14 DEF k

LEMMA BackStepLeaves ==
  ASSUME StreamsInv, StreamsInv', LeavesInv, startStreamingOnDevice_back
  PROVE  LeavesInv'
<1> DEFINE ks == StreamsOf(This)
<1>0. OwnInv /\ PlaceInv /\ StoppedInv /\ OwnerInv /\ BackInv /\ phase = "back"
  BY DEF StreamsInv, LeavesInv, startStreamingOnDevice_back
<1>1. This \in Devices /\ This = list[at] /\ at \in DOMAIN list /\ at \in 1..(Len(list) + 1) BY <1>0, PlaceFacts DEF This
<1>2. stream \in 0..Len(ks) /\ DOMAIN ks = 1..Len(ks) /\ Len(ks) \in 0..2 /\ stream < 2 BY <1>0, StreamsOfIs DEF PlaceInv, BackInv
<1>3. Calm => (\A i \in DOMAIN list : i > at => AllStill(list[i])) /\ StillHere((stream + 1)..2) BY <1>0 DEF StoppedInv
<1>4. CASE stream = 0
  <2>1. /\ Undo(at) /\ SameOwn /\ list' = list /\ snoop' = snoop /\ odd' = odd /\ dev' = dev /\ faults' = faults /\ undone' = undone
    BY <1>4 DEF startStreamingOnDevice_back, SameOwn
  <2>2. BooksKept BY <2>1, ManagerLeaves
  <2>3. ASSUME Calm', NEW i \in DOMAIN list, i >= at PROVE AllStill(list[i])'
    <3>1. AllStill(list[i])
      <4>1. CASE i = at
        <5>1. \A j \in DOMAIN ks : j \in (stream + 1)..2 BY <1>2, <1>4
        <5>2. StillHere((stream + 1)..2) BY <1>3, <2>2, <2>3 DEF BooksKept
        <5>3. \A j \in DOMAIN StreamsOf(This) : j \in 1..2 /\ Still(This, StreamsOf(This)[j]) BY <1>2, <5>1, <5>2 DEF StillHere
        <5>4. AllStill(This)
          <6>1. PICK d : d = This OBVIOUS
          <6>2. \A j \in DOMAIN StreamsOf(d) : j \in 1..2 /\ Still(d, StreamsOf(d)[j]) BY <5>3, <6>1
          <6> QED BY <6>1, <6>2, WholeStill
        <5> QED BY <1>1, <4>1, <5>4
      <4>2. CASE i # at
        <5>1. i > at BY <1>0, <2>3, <4>2, PlaceFacts
        <5> QED BY <1>3, <2>2, <2>3, <5>1 DEF BooksKept
      <4> QED BY <4>1, <4>2
    <3>2. PICK d : d = list[i] OBVIOUS
    <3>3. AllStill(d)' BY <2>1, <3>1, <3>2, AllStillKept
    <3>4. list[i]' = d BY <2>1, <3>2
    <3> QED BY <3>3, <3>4 DEF AllStill, Still
  <2>4. StoppedInv' /\ phase' \in {"ready", "undo"} BY <1>0, <1>1, <2>1, <2>3, UndoStopped
  <2>5. OwnerInv' BY <1>0, <2>1, <2>2, <2>4, OwnerTo
  <2> QED BY <2>2, <2>4, <2>5, LeavesTo
<1>5. CASE stream # 0
  <2>1. PICK o \in stopStreamByIndex(This, ks[stream]) : Apply(o) /\ undone' = (IF o.ok THEN undone ELSE "stop")
    BY <1>5 DEF startStreamingOnDevice_back
  <2>2. phase' = "back" /\ at' = at /\ stream' = stream - 1 BY <1>5 DEF startStreamingOnDevice_back, Go
  <2>3. stream = 1 /\ stream \in DOMAIN ks BY <1>2, <1>5
  <2>4. ASSUME Family[This] \in Taking, ks[stream] = "tx" PROVE dev[This].proc["rx"] \in {None, Absent}
    <3>1. Missing(This, "rx") BY <2>3, <2>4, StreamsOfOrder
    <3> QED BY <3>1 DEF Missing
  <2>5. /\ BooksKept /\ SameAbsent(dev'[This], dev[This])
        /\ list' = list /\ snoop' = snoop /\ odd \subseteq odd' /\ \A e \in Devices : e # This => dev'[e] = dev[e]
        /\ \A e \in Devices : e \notin Range(list) => dev'[e] = dev[e]
        /\ \A d, h : Calm' /\ d = This /\ h \in Streams /\ (h = ks[stream] \/ Still(d, h)) => Still(d, h)'
    BY <2>1, <2>3, <2>4, StopCalled
  <2>6. This' = This /\ ks' = ks BY <2>2, <2>5, StreamsOfThis DEF This
  <2>7. \A j \in DOMAIN ks : ks[j] \in Streams BY StreamsOfIs
  <2>8. ASSUME Calm', NEW j \in DOMAIN ks PROVE Still(This, ks[j])'
    <3>1. PICK d : d = This OBVIOUS
    <3>2. PICK h \in Streams : h = ks[j] BY <2>7
    <3>3. Calm /\ (j = stream \/ j \in (stream + 1)..2) BY <1>2, <2>3, <2>5, <2>8 DEF BooksKept
    <3>4. h = ks[stream] \/ Still(d, h) BY <1>3, <3>1, <3>2, <3>3 DEF StillHere
    <3>5. Still(d, h)' BY <2>5, <2>8, <3>1, <3>4
    <3>6. This' = d /\ ks[j]' = h BY <2>6, <3>1, <3>2
    <3> QED BY <3>5, <3>6 DEF Still
  <2>9. Calm' => StillHere((stream + 1)..2)' BY <2>6, <2>8 DEF StillHere
  <2>10. Calm' => \A i \in DOMAIN list' : i > at' => AllStill(list[i])'
    <3>1. \A i \in DOMAIN list : i > at => i # at BY <1>0, PlaceFacts
    <3> QED BY <1>0, <1>3, <2>2, <2>5, <3>1, OthersStill DEF BooksKept
  <2>11. StoppedInv' BY <2>2, <2>9, <2>10 DEF StoppedInv
  <2>12. OwnerInv' BY <1>0, <2>2, <2>5, OwnerTo
  <2>13. BackInv' BY <1>2, <2>2 DEF BackInv
  <2> QED BY <2>5, <2>11, <2>12, <2>13 DEF LeavesInv, BooksKept
<1> QED BY <1>4, <1>5

LEMMA EnableStepLeaves ==
  ASSUME StreamsInv, StreamsInv', LeavesInv, startStreamingOnDevice_enable
  PROVE  LeavesInv'
<1>0. OwnInv /\ PlaceInv /\ StoppedInv /\ OwnerInv /\ phase = "enable" BY DEF StreamsInv, LeavesInv, startStreamingOnDevice_enable
<1>1. PICK o \in enableStreaming(This) :
          /\ Apply(o) /\ undone' = (IF o.ok \/ undone = "stop" THEN undone ELSE "enable")
          /\ IF o.ok THEN NextDevice("reset", "spm") /\ UNCHANGED limit ELSE Undo(at)
  BY DEF startStreamingOnDevice_enable
<1>2. This \in Devices /\ This = list[at] /\ at \in DOMAIN list /\ at \in 1..(Len(list) + 1) BY <1>0, PlaceFacts DEF This
<1>3. Sound(o, This) /\ Tidy(o, This) /\ Tells(o, This) /\ o.x = dev[This] /\ (~o.ok => o.fault)
  BY <1>0, <1>2, EnableSound, EnableLeaves
<1>4. /\ list' = list /\ snoop' = snoop /\ odd \subseteq odd' /\ dev'[This] = o.x /\ \A e \in Devices : e # This => dev'[e] = dev[e]
      /\ \A e \in Devices : e \notin Range(list) => dev'[e] = dev[e]
  BY <1>1, <1>3, Called
<1>5. undone' = "all" => undone = "all" /\ o.ok BY <1>1
<1>6. BooksKept /\ (faults' = 0 => ~o.fault) BY <1>1, <1>3, <1>5, CallLeaves
<1>7. CASE ~o.ok
  <2>1. ~Calm' BY <1>3, <1>5, <1>6, <1>7 DEF Calm, Clean
  <2>2. StoppedInv' /\ phase' \in {"ready", "undo"} BY <1>0, <1>1, <1>2, <1>4, <1>7, <2>1, UndoStopped
  <2>3. OwnerInv' BY <1>0, <1>4, <1>6, <2>2, OwnerTo
  <2> QED BY <1>6, <2>2, <2>3, LeavesTo
<1>8. CASE o.ok
  <2>1. \/ phase' = "spm"
        \/ phase' = "reset" /\ at' = at + 1 /\ at' \in DOMAIN list
    BY <1>0, <1>1, <1>8, NextIs
  <2>2. ASSUME Calm', NEW i \in DOMAIN list, i > at PROVE AllStill(list[i])'
    <3>1. i # at BY <1>0, <2>2, PlaceFacts
    <3> QED BY <1>0, <1>4, <1>6, <2>2, <3>1, OthersStill DEF StoppedInv, BooksKept
  <2>3. ASSUME phase' = "reset" PROVE StoppedInv'
    <3>1. at' \in DOMAIN list /\ at' > at /\ \A i \in DOMAIN list : i > at' => i > at BY <1>0, <2>1, <2>3, PlaceFacts
    <3>2. PICK n \in DOMAIN list : n = at' BY <3>1
    <3>3. Calm' => AllStill(list[n])' BY <2>2, <3>1, <3>2
    <3>4. This' = list[n]' BY <3>2 DEF This
    <3>5. Calm' => AllStill(This)' BY <3>3, <3>4 DEF AllStill, Still
    <3>6. Calm' => \A i \in DOMAIN list' : i > at' => AllStill(list[i])' BY <1>4, <2>2, <3>1
    <3> QED BY <2>3, <3>5, <3>6 DEF StoppedInv
  <2>4. StoppedInv' BY <2>1, <2>3 DEF StoppedInv
  <2>5. OwnerInv' BY <1>0, <1>4, <1>6, <2>1, OwnerTo
  <2> QED BY <1>6, <2>1, <2>4, <2>5, LeavesTo
<1> QED BY <1>7, <1>8

LEMMA SpmLeaves ==
  ASSUME StreamsInv, StreamsInv', LeavesInv, startStreaming_spm
  PROVE  LeavesInv'
<1>0. PlaceInv /\ OwnerInv BY DEF StreamsInv, LeavesInv
<1>1. SameOwn /\ list' = list /\ snoop' = snoop /\ dev' = dev /\ undone' = undone BY DEF startStreaming_spm, SameOwn
<1>2. /\ faults' = faults \/ faults' = faults + 1
      /\ phase' = "running" \/ Undo(Len(list) + 1)
  BY DEF startStreaming_spm, Go
<1>3. BooksKept BY <1>1, <1>2, ManagerLeaves
<1>4. StoppedInv' /\ phase' \in {"running", "ready", "undo"}
  <2>1. CASE phase' = "running" BY <2>1 DEF StoppedInv
  <2>2. CASE Undo(Len(list) + 1)
    <3>1. Len(list) + 1 \in 1..(Len(list) + 1) /\ \A i \in DOMAIN list : ~(i >= Len(list) + 1) BY <1>0, PlaceFacts
    <3> QED BY <1>0, <1>1, <2>2, <3>1, UndoStopped
  <2> QED BY <1>2, <2>1, <2>2
<1>5. OwnerInv' BY <1>0, <1>1, <1>3, <1>4, OwnerTo
<1> QED BY <1>3, <1>4, <1>5, LeavesTo

LEMMA StopStepLeaves ==
  ASSUME StreamsInv, StreamsInv', LeavesInv, stopStreamingOnDevice
  PROVE  LeavesInv'
<1> DEFINE ks == StreamsOf(This)
<1>0. OwnInv /\ PlaceInv /\ StoppedInv /\ OwnerInv /\ phase \in {"undo", "stop"}
  BY DEF StreamsInv, LeavesInv, stopStreamingOnDevice
<1>1. This \in Devices /\ This = list[at] /\ at \in DOMAIN list /\ at < limit BY <1>0, PlaceFacts DEF This, PlaceInv
<1>2. stream \in 0..Len(ks) /\ DOMAIN ks = 1..Len(ks) /\ Len(ks) \in 0..2 BY <1>0, StreamsOfIs DEF PlaceInv
<1>3. PICK o \in (IF stream = 0 THEN disableStreaming(This) ELSE stopStreamByIndex(This, ks[stream])) :
          Apply(o) /\ undone' = (IF o.ok \/ stream = 0 THEN undone ELSE "stop")
  BY DEF stopStreamingOnDevice
<1>4. Calm => (\A i \in DOMAIN list : i < at \/ i >= limit => AllStill(list[i])) /\ StillHere(1..(stream - 1))
  BY <1>0 DEF StoppedInv
<1>5. /\ BooksKept /\ SameAbsent(dev'[This], dev[This])
      /\ list' = list /\ snoop' = snoop /\ odd \subseteq odd' /\ \A e \in Devices : e # This => dev'[e] = dev[e]
      /\ \A e \in Devices : e \notin Range(list) => dev'[e] = dev[e]
      /\ \A d, h : Calm' /\ d = This /\ h \in Streams /\ ((stream # 0 /\ h = ks[stream]) \/ Still(d, h)) => Still(d, h)'
  <2>1. CASE stream = 0
    <3>1. o \in enableStreaming(This) BY <1>3, <2>1 DEF disableStreaming
    <3>2. Sound(o, This) /\ Tidy(o, This) /\ Tells(o, This) /\ o.x = dev[This]
      BY <1>0, <1>1, <3>1, EnableSound, EnableLeaves
    <3>3. /\ list' = list /\ snoop' = snoop /\ odd \subseteq odd' /\ dev'[This] = o.x /\ \A e \in Devices : e # This => dev'[e] = dev[e]
          /\ \A e \in Devices : e \notin Range(list) => dev'[e] = dev[e]
      BY <1>3, <3>2, Called
    <3>4. undone' = undone BY <1>3, <2>1
    <3>5. BooksKept BY <1>3, <3>2, <3>4, CallLeaves
    <3>6. \A d, h : d = This /\ Still(d, h) => Still(d, h)' BY <3>2, <3>3, StillKept
    <3>7. SameAbsent(dev'[This], dev[This]) BY <3>2, <3>3 DEF SameAbsent
    <3> QED BY <2>1, <3>3, <3>5, <3>6, <3>7
  <2>2. CASE stream # 0
    <3>1. stream \in DOMAIN ks /\ o \in stopStreamByIndex(This, ks[stream]) /\ undone' = (IF o.ok THEN undone ELSE "stop")
      BY <1>2, <1>3, <2>2
    <3>2. ASSUME Clean, Family[This] \in Taking, ks[stream] = "tx" PROVE dev[This].proc["rx"] \in {None, Absent}
      <4>1. CASE Missing(This, "rx") BY <4>1 DEF Missing
      <4>2. CASE ~Missing(This, "rx")
        <5>1. stream = 2 /\ ks[1] = "rx" /\ 1 \in DOMAIN ks BY <3>1, <3>2, <4>2, StreamsOfOrder
        <5>2. StillHere(1..(stream - 1)) BY <1>4, <3>2 DEF Calm
        <5>3. 1 \in 1..(stream - 1) BY <5>1
        <5>4. Still(This, "rx") BY <5>1, <5>2, <5>3 DEF StillHere
        <5>5. This \in Regular BY <1>1, <3>2, TakingIs DEF Regular, Clean
        <5> QED BY <3>2, <5>4, <5>5 DEF Still, Taking
      <4> QED BY <4>1, <4>2
    <3>3. /\ BooksKept /\ SameAbsent(dev'[This], dev[This])
          /\ list' = list /\ snoop' = snoop /\ odd \subseteq odd' /\ \A e \in Devices : e # This => dev'[e] = dev[e]
          /\ \A e \in Devices : e \notin Range(list) => dev'[e] = dev[e]
          /\ \A d, h : Calm' /\ d = This /\ h \in Streams /\ (h = ks[stream] \/ Still(d, h)) => Still(d, h)'
      BY <1>3, <3>1, <3>2, StopCalled
    <3> QED BY <2>2, <3>3
  <2> QED BY <2>1, <2>2
\* Its streams up to this one are still; after the last one the device is.
<1>6. ASSUME Calm', NEW d, d = This, NEW j \in DOMAIN ks, j <= stream PROVE Still(d, ks[j]) \/ (stream # 0 /\ ks[j] = ks[stream])
  <2>1. j = stream \/ j \in 1..(stream - 1) BY <1>2, <1>6
  <2>2. StillHere(1..(stream - 1)) BY <1>4, <1>5, <1>6 DEF BooksKept
  <2>3. j # 0 BY <1>2
  <2> QED BY <1>6, <2>1, <2>2, <2>3 DEF StillHere
<1>7. ASSUME Calm', NEW d, d = This, NEW h \in Streams, NEW j \in DOMAIN ks, h = ks[j], j <= stream PROVE Still(d, h)'
  BY <1>5, <1>6, <1>7
<1>8. ASSUME Calm', stream = Len(ks), NEW d, d = This PROVE AllStill(d)'
  <2> SUFFICES ASSUME NEW h \in Streams PROVE Still(d, h)' BY DEF AllStill
  <2>1. CASE Missing(d, h)
    <3>1. dev'[d].proc[h] = Absent BY <1>5, <1>8, <2>1 DEF SameAbsent, Missing
    <3> QED BY <3>1 DEF Still
  <2>2. CASE ~Missing(d, h)
    <3>1. PICK j \in DOMAIN ks : h = ks[j] BY <1>8, <2>2, StreamsOfIs
    <3>2. j <= stream BY <1>2, <1>8
    <3> QED BY <1>7, <1>8, <3>1, <3>2
  <2> QED BY <2>1, <2>2
<1>9. ASSUME Calm', NEW i \in DOMAIN list, i < at \/ i >= limit \/ (i = at /\ stream = Len(ks)) PROVE AllStill(list[i])'
  <2>1. CASE i = at
    <3>1. stream = Len(ks) BY <1>0, <1>1, <1>9, <2>1, PlaceFacts
    <3>2. PICK d : d = This OBVIOUS
    <3>3. AllStill(d)' BY <1>8, <1>9, <3>1, <3>2
    <3>4. list[i]' = d BY <1>1, <1>5, <2>1, <3>2
    <3> QED BY <3>3, <3>4 DEF AllStill, Still
  <2>2. CASE i # at
    <3>1. AllStill(list[i]) BY <1>4, <1>5, <1>9, <2>2 DEF BooksKept
    <3> QED BY <1>0, <1>5, <2>2, <3>1, OthersStill
  <2> QED BY <2>1, <2>2
<1>10. /\ limit' = limit
       /\ \/ phase' = phase /\ at' = at /\ stream' = stream + 1
          \/ phase' = phase /\ at' = at + 1 /\ stream' = 0 /\ stream = Len(ks)
          \/ phase' = "ready" /\ at' = 1 /\ stream = Len(ks) /\ ~(at + 1 < limit)
  <2>1. CASE stream < Len(ks) BY <1>2, <2>1 DEF stopStreamingOnDevice, Go
  <2>2. CASE stream = Len(ks) /\ at + 1 < limit BY <1>2, <2>2 DEF stopStreamingOnDevice, Go
  <2>3. CASE stream = Len(ks) /\ ~(at + 1 < limit) BY <1>2, <2>3 DEF stopStreamingOnDevice, Go
  <2>4. stream < Len(ks) \/ stream = Len(ks)
    <3>1. PICK n \in 0..2 : n = Len(ks) BY <1>2
    <3>2. stream \in 0..n BY <1>2, <3>1
    <3>3. stream < n \/ stream = n BY <3>2
    <3> QED BY <3>1, <3>3
  <2> QED BY <2>1, <2>2, <2>3, <2>4
<1>11. \A i \in DOMAIN list : i \in Nat /\ at \in Nat /\ limit \in Nat BY <1>0, PlaceFacts
<1>12. StoppedInv'
  <2>1. CASE phase' = phase /\ at' = at /\ stream' = stream + 1
    <3>1. Calm' => \A i \in DOMAIN list' : i < at' \/ i >= limit' => AllStill(list[i])' BY <1>5, <1>9, <1>10, <2>1
    <3>2. This' = This /\ ks' = ks BY <1>5, <2>1, StreamsOfThis DEF This
    <3>3. ASSUME Calm', NEW j \in DOMAIN ks, j \in 1..(stream' - 1) PROVE Still(This, ks[j])'
      <4>1. PICK d : d = This OBVIOUS
      <4>2. PICK h \in Streams : h = ks[j] BY StreamsOfIs
      <4>3. j <= stream BY <1>2, <2>1, <3>3
      <4>4. Still(d, h)' BY <1>7, <3>3, <4>1, <4>2, <4>3
      <4>5. This' = d /\ ks[j]' = h BY <3>2, <4>1, <4>2
      <4> QED BY <4>4, <4>5 DEF Still
    <3>4. Calm' => StillHere(1..(stream - 1))' BY <3>2, <3>3 DEF StillHere
    <3> QED BY <1>0, <2>1, <3>1, <3>4 DEF StoppedInv
  <2>2. CASE phase' = phase /\ at' = at + 1 /\ stream' = 0 /\ stream = Len(ks)
    <3>1. \A i \in DOMAIN list : i < at' => i < at \/ i = at BY <1>11, <2>2
    <3>2. Calm' => \A i \in DOMAIN list' : i < at' \/ i >= limit' => AllStill(list[i])' BY <1>5, <1>9, <1>10, <2>2, <3>1
    <3>3. StillHere(1..(stream - 1))'
      <4>1. 1..(stream' - 1) = {} BY <2>2
      <4> QED BY <4>1 DEF StillHere
    <3> QED BY <1>0, <2>2, <3>2, <3>3 DEF StoppedInv
  <2>3. CASE phase' = "ready" /\ stream = Len(ks) /\ ~(at + 1 < limit)
    <3>1. \A i \in DOMAIN list : i < at \/ i = at \/ i >= limit BY <1>11, <2>3
    <3>2. Calm' => \A i \in DOMAIN list : AllStill(list[i])' BY <1>9, <2>3, <3>1
    <3>3. Calm' => \A d \in Devices : AllStill(d)' BY <1>5, <3>2, EverybodyStill DEF StreamsInv
    <3> QED BY <2>3, <3>3, StoppedRest DEF Resting
  <2> QED BY <1>10, <2>1, <2>2, <2>3
<1>13. phase' \in {"ready", "undo", "stop"} BY <1>0, <1>10
<1>14. OwnerInv' BY <1>0, <1>5, <1>13, OwnerTo
<1> QED BY <1>5, <1>12, <1>13, <1>14, LeavesTo

LEMMA StopAllLeaves ==
  ASSUME StreamsInv, LeavesInv, ffado_streaming_stop
  PROVE  LeavesInv'
<1>0. PlaceInv /\ OwnerInv BY DEF StreamsInv, LeavesInv
<1>1. /\ SameOwn /\ list' = list /\ snoop' = snoop /\ dev' = dev /\ undone' = undone /\ faults' = faults
      /\ limit' = Len(list) + 1 /\ phase' = "stop" /\ at' = 1 /\ stream' = 0
  BY DEF ffado_streaming_stop, SameOwn, Go
<1>2. BooksKept BY <1>1, ManagerLeaves
<1>3. StoppedInv'
  <2>1. \A i \in DOMAIN list' : ~(i < at' \/ i >= limit') BY <1>0, <1>1, PlaceFacts
  <2>2. StillHere(1..(stream - 1))'
    <3>1. 1..(stream' - 1) = {} BY <1>1
    <3> QED BY <3>1 DEF StillHere
  <2> QED BY <1>1, <2>1, <2>2 DEF StoppedInv
<1>4. OwnerInv' BY <1>0, <1>1, <1>2, OwnerTo
<1> QED BY <1>1, <1>2, <1>3, <1>4, LeavesTo

LEMMA FinishLeaves ==
  ASSUME StreamsInv, LeavesInv, ffado_streaming_finish
  PROVE  LeavesInv'
<1>0. PlaceInv /\ OwnerInv /\ StoppedInv /\ phase = "ready" BY DEF StreamsInv, LeavesInv, ffado_streaming_finish
<1>1. /\ SameOwn /\ list' = list /\ snoop' = snoop /\ dev' = dev /\ odd' = odd /\ undone' = undone /\ faults' = faults
      /\ phase' = "unlock" /\ at' = 1
  BY DEF ffado_streaming_finish, SameOwn, Go, Unchanged
<1>2. BooksKept BY <1>1, ManagerLeaves
<1>3. StoppedInv'
  <2>1. Calm' => \A d \in Devices : AllStill(d)' BY <1>0, <1>1, <1>2, RestStill, AllStillKept DEF Resting, BooksKept
  <2> QED BY <1>1, <2>1, StoppedRest DEF Resting
<1>4. OwnerInv'
  <2>1. \A i \in DOMAIN list : ~(i < 1) BY <1>0, PlaceFacts
  <2> QED BY <1>0, <1>1, <2>1 DEF OwnerInv
<1> QED BY <1>1, <1>2, <1>3, <1>4, LeavesTo

LEMMA UnlockStepLeaves ==
  ASSUME StreamsInv, LeavesInv, finishStreaming
  PROVE  LeavesInv'
<1>0. OwnInv /\ PlaceInv /\ StoppedInv /\ OwnerInv /\ phase = "unlock" BY DEF StreamsInv, LeavesInv, finishStreaming
<1>1. PICK o \in unlock(This) : Apply(o) BY DEF finishStreaming
<1>2. This \in Devices /\ This = list[at] /\ at \in DOMAIN list BY <1>0, PlaceFacts DEF This
<1>3. Sound(o, This) BY <1>0, <1>2, UnlockSound
<1>4. /\ Tidy(o, This) /\ Tells(o, This) /\ (Agreed(dev[This], This) => Agreed(o.x, This)) /\ o.x.proc = dev[This].proc
      /\ Owned(dev[This], This) => Owned(o.x, This) /\ (~o.fault => ~o.x.owner)
  BY <1>0, <1>2, UnlockLeaves
<1>5. undone' = undone /\ NextDevice("unlock", "delete") BY DEF finishStreaming, Unchanged
<1>6. BooksKept /\ (faults' = 0 => ~o.fault) BY <1>1, <1>3, <1>4, <1>5, CallLeaves
<1>7. /\ list' = list /\ snoop' = snoop /\ dev'[This] = o.x /\ odd \subseteq odd' /\ \A e \in Devices : e # This => dev'[e] = dev[e]
      /\ \A e \in Devices : e \notin Range(list) => dev'[e] = dev[e]
  BY <1>1, <1>3, Called
<1>8. \/ at = Len(list) /\ phase' = "delete" /\ at' = 1
      \/ phase' = "unlock" /\ at' = at + 1
  BY <1>0, <1>5, NextIs
<1>9. StoppedInv'
  <2>1. \A e \in Devices : dev'[e].proc = dev[e].proc BY <1>4, <1>7
  <2>2. Calm' => \A d \in Devices : AllStill(d)' BY <1>0, <1>6, <1>7, <2>1, RestStill, AllStillKept DEF Resting, BooksKept
  <2> QED BY <1>8, <2>2, StoppedRest DEF Resting
<1>10. ASSUME faults' = 0, NEW i \in DOMAIN list, i <= at PROVE ~dev'[list[i]].owner
  <2>1. faults = 0 /\ ~o.fault BY <1>6, <1>10 DEF BooksKept
  <2>2. CASE i = at
    <3>1. Owned(dev[This], This) BY <1>0, <1>2, <2>1, OwnedNow
    <3> QED BY <1>2, <1>4, <1>7, <2>1, <2>2, <3>1
  <2>3. CASE i # at
    <3>1. i < at /\ list[i] # This /\ list[i] \in Devices BY <1>0, <1>2, <1>10, <2>3, PlaceFacts
    <3> QED BY <1>0, <1>7, <2>1, <3>1 DEF OwnerInv
  <2> QED BY <2>2, <2>3
<1>11. OwnerInv'
  <2>1. \A i \in DOMAIN list : /\ ~(i < 1) /\ (phase' = "delete" => i <= at)
                               /\ phase' = "unlock" /\ i < at' => i <= at
    BY <1>0, <1>8, PlaceFacts
  <2>2. faults' = 0 => \A d \in Devices : Owned(dev'[d], d) BY <1>6 DEF BooksKept
  <2>3. faults' = 0 => \A d \in Devices : d \notin Range(list) => ~dev'[d].notifier BY <1>0, <1>6, <1>7 DEF OwnerInv, BooksKept
  <2> QED BY <1>7, <1>8, <1>10, <2>1, <2>2, <2>3 DEF OwnerInv, Owned
<1> QED BY <1>6, <1>8, <1>9, <1>11, LeavesTo

LEMMA DeleteStepLeaves ==
  ASSUME StreamsInv, LeavesInv, DeleteDevice
  PROVE  LeavesInv'
<1>0. OwnInv /\ PlaceInv /\ StoppedInv /\ OwnerInv /\ phase = "delete" BY DEF StreamsInv, LeavesInv, DeleteDevice
<1>1. PICK o \in delete(This) : Apply(o) BY DEF DeleteDevice
<1>2. This \in Devices /\ This = list[at] /\ at \in DOMAIN list BY <1>0, PlaceFacts DEF This
<1>3. Sound(o, This) /\ IsNew(o.x) BY <1>0, <1>2, DeleteSound
<1>4. /\ Tidy(o, This) /\ ~o.x.notifier /\ (~dev[This].owner => ~o.x.owner)
      /\ This \notin odd /\ (Family[This] \in Renting \/ NoNumbers(This)) => Tells(o, This)
  BY <1>0, <1>2, DeleteLeaves
<1>5. undone' = undone /\ NextDevice("delete", "none") BY DEF DeleteDevice, Unchanged
<1>6. /\ list' = list /\ snoop' = snoop /\ dev'[This] = o.x /\ odd \subseteq odd' /\ \A e \in Devices : e # This => dev'[e] = dev[e]
      /\ \A e \in Devices : e \notin Range(list) => dev'[e] = dev[e]
  BY <1>1, <1>3, Called
<1>7. faults \in Nat /\ (faults' = 0 => faults = 0) /\ (Calm' => Calm)
  <2>1. faults \in Nat /\ (faults' = 0 => faults = 0) BY <1>1 DEF LeavesInv, Apply
  <2> QED BY <1>5, <1>6, <2>1 DEF Calm, Clean
<1>8. ASSUME This \notin odd', IF Family[This] \in Renting THEN Clean' ELSE Calm' PROVE Tells(o, This)
  <2>1. CASE Family[This] \in Renting BY <1>4, <1>6, <1>8, <2>1
  <2>2. CASE Family[This] \notin Renting
    <3>1. AllStill(This) BY <1>0, <1>2, <1>7, <1>8, <2>2, RestStill DEF Resting
    <3>2. NoNumbers(This) BY <1>2, <1>6, <1>8, <2>2, <3>1, StillNumbers
    <3> QED BY <1>4, <1>6, <1>8, <3>2
  <2> QED BY <2>1, <2>2
<1>9. Agreed(o.x, This) BY <1>3 DEF Agreed, IsNew
<1>10. faults' = 0 => ~dev[This].owner /\ ~o.x.owner BY <1>0, <1>2, <1>4, <1>7 DEF OwnerInv
<1>11. BooksKept BY <1>1, <1>3, <1>4, <1>5, <1>8, <1>9, <1>10, CallLeaves DEF Owned
<1>12. \/ at = Len(list) /\ phase' = "none"
       \/ phase' = "delete" /\ at' = at + 1
  BY <1>0, <1>5, NextIs
<1>13. StoppedInv'
  <2>1. ASSUME Calm', NEW d \in Devices PROVE AllStill(d)'
    <3>1. CASE d = This BY <1>3, <1>6, <3>1, EmptyStill
    <3>2. CASE d # This
      <4>1. AllStill(d) BY <1>0, <1>7, <2>1, RestStill DEF Resting
      <4> QED BY <1>6, <3>2, <4>1, AllStillKept
    <3> QED BY <3>1, <3>2
  <2> QED BY <1>12, <2>1, StoppedRest DEF Resting
<1>14. ASSUME faults' = 0, NEW i \in DOMAIN list PROVE ~dev'[list[i]].owner /\ (i <= at => ~dev'[list[i]].notifier)
  <2>1. CASE i = at BY <1>2, <1>4, <1>6, <1>10, <1>14, <2>1
  <2>2. CASE i # at
    <3>1. (i <= at => i < at) /\ list[i] # This /\ list[i] \in Devices BY <1>0, <1>2, <2>2, PlaceFacts
    <3>2. ~dev[list[i]].owner /\ (i < at => ~dev[list[i]].notifier) BY <1>0, <1>7, <1>14 DEF OwnerInv
    <3> QED BY <1>6, <3>1, <3>2
  <2> QED BY <2>1, <2>2
<1>15. ASSUME faults' = 0, NEW d \in Devices, d \notin Range(list) PROVE ~dev'[d].notifier
  BY <1>0, <1>6, <1>7, <1>15 DEF OwnerInv
<1>16. OwnerInv'
  <2>1. \A i \in DOMAIN list : /\ phase' = "none" => i <= at
                               /\ phase' = "delete" /\ i < at' => i <= at
    BY <1>0, <1>12, PlaceFacts
  <2>2. faults' = 0 => \A d \in Devices : Owned(dev'[d], d) BY <1>11 DEF BooksKept
  <2>3. faults' = 0 /\ phase' = "none" => \A d \in Devices : ~dev'[d].notifier BY <1>14, <1>15, <2>1 DEF Range
  <2> QED BY <1>6, <1>12, <1>14, <1>15, <2>1, <2>2, <2>3 DEF OwnerInv, Owned
<1> QED BY <1>11, <1>12, <1>13, <1>16, LeavesTo

LEMMA OtherNodeLeaves ==
  ASSUME StreamsInv, LeavesInv, OtherNode
  PROVE  LeavesInv'
<1>0. OwnInv /\ BusOK(bus) /\ Balanced(bus) /\ HeldIsKept /\ LastIsFree /\ AgreeInv /\ OwnerInv /\ StoppedInv /\ faults \in Nat
  BY DEF StreamsInv, OwnInv, LeavesInv
<1>1. /\ UNCHANGED <<dev, list, snoop, phase, at, stream, limit, faults, odd, undone>> /\ phase \in {"none", "ready"}
  BY DEF OtherNode
<1>2. PICK c \in Channels :
          \/ bus.irm[c] = Nobody /\ bus.units > 0 /\ bus' = [bus EXCEPT !.irm[c] = Other, !.units = @ - 1]
          \/ bus.irm[c] = Other /\ bus' = [bus EXCEPT !.irm[c] = Nobody, !.units = @ + 1]
  BY DEF OtherNode
<1>3. \/ bus.irm[c] = Nobody /\ bus'.irm = [bus.irm EXCEPT ![c] = Other] /\ bus.units # 0 /\ bus'.units = bus.units - 1
      \/ bus.irm[c] = Other /\ bus'.irm = [bus.irm EXCEPT ![c] = Nobody] /\ bus'.units = bus.units + 1
  <2>1. CASE bus.irm[c] = Nobody /\ bus.units > 0 /\ bus' = [bus EXCEPT !.irm[c] = Other, !.units = @ - 1]
    <3>1. bus.units # 0 BY <1>0, <2>1 DEF Balanced
    <3> QED BY <1>0, <2>1, <3>1 DEF BusOK
  <2>2. CASE bus.irm[c] = Other /\ bus' = [bus EXCEPT !.irm[c] = Nobody, !.units = @ + 1] BY <1>0, <2>2 DEF BusOK
  <2> QED BY <1>2, <2>1, <2>2
<1>4. Balanced(bus)'
  <2>1. bus.irm \in [Channels -> Devices \cup {Nobody, Other, Own}] /\ Other # Nobody BY <1>0, StreamConstants DEF BusOK
  <2>2. Balanced(bus) => Balanced(bus') BY <1>3, <2>1, Pays
  <2> QED BY <1>0, <2>2 DEF Balanced
<1>5. \A e \in Channels : bus'.irm[e] \in Devices => bus'.irm[e] = bus.irm[e]
  <2>1. bus.irm \in [Channels -> Devices \cup {Nobody, Other, Own}] BY <1>0 DEF BusOK
  <2> QED BY <1>3, <2>1, StreamConstants
<1>6. (Clean' <=> Clean) /\ (Calm' <=> Calm) BY <1>1 DEF Clean, Calm
<1>7. HeldIsKept'
  <2> SUFFICES ASSUME NEW d \in Devices \ odd, NEW e \in Low, bus'.irm[e] = d, IF Family[d] \in Renting THEN Clean ELSE Calm
               PROVE  Numbered(dev'[d], d, e)
    BY <1>1, <1>6, NumbersLater DEF HeldIsKept, Low
  <2>1. bus.irm[e] = d /\ e \in 0..(NrChannels - 2) BY <1>5, LowChannels DEF Low
  <2> QED BY <1>0, <1>1, <2>1 DEF HeldIsKept
<1>8. LastIsFree' BY <1>0, <1>1, <1>5, LowChannels DEF LastIsFree
<1>9. AgreeInv' BY <1>0, <1>1, <1>6, AgreedNow, AgreedLater
<1>10. StoppedInv'
  <2>1. Calm' => \A d \in Devices : AllStill(d)' BY <1>0, <1>1, <1>6, RestStill, AllStillKept DEF Resting
  <2> QED BY <1>1, <2>1, StoppedRest DEF Resting
<1>11. OwnerInv' BY <1>0, <1>1 DEF OwnerInv
<1> QED BY <1>0, <1>1, <1>4, <1>7, <1>8, <1>9, <1>10, <1>11 DEF LeavesInv, BackInv

LEMMA MasterLeaves ==
  ASSUME StreamsInv, LeavesInv, MasterWrites
  PROVE  LeavesInv'
<1>0. /\ OwnInv /\ PlaceInv /\ Balanced(bus) /\ HeldIsKept /\ LastIsFree /\ AgreeInv /\ OwnerInv /\ StoppedInv /\ faults \in Nat
  BY DEF StreamsInv, LeavesInv
<1>1. UNCHANGED <<bus, list, snoop, phase, at, stream, limit, faults, odd, undone>> /\ phase \in {"ready", "start"}
  BY DEF MasterWrites
<1>2. PICK d \in Devices, k \in Streams, c \in Channels : Family[d] = "slave" /\ dev' = [dev EXCEPT ![d].reg[k] = c]
  BY DEF MasterWrites
<1>3. \A e \in Devices : /\ dev'[e].proc = dev[e].proc /\ dev'[e].mem = dev[e].mem
                         /\ dev'[e].owner = dev[e].owner /\ dev'[e].notifier = dev[e].notifier
                         /\ Family[e] # "slave" => dev'[e] = dev[e]
  <2>1. DOMAIN dev = Devices /\ NumbersOK(dev[d]) BY <1>0 DEF OwnInv
  <2>2. dev'[d] = [dev[d] EXCEPT !.reg[k] = c] /\ \A e \in Devices : e # d => dev'[e] = dev[e] BY <1>2, <2>1
  <2>3. /\ dev'[d].proc = dev[d].proc /\ dev'[d].mem = dev[d].mem
        /\ dev'[d].owner = dev[d].owner /\ dev'[d].notifier = dev[d].notifier
    BY <2>1, <2>2 DEF NumbersOK
  <2> QED BY <1>2, <2>2, <2>3
<1>4. (Clean' <=> Clean) /\ (Calm' <=> Calm) BY <1>1 DEF Clean, Calm
<1>5. HeldIsKept'
  <2>1. \A e \in Devices : \A h : Numbered(dev[e], e, h) => Numbered(dev'[e], e, h) BY <1>3 DEF Numbered, Number
  <2> QED BY <1>0, <1>1, <1>4, <2>1, NumbersLater DEF HeldIsKept
<1>6. AgreeInv'
  <2>1. ASSUME Clean, NEW e \in Devices PROVE Agreed(dev'[e], e)
    <3>1. Agreed(dev[e], e) BY <1>0, <2>1, AgreedNow
    <3> QED BY <1>3, <3>1 DEF Agreed
  <2> QED BY <1>1, <1>4, <2>1, AgreedLater
<1>7. \A e \in Devices : AllStill(e) => AllStill(e)' BY <1>1, <1>3, AllStillKept
<1>8. StoppedInv'
  <2>1. CASE phase = "ready"
    <3>1. Calm' => \A e \in Devices : AllStill(e)' BY <1>0, <1>4, <1>7, <2>1, RestStill DEF Resting
    <3> QED BY <1>1, <2>1, <3>1, StoppedRest DEF Resting
  <2>2. CASE phase = "start"
    <3>1. ASSUME Calm, NEW i \in DOMAIN list, i > at PROVE AllStill(list[i])'
      <4>1. PICK e \in Devices : e = list[i] BY <1>0, PlaceFacts
      <4>2. AllStill(e)' BY <1>0, <1>7, <2>2, <3>1, <4>1 DEF StoppedInv
      <4>3. list[i]' = e BY <1>1, <4>1
      <4> QED BY <4>2, <4>3 DEF AllStill, Still
    <3>2. This' = This /\ StreamsOf(This)' = StreamsOf(This)
      <4>1. This \in Devices BY <1>0, PlaceFacts
      <4>2. SameAbsent(dev'[This], dev[This]) BY <1>3, <4>1 DEF SameAbsent
      <4> QED BY <1>1, <4>2, StreamsOfThis DEF This
    <3>3. ASSUME Calm, NEW j \in DOMAIN StreamsOf(This), j \in stream..2 PROVE Still(This, StreamsOf(This)[j])'
      <4>1. PICK e \in Devices : e = This BY <1>0, PlaceFacts
      <4>2. PICK h : h = StreamsOf(This)[j] OBVIOUS
      <4>3. Still(e, h) BY <1>0, <2>2, <3>3, <4>1, <4>2 DEF StoppedInv, StillHere
      <4>4. Still(e, h)' BY <1>1, <1>3, <4>3, StillKept
      <4>5. This' = e /\ StreamsOf(This)[j]' = h BY <3>2, <4>1, <4>2
      <4> QED BY <4>4, <4>5 DEF Still
    <3>4. Calm => StillHere(stream..2)' BY <1>1, <3>2, <3>3 DEF StillHere
    <3> QED BY <1>1, <1>4, <2>2, <3>1, <3>4 DEF StoppedInv
  <2> QED BY <1>1, <2>1, <2>2
<1>9. OwnerInv'
  <2>1. \A i \in DOMAIN list : list[i] \in Devices BY <1>0, PlaceFacts
  <2> QED BY <1>0, <1>1, <1>3, <2>1 DEF OwnerInv
<1>10. Balanced(bus)' /\ LastIsFree' BY <1>0, <1>1 DEF Balanced, LastIsFree
<1> QED BY <1>0, <1>1, <1>5, <1>6, <1>8, <1>9, <1>10 DEF LeavesInv, BackInv

LEMMA LeavesSame == ASSUME LeavesInv, UNCHANGED streamVars PROVE LeavesInv'
<1>1. /\ bus' = bus /\ dev' = dev /\ list' = list /\ snoop' = snoop /\ phase' = phase /\ at' = at /\ stream' = stream
      /\ limit' = limit /\ odd' = odd /\ faults' = faults /\ undone' = undone
  BY DEF streamVars
<1>2. (Clean' <=> Clean) /\ (Calm' <=> Calm) BY <1>1 DEF Clean, Calm
<1>3. HeldIsKept' BY <1>1, <1>2 DEF LeavesInv, HeldIsKept, Numbered, Number
<1>4. StoppedInv'
  <2>1. \A d, k : Still(d, k) => Still(d, k)' BY <1>1 DEF Still, Regular
  <2>2. \A d : AllStill(d) => AllStill(d)' BY <2>1 DEF AllStill
  <2>3. \A i : AllStill(list[i]) => AllStill(list[i])' BY <1>1, <2>2 DEF AllStill, Still
  <2>4. AllStill(This) => AllStill(This)' BY <1>1 DEF AllStill, Still, Regular, This
  <2>5. \A J : StillHere(J) => StillHere(J)' BY <1>1 DEF StillHere, Still, Regular, This, StreamsOf, Missing
  <2>6. /\ StillHere(stream..2) => StillHere(stream..2)'
        /\ StillHere((stream + 1)..2) => StillHere((stream + 1)..2)'
        /\ StillHere(1..(stream - 1)) => StillHere(1..(stream - 1))'
    BY <1>1, <2>5 DEF StillHere
  <2> QED BY <1>1, <1>2, <2>2, <2>3, <2>4, <2>6 DEF LeavesInv, StoppedInv
<1>5. AgreeInv' BY <1>1, <1>2 DEF LeavesInv, AgreeInv, RegOf
<1>6. OwnerInv' /\ LastIsFree' /\ Balanced(bus)' /\ BackInv' /\ faults' \in Nat
  BY <1>1 DEF LeavesInv, OwnerInv, LastIsFree, Balanced, BackInv
<1> QED BY <1>3, <1>4, <1>5, <1>6 DEF LeavesInv

LEMMA LeavesStart == StreamsInit => LeavesInv
<1> SUFFICES ASSUME StreamsInit PROVE LeavesInv OBVIOUS
<1>1. /\ bus = [irm |-> [c \in Channels |-> Nobody], units |-> MaxUnits, chan |-> [c \in Channels |-> "free"]]
      /\ dev = [d \in Devices |-> NewDevice] /\ phase = "none" /\ faults = 0 /\ odd = {}
  BY DEF StreamsInit
<1>2. \A d \in Devices : /\ \A k \in Streams : dev[d].proc[k] = Absent
                         /\ ~dev[d].owner /\ ~dev[d].notifier
  BY <1>1 DEF NewDevice
<1>3. \A c \in Channels : bus.irm[c] = Nobody BY <1>1
<1>4. Balanced(bus)
  <2>1. {c \in Channels : bus.irm[c] # Nobody} = {} BY <1>3
  <2>2. Cardinality({}) = 0 BY FS_EmptySet
  <2>3. bus.units = MaxUnits /\ MaxUnits \in Nat BY <1>1, ChannelsAssumption
  <2>4. MaxUnits + 0 = MaxUnits BY <2>3
  <2> QED BY <2>1, <2>2, <2>3, <2>4 DEF Balanced
<1>5. HeldIsKept /\ LastIsFree
  <2>1. \A c \in Low : bus.irm[c] \notin Devices BY <1>3, LowChannels, StreamConstants
  <2>2. bus.irm[NrChannels - 1] \notin Devices BY <1>3, LowChannels, StreamConstants
  <2> QED BY <2>1, <2>2 DEF HeldIsKept, LastIsFree, Low
<1>6. StoppedInv BY <1>1, <1>2 DEF StoppedInv, AllStill, Still, Regular
<1>7. AgreeInv /\ OwnerInv /\ BackInv BY <1>1, <1>2 DEF AgreeInv, OwnerInv, BackInv
<1> QED BY <1>1, <1>4, <1>5, <1>6, <1>7 DEF LeavesInv

LEMMA LeavesStep == StreamsInv /\ LeavesInv /\ [StreamsNext]_streamVars => LeavesInv'
<1> SUFFICES ASSUME StreamsInv, LeavesInv, [StreamsNext]_streamVars PROVE LeavesInv' OBVIOUS
<1>0. StreamsInv' BY StreamsStep
<1>1. CASE ffado_streaming_init BY <1>1, InitLeaves
<1>2. CASE initStreaming_lock BY <1>2, LockStepLeaves
<1>3. CASE setSamplingFrequency BY <1>3, RateLeaves
<1>4. CASE initStreaming_prepare BY <1>4, PrepareStepLeaves
<1>5. CASE ffado_streaming_start BY <1>5, StartLeavesAll
<1>6. CASE startStreamingOnDevice_reset BY <1>0, <1>6, ResetStepLeaves
<1>7. CASE startStreamingOnDevice_start BY <1>7, StartStepLeaves
<1>8. CASE startStreamingOnDevice_back BY <1>0, <1>8, BackStepLeaves
<1>9. CASE startStreamingOnDevice_enable BY <1>0, <1>9, EnableStepLeaves
<1>10. CASE startStreaming_spm BY <1>0, <1>10, SpmLeaves
<1>11. CASE stopStreamingOnDevice BY <1>0, <1>11, StopStepLeaves
<1>12. CASE ffado_streaming_stop BY <1>12, StopAllLeaves
<1>13. CASE ffado_streaming_finish BY <1>13, FinishLeaves
<1>14. CASE finishStreaming BY <1>14, UnlockStepLeaves
<1>15. CASE DeleteDevice BY <1>15, DeleteStepLeaves
<1>16. CASE OtherNode BY <1>16, OtherNodeLeaves
<1>17. CASE MasterWrites BY <1>17, MasterLeaves
<1>18. CASE Finished \/ UNCHANGED streamVars BY <1>18, LeavesSame DEF Finished
<1> QED BY <1>1, <1>2, <1>3, <1>4, <1>5, <1>6, <1>7, <1>8, <1>9, <1>10, <1>11, <1>12, <1>13, <1>14, <1>15, <1>16, <1>17, <1>18
        DEF StreamsNext

\* A device that is still, and knows the numbers of what it holds, holds nothing; nor does one whose object is new.
LEMMA LeftNothing == StreamsInv /\ LeavesInv => SessionLeavesNothing
<1> SUFFICES ASSUME StreamsInv, LeavesInv PROVE SessionLeavesNothing OBVIOUS
<1>0. OwnInv /\ NewInv /\ BusOK(bus) /\ Balanced(bus) /\ HeldIsKept /\ LastIsFree /\ StoppedInv /\ OwnerInv
  BY DEF StreamsInv, OwnInv, LeavesInv
<1>1. FailedStartUndone
  <2> SUFFICES ASSUME phase = "ready", undone = "all", NEW d \in Regular, Family[d] \in {"avc", "dice", "bounce"}
               PROVE  /\ \A k \in Streams : dev[d].proc[k] \in {None, Absent}
                      /\ \A c \in 0..(NrChannels - 2) : bus.irm[c] # d
    BY DEF FailedStartUndone, NothingStarted
  <2>1. d \in Devices /\ d \notin odd /\ Family[d] \notin Renting /\ Calm BY DEF Regular, Calm, Renting
  <2>2. AllStill(d) BY <1>0, <2>1, RestStill DEF Resting
  <2>3. \A k \in Streams : dev[d].proc[k] \in {None, Absent} BY <2>2 DEF AllStill, Still
  <2>4. NoNumbers(d) BY <2>1, <2>2, StillNumbers
  <2>5. ASSUME NEW c \in 0..(NrChannels - 2), bus.irm[c] = d PROVE FALSE
    <3>1. Numbered(dev[d], d, c) BY <1>0, <2>1, <2>5 DEF HeldIsKept
    <3>2. c \in Low BY DEF Low
    <3> QED BY <2>4, <3>1, <3>2, LowChannels DEF NoNumbers, Numbered
  <2> QED BY <2>3, <2>5
<1>2. ASSUME phase = "none", faults = 0, odd = {}
      PROVE  /\ \A c \in Channels : bus.irm[c] \notin Devices /\ bus.chan[c] = "free"
             /\ bus.units + Cardinality({c \in Channels : bus.irm[c] # Nobody}) = MaxUnits
             /\ \A d \in Devices : ~dev[d].owner /\ ~dev[d].notifier
  <2>1. Clean /\ Calm BY <1>2 DEF Clean, Calm
  <2>2. ASSUME NEW c \in Channels PROVE bus.irm[c] \notin Devices
    <3>1. CASE c \in Low
      <4> SUFFICES ASSUME NEW d \in Devices, bus.irm[c] = d PROVE FALSE OBVIOUS
      <4>1. Empty(d) BY <1>0, <1>2 DEF NewInv
      <4>2. NoNumbers(d) BY <4>1 DEF NoNumbers, Number, Empty
      <4>3. Numbered(dev[d], d, c) BY <1>0, <1>2, <2>1, <3>1 DEF HeldIsKept, Low
      <4> QED BY <3>1, <4>2, <4>3, LowChannels DEF NoNumbers, Numbered
    <3>2. CASE c = NrChannels - 1 BY <1>0, <1>2, <3>2 DEF LastIsFree
    <3>3. c \in Low \/ c = NrChannels - 1 BY StreamConstants DEF Low
    <3> QED BY <3>1, <3>2, <3>3
  <2>3. \A c \in Channels : bus.chan[c] = "free" BY <1>0, <2>2 DEF BusOK
  <2>4. bus.units + Cardinality({c \in Channels : bus.irm[c] # Nobody}) = MaxUnits BY <1>0 DEF Balanced
  <2>5. \A d \in Devices : ~dev[d].owner /\ ~dev[d].notifier BY <1>0, <1>2 DEF OwnerInv
  <2> QED BY <2>2, <2>3, <2>4, <2>5
<1> QED BY <1>1, <1>2 DEF SessionLeavesNothing

\* A session without a failed call leaves the bus as it found it, with no channel, no bandwidth, no owner
\* and no notifier left behind, and a start that failed and was undone leaves no connection, whatever the
\* devices, the channels and the bandwidth of the bus: what each call of a driver gives back, composed by
\* the loops of startStreaming, stopStreaming, finishStreaming and the destructor.
THEOREM AlwaysSessionLeavesNothing == StreamsSpec => []SessionLeavesNothing
<1>1. StreamsInit => StreamsInv /\ LeavesInv BY StreamsStart, LeavesStart
<1>2. StreamsInv /\ LeavesInv /\ [StreamsNext]_streamVars => (StreamsInv /\ LeavesInv)' BY StreamsStep, LeavesStep
<1>3. StreamsInv /\ LeavesInv => SessionLeavesNothing BY LeftNothing
<1> QED BY <1>1, <1>2, <1>3, PTL DEF StreamsSpec
=============================================================================
