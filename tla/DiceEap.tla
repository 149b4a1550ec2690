------------------------------ MODULE DiceEap ------------------------------
(***************************************************************************)
(* The extended application protocol of the DICE devices: the router, its  *)
(* cached configurations, and the switches and volumes of the application  *)
(* registers.  The driver writes a routing into the device's staging area, *)
(* tells the device to load it for one rate mode, and then reads all the   *)
(* current configurations back.  Any step on the bus may fail.             *)
(***************************************************************************)
EXTENDS DiceEapTables, FiniteSets

CONSTANTS
    EapDevices,        \* models to check
    RouteSources,      \* names a client may connect, some of which are not there in every mode
    RouteDestinations,
    MaxEapOps          \* bound on operations

VARIABLES
    model, mode,  \* the device, and the rate mode it runs in
    named,        \* of the last update of the names: [mode, adatspdif]
    cache,        \* m_current_cfg_routing_low, _mid and _high
    staged,       \* the device's new routing space: [count, entries]
    current,      \* the device's current routings
    flash,
    app,          \* the application registers: the bits that are set
    messages,     \* the message register was last told of this register
    eapOps,
    unsure,       \* modes whose cache may be wrong: a step on the bus failed
    sent,         \* routings the driver has meant the device to have
    want,         \* what each control was last set to
    spoiled       \* registers written from a value that could not be read

eapVars == <<model, mode, named, cache, staged, current, flash, app, messages, eapOps, unsure, sent, want, spoiled>>
routeVars == <<cache, staged, current, flash, unsure, sent>>
appVars == <<app, messages, want, spoiled>>

-----------------------------------------------------------------------------
\* The controls of the monitor sections.  A register is the set of its bits.
Bits(n) == {b \in 0..7 : (n \div 2^b) % 2 = 1}  \* values are bytes
Switch(name, reg, bit) == [name |-> name, kind |-> "switch", reg |-> reg, bits |-> {bit}]
Volume(name, reg, shift) == [name |-> name, kind |-> "volume", reg |-> reg, bits |-> shift..(shift + 7)]
Poti(name, reg) == [name |-> name, kind |-> "poti", reg |-> reg, bits |-> 0..31]

\* The line outputs i = 0, 1, ..., as every Saffire has them.
LineOuts(pairs, volume, monitor, control) ==
    UNION {{Switch(<<"UnActivate", i, 1>>, monitor + 4 * i, 0), Switch(<<"UnActivate", i, 2>>, monitor + 4 * i, 1),
            Switch(<<"Mute", i, 1>>, monitor + 4 * i, 2), Switch(<<"Mute", i, 2>>, monitor + 4 * i, 3),
            Switch(<<"GMute", i, 1>>, control, 2 * i), Switch(<<"GMute", i, 2>>, control, 2 * i + 1),
            Switch(<<"GDim", i, 1>>, control, 10 + 2 * i), Switch(<<"GDim", i, 2>>, control, 10 + 2 * i + 1),
            Volume(<<"Volume", i, 1>>, volume + 4 * i, 0), Volume(<<"Volume", i, 2>>, volume + 4 * i, 8)} :
           i \in 0..(pairs - 1)}
Mono(pairs, control) == {Switch(<<"Mono", i, 0>>, control, 20 + i) : i \in 0..(pairs - 1)}
LineInstGain(inst, gain) == {Switch(<<"LineInst1", 0, 0>>, inst, 1), Switch(<<"LineInst2", 0, 0>>, inst, 17),
                             Switch(<<"LineGain3", 0, 0>>, gain, 0), Switch(<<"LineGain4", 0, 0>>, gain, 16)}
Global(mute, dim, level) == {Switch(<<"GlobalMute", 0, 0>>, mute, 0), Switch(<<"GlobalDim", 0, 0>>, dim, 0), Poti(<<"GlobalDimLevel", 0, 0>>, level)}
MonitorSection_pro14 == Global(16, 20, 88) \cup Mono(2, 64) \cup LineOuts(2, 24, 44, 64) \cup LineInstGain(92, 96)
MonitorSection_pro24 == Global(12, 16, 84) \cup Mono(3, 60) \cup LineOuts(3, 20, 40, 60) \cup LineInstGain(88, 92)
MonitorSection_pro26 == Global(16, 20, 88) \cup LineOuts(3, 24, 44, 64)
MonitorSection_pro40 == Global(12, 16, 88) \cup Mono(5, 60) \cup LineOuts(5, 20, 40, 60) \cup {Switch(<<"ADATSPDIF", 0, 0>>, 92, 0)}
MonitorSection_56    == Global(12, 16, 88) \cup Mono(5, 60) \cup LineOuts(5, 20, 40, 60) \cup {Switch(<<"ADATSPDIF", 0, 0>>, 92, 0)}
SettingsSection_profire == {Switch(<<"VolumeKnob", i, 0>>, 0, i) : i \in 0..3}
Section(m) ==
    CASE m = "pro14" -> MonitorSection_pro14 [] m = "pro24" -> MonitorSection_pro24
      [] m = "pro26" -> MonitorSection_pro26 [] m = "pro40" -> MonitorSection_pro40
      [] m = "56" -> MonitorSection_56       [] m = "profire" -> SettingsSection_profire
      [] OTHER -> {}
\* The register a Saffire is told of changes through; the ProFire has none.
MessageReg(m) ==
    CASE m \in {"pro14", "pro26"} -> 12 [] m \in {"pro24", "pro40"} -> 104 [] m = "56" -> 200 [] OTHER -> 0
MonitoringLimit == 104

-----------------------------------------------------------------------------
\* The tables of names as last set up, and the routes.
Sources == setupSources(model, named.mode, named.adatspdif)
Destinations == setupDestinations(model, named.mode, named.adatspdif)
NamesOf(rows) == UNION {{<<rows[r].name, rows[r].offset + i>> : i \in 0..(rows[r].count - 1)} : r \in DOMAIN rows}
\* The id of a name; where two rows give the same name the later one has replaced the earlier.
RowOf(rows, n) ==
    CHOOSE r \in DOMAIN rows :
        /\ rows[r].name = n[1] /\ n[2] - rows[r].offset \in 0..(rows[r].count - 1)
        /\ \A s \in DOMAIN rows : rows[s].name = n[1] /\ n[2] - rows[s].offset \in 0..(rows[s].count - 1) => s <= r
getSourceIndex(n) ==
    IF n \in NamesOf(Sources)
    THEN LET r == Sources[RowOf(Sources, n)] IN SrcId(r.block, r.base + n[2] - r.offset) ELSE 255
getDestinationIndex(n) ==
    IF n \in NamesOf(Destinations)
    THEN LET r == Destinations[RowOf(Destinations, n)] IN DstId(r.block, r.base + n[2] - r.offset) ELSE 255
getSMuteId == getSourceIndex(<<"Mute", 0>>)

PlacesOf(routes, dest) == {i \in DOMAIN routes : routes[i][1] = dest}
First(S) == CHOOSE i \in S : \A j \in S : i <= j
getSourceForDestination(routes, dest) ==
    IF PlacesOf(routes, dest) = {} THEN 255 ELSE routes[First(PlacesOf(routes, dest))][2]
createRoute(routes, src, dest) == Append(routes, <<dest, src>>)
setupRoute(routes, src, dest) ==
    IF PlacesOf(routes, dest) = {} THEN createRoute(routes, src, dest)
    ELSE [routes EXCEPT ![First(PlacesOf(routes, dest))] = <<dest, src>>]
muteRoute(routes, dest) ==
    IF PlacesOf(routes, dest) = {} THEN routes
    ELSE [routes EXCEPT ![First(PlacesOf(routes, dest))] = <<dest, getSMuteId>>]

-----------------------------------------------------------------------------
\* The steps on the bus of one update, any of which may be the one that fails.
WriteFaults == {"zeros", "entries", "count"}
\* a command that is not executed (the device is busy, the write is lost, it answers with an error),
\* and one that is executed although the driver sees a timeout or cannot read the answer
CommandFaults == {"command", "answer"}
ReadFaults == Modes
Faults == {"none"} \cup WriteFaults \cup CommandFaults \cup ReadFaults

\* RouterConfig::write: clear the staging area, the entries, and last the count.
Staging(routes, fault) ==
    CASE fault = "zeros" -> {staged, [count |-> 0, entries |-> <<>>]}
      [] fault = "entries" -> {[count |-> 0, entries |-> <<>>]}
      [] fault = "count" -> {[count |-> 0, entries |-> routes]}
      [] OTHER -> {[count |-> Len(routes), entries |-> routes]}
\* commandHelper: the device executes the command once it has received it.
Executes(fault) == fault # "command"
\* updateConfigurationCache: reading clears a routing first and stops at the first failure.
ReadOrder == <<"low", "mid", "high">>
Refreshed(new, fault) ==
    [m \in Modes |->
        LET at == CHOOSE i \in 1..3 : ReadOrder[i] = m
            failed == IF fault \in Modes THEN CHOOSE i \in 1..3 : ReadOrder[i] = fault ELSE 4
        IN  IF at < failed THEN new[m] ELSE IF at = failed THEN <<>> ELSE cache[m]]
UnsureAfter(fault) ==
    IF fault \in Modes THEN {ReadOrder[i] : i \in (CHOOSE i \in 1..3 : ReadOrder[i] = fault)..3} ELSE {}

\* updateRouterConfig: a write that fails returns before the cache is read back.
updateRouterConfig_anyway(routes, fault, edited) ==
    /\ staged' \in Staging(routes, fault)
    /\ current' = IF ~Executes(fault) THEN current
                  ELSE [current EXCEPT ![mode] = SubSeq(staged'.entries, 1, staged'.count)]
    /\ cache' = Refreshed(current', fault)
    /\ unsure' = UnsureAfter(fault)
    /\ sent' = sent \cup {routes}
updateRouterConfig(routes, fault, edited) ==
    /\ staged' \in Staging(routes, fault)
    /\ current' = IF fault \in WriteFaults \/ ~Executes(fault) THEN current
                  ELSE [current EXCEPT ![mode] = SubSeq(staged'.entries, 1, staged'.count)]
    /\ cache' = IF fault \in WriteFaults THEN edited ELSE Refreshed(current', fault)
    /\ unsure' = IF fault \in WriteFaults THEN unsure \cup {mode} ELSE UnsureAfter(fault)
    /\ sent' = sent \cup {routes}

EapOperation == eapOps < MaxEapOps /\ eapOps' = eapOps + 1 /\ UNCHANGED model

-----------------------------------------------------------------------------
\* Operations of the router.  The active configuration is edited in place before it is sent.
Edit(routes, fault) == updateRouterConfig(routes, fault, [cache EXCEPT ![mode] = routes])

setConnectionState(src, dst, enable, fault) ==
    /\ EapOperation
    /\ LET dest == getDestinationIndex(dst)
       IN  Edit(IF enable THEN setupRoute(cache[mode], getSourceIndex(src), dest) ELSE muteRoute(cache[mode], dest), fault)
    /\ UNCHANGED <<mode, named, flash, appVars>>
clearAllConnections(fault) ==
    /\ EapOperation
    /\ updateRouterConfig(<<>>, fault, cache)
    /\ UNCHANGED <<mode, named, flash, appVars>>
setupDefaultRouterConfig(fault) ==
    /\ EapOperation
    /\ Edit(DefaultRoutes(model, mode), fault)
    /\ UNCHANGED <<mode, named, flash, appVars>>
loadFlashConfig(fault) ==
    /\ EapOperation /\ fault \notin WriteFaults
    /\ current' = IF Executes(fault) THEN flash ELSE current
    /\ cache' = Refreshed(current', fault) /\ unsure' = UnsureAfter(fault)
    /\ UNCHANGED <<mode, named, staged, flash, sent, appVars>>
storeFlashConfig(fault) ==
    /\ EapOperation /\ fault \in {"none"} \cup CommandFaults
    /\ flash' = IF Executes(fault) THEN current ELSE flash
    /\ UNCHANGED <<mode, named, cache, staged, current, unsure, sent, appVars>>

AdatSpdif == model \in {"pro40", "56"} /\ 0 \in app[92]
\* A change of the rate: by this process, which sets the names up anew, or by another one, which does not.
onSamplerateChange(m, own) ==
    /\ EapOperation /\ m # mode
    /\ mode' = m
    /\ named' = IF own THEN [mode |-> m, adatspdif |-> AdatSpdif] ELSE named
    /\ UNCHANGED <<routeVars, appVars>>

-----------------------------------------------------------------------------
\* Switches and volumes.  A read that fails leaves an uninitialised value, which is used.
Fetched(c, readable) == IF readable THEN {app[c.reg]} ELSE {app[c.reg], {}, 0..31}
\* The value a control shows, and the bits a value stands for.
Value(c, reg) ==
    IF c.kind = "switch" THEN reg \cap c.bits # {}
    ELSE LET low == CHOOSE b \in c.bits : \A d \in c.bits : b <= d
         IN  {b - low : b \in reg \cap c.bits}
Shifted(c, n) ==
    LET low == CHOOSE b \in c.bits : \A d \in c.bits : b <= d IN {b + low : b \in Bits(n)} \cap 0..31
New_or(c, old, v) == IF c.kind = "switch" THEN SymDiff(old, c.bits) ELSE Shifted(c, v) \cup old
New(c, old, v) ==
    CASE c.kind = "switch" -> SymDiff(old, c.bits)
      [] c.kind = "volume" -> Shifted(c, v) \cup (old \ c.bits)
      [] c.kind = "poti" -> Bits(v)
Asked(c, v) == IF c.kind = "switch" THEN v ELSE Bits(v)
\* messageSet is refused beyond the limit.
messageSet(c) == IF MessageReg(model) > MonitoringLimit \/ model = "profire" THEN messages ELSE c.reg
EapSetControl(c, v, readable, written) ==
    /\ EapOperation
    /\ \E old \in Fetched(c, readable) :
          IF Value(c, old) = Asked(c, v) THEN UNCHANGED <<app, messages, spoiled>>
          ELSE /\ app' = IF written THEN [app EXCEPT ![c.reg] = New(c, old, v)] ELSE app
               /\ messages' = messageSet(c)
               /\ spoiled' = IF readable THEN spoiled ELSE spoiled \cup {c.reg}
    /\ want' = IF readable /\ written THEN [want EXCEPT ![c.name] = Asked(c, v)] ELSE want
    \* the optical switch sets the names up anew
    /\ named' = IF c.name = <<"ADATSPDIF", 0, 0>> THEN [mode |-> mode, adatspdif |-> 0 \in app'[92]] ELSE named
    /\ UNCHANGED <<mode, routeVars>>

Values(c) == CASE c.kind = "switch" -> BOOLEAN [] c.kind = "volume" -> {0, 1, 255} [] c.kind = "poti" -> {0, 127}

-----------------------------------------------------------------------------
\* EAP::init reads the configurations of the device, whatever they are: here empty, or the defaults.
Registers(m) == {c.reg : c \in Section(m)}
EapInit ==
    /\ model \in EapDevices /\ mode \in Modes
    /\ named = [mode |-> mode, adatspdif |-> FALSE]
    /\ current \in {[m \in Modes |-> <<>>], [m \in Modes |-> DefaultRoutes(model, m)]}
    /\ cache = current /\ flash = current
    /\ staged = [count |-> 0, entries |-> <<>>]
    /\ app = [r \in Registers(model) |-> {}] /\ messages = 0
    /\ want = [n \in {c.name : c \in Section(model)} |->
                  IF \E c \in Section(model) : c.name = n /\ c.kind = "switch" THEN FALSE ELSE {}]
    /\ eapOps = 0 /\ unsure = {} /\ spoiled = {}
    /\ sent = {current[m] : m \in Modes}

RouterNext ==
    \/ \E s \in RouteSources, d \in RouteDestinations, on \in BOOLEAN, f \in Faults : setConnectionState(s, d, on, f)
    \/ \E f \in Faults : clearAllConnections(f) \/ setupDefaultRouterConfig(f) \/ loadFlashConfig(f) \/ storeFlashConfig(f)
    \/ \E m \in Modes, own \in BOOLEAN : onSamplerateChange(m, own)
    \/ \E c \in Section(model) : c.name[1] = "ADATSPDIF" /\ \E v \in BOOLEAN : EapSetControl(c, v, TRUE, TRUE)
MonitorInit == EapInit /\ mode = "low" /\ current["low"] = <<>>
MonitorNext ==
    \E c \in Section(model) : \E v \in Values(c), r \in BOOLEAN, w \in BOOLEAN : EapSetControl(c, v, r, w)
EapSpec == EapInit /\ [][RouterNext \/ MonitorNext]_eapVars

-----------------------------------------------------------------------------
\* No destination but the mute port has two routes, in the driver's copy or in the device: the copy
\* answers with the first one, the device uses another.
OneRoute(routes) ==
    \A d \in {routes[i][1] : i \in DOMAIN routes} \ {DstId("Muted", 0)} : Cardinality(PlacesOf(routes, d)) = 1
OneRouteEach == \A m \in Modes : OneRoute(cache[m])
\* The driver's copy of a routing is what the device uses, unless a step on the bus failed since the
\* copy was last read; the device never uses a routing that was only half written; and a
\* destination has one route.
RoutingIsCache ==
    /\ \A m \in Modes \ unsure : cache[m] = current[m]
    /\ \A m \in Modes : current[m] \in sent
    /\ OneRouteEach

\* A switch or a volume shows what it was last set to, whatever the controls that share its register
\* were set to in between, unless the register was written from a value that could not be read.
ControlsApart ==
    \A c \in Section(model) : c.reg \notin spoiled => Value(c, app[c.reg]) = want[c.name]

\* What the tables of the models have to be like for that, which TLC evaluates: a default
\* routing gives a destination one route; a switch is one bit, a volume a byte, a poti a register
\* of its own; two controls have different names, and different bits if they share a register.
ASSUME DefaultsAssumption ==
    \A d \in EapDevices, m \in Modes :
        DefaultRoutes(d, m) \in Seq(Nat \X Nat) /\ OneRoute(DefaultRoutes(d, m))
ControlShape(c) ==
    \/ c.kind = "switch" /\ \E b \in 0..31 : c.bits = {b}
    \/ c.kind = "volume" /\ \E b \in 0..24 : c.bits = b..(b + 7)
    \/ c.kind = "poti" /\ c.bits = 0..31
ASSUME SectionsAssumption ==
    \A d \in EapDevices : \A c \in Section(d) :
        /\ ControlShape(c)
        /\ \A e \in Section(d) \ {c} : c.name # e.name /\ (c.reg = e.reg => c.bits \cap e.bits = {})

\* The inductive form of both.  What is copied, used or stored was sent, or is empty.
RouteInv ==
    /\ model \in EapDevices /\ mode \in Modes
    /\ \A r \in sent : r \in Seq(Range(r)) /\ OneRoute(r)
    /\ cache \in [Modes -> sent \cup {<<>>}] /\ current \in [Modes -> sent] /\ flash \in [Modes -> sent]
    /\ \A m \in Modes \ unsure : cache[m] = current[m]
RegisterInv ==
    /\ app \in [Registers(model) -> SUBSET (0..31)]
    /\ want = [n \in {c.name : c \in Section(model)} |-> want[n]]
    /\ ControlsApart
EapInv == RouteInv /\ RegisterInv
=============================================================================
