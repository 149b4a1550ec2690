------------------------------- MODULE AvcPlugs -------------------------------
(***************************************************************************)
(* What the driver knows of an AV/C unit: its plugs, their streams and     *)
(* their connections, found by asking the device plug by plug (the generic *)
(* driver asks for signal sources, the BeBoB driver for both ends of every *)
(* connection), kept in a cache file and changed by a selection of the     *)
(* clock or of the sample rate.                                            *)
(*                                                                         *)
(* A pointer to a plug is its global id.  A command of an operation may    *)
(* get no answer: fault names the one.  The user may turn the knobs of     *)
(* the device between two operations.                                      *)
(***************************************************************************)
EXTENDS Integers, Sequences, FiniteSets, SequencesExt

CONSTANTS
    Topologies,      \* the devices, by name: see topology below
    PlugRates,       \* the sample rates a client asks for
    MaxPlugOps       \* bound on operations and on changes by the user

VARIABLES
    hardware,        \* the device on the bus
    source,          \* the source the device has selected for its sync plug
    rates,           \* its sample rates, of PCR plug 0, input and output
    unit,            \* the Unit object
    ready,           \* discover or loadFromCache succeeded
    m_last_discovery_config_id,
    files,           \* the cache: a file for each configuration id
    answer,          \* what the last operation returned
    outdated,        \* the device was rerouted, or missed an answer, since the unit was discovered
    plugOps

plugVars == <<hardware, source, rates, unit, ready, m_last_discovery_config_id, files, answer, outdated, plugOps>>

-----------------------------------------------------------------------------
\* Addresses: the subunit, the function block, the sort of plug, its direction, its number.
eST_UnitPlug == "unit"
NoId == 255
PlugAddr(su, sid, fbt, fbi, at, dir, id) ==
    [su |-> su, sid |-> sid, fbt |-> fbt, fbi |-> fbi, at |-> at, dir |-> dir, id |-> id]
UnitPlug(at, dir, id) == PlugAddr(eST_UnitPlug, NoId, NoId, NoId, at, dir, id)
SubunitPlugAddr(su, dir, id) == PlugAddr(su, 0, NoId, NoId, "subunit", dir, id)
BlockPlug(fb, dir, id) == PlugAddr("audio", 0, fb.type, fb.id, "function", dir, id)

(* The device: [family, subunits (in the order of its table), count (plugs *)
(* of each sort and direction), blocks (function blocks), wires, sync (the *)
(* sync plug), sources (what it may follow), describe (type, clusters and  *)
(* formats of a plug), mute (the plugs it may fail to answer for)].        *)
TopologyTable == Topologies
topology == TopologyTable[hardware]
Wires(t, s) == t.wires \cup {<<s, t.sync>>}
Describe(a) == topology.describe[a]
Channels(c) == c.channels
PlugChannels(a) == FoldLeft(LAMBDA n, c : n + Channels(c), 0, Describe(a).clusters)
\* The first position on the wire of each cluster: they follow one another.
FirstPosition(cs, k) == FoldLeft(LAMBDA n, c : n + Channels(c), 1, SubSeq(cs, 1, k - 1))
RateOf(a) == IF a.at = "pcr" /\ a.id = 0 THEN rates[a.dir] ELSE rates["out"]

Faults == [at : {"none", "subunits", "plugs", "blocks"}] \cup
          {[at |-> k, plug |-> a] : k \in {"describe", "connections"}, a \in topology.mute}
NoFault == [at |-> "none"]
Fails(fault, k, a) == fault.at = k /\ fault.plug = a
ConnectionFaults == {NoFault} \cup {f \in Faults : f.at = "connections"}

-----------------------------------------------------------------------------
\* The Unit, its plug manager and its plugs.
Manager == [m_plugs |-> <<>>, m_globalIdCounter |-> 0]
Cleaned == Manager @@ [m_subunits |-> <<>>, m_pcrPlugs |-> <<>>, m_externalPlugs |-> <<>>,
                       m_plugConnections |-> <<>>, m_syncInfos |-> <<>>, ok |-> TRUE]
clean(u) == Cleaned

\* A Plug of which nothing is known yet.
Plug(u, a) == [address |-> a, m_infoPlugType |-> "Unknown", m_nrOfChannels |-> 0, m_name |-> "",
               m_clusterInfos |-> <<>>, m_formatInfos |-> <<>>, m_samplingFrequency |-> 0,
               m_inputConnections |-> <<>>, m_outputConnections |-> <<>>,
               m_globalId |-> u.m_globalIdCounter]
addPlug(u, p) == [u EXCEPT !.m_plugs = Append(@, p)]
requestNewGlobalId(u) == [u EXCEPT !.m_globalIdCounter = @ + 1]

\* The first plug of the vector that fits; -1 is the null pointer.
NullPlug == -1
FirstId(ps) == IF ps = <<>> THEN NullPlug ELSE ps[1].m_globalId
getPlug(u, a) == FirstId(SelectSeq(u.m_plugs, LAMBDA p : p.address = a))
getPlugByGlobalId(u, g) == FirstId(SelectSeq(u.m_plugs, LAMBDA p : p.m_globalId = g))
IndexOf(u, g) == CHOOSE i \in DOMAIN u.m_plugs : u.m_plugs[i].m_globalId = g
PlugOf(u, g) == u.m_plugs[IndexOf(u, g)]
getPlugsByType(u, su, at, dir, type) ==
    SelectSeq(u.m_plugs, LAMBDA p : /\ p.address.su = su /\ p.address.sid = (IF su = eST_UnitPlug THEN NoId ELSE 0)
                                    /\ p.address.fbt = NoId /\ p.address.at = at
                                    /\ p.address.dir = dir /\ p.m_infoPlugType = type)
getPlugsOf(u, list, dir, type) ==
    SelectSeq([i \in DOMAIN list |-> PlugOf(u, list[i])],
              LAMBDA p : p.address.dir = dir /\ p.m_infoPlugType = type)
getPlugById(u, list, dir, id) ==
    FirstId(SelectSeq([i \in DOMAIN list |-> PlugOf(u, list[i])],
                      LAMBDA p : p.address.dir = dir /\ p.address.id = id))
getSubunit(u, su) == {i \in DOMAIN u.m_subunits : u.m_subunits[i].type = su /\ u.m_subunits[i].id = 0}
getNrOfSubunits(u, su) == Cardinality({i \in DOMAIN u.m_subunits : u.m_subunits[i].type = su})

-----------------------------------------------------------------------------
\* What a plug of the generic driver finds out about itself.

\* The stream format the device reports: a compound stream, or a sync stream for a sync plug.
StreamKind(a) == IF Describe(a).type = "Sync" THEN "sync" ELSE "compound"
discoverNoOfChannels(p) ==
    IF p.m_nrOfChannels = 0 /\ StreamKind(p.address) = "compound"
    THEN [p EXCEPT !.m_nrOfChannels = PlugChannels(p.address)] ELSE p
ClusterInfo(index, n, built) ==
    [m_index |-> index, m_nrOfChannels |-> n, m_streamFormat |-> "none", m_portType |-> "none",
     m_buildSource |-> built, m_channelInfos |-> <<>>]
Unnamed(n) == [i \in 1..n |-> [m_streamPosition |-> i - 1, m_name |-> NoId]]
\* Nothing known: one cluster, marked as temporary.
discoverClusterInfo(p) ==
    IF p.m_clusterInfos # <<>> THEN p
    ELSE [p EXCEPT !.m_clusterInfos =
             <<[ClusterInfo(1, p.m_nrOfChannels, -1) EXCEPT !.m_channelInfos = Unnamed(p.m_nrOfChannels)]>>]
getClusterInfoByIndex(p, k) == {i \in DOMAIN p.m_clusterInfos : p.m_clusterInfos[i].m_index = k}
discoverStreamFormat(p) ==
    LET cs == Describe(p.address).clusters
        format(i) == LET k == p.m_clusterInfos[i].m_index
                     IN  IF i \in getClusterInfoByIndex(p, k) /\ k \in DOMAIN cs THEN cs[k].format
                         ELSE p.m_clusterInfos[i].m_streamFormat
        q == [p EXCEPT !.m_samplingFrequency = RateOf(p.address)]
    IN  IF StreamKind(p.address) = "sync" THEN q
        ELSE [q EXCEPT !.m_clusterInfos = [i \in DOMAIN @ |-> [@[i] EXCEPT !.m_streamFormat = format(i)]]]
\* One entry for each rate of the list, which the device ends with a reply "not implemented".
FormatInfo(p, i, rate) ==
    LET cs == Describe(p.address).clusters
        count(f) == FoldLeft(LAMBDA n, c : n + (IF c.format = f THEN Channels(c) ELSE 0), 0, cs)
    IN  [m_index |-> i - 1, m_samplingFrequency |-> rate, m_isSyncStream |-> StreamKind(p.address) = "sync",
         m_audioChannels |-> count("audio"), m_midiChannels |-> count("midi")]
discoverSupportedStreamFormats(p) ==
    LET l == Describe(p.address).formats
    IN  [p EXCEPT !.m_formatInfos = @ \o [i \in DOMAIN l |-> FormatInfo(p, i, l[i])]]

\* The music subunit's status descriptor knows the type, the clusters and the music plug of
\* every channel; the audio subunit and the unit have none.
initPlugFromDescriptor(p) ==
    LET d == Describe(p.address)
        cluster(k) ==
            [ClusterInfo(k, Channels(d.clusters[k]), 0) EXCEPT
                !.m_streamFormat = d.clusters[k].format,
                !.m_channelInfos =
                    [i \in 1..Channels(d.clusters[k]) |->
                        [m_streamPosition |-> FirstPosition(d.clusters, k) + i - 2,
                         m_name |-> FirstPosition(d.clusters, k) + i - 1]]]
    IN  [p EXCEPT !.m_name = "described", !.m_infoPlugType = d.type, !.m_nrOfChannels = PlugChannels(p.address),
                  !.m_clusterInfos = [k \in DOMAIN d.clusters |-> cluster(k)]]
initFromDescriptor(p) == IF p.address.su = "music" THEN initPlugFromDescriptor(p) ELSE p
discoverName(p) == IF p.m_name = "" THEN [p EXCEPT !.m_name = "address"] ELSE p

\* Without an answer the stream formats stay unknown; where the channels are unknown too, the
\* plug is given up (see NewPlug).
UnlessSync(r) == IF r.m_infoPlugType = "Sync" THEN r ELSE discoverSupportedStreamFormats(r)
discoverFormats_avc(q, answered) == IF answered THEN UnlessSync(discoverStreamFormat(q)) ELSE q
discover_avc(p, answered) ==
    discoverFormats_avc(discoverClusterInfo(discoverNoOfChannels(discoverName(initFromDescriptor(p)))), answered)

-----------------------------------------------------------------------------
\* What a BeBoB plug finds out: everything by the extended plug info command.
discoverPlugType(p) == [p EXCEPT !.m_infoPlugType = Describe(p.address).type]
discoverName_bebob(p) == [p EXCEPT !.m_name = Describe(p.address).name]
discoverNoOfChannels_bebob(p) == [p EXCEPT !.m_nrOfChannels = PlugChannels(p.address)]
\* The device counts stream positions from 1, the driver from 0.
copyClusterInfo(p) ==
    LET cs == Describe(p.address).clusters
        channels(k) == [i \in 1..Channels(cs[k]) |->
                           [m_streamPosition |-> FirstPosition(cs, k) + i - 1 - 1, m_name |-> NoId]]
    IN  [p EXCEPT !.m_clusterInfos = @ \o
            [k \in DOMAIN cs |-> [ClusterInfo(k, Channels(cs[k]), 0) EXCEPT !.m_channelInfos = channels(k)]]]
\* The device names the channel at a position as it counts; here the position is the name.
discoverChannelName(p) ==
    [p EXCEPT !.m_clusterInfos = [k \in DOMAIN @ |-> [@[k] EXCEPT !.m_channelInfos =
        [i \in DOMAIN @ |-> [@[i] EXCEPT !.m_name = p.m_clusterInfos[k].m_channelInfos[i].m_streamPosition + 1]]]]]
\* The clusters of a sync plug have no port type.
discoverClusterInfo_bebob(p) ==
    IF p.m_infoPlugType = "Sync" THEN p
    ELSE [p EXCEPT !.m_clusterInfos = [k \in DOMAIN @ |->
             [@[k] EXCEPT !.m_portType = Describe(p.address).clusters[p.m_clusterInfos[k].m_index].format]]]
discover_bebob(p) ==
    discoverSupportedStreamFormats(discoverStreamFormat(discoverClusterInfo_bebob(discoverChannelName(
        copyClusterInfo(discoverNoOfChannels_bebob(discoverName_bebob(discoverPlugType(p))))))))

discover(p, answered) == IF topology.family = "bebob" THEN discover_bebob(p) ELSE discover_avc(p, answered)
NeedsAnswer(a) == topology.family = "bebob" \/ a.su # "music" \/ PlugChannels(a) = 0

\* One more plug: it takes its id first and joins the manager when everything is known.
NewPlug(u, a, fault) ==
    IF ~u.ok THEN u
    ELSE IF Fails(fault, "describe", a) /\ NeedsAnswer(a) THEN [requestNewGlobalId(u) EXCEPT !.ok = FALSE]
    ELSE addPlug(requestNewGlobalId(u), discover(Plug(u, a), ~Fails(fault, "describe", a)))
LastId(u) == u.m_globalIdCounter - 1

-----------------------------------------------------------------------------
\* Unit::discover.
Numbers(n) == [i \in 1..n |-> i - 1]
AddPcr(w) == IF w.ok THEN [w EXCEPT !.m_pcrPlugs = Append(@, LastId(w))] ELSE w
discoverPlugsPCR(u, dir, fault) ==
    FoldLeft(LAMBDA v, i : AddPcr(NewPlug(v, UnitPlug("pcr", dir, i), fault)), u, Numbers(topology.count.pcr[dir]))
AddExternal(w) == IF w.ok THEN [w EXCEPT !.m_externalPlugs = Append(@, LastId(w))] ELSE w
discoverPlugsExternal(u, dir, fault) ==
    FoldLeft(LAMBDA v, i : AddExternal(NewPlug(v, UnitPlug("external", dir, i), fault)),
             u, Numbers(topology.count.external[dir]))
discoverPlugs(u, fault) ==
    IF ~u.ok THEN u
    ELSE IF fault.at = "plugs" THEN [u EXCEPT !.ok = FALSE]
    ELSE discoverPlugsExternal(discoverPlugsExternal(
             discoverPlugsPCR(discoverPlugsPCR(u, "in", fault), "out", fault), "in", fault), "out", fault)

\* A subunit under construction is the last of the sequence; a failed one is deleted.
WithLast(u, Op(_)) == [u EXCEPT !.m_subunits[Len(u.m_subunits)] = Op(@)]
AddToSubunit(w) == IF w.ok THEN WithLast(w, LAMBDA s : [s EXCEPT !.plugs = Append(@, LastId(w))]) ELSE w
discoverPlugs_subunit(u, su, dir, fault) ==
    FoldLeft(LAMBDA v, i : AddToSubunit(NewPlug(v, SubunitPlugAddr(su, dir, i), fault)),
             u, Numbers(topology.count[su][dir]))
AddToBlock(w) ==
    IF w.ok THEN WithLast(w, LAMBDA s : [s EXCEPT !.functions[Len(s.functions)].plugs = Append(@, LastId(w))]) ELSE w
discoverPlugs_block(u, fb, dir, n, fault) ==
    FoldLeft(LAMBDA v, i : AddToBlock(NewPlug(v, BlockPlug(fb, dir, i), fault)), u, Numbers(n))
\* Selectors, features and enhanced mixers become function blocks; other processing blocks and
\* codecs are passed over.
createFunctionBlock(u, fb, fault) ==
    IF ~u.ok \/ fb.kind \notin {"selector", "feature", "enhanced"} THEN u
    ELSE LET v == WithLast(u, LAMBDA s : [s EXCEPT !.functions = Append(@, [block |-> fb, plugs |-> <<>>])])
         IN  discoverPlugs_block(discoverPlugs_block(v, fb, "in", fb.in, fault), fb, "out", fb.out, fault)
\* The device lists the blocks of a type five to a page; a full page asks for the next one.
PageSize == 5
discoverFunctionBlocksDo(u, type, fault) ==
    LET all == SelectSeq(topology.blocks, LAMBDA b : b.type = type)
        page(n) == SubSeq(all, n * PageSize + 1, Min({(n + 1) * PageSize, Len(all)}))
        asked == {n \in 0..Len(all) : \A k \in 0..(n - 1) : Len(page(k)) = PageSize}
    IN  FoldLeft(LAMBDA v, n : FoldLeft(LAMBDA w, b : createFunctionBlock(w, b, fault), v, page(n)),
                 u, Numbers(Cardinality(asked)))
BlockTypes == <<"selector", "feature", "processing", "codec">>
discoverFunctionBlocks(u, fault) ==
    IF fault.at = "blocks" THEN [u EXCEPT !.ok = FALSE]
    ELSE FoldLeft(LAMBDA v, type : IF v.ok THEN discoverFunctionBlocksDo(v, type, fault) ELSE v, u, BlockTypes)
WithBlocks(v, su, fault) ==
    IF v.ok /\ su = "audio" /\ topology.family = "bebob" THEN discoverFunctionBlocks(v, fault) ELSE v
discover_subunit(u, su, fault) ==
    WithBlocks(discoverPlugs_subunit(discoverPlugs_subunit(u, su, "in", fault), su, "out", fault), su, fault)
createSubunit(u, su) ==
    [u EXCEPT !.m_subunits = Append(@, [type |-> su, id |-> getNrOfSubunits(u, su), plugs |-> <<>>, functions |-> <<>>])]
enumerateSubUnits(u, fault) ==
    IF fault.at = "subunits" THEN [u EXCEPT !.ok = FALSE]
    ELSE FoldLeft(LAMBDA v, su : IF v.ok /\ su \in {"audio", "music"}
                                 THEN discover_subunit(createSubunit(v, su), su, fault) ELSE v,
                  u, topology.subunits)

-----------------------------------------------------------------------------
\* Connections.
toggleDirection(d) == IF d = "in" THEN "out" ELSE "in"

\* The generic driver asks the destinations: unit output plugs and subunit input plugs.  An
\* external plug is told from a PCR plug by the top bit of its number.
setDestPlugAddrToSignalCmd(a) ==
    IF a.su = eST_UnitPlug THEN [unit |-> TRUE, plugId |-> IF a.at = "external" THEN a.id + 128 ELSE a.id]
    ELSE [unit |-> FALSE, su |-> a.su, sid |-> a.sid, plugId |-> a.id]
SignalSources(a, s) == {w[1] : w \in {v \in Wires(topology, s) : v[2] = a}}
ResolveSignal(x) ==
    IF x.unit THEN IF x.plugId >= 128 THEN UnitPlug("external", "in", x.plugId - 128)
                   ELSE UnitPlug("pcr", "in", x.plugId)
    ELSE PlugAddr(x.su, x.sid, NoId, NoId, "subunit", "out", x.plugId)
getSignalSource(u, a, s) ==
    IF a.dir # (IF a.su = eST_UnitPlug THEN "out" ELSE "in") \/ SignalSources(a, s) = {} THEN NullPlug
    ELSE getPlug(u, ResolveSignal(setDestPlugAddrToSignalCmd(CHOOSE x \in SignalSources(a, s) : TRUE)))
discoverConnectionsInput_avc(u, g, s) ==
    LET from == getSignalSource(u, PlugOf(u, g).address, s)
    IN  [u EXCEPT !.m_plugs[IndexOf(u, g)].m_inputConnections = IF from = NullPlug THEN <<>> ELSE <<from>>]

\* The BeBoB driver is told the other ends, of every plug and in both directions, by addresses
\* that do not say the direction: that follows from the sorts of the two plugs.
SpecificAddress(a) == [su |-> a.su, sid |-> a.sid, fbt |-> a.fbt, fbi |-> a.fbi, at |-> a.at, id |-> a.id]
DirectionOfOther(a, x) ==
    CASE x.at \in {"pcr", "external"} -> IF a.at = "subunit" THEN a.dir ELSE "unknown"
      [] x.at = "subunit" -> IF a.at = "subunit" THEN toggleDirection(a.dir) ELSE a.dir
      [] x.at = "function" -> CASE a.at = "function" -> toggleDirection(a.dir)
                                [] a.at = "subunit" -> a.dir
                                [] OTHER -> "unknown"
getPlugDefinedBySpecificData(u, a, x) ==
    getPlug(u, PlugAddr(x.su, x.sid, x.fbt, x.fbi, x.at, DirectionOfOther(a, x), x.id))
addPlugConnection(connections, g) ==
    IF g = NullPlug \/ \E i \in DOMAIN connections : connections[i] = g THEN connections ELSE Append(connections, g)
discoverConnectionsFromSpecificData(u, a, x, connections) ==
    addPlugConnection(connections, getPlugDefinedBySpecificData(u, a, x))
\* A plug without a source says so by an undefined address.
discoverConnectionsInput_bebob(u, g, s) ==
    LET a == PlugOf(u, g).address
        from == SignalSources(a, s)
    IN  IF from = {} THEN u
        ELSE [u EXCEPT !.m_plugs[IndexOf(u, g)].m_inputConnections =
                 discoverConnectionsFromSpecificData(u, a, SpecificAddress(CHOOSE x \in from : TRUE), @)]
discoverConnectionsOutput_bebob(u, g, s) ==
    LET a == PlugOf(u, g).address
        to == SetToSeq({w[2] : w \in {v \in Wires(topology, s) : v[1] = a}})
    IN  [u EXCEPT !.m_plugs[IndexOf(u, g)].m_outputConnections =
            FoldLeft(LAMBDA c, x : discoverConnectionsFromSpecificData(u, a, SpecificAddress(x), c), @, to)]
discoverConnections(u, g, s, fault) ==
    IF ~u.ok THEN u
    ELSE IF topology.family = "avc"
         THEN IF Fails(fault, "connections", PlugOf(u, g).address)
              THEN [u EXCEPT !.m_plugs[IndexOf(u, g)].m_inputConnections = <<>>]
              ELSE discoverConnectionsInput_avc(u, g, s)
    ELSE IF Fails(fault, "connections", PlugOf(u, g).address) THEN [u EXCEPT !.ok = FALSE]
         ELSE discoverConnectionsOutput_bebob(discoverConnectionsInput_bebob(u, g, s), g, s)

discoverPlugConnections(u, s, fault) ==
    FoldLeft(LAMBDA v, g : discoverConnections(v, g, s, fault), u, u.m_pcrPlugs \o u.m_externalPlugs)
SubunitPlugs(su) == FoldLeft(LAMBDA l, f : l \o f.plugs, su.plugs, su.functions)
discoverSubUnitsPlugConnections(u, s, fault) ==
    FoldLeft(LAMBDA v, su : FoldLeft(LAMBDA w, g : discoverConnections(w, g, s, fault), v, SubunitPlugs(su)),
             u, u.m_subunits)

\* All that the plugs hold, old and new, becomes the vector of connections, each once, and is
\* then written back to both ends.
ConnectionsOf(p) ==
    [i \in DOMAIN p.m_inputConnections |-> <<p.m_inputConnections[i], p.m_globalId>>]
        \o [i \in DOMAIN p.m_outputConnections |-> <<p.m_globalId, p.m_outputConnections[i]>>]
addConnection(c) ==
    LET new == SelectSeq([i \in DOMAIN c |-> i], LAMBDA i : \A j \in 1..(i - 1) : c[j] # c[i])
    IN  [i \in DOMAIN new |-> c[new[i]]]
EndsOf(all, g, mine, other) ==
    LET s == SelectSeq(all, LAMBDA c : c[mine] = g) IN [i \in DOMAIN s |-> s[i][other]]
WithConnections(u, all) ==
    [u EXCEPT !.m_plugConnections = all,
              !.m_plugs = [i \in DOMAIN @ |->
                  [@[i] EXCEPT !.m_inputConnections = EndsOf(all, u.m_plugs[i].m_globalId, 2, 1),
                               !.m_outputConnections = EndsOf(all, u.m_plugs[i].m_globalId, 1, 2)]]]
tidyPlugConnections(u) ==
    WithConnections(u, addConnection(FoldLeft(LAMBDA l, p : l \o ConnectionsOf(p), <<>>, u.m_plugs)))
Tidied(v) == IF v.ok THEN tidyPlugConnections(v) ELSE v
\* (Through sets of one, so that TLC evaluates each stage before the next.)
rediscoverConnections(u, s, fault) ==
    LET ofUnit == {discoverPlugConnections([u EXCEPT !.m_plugConnections = <<>>], s, fault)}
        ofAll == {discoverSubUnitsPlugConnections(v, s, fault) : v \in ofUnit}
    IN  CHOOSE w \in {Tidied(v) : v \in ofAll} : TRUE

-----------------------------------------------------------------------------
\* Sync modes: what the device may select as the source of the music subunit's sync input.
inquireConnnection(from, to) == to.address = topology.sync /\ from.address \in topology.sources
checkSyncConnectionsAndAddToList(u, ls, rs, description) ==
    FoldLeft(LAMBDA v, l : FoldLeft(LAMBDA w, r :
                 IF inquireConnnection(l, r)
                 THEN [w EXCEPT !.m_syncInfos = Append(@, [m_source |-> l.m_globalId, m_destination |-> r.m_globalId,
                                                           m_description |-> description])]
                 ELSE w, v, rs), u, ls)
syncMSUInputPlugs(u) == getPlugsByType(u, "music", "subunit", "in", "Sync")
discoverSyncModes(u) ==
    LET ins == syncMSUInputPlugs(u)
        syt == checkSyncConnectionsAndAddToList([u EXCEPT !.m_syncInfos = <<>>],
                   getPlugsOf(u, u.m_pcrPlugs, "in", "IsoStream"), ins, "Syt Match")
        csp == checkSyncConnectionsAndAddToList(syt, getPlugsByType(u, "music", "subunit", "out", "Sync"), ins, "Internal (CSP)")
        dig == checkSyncConnectionsAndAddToList(csp,
                   getPlugsOf(u, u.m_externalPlugs, "in", "Digital"), ins, "Digital Input Sync")
    IN  checkSyncConnectionsAndAddToList(dig, getPlugsOf(u, u.m_externalPlugs, "in", "Sync"), ins, "Digital Input Sync")
\* The last connection of a sync input that a mode describes.
getActiveSyncInfo(u) ==
    LET ins == syncMSUInputPlugs(u)
        described(from, to) == \E i \in DOMAIN u.m_syncInfos :
                                  u.m_syncInfos[i].m_source = from /\ u.m_syncInfos[i].m_destination = to
        all == FoldLeft(LAMBDA l, p : l \o SelectSeq(p.m_inputConnections, LAMBDA g : described(g, p.m_globalId)),
                        <<>>, ins)
    IN  IF all = <<>> THEN NullPlug ELSE all[Len(all)]

\* A unit plug of the generic driver takes channels, and clusters it had to invent, from the
\* first plug it is connected to.
propagateFromPlug(p, q) ==
    LET temp == p.m_clusterInfos = <<>> \/ p.m_clusterInfos[1].m_buildSource = -1
        taken == IF q.m_clusterInfos = <<>> THEN <<>> ELSE [q.m_clusterInfos EXCEPT ![1].m_buildSource = 0]
    IN  [p EXCEPT !.m_clusterInfos = IF temp THEN taken ELSE @, !.m_nrOfChannels = q.m_nrOfChannels]
propagateFromConnectedPlug(u, g) ==
    LET p == PlugOf(u, g)
        other == IF p.address.dir = "out" THEN p.m_inputConnections ELSE p.m_outputConnections
    IN  IF other = <<>> THEN u ELSE [u EXCEPT !.m_plugs[IndexOf(u, g)] = propagateFromPlug(p, PlugOf(u, other[1]))]
propagatePlugInfo(u) ==
    IF topology.family = "bebob" THEN u
    ELSE FoldLeft(propagateFromConnectedPlug, u, u.m_pcrPlugs \o u.m_externalPlugs)

Connected(v, s, fault) == IF v.ok THEN rediscoverConnections(v, s, fault) ELSE v
Completed(w) == IF w.ok THEN propagatePlugInfo(discoverSyncModes(w)) ELSE w
Unit_discover(u, s, fault) ==
    LET enumerated == {enumerateSubUnits(clean(u), fault)}
        discovered == {discoverPlugs(v, fault) : v \in enumerated}
        connected == {Connected(v, s, fault) : v \in discovered}
    IN  CHOOSE w \in {Completed(v) : v \in connected} : TRUE

-----------------------------------------------------------------------------
\* The cache file.  A vector is written under its name and the index of each entry, a plug in
\* a vector as its global id.
serializePlugVector(l) == l
serializeChannelInfos(l) == [i \in DOMAIN l |-> [m_streamPosition |-> l[i].m_streamPosition, m_name |-> l[i].m_name]]
serializeClusterInfos(cs) ==
    [i \in DOMAIN cs |-> [m_index |-> cs[i].m_index, m_portType |-> cs[i].m_portType,
                          m_nrOfChannels |-> cs[i].m_nrOfChannels,
                          m_channelInfo |-> serializeChannelInfos(cs[i].m_channelInfos),
                          m_streamFormat |-> cs[i].m_streamFormat]]
serializeFormatInfos(l) == l
Plug_serialize(p) ==
    [address |-> p.address, m_infoPlugType |-> p.m_infoPlugType, m_nrOfChannels |-> p.m_nrOfChannels,
     m_name |-> p.m_name, m_clusterInfos |-> serializeClusterInfos(p.m_clusterInfos),
     m_samplingFrequency |-> p.m_samplingFrequency, m_formatInfo |-> serializeFormatInfos(p.m_formatInfos),
     m_inputConnections |-> serializePlugVector(p.m_inputConnections),
     m_outputConnections |-> serializePlugVector(p.m_outputConnections), m_globalId |-> p.m_globalId]
FunctionBlock_serialize(f) == [block |-> f.block, m_plugs |-> serializePlugVector(f.plugs)]
serializeChild(l) == [i \in DOMAIN l |-> FunctionBlock_serialize(l[i])]
Subunit_serialize(su) ==
    [m_sbType |-> su.type, m_sbId |-> su.id, m_plugs |-> serializePlugVector(su.plugs),
     FunctionBlock |-> serializeChild(su.functions)]
PlugManager_serialize(u) == [i \in DOMAIN u.m_plugs |-> Plug_serialize(u.m_plugs[i])]
serializeSyncInfoVector(l) == l
Unit_serialize(u) ==
    [Subunit |-> [i \in DOMAIN u.m_subunits |-> Subunit_serialize(u.m_subunits[i])],
     PcrPlug |-> serializePlugVector(u.m_pcrPlugs), ExternalPlug |-> serializePlugVector(u.m_externalPlugs),
     PlugConnection |-> u.m_plugConnections, Plug |-> PlugManager_serialize(u),
     m_globalIdCounter |-> u.m_globalIdCounter, SyncInfo |-> serializeSyncInfoVector(u.m_syncInfos)]

\* Reading a vector of plugs ends at the first one the manager does not know.
deserializePlugVector(u, l) ==
    LET unknown == {i \in DOMAIN l : getPlugByGlobalId(u, l[i]) = NullPlug}
    IN  SubSeq(l, 1, IF unknown = {} THEN Len(l) ELSE (CHOOSE i \in unknown : \A j \in unknown : i <= j) - 1)
deserializeChannelInfos(l) == [i \in DOMAIN l |-> [m_streamPosition |-> l[i].m_streamPosition, m_name |-> l[i].m_name]]
deserializeClusterInfos(cs) ==
    [i \in DOMAIN cs |-> [m_index |-> cs[i].m_index, m_portType |-> cs[i].m_portType,
                          m_nrOfChannels |-> cs[i].m_nrOfChannels,
                          m_channelInfos |-> deserializeChannelInfos(cs[i].m_channelInfo),
                          m_streamFormat |-> cs[i].m_streamFormat, m_buildSource |-> 0]]
\* The formats are looked for under m_formatInfos, where nothing was written.
deserializeFormatInfos(f) == IF "m_formatInfos" \in DOMAIN f THEN f["m_formatInfos"] ELSE <<>>
Plug_deserialize(f) ==
    [address |-> f.address, m_infoPlugType |-> f.m_infoPlugType, m_nrOfChannels |-> f.m_nrOfChannels,
     m_name |-> f.m_name, m_clusterInfos |-> deserializeClusterInfos(f.m_clusterInfos),
     m_samplingFrequency |-> f.m_samplingFrequency, m_formatInfos |-> deserializeFormatInfos(f),
     m_inputConnections |-> <<>>, m_outputConnections |-> <<>>, m_globalId |-> f.m_globalId]
PlugManager_deserialize(u, file) ==
    [u EXCEPT !.m_globalIdCounter = file.m_globalIdCounter,
              !.m_plugs = [i \in DOMAIN file.Plug |-> Plug_deserialize(file.Plug[i])]]
\* The connections of a plug are looked for under its global id, the plugs under their index.
Entry_next(file, p) == p.m_globalId + 2
Entry(file, p) == p.m_globalId + 1
deserializeConnections(u, p, file) ==
    IF Entry(file, p) \notin DOMAIN file.Plug THEN p
    ELSE [p EXCEPT !.m_inputConnections = @ \o deserializePlugVector(u, file.Plug[Entry(file, p)].m_inputConnections),
                   !.m_outputConnections = @ \o deserializePlugVector(u, file.Plug[Entry(file, p)].m_outputConnections)]
PlugManager_deserializeUpdate(u, file) ==
    [u EXCEPT !.m_plugs = [i \in DOMAIN @ |-> deserializeConnections(u, @[i], file)]]
FunctionBlock_deserialize(f) == [block |-> f.block, plugs |-> <<>>]
deserializeChild(l) == [i \in DOMAIN l |-> FunctionBlock_deserialize(l[i])]
Subunit_deserialize(f) ==
    [type |-> f.m_sbType, id |-> f.m_sbId, plugs |-> <<>>, functions |-> deserializeChild(f.FunctionBlock)]
\* The plugs of a subunit and of its function blocks are looked for under the id of the subunit,
\* streamed as a character; they were written under its place in the vector, in digits.
Digits(n) == [digits |-> n]
Character(n) == [character |-> n]
FunctionBlock_deserializeUpdate(f, vector) == [f EXCEPT !.plugs = @ \o vector]
deserializeUpdateChild(su, vector) ==
    [su EXCEPT !.functions = [i \in DOMAIN @ |-> FunctionBlock_deserializeUpdate(@[i], vector)]]
Subunit_deserializeUpdate(su, l) ==
    LET found == {i \in DOMAIN l : Digits(i - 1) = Character(su.id)}
        vector == IF found = {} THEN <<>> ELSE l[CHOOSE i \in found : TRUE].m_plugs
    IN  deserializeUpdateChild([su EXCEPT !.plugs = @ \o vector], vector)
deserializeVector(u, l) == [u EXCEPT !.m_subunits = @ \o [i \in DOMAIN l |-> Subunit_deserialize(l[i])]]
deserializeSyncInfoVector(u, l) ==
    [u EXCEPT !.m_syncInfos = @ \o [i \in DOMAIN l |->
        [l[i] EXCEPT !.m_source = getPlugByGlobalId(u, @), !.m_destination = getPlugByGlobalId(u, @)]]]
\* The subunits are read twice.  The connections of the file are dropped for those the plugs
\* hold and those the device reports; that this fails does not fail the whole.
Unit_deserialize(u, file, s, fault) ==
    LET a == PlugManager_deserialize(deserializeVector(u, file.Subunit), file)
        b == [a EXCEPT !.m_subunits = [i \in DOMAIN @ |-> Subunit_deserializeUpdate(@[i], file.Subunit)],
                       !.m_pcrPlugs = deserializePlugVector(a, file.PcrPlug),
                       !.m_externalPlugs = deserializePlugVector(a, file.ExternalPlug)]
        c == deserializeSyncInfoVector(deserializeVector(b, file.Subunit), file.SyncInfo)
        d == rediscoverConnections(PlugManager_deserializeUpdate(c, file), s, fault)
    IN  [d EXCEPT !.ok = TRUE]

-----------------------------------------------------------------------------
\* BeBoB: the configuration of the device, which names the cache file.
getConfigurationIdSampleRate == rates["in"]
getConfigurationIdNumberOfChannel(dir) == PlugChannels(UnitPlug("pcr", dir, 0))
getConfigurationIdSyncMode(s) == {setDestPlugAddrToSignalCmd(a) : a \in SignalSources(UnitPlug("pcr", "out", 1), s)}
getConfigurationId ==
    <<getConfigurationIdSampleRate, getConfigurationIdNumberOfChannel("in"),
      getConfigurationIdNumberOfChannel("out"), getConfigurationIdSyncMode(source)>>
NoConfig == <<>>
\* loadFromCache leaves the member as it was; the generic driver always asks again.
needsRediscovery == topology.family = "avc" \/ getConfigurationId # m_last_discovery_config_id

\* Clocks: a mode becomes a clock source by the type and the name of its plug.
syncInfoToClockSource(u, si) ==
    LET p == PlugOf(u, si.m_source)
    IN  [id |-> si.m_source, active |-> getActiveSyncInfo(u) = si.m_source,
         type |-> CASE p.m_infoPlugType = "IsoStream" -> "SytMatch"
                    [] p.m_infoPlugType = "Sync" /\ p.address.at = "pcr" -> "SytStream"
                    [] p.m_infoPlugType = "Sync" /\ p.address.at = "subunit" -> "Internal"
                    [] p.address.at = "external" /\ p.m_name = "SPDIF" -> "SPDIF"
                    [] p.m_infoPlugType = "Digital" /\ p.address.at = "external" /\ p.m_name = "ADAT" -> "ADAT"
                    [] p.address.at = "external" -> "WordClock"
                    [] OTHER -> "Invalid"]
getSupportedClockSources(u) ==
    IF syncMSUInputPlugs(u) = <<>> THEN <<>>
    ELSE [i \in DOMAIN u.m_syncInfos |-> syncInfoToClockSource(u, u.m_syncInfos[i])]

-----------------------------------------------------------------------------
PlugInit ==
    /\ hardware \in DOMAIN Topologies
    /\ source \in topology.sources
    /\ rates = [d \in {"in", "out"} |-> 48]
    /\ unit = Cleaned
    /\ ready = FALSE
    /\ m_last_discovery_config_id = NoConfig
    /\ files = << >>
    /\ answer = "new"
    /\ outdated = FALSE
    /\ plugOps = 0

Operation == plugOps < MaxPlugOps /\ plugOps' = plugOps + 1

HasSubunits(u) == getSubunit(u, "audio") # {} /\ getSubunit(u, "music") # {}
\* discover, of a new device or of one that a bus reset finds changed.  The device manager
\* deletes a device whose discovery fails.
Discover ==
    /\ answer # "discovered"
    /\ ready => needsRediscovery
    /\ Operation
    /\ \E fault \in Faults : \E u \in {Unit_discover(unit, source, fault)} :
         LET good == u.ok /\ HasSubunits(u)
         IN  /\ ready' = good
             /\ unit' = IF good THEN u ELSE Cleaned
             /\ m_last_discovery_config_id' =
                    IF good /\ topology.family = "bebob" THEN getConfigurationId ELSE NoConfig
             /\ answer' = IF good THEN "discovered" ELSE "new"
             /\ outdated' = (good /\ fault.at = "connections")
    /\ UNCHANGED <<hardware, source, rates, files>>

\* saveCache follows a discovery; the generic driver has no cache.
saveCache ==
    /\ answer = "discovered"
    /\ answer' = "idle"
    /\ files' = IF topology.family = "avc" THEN files
                ELSE (getConfigurationId :> [file |-> Unit_serialize(unit), outdated |-> outdated, source |-> source]) @@ files
    /\ UNCHANGED <<hardware, source, rates, unit, ready, m_last_discovery_config_id, outdated, plugOps>>

\* loadFromCache, of a new device object.
loadFromCache ==
    /\ ~ready /\ answer = "new"
    /\ topology.family = "bebob"
    /\ getConfigurationId \in DOMAIN files
    /\ Operation
    /\ \E fault \in ConnectionFaults :
           unit' = Unit_deserialize(unit, files[getConfigurationId].file, source, fault)
    /\ ready' = TRUE /\ answer' = "idle"
    /\ outdated' = (files[getConfigurationId].outdated \/ files[getConfigurationId].source # source)
    /\ UNCHANGED <<hardware, source, rates, m_last_discovery_config_id, files>>

\* The process ends: its device object goes, the file stays.
Restart ==
    /\ ready /\ answer # "discovered"
    /\ Operation
    /\ ready' = FALSE /\ answer' = "new" /\ unit' = Cleaned
    /\ m_last_discovery_config_id' = NoConfig
    /\ UNCHANGED <<hardware, source, rates, files, outdated>>

\* setActiveClockSource: the first mode with that plug as its source; the connections are
\* asked for again, whether or not the device took the connection.
setConnection(to) == {to, source}
setActiveSync(si) ==
    \E s \in setConnection(PlugOf(unit, si.m_source).address), fault \in ConnectionFaults :
      \E u \in {rediscoverConnections(unit, s, fault)} :
        /\ source' = s
        /\ unit' = [u EXCEPT !.ok = TRUE]
        /\ answer' = IF u.ok /\ s = PlugOf(unit, si.m_source).address THEN "set" ELSE "failed"
        /\ outdated' = (outdated \/ s # source)
setActiveClockSource ==
    /\ ready /\ answer # "discovered"
    /\ Operation
    /\ \E i \in DOMAIN unit.m_syncInfos :
          /\ \A j \in 1..(i - 1) : unit.m_syncInfos[j].m_source # unit.m_syncInfos[i].m_source
          /\ setActiveSync(unit.m_syncInfos[i])
    /\ UNCHANGED <<hardware, rates, ready, m_last_discovery_config_id, files>>

\* setSampleRate of a PCR plug: the plug signal format, and where the device rejects that the
\* stream format, of which the reply is not looked at.
setSampleRate_signal(old, rate) == {[now |-> rate, ok |-> TRUE], [now |-> old, ok |-> FALSE], [now |-> rate, ok |-> FALSE]}
supportsSampleRate(a, rate) == \E i \in DOMAIN Describe(a).formats : Describe(a).formats[i] = rate
setSampleRate_stream(a, old, rate) ==
    IF ~supportsSampleRate(a, rate) THEN {[now |-> old, ok |-> FALSE]}
    ELSE {[now |-> rate, ok |-> TRUE], [now |-> old, ok |-> TRUE], [now |-> old, ok |-> FALSE]}
setSampleRate(a, old, rate) == setSampleRate_signal(old, rate) \cup setSampleRate_stream(a, old, rate)
getSampleRate(g) == rates[PlugOf(unit, g).address.dir]
getSamplingFrequency == getSampleRate(getPlugById(unit, unit.m_pcrPlugs, "out", 0))
setSamplingFrequency ==
    /\ ready /\ answer # "discovered"
    /\ Operation
    /\ \E rate \in PlugRates :
         LET in == UnitPlug("pcr", "in", 0)
             out == UnitPlug("pcr", "out", 0)
         IN  \E x \in setSampleRate(in, rates["in"], rate), y \in setSampleRate(out, rates["out"], rate) :
                /\ rates' = [in |-> x.now, out |-> IF x.ok THEN y.now ELSE rates["out"]]
                /\ answer' = IF x.ok /\ y.ok THEN "set" ELSE "failed"
    /\ UNCHANGED <<hardware, source, unit, ready, m_last_discovery_config_id, files, outdated>>

\* The user turns a knob of the device.
Panel ==
    /\ Operation
    /\ \/ \E s \in topology.sources \ {source} : source' = s /\ outdated' = TRUE /\ UNCHANGED rates
       \/ \E r \in PlugRates : rates' = [d \in {"in", "out"} |-> r] /\ UNCHANGED <<source, outdated>>
    /\ UNCHANGED <<hardware, unit, ready, m_last_discovery_config_id, files, answer>>

PlugNext == Discover \/ saveCache \/ loadFromCache \/ Restart \/ setActiveClockSource \/ setSamplingFrequency \/ Panel
PlugSpec == PlugInit /\ [][PlugNext]_plugVars

-----------------------------------------------------------------------------
\* The connections the plugs hold, from either end.
Held(u, ends) ==
    UNION {{<<IF ends = "in" THEN PlugOf(u, g).address ELSE p.address,
              IF ends = "in" THEN p.address ELSE PlugOf(u, g).address>> :
               g \in ToSet(IF ends = "in" THEN p.m_inputConnections ELSE p.m_outputConnections)} : p \in ToSet(u.m_plugs)}
\* Two unit plugs joined directly: the BeBoB driver cannot tell their directions.
Seen(u) == {w \in Wires(topology, source) :
               /\ \A k \in 1..2 : getPlug(u, w[k]) # NullPlug
               /\ topology.family = "bebob" => ~(w[1].su = eST_UnitPlug /\ w[2].su = eST_UnitPlug)}

(* Until the device is rerouted, the plugs of a unit hold the connections  *)
(* of the device and no others, each at both ends, after a discovery from  *)
(* scratch as after one from the cache (Unit::rediscoverConnections and    *)
(* PlugManager::tidyPlugConnections; getPlugDefinedBySpecificData infers   *)
(* directions; the file keeps ids).                                        *)
ConnectionsAreDevice ==
    ready /\ ~outdated => Held(unit, "in") = Seen(unit) /\ Held(unit, "out") = Seen(unit)

(* Every plug of a unit, discovered or read from the cache, is a plug of   *)
(* the device with its channels at their positions and under their names,  *)
(* and the clocks offered are those the device can follow                  *)
(* (Plug::discover of both drivers, Plug::deserialize, discoverSyncModes). *)
PlugsAreDevice ==
    ready =>
        /\ \A i, j \in DOMAIN unit.m_plugs :
              i # j => /\ unit.m_plugs[i].m_globalId # unit.m_plugs[j].m_globalId
                       /\ unit.m_plugs[i].address # unit.m_plugs[j].address
        /\ \A p \in ToSet(unit.m_plugs) :
              (topology.family = "bebob" \/ p.address.su = "music") =>
                  /\ p.m_infoPlugType = Describe(p.address).type
                  /\ p.m_nrOfChannels = PlugChannels(p.address)
                  /\ Describe(p.address).clusters # <<>> =>
                        [k \in DOMAIN p.m_clusterInfos |-> p.m_clusterInfos[k].m_nrOfChannels]
                          = [k \in DOMAIN Describe(p.address).clusters |-> Channels(Describe(p.address).clusters[k])]
                  /\ topology.family = "bebob" => \A c \in ToSet(p.m_clusterInfos) : c.m_portType = c.m_streamFormat
                  /\ \A c \in ToSet(p.m_clusterInfos) : \A x \in ToSet(c.m_channelInfos) :
                        x.m_name = x.m_streamPosition + 1
        /\ topology.family = "bebob" =>
              {PlugOf(unit, c.id).address : c \in ToSet(getSupportedClockSources(unit))} = topology.sources

(* What a unit knows of its device is true: the plugs and the connections  *)
(* that AVC::Unit::discover found, or loadFromCache read back.             *)
UnitIsDevice == ConnectionsAreDevice /\ PlugsAreDevice

(* A clock that was selected with success is the one shown as active       *)
(* (Unit::setActiveSync rediscovers the connections for that).             *)
SelectedIsActive ==
    ready /\ answer = "set" /\ getActiveSyncInfo(unit) # NullPlug => PlugOf(unit, getActiveSyncInfo(unit)).address = source
=============================================================================
