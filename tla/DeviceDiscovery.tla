--------------------------- MODULE DeviceDiscovery ---------------------------
(***************************************************************************)
(* The list of devices of DeviceManager.  The client's thread brings up    *)
(* the 1394 service, discovers the devices, walks over the list without a  *)
(* lock and deletes the manager; the bus reset thread of the service gives *)
(* the devices their new node ids and discovers again after every reset.   *)
(* Devices come and go, and each change of the bus resets it.              *)
(***************************************************************************)
EXTENDS Integers, Sequences, FiniteSets, SequencesExt

CONSTANTS
    Traits,      \* guid -> what probing its device would find: entry, motu, answers
    SpecStrings, \* the guids the client asked for, in order; <<>> asks for every device
    MaxResets,   \* bound on changes of the bus
    MaxMisses,   \* bound on reads and discoveries that fail
    MaxWalks     \* bound on the client's walks over the list

ASSUME DiscoveryAssumption == IsFiniteSet(DOMAIN Traits)

VARIABLES
    node,      \* guid -> its node on the bus, or Gone
    pending,   \* bus resets the service has not handled yet
    service,   \* "none", "down" (no helper threads), "up", "deleted"
    avDevices, \* m_avDevices: sequence of [guid, id, node]; id names the object
    elements,  \* ids of the devices in the control tree
    freed,     \* ids of deleted objects
    nextId,
    listLock,  \* m_DeviceListLock
    resetLock, \* m_BusResetLock
    pc, loc,   \* of each thread: the next step, and its local variables
    slaveMode,
    updating,  \* preUpdate notifications without a postUpdate
    resets, walks, misses,
    stale,     \* history: threads that used an object after it was deleted
    abandoned  \* history: discover returned from slave mode with the lock held

discoveryVars == <<node, pending, service, avDevices, elements, freed, nextId, listLock, resetLock,
                   pc, loc, slaveMode, updating, resets, walks, misses, stale, abandoned>>

Guids == DOMAIN Traits
Threads == {"client", "reset"}
Gone == 0
Nodes == 1..Cardinality(Guids)
Free == "nobody"
At(n) == {g \in Guids : node[g] = n}
\* At most one device at a node.
Placements == {f \in [Guids -> {Gone} \cup Nodes] :
                 \A g, h \in Guids : f[g] = f[h] => g = h \/ f[g] = Gone}
NoLocals == [i |-> 1, roms |-> {}, failed |-> {}, rediscover |-> FALSE]

DiscoveryInit ==
    /\ node \in Placements
    /\ pending = 0 /\ service = "none" /\ avDevices = <<>> /\ elements = {} /\ freed = {} /\ nextId = 1
    /\ listLock = Free /\ resetLock = Free
    /\ pc = [client |-> "init", reset |-> "idle"] /\ loc = [t \in Threads |-> NoLocals]
    /\ slaveMode \in BOOLEAN /\ updating = 0
    /\ resets = 0 /\ walks = 0 /\ misses = 0 /\ stale = {} /\ abandoned = FALSE

GoTo(t, p) == pc' = [pc EXCEPT ![t] = p]
Local(t, x) == loc' = [loc EXCEPT ![t] = x]
Fail == misses < MaxMisses /\ misses' = misses + 1
listVars == <<avDevices, elements, freed, nextId>>
busVars == <<node, pending, resets>>
restVars == <<service, slaveMode, walks, stale>>

-----------------------------------------------------------------------------
\* The driver of a device: the first one whose probe succeeds, first the specific probes,
\* then the generic ones.
findDeviceVME(g, driver) == Traits[g].entry = driver
probe_bebob(g, generic) == IF generic THEN "plug info" \in Traits[g].answers ELSE findDeviceVME(g, "bebob")
probe_fireworks(g, generic) == IF generic THEN "efc" \in Traits[g].answers ELSE findDeviceVME(g, "fireworks")
probe_oxford(g, generic) == ~generic /\ findDeviceVME(g, "oxford")
probe_avc(g, generic) == IF generic THEN "music" \in Traits[g].answers ELSE findDeviceVME(g, "avc")
probe_motu(g, generic) == ~generic /\ Traits[g].motu
probe_dice(g, generic) == ~generic /\ findDeviceVME(g, "dice")
probe_metrichalo(g, generic) == ~generic /\ findDeviceVME(g, "metrichalo")
probe_rme(g, generic) == ~generic /\ findDeviceVME(g, "rme")
probe_bounce(g, generic) == ~generic /\ findDeviceVME(g, "bounce")
DriverOrder == <<"bebob", "fireworks", "oxford", "avc", "motu", "dice", "metrichalo", "rme", "bounce">>
probe(driver, g, generic) ==
    CASE driver = "bebob" -> probe_bebob(g, generic)   [] driver = "fireworks" -> probe_fireworks(g, generic)
      [] driver = "oxford" -> probe_oxford(g, generic) [] driver = "avc" -> probe_avc(g, generic)
      [] driver = "motu" -> probe_motu(g, generic)     [] driver = "dice" -> probe_dice(g, generic)
      [] driver = "metrichalo" -> probe_metrichalo(g, generic)
      [] driver = "rme" -> probe_rme(g, generic)       [] OTHER -> probe_bounce(g, generic)
getDriverForDeviceDo(g, generic) ==
    LET fits == SelectSeq(DriverOrder, LAMBDA d : probe(d, g, generic))
    IN  IF fits = <<>> THEN "none" ELSE Head(fits)
getDriverForDevice(g) ==
    IF getDriverForDeviceDo(g, FALSE) # "none" THEN getDriverForDeviceDo(g, FALSE)
                                               ELSE getDriverForDeviceDo(g, TRUE)

\* DeviceStringParser: the position of the first spec string that names the device.
match(g) == SpecStrings = <<>> \/ \E i \in DOMAIN SpecStrings : SpecStrings[i] = g
matchPosition(g) == CHOOSE i \in DOMAIN SpecStrings : SpecStrings[i] = g /\
                        \A j \in 1..(i - 1) : SpecStrings[j] # g
Wanted == {g \in Guids : match(g) /\ getDriverForDevice(g) # "none"}

-----------------------------------------------------------------------------
\* Ieee1394Service::initialize; it may fail before or after the helper threads exist.
initialize ==
    /\ pc["client"] = "init"
    /\ \/ service' = "up" /\ GoTo("client", "scan") /\ UNCHANGED misses
       \/ Fail /\ service' \in {"down", "up"} /\ GoTo("client", "close")
    /\ UNCHANGED <<busVars, listVars, listLock, resetLock, loc, slaveMode, walks, stale, updating, abandoned>>

\* discover.  First the ROMs of all nodes are read, one after the other, without a lock.
discover_scan(t) ==
    LET x == loc[t] IN
    /\ pc[t] = "scan"
    /\ IF x.i \in Nodes
       THEN /\ \/ Local(t, [x EXCEPT !.i = @ + 1, !.roms = @ \cup At(x.i)]) /\ UNCHANGED misses
               \/ Fail /\ At(x.i) # {} /\ Local(t, [x EXCEPT !.i = @ + 1])
            /\ UNCHANGED <<pc, updating>>
       ELSE GoTo(t, "prune") /\ updating' = updating + 1 /\ UNCHANGED <<loc, misses>>
    /\ UNCHANGED <<busVars, restVars, listVars, listLock, resetLock, abandoned>>

\* Then the list is locked, and the devices that were not seen are deleted; all of them
\* if this is the first discovery.
Kept(t, d) == loc[t].rediscover /\ d.guid \in loc[t].roms
DeleteDevices_listed(dead) ==
    /\ avDevices' = avDevices
    /\ elements' = elements \ dead
    /\ freed' = freed \cup dead
\* The loop that erases the dead from a list, as a function of the entries it has looked at.
Without(s, dead) ==
    LET left[i \in 0..Len(s)] ==
          IF i = 0 THEN <<>>
          ELSE IF s[i].id \in dead THEN left[i - 1] ELSE Append(left[i - 1], s[i])
    IN  left[Len(s)]
DeleteDevices(dead) ==
    /\ avDevices' = Without(avDevices, dead)
    /\ elements' = elements \ dead
    /\ freed' = freed \cup dead
Ids(s) == {s[i].id : i \in DOMAIN s}
discover_prune(t) ==
    /\ pc[t] = "prune" /\ listLock = Free
    /\ listLock' = t
    /\ DeleteDevices({d.id : d \in {e \in Range(avDevices) : ~Kept(t, e)}})
    /\ GoTo(t, IF slaveMode THEN "slave" ELSE "rediscover")
    /\ Local(t, [loc[t] EXCEPT !.i = 1, !.failed = {}])
    /\ UNCHANGED <<busVars, restVars, nextId, resetLock, updating, misses, abandoned>>

\* The remaining devices are discovered again if they ask for it; those that fail are deleted.
discover_rediscover(t) ==
    LET x == loc[t] IN
    /\ pc[t] = "rediscover"
    /\ IF x.i <= Len(avDevices)
       THEN /\ \/ Local(t, [x EXCEPT !.i = @ + 1]) /\ UNCHANGED misses
               \/ Fail /\ Local(t, [x EXCEPT !.i = @ + 1, !.failed = @ \cup {avDevices[x.i].id}])
            /\ UNCHANGED <<pc, avDevices, elements, freed>>
       ELSE DeleteDevices(x.failed) /\ GoTo(t, "add") /\ Local(t, [x EXCEPT !.i = 1]) /\ UNCHANGED misses
    /\ UNCHANGED <<busVars, restVars, nextId, listLock, resetLock, updating, abandoned>>

\* The ROMs are read a second time, and devices that are not in the list are added.
discover_add(t) ==
    LET x == loc[t]
        new == {g \in At(x.i) \cap Wanted : \A d \in Range(avDevices) : d.guid # g}
    IN  /\ pc[t] = "add" /\ x.i \in Nodes
        /\ Local(t, [x EXCEPT !.i = @ + 1])
        /\ \/ new = {} /\ UNCHANGED <<avDevices, elements, nextId, misses>>
           \/ new # {} /\ Fail /\ UNCHANGED <<avDevices, elements, nextId>>
           \/ /\ \E g \in new :
                    /\ avDevices' = Append(avDevices, [guid |-> g, id |-> nextId, node |-> x.i])
                    /\ elements' = elements \cup {nextId} /\ nextId' = nextId + 1
              /\ UNCHANGED misses
    /\ UNCHANGED <<busVars, restVars, freed, listLock, resetLock, pc, updating, abandoned>>

\* The list is sorted by GUID, from the highest down, or by the position of the spec string.
compareGUID(d, e) == d.guid > e.guid
compare(d, e) ==
    IF SpecStrings = <<>> THEN compareGUID(d, e) ELSE matchPosition(d.guid) < matchPosition(e.guid)
Ordered(s) == \A i, j \in DOMAIN s : i < j => ~compare(s[j], s[i])
Rearranged(s) == {[i \in DOMAIN s |-> s[p[i]]] : p \in Bijection(DOMAIN s, DOMAIN s)}
sorted(s) == {r \in Rearranged(s) : Ordered(r)}
discover_sort(t) ==
    /\ pc[t] = "add" /\ loc[t].i \notin Nodes
    /\ avDevices' \in sorted(avDevices)
    /\ listLock' = Free /\ GoTo(t, "post")
    /\ UNCHANGED <<busVars, restVars, elements, freed, nextId, resetLock, loc, updating, misses, abandoned>>

discover_post_silent(t) ==
    /\ pc[t] = "post"
    /\ updating' = IF t = "client" THEN updating - 1 ELSE updating
    /\ GoTo(t, IF t = "client" THEN "walk" ELSE "notify")
    /\ Local(t, [loc[t] EXCEPT !.i = 1])
    /\ UNCHANGED <<busVars, restVars, listVars, listLock, resetLock, misses, abandoned>>
discover_post(t) ==
    /\ pc[t] = "post"
    /\ updating' = updating - 1
    /\ GoTo(t, IF t = "client" THEN "walk" ELSE "notify")
    /\ Local(t, [loc[t] EXCEPT !.i = 1])
    /\ UNCHANGED <<busVars, restVars, listVars, listLock, resetLock, misses, abandoned>>

\* Slave mode: the ROM of the host, then one device for it.  Where this fails, discover
\* returns with the list locked and without the postUpdate notifications.
discover_slave(t) ==
    /\ pc[t] = "slave"
    /\ \/ /\ Fail /\ abandoned' = TRUE /\ UNCHANGED <<listVars, listLock, updating>>
          /\ GoTo(t, IF t = "client" THEN "close" ELSE "notify")
       \/ /\ avDevices' = <<[guid |-> Gone, id |-> nextId, node |-> Gone]>> /\ nextId' = nextId + 1
          /\ elements' = elements \ Ids(avDevices) /\ freed' = freed \cup Ids(avDevices)
          /\ updating' = updating + 1 /\ listLock' = Free /\ GoTo(t, "post")
          /\ UNCHANGED <<misses, abandoned>>
    /\ Local(t, [loc[t] EXCEPT !.i = 1])
    /\ UNCHANGED <<busVars, restVars, resetLock>>

-----------------------------------------------------------------------------
\* The reset thread: resetHandler calls busresetHandler, which gives every device its node.
busresetHandler ==
    /\ pc["reset"] = "idle" /\ pending > 0 /\ service = "up" /\ resetLock = Free
    /\ pending' = pending - 1 /\ resetLock' = "reset" /\ GoTo("reset", "nodes")
    /\ UNCHANGED <<node, resets, restVars, listVars, listLock, loc, updating, misses, abandoned>>

updatedNodeId_kept(d) == d
\* ConfigRom::updatedNodeId: the node with the guid of the device, if it can be read.
updatedNodeId(d) == [d EXCEPT !.node = IF d.guid \in Guids THEN node[d.guid] ELSE Gone]
handleBusReset ==
    /\ pc["reset"] = "nodes" /\ listLock = Free
    /\ avDevices' = [i \in DOMAIN avDevices |-> updatedNodeId(avDevices[i])]
    /\ stale' = IF Ids(avDevices) \cap freed # {} THEN stale \cup {"reset"} ELSE stale
    /\ GoTo("reset", "scan")
    /\ Local("reset", [NoLocals EXCEPT !.rediscover = TRUE])
    /\ UNCHANGED <<busVars, service, slaveMode, walks, elements, freed, nextId, listLock, resetLock,
                   updating, misses, abandoned>>

signalNotifiers ==
    /\ pc["reset"] = "notify"
    /\ resetLock' = Free /\ GoTo("reset", "idle")
    /\ UNCHANGED <<busVars, restVars, listVars, listLock, loc, updating, misses, abandoned>>

-----------------------------------------------------------------------------
\* initStreaming, startStreaming and the like: a walk over the list that takes no lock; the
\* iterator gives a device, and in a later step the device is used.
WalkStep ==
    LET x == loc["client"] IN
    /\ pc["client"] = "walk" /\ x.failed = {}
    /\ IF x.i <= Len(avDevices)
       THEN /\ Local("client", [x EXCEPT !.i = @ + 1, !.failed = {avDevices[x.i].id}])
            /\ UNCHANGED <<pc, walks>>
       ELSE /\ \/ walks < MaxWalks /\ walks' = walks + 1 /\ UNCHANGED pc
               \/ GoTo("client", "close") /\ UNCHANGED walks
            /\ Local("client", NoLocals)
    /\ UNCHANGED <<busVars, service, slaveMode, stale, listVars, listLock, resetLock, updating, misses, abandoned>>

UseDevice ==
    /\ pc["client"] = "walk" /\ loc["client"].failed # {}
    /\ Local("client", [loc["client"] EXCEPT !.failed = {}])
    /\ stale' = IF loc["client"].failed \cap freed # {} THEN stale \cup {"client"} ELSE stale
    /\ UNCHANGED <<busVars, service, slaveMode, walks, listVars, listLock, resetLock, pc, updating, misses, abandoned>>

\* ~DeviceManager: with both locks the devices are deleted, but stay in the list; the
\* service is deleted after the locks are released.
deleteManager ==
    /\ pc["client"] = "close" /\ resetLock = Free /\ listLock = Free
    /\ freed' = freed \cup Ids(avDevices) /\ elements' = elements \ Ids(avDevices)
    /\ GoTo("client", "service")
    /\ UNCHANGED <<busVars, restVars, avDevices, nextId, listLock, resetLock, loc, updating, misses, abandoned>>

\* ~Ieee1394Service stops the helper threads; the reset thread finishes what it is doing.
deleteService ==
    /\ pc["client"] = "service"
    /\ service = "up" => pc["reset"] = "idle"
    /\ service' = "deleted"
    /\ GoTo("client", IF service = "down" THEN "crashed" ELSE "done")
    /\ UNCHANGED <<busVars, slaveMode, walks, stale, listVars, listLock, resetLock, loc, updating, misses, abandoned>>

-----------------------------------------------------------------------------
\* The bus: a device comes or goes, the others may get other nodes.
BusReset ==
    /\ resets < MaxResets
    /\ node' \in Placements
    /\ resets' = resets + 1 /\ pending' = IF service = "up" THEN pending + 1 ELSE pending
    /\ UNCHANGED <<restVars, listVars, listLock, resetLock, pc, loc, updating, misses, abandoned>>

Stopped ==
    /\ pc["client"] \in {"done", "crashed"} \/ abandoned
    /\ UNCHANGED discoveryVars

discover(t) ==
    \/ discover_scan(t) \/ discover_prune(t) \/ discover_rediscover(t) \/ discover_add(t)
    \/ discover_sort(t) \/ discover_post(t) \/ discover_slave(t)
DiscoveryNext ==
    \/ initialize \/ (\E t \in Threads : discover(t))
    \/ busresetHandler \/ handleBusReset \/ signalNotifiers
    \/ WalkStep \/ UseDevice \/ deleteManager \/ deleteService
    \/ BusReset \/ Stopped
DiscoverySpec == DiscoveryInit /\ [][DiscoveryNext]_discoveryVars

-----------------------------------------------------------------------------
(***************************************************************************)
(* Properties.                                                             *)
(***************************************************************************)
\* When every bus reset has been handled, and nothing failed, the list holds exactly the
\* devices on the bus that the client asked for and a driver supports, once each, with
\* their present nodes and in order: whatever changed while ROMs were being read.
Listed == {d.guid : d \in Range(avDevices)}
Present == {g \in Wanted : node[g] # Gone}
Distinct(s) == \A i, j \in DOMAIN s : s[i].guid = s[j].guid => i = j
Settled == pending = 0 /\ pc["reset"] = "idle" /\ pc["client"] = "walk" /\ misses = 0
SettledListIsBus ==
    Settled /\ ~slaveMode =>
       /\ Listed = Present /\ Distinct(avDevices)
       /\ \A d \in Range(avDevices) : d.node = node[d.guid]
       /\ Ordered(avDevices)

\* While the manager exists, the reset thread uses no device that has been deleted, and the
\* control tree and the list hold the same devices whenever the list is not locked.
Open == pc["client"] \notin {"service", "done", "crashed"}
LiveDevicesOnly ==
    Open => /\ "reset" \notin stale
            /\ listLock = Free /\ ~slaveMode => elements = Ids(avDevices)
            /\ listLock = Free => Ids(avDevices) \cap freed = {}

\* Outside of discover and the handler no lock is held and every preUpdate notification has
\* been followed by its postUpdate; only a failure in slave mode breaks this.
Outside == pc["reset"] = "idle" /\ pc["client"] \in {"walk", "close", "service", "done"}
NothingHeldOutside ==
    Outside /\ ~abandoned => listLock = Free /\ resetLock = Free /\ (slaveMode \/ updating = 0)

\* The client never uses a device that has been deleted, as the lock of the list promises.
ClientUsesLive == "client" \notin stale

-----------------------------------------------------------------------------
(***************************************************************************)
(* The inductive invariant behind them.                                    *)
(***************************************************************************)
DeviceRecords == [guid : Guids \cup {Gone}, id : Nat, node : {Gone} \cup Nodes]
Locals == [i : Nat \ {0}, roms : SUBSET Guids, failed : SUBSET Nat, rediscover : BOOLEAN]
DiscoveryTypeOK ==
    /\ node \in Placements /\ pending \in Nat /\ nextId \in Nat /\ misses \in Nat /\ updating \in Int
    /\ avDevices \in Seq(DeviceRecords) /\ slaveMode \in BOOLEAN /\ abandoned \in BOOLEAN
    /\ loc \in [Threads -> Locals]

\* Where each thread is, and what it holds there.
Locked == {"slave", "rediscover", "add"}
DiscoverSteps == {"scan", "prune", "post"} \cup Locked
Notified(t) == IF pc[t] \in {"prune", "rediscover", "add", "post"} THEN 1 ELSE 0
LockInv ==
    /\ pc \in [Threads -> DiscoverSteps \cup {"init", "walk", "close", "service", "done", "crashed",
                                              "idle", "nodes", "notify"}]
    /\ pc["client"] \notin {"idle", "nodes", "notify"}
    /\ pc["reset"] \in DiscoverSteps \cup {"idle", "nodes", "notify"}
    /\ resetLock = IF pc["reset"] = "idle" THEN Free ELSE "reset"
    /\ listLock \in Threads \cup {Free}
    /\ \A t \in Threads : /\ pc[t] \in Locked => listLock = t
                          /\ listLock = t /\ ~abandoned => pc[t] \in Locked
                          /\ pc[t] = "slave" => slaveMode
                          /\ pc[t] \in {"rediscover", "add"} => ~slaveMode
    /\ abandoned => slaveMode
    /\ ~slaveMode => updating = Notified("client") + Notified("reset")

\* Objects are deleted once, after they have left the list and the tree.
LiveInv ==
    /\ Ids(avDevices) \cup freed \subseteq 0..(nextId - 1)
    /\ \A t \in Threads : pc[t] = "rediscover" => loc[t].failed \subseteq 0..(nextId - 1)
    /\ Open => /\ "reset" \notin stale
               /\ ~slaveMode => elements = Ids(avDevices)
               /\ Ids(avDevices) \cap freed = {}

\* How a discovery begins, and what is in the list at any time.
StartInv ==
    /\ ~loc["client"].rediscover
    /\ pc["reset"] \in {"scan", "prune"} => loc["reset"].rediscover
    /\ Open /\ misses = 0 /\ pc["client"] # "init" => service = "up"
    /\ pc["client"] = "init" => pc["reset"] = "idle" /\ pending = 0 /\ avDevices = <<>> /\ service = "none"
EntriesInv == ~slaveMode => Listed \subseteq Wanted /\ Distinct(avDevices)

\* While nothing failed, and the reset thread has begun with the last reset, what is in the
\* list is right; how much of the bus it covers depends on how far the threads are.
NodesRight == \A d \in Range(avDevices) : d.node = node[d.guid]
RomsRight ==
    LET x == loc["reset"] IN
    /\ pc["reset"] = "scan" => /\ \A g \in Guids : node[g] \in 1..(x.i - 1) => g \in x.roms
                               /\ \A g \in x.roms : node[g] # Gone
    /\ pc["reset"] = "prune" => x.roms = {g \in Guids : node[g] # Gone}
Covered(t) ==
    /\ pc[t] \in {"rediscover", "add"} => \A d \in Range(avDevices) : d.node # Gone
    /\ pc[t] = "add" => \A g \in Wanted : node[g] \in 1..(loc[t].i - 1) => g \in Listed
Searched == pc["client"] \in {"post", "walk", "close"} /\ pc["reset"] \in {"idle", "post", "notify"}
Complete == Searched => Listed = Present /\ Ordered(avDevices)
Caught == misses = 0 /\ ~slaveMode /\ Open /\ pending = 0 /\ pc["reset"] # "nodes"
BusInv == Caught => NodesRight /\ RomsRight /\ (\A t \in Threads : Covered(t)) /\ Complete

DiscoveryIInv == DiscoveryTypeOK /\ LockInv /\ LiveInv /\ StartInv /\ EntriesInv /\ BusInv
=============================================================================
