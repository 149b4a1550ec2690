---------------------------- MODULE DeviceStreams ----------------------------
(***************************************************************************)
(* A session of the client over the devices of one bus: the ffado_streaming*)
(* calls, the loops of DeviceManager over the devices, what each family of *)
(* drivers does to lock, prepare, start, stop and release a device, and    *)
(* the iso channels and the bandwidth that Ieee1394Service takes from the  *)
(* isochronous resource manager for it.  Other nodes take channels as well.*)
(* Streams are named from the host: "rx" is what the device transmits.     *)
(***************************************************************************)
EXTENDS Integers, Sequences, FiniteSets, SequencesExt

CONSTANTS
    DeviceLists,  \* what discover may have found: sequences of devices
    Family,       \* device -> "avc", "dice", "motu", "rme400", "rme800", "digidesign", "bounce", "slave"
    NrChannels,   \* the last one stands for channel 63, which registerIsoChannel refuses
    MaxUnits,     \* the bandwidth of the bus; a stream takes one unit
    MaxFaults,    \* bound on calls that fail
    MaxStarts,    \* bound on starts in a session
    MaxSessions   \* bound on sessions

ASSUME ChannelsAssumption == NrChannels \in Nat \ {0} /\ MaxUnits \in Nat

VARIABLES
    bus,       \* irm: who holds each channel; units: bandwidth left; chan: m_channels[].alloctype
    dev,       \* the driver object and the registers of each device
    list,      \* m_avDevices
    snoop,     \* the option snoopMode
    phase,     \* where the client's call is
    at,        \* the position in m_avDevices
    stream,    \* the position among the streams of the device
    limit,     \* the loop over m_avDevices stops before this position
    starts,
    sessions,
    faults,
    odd,       \* history: devices that keep the number of a channel they do not hold
    robbed,    \* history: devices that released a channel of somebody else
    undone     \* history: "stop" once a stream failed to stop, else "enable" once a device was not enabled

streamVars == <<bus, dev, list, snoop, phase, at, stream, limit, starts, sessions, faults, odd, robbed, undone>>

Channels == 0..(NrChannels - 1)
Devices == DOMAIN Family
None == -1          \* -1, and 0xFFFFFFFF in a register
Absent == -2        \* the stream processor does not exist
Streams == {"rx", "tx"}
Registers == {"dice", "bounce", "slave"}     \* families whose devices have ISO channel registers
Vectors == {"avc"} \cup Registers            \* families that keep vectors of stream processors
Nobody == "nobody"
Other == "other"
Own == "own"        \* a channel that a Fireface 800 has taken itself

\* discover finds one device or more, each once.
ASSUME ListsAssumption ==
    /\ DeviceLists \subseteq Seq(Devices) /\ \A l \in DeviceLists : l # <<>> /\ IsInjective(l)
    /\ {Nobody, Other, Own} \cap Devices = {}
    /\ \A d \in Devices : Family[d] \in Vectors \cup {"motu", "rme400", "rme800", "digidesign"}

\* A device, and the object of its driver: proc, mem and notifier.
NewDevice == [reg |-> [k \in Streams |-> None], on |-> [k \in Streams |-> FALSE],
              owner |-> FALSE, is_streaming |-> FALSE,
              proc |-> [k \in Streams |-> Absent], mem |-> [k \in Streams |-> None], notifier |-> FALSE]
NewObject(x) ==
    [x EXCEPT !.proc = [k \in Streams |-> Absent], !.mem = [k \in Streams |-> None], !.notifier = FALSE]
StreamsInit ==
    /\ bus = [irm |-> [c \in Channels |-> Nobody], units |-> MaxUnits, chan |-> [c \in Channels |-> "free"]]
    /\ dev = [d \in Devices |-> NewDevice]
    /\ list \in DeviceLists /\ snoop \in BOOLEAN
    /\ phase = "none" /\ at = 1 /\ stream = 1 /\ limit = 1
    /\ starts = 0 /\ sessions = 0 /\ faults = 0
    /\ odd = {} /\ robbed = {} /\ undone = "all"

-----------------------------------------------------------------------------
\* Ieee1394Service.  An operation on the bus yields the new bus, a channel and success.
registerIsoChannel(b, c, kind) ==
    IF c < NrChannels - 1 THEN [b |-> [b EXCEPT !.chan[c] = kind], c |-> c]
                          ELSE [b |-> b, c |-> None]

\* The first free channel; the bandwidth, or the channel is given back.
allocateIsoChannelGeneric(b, d) ==
    LET free == {c \in 0..(NrChannels - 2) : b.irm[c] = Nobody}
        c == CHOOSE c \in free : \A e \in free : c <= e
    IN  IF free = {} \/ b.units = 0 THEN [b |-> b, c |-> None]
        ELSE registerIsoChannel([b EXCEPT !.irm[c] = d, !.units = @ - 1], c, "generic")

\* The channel of a connection is chosen by libiec61883.  If it cannot be registered the
\* connection stays.
allocateIsoChannelCMP(b, d) ==
    {[b |-> b, c |-> None]} \cup
    {registerIsoChannel([b EXCEPT !.irm[c] = d, !.units = @ - 1], c, "cmp") :
        c \in {c \in Channels : b.irm[c] = Nobody /\ b.units > 0}}

\* Whoever holds the channel in the resource manager loses it.
unregisterIsoChannel(b, c) == [b EXCEPT !.chan[c] = "free"]
Registered(b, c) == c \in 0..(NrChannels - 2) /\ b.chan[c] # "free"
freeIsoChannel(b, c) ==
    IF ~Registered(b, c) THEN [b |-> b, ok |-> FALSE]
    ELSE [b |-> unregisterIsoChannel([b EXCEPT !.irm[c] = Nobody, !.units = @ + 1], c), ok |-> TRUE]
Victims(b, c, d) == IF Registered(b, c) THEN {b.irm[c]} \ {d, Nobody} ELSE {}

-----------------------------------------------------------------------------
\* The outcome of a driver's function: the device, the bus, what it returns, whether a call
\* of it failed, whether it crashed, keeps a number it does not hold, and whose channels it
\* released.
Outcome(x, b, ok) == [x |-> x, b |-> b, ok |-> ok, fault |-> FALSE, crash |-> FALSE,
                      odd |-> FALSE, rob |-> {}]
Failing(o) == [o EXCEPT !.fault = TRUE]

\* DICE registers a notifier and itself as the owner; a notifier whose device has another
\* owner stays registered.  The slave registers a notifier and sets up its own registers.
LockFails(x) == {Failing(Outcome(x, bus, FALSE)), Failing(Outcome([x EXCEPT !.notifier = TRUE], bus, FALSE))}
lock_dice(x) ==
    IF snoop THEN {Outcome(x, bus, TRUE)}
    ELSE LockFails(x) \cup {IF x.owner THEN Outcome([x EXCEPT !.notifier = TRUE], bus, FALSE)
                            ELSE Outcome([x EXCEPT !.notifier = TRUE, !.owner = TRUE], bus, TRUE)}
lock_slave(x) ==
    LockFails(x) \cup {Outcome([x EXCEPT !.notifier = TRUE, !.reg = [k \in Streams |-> None]], bus, TRUE)}
lock(d) == CASE Family[d] = "dice" -> lock_dice(dev[d])
             [] Family[d] = "slave" -> lock_slave(dev[d])
             [] OTHER -> {Outcome(dev[d], bus, TRUE)}

unlock_dice_owned(x) == {Outcome([x EXCEPT !.notifier = FALSE], bus, TRUE)}
unlock_dice(x) ==
    CASE snoop -> {Outcome(x, bus, TRUE)}
      [] ~snoop /\ ~x.notifier -> {Outcome(x, bus, FALSE)}
      [] OTHER -> {Outcome([x EXCEPT !.notifier = FALSE, !.owner = FALSE], bus, TRUE),
                   Failing(Outcome(x, bus, FALSE))}
unlock_slave(x) == {Outcome([x EXCEPT !.notifier = FALSE], bus, TRUE)}
unlock(d) == CASE Family[d] = "dice" -> unlock_dice(dev[d])
               [] Family[d] = "slave" -> unlock_slave(dev[d])
               [] OTHER -> {Outcome(dev[d], bus, TRUE)}

\* The stream processors: created one after the other, up to the one that fails.  DICE goes
\* on with the next one.
Processors(x, b) ==
    LET made(K) == [x EXCEPT !.proc = [k \in Streams |-> IF k \in K THEN None ELSE Absent]]
    IN  {Outcome(made(Streams), b, TRUE)} \cup
        {Failing(Outcome(made(K), b, FALSE)) : K \in {{}, {"rx"}}}

prepare_avc(d) == Processors(dev[d], bus)
prepare_bounce(d) == Processors(dev[d], bus)
prepare_slave(d) == Processors(dev[d], bus)
prepare_dice(d) ==
    Processors(dev[d], bus) \cup {Failing(Outcome([dev[d] EXCEPT !.proc["tx"] = None], bus, TRUE))}

\* MOTU and Digidesign take both channels; if one is not to be had they release the other
\* and keep its number.
prepare_both(d) ==
    LET t == allocateIsoChannelGeneric(bus, d)
        r == allocateIsoChannelGeneric(t.b, d)
        x == [dev[d] EXCEPT !.mem["tx"] = t.c, !.mem["rx"] = r.c]
        back == IF t.c # None THEN freeIsoChannel(r.b, t.c).b ELSE r.b
    IN  IF t.c # None /\ r.c # None THEN Processors(x, r.b)
        ELSE {[Outcome(x, back, FALSE) EXCEPT !.odd = t.c # None]}

prepare_motu(d) == prepare_both(d)
prepare_digidesign(d) == prepare_both(d)

\* RME: the transmit channel, the streaming system, then the receive channel, which the
\* Fireface 800 has chosen and registered itself; nobody looks whether the Fireface 400 got one.
reset(x, b, d) ==
    LET fresh == {c \in Channels : b.irm[c] = Nobody /\ b.units > 0}
        taken(c) == [b EXCEPT !.irm[c] = Own, !.units = @ - 1]
        got(c) == [x EXCEPT !.mem["rx"] = c, !.reg["rx"] = c]
    IN  {Failing(Outcome(x, b, FALSE))} \cup
        CASE Family[d] = "rme400" -> {Outcome(x, b, TRUE)}
          [] Family[d] # "rme400" /\ x.reg["rx"] # None -> {Outcome(got(x.reg["rx"]), b, TRUE)}
          [] OTHER -> IF fresh = {} THEN {Outcome(x, b, FALSE)}
                      ELSE {Outcome(got(c), taken(c), TRUE) : c \in fresh}
resetForStreaming(d) ==
    IF Family[d] \in {"rme400", "rme800"} THEN reset(dev[d], bus, d) ELSE {Outcome(dev[d], bus, TRUE)}

prepare_rme(d) ==
    LET t == allocateIsoChannelGeneric(bus, d)
        after(o) ==
            LET r == allocateIsoChannelGeneric(o.b, d)
            IN  CASE ~o.ok -> {o}
                  [] o.ok /\ Family[d] = "rme800" -> Processors(o.x, o.b)
                  [] OTHER -> {[p EXCEPT !.odd = r.c = None] :
                                  p \in Processors([o.x EXCEPT !.mem["rx"] = r.c], r.b)}
    IN  IF t.c = None THEN {Outcome(dev[d], bus, FALSE)}
        ELSE UNION {after(o) : o \in reset([dev[d] EXCEPT !.mem["tx"] = t.c], t.b, d)}

prepare(d) == CASE Family[d] = "avc" -> prepare_avc(d)
                [] Family[d] = "dice" -> prepare_dice(d)
                [] Family[d] = "bounce" -> prepare_bounce(d)
                [] Family[d] = "slave" -> prepare_slave(d)
                [] Family[d] = "motu" -> prepare_motu(d)
                [] Family[d] = "digidesign" -> prepare_digidesign(d)
                [] OTHER -> prepare_rme(d)

-----------------------------------------------------------------------------
\* Generic AV/C: a connection for each stream, or the channel found in the plug register.
start_avc(d, k) ==
    LET x == dev[d] IN
    IF snoop THEN {Outcome([x EXCEPT !.proc[k] = c], bus, TRUE) : c \in Channels}
                  \cup {Failing(Outcome(x, bus, FALSE))}
    ELSE {IF a.c = None THEN [Outcome(x, a.b, FALSE) EXCEPT !.fault = a.b # bus \/ bus.units > 0]
          ELSE Outcome([x EXCEPT !.proc[k] = a.c, !.on[k] = TRUE], a.b, TRUE) :
             a \in allocateIsoChannelCMP(bus, d)}

stop_avc(d, k) ==
    LET x == dev[d]
        c == x.proc[k]
        f == freeIsoChannel(bus, c)
        off == [x EXCEPT !.proc[k] = None, !.on[k] = FALSE]
    IN  CASE c = None -> {Outcome(x, bus, TRUE)}
          [] snoop    -> {Outcome(off, bus, TRUE)}
          [] OTHER    -> {[Outcome(IF f.ok THEN off ELSE x, f.b, f.ok) EXCEPT !.rob = Victims(bus, c, d)]}

\* DICE: a channel, unless the register of the stream holds one: then that one is used,
\* without asking the resource manager.
start_dice(d, k) ==
    LET x == dev[d]
        a == allocateIsoChannelGeneric(bus, d)
        kept == x.reg[k]
        use == IF kept = None THEN a.c ELSE kept
        back == freeIsoChannel(a.b, a.c).b
        held == IF kept = None THEN a.b ELSE back
        quiet == [x EXCEPT !.proc[k] = None]
        lost == freeIsoChannel(held, use)
    IN  IF snoop THEN {Outcome([x EXCEPT !.proc[k] = x.reg[k]], bus, TRUE), Failing(Outcome(quiet, bus, FALSE))}
        ELSE IF a.c = None THEN {Outcome(x, a.b, FALSE)}
        ELSE {[Outcome([x EXCEPT !.proc[k] = use, !.reg[k] = use, !.on[k] = TRUE], held, TRUE)
                  EXCEPT !.odd = kept # None],
              Failing(Outcome(quiet, back, FALSE)),
              [Failing(Outcome(quiet, lost.b, FALSE)) EXCEPT !.rob = Victims(held, use, d), !.odd = kept # None]}

\* It is always the register of the device's transmitter that is cleared.
stop_dice(d, k) ==
    LET x == dev[d]
        c == x.proc[k]
        cleared == [x EXCEPT !.reg["rx"] = None, !.on["rx"] = FALSE]
        f == freeIsoChannel(bus, c)
    IN  CASE snoop -> {Outcome([x EXCEPT !.proc[k] = None], bus, TRUE)}
          [] ~snoop /\ x.reg[k] # c -> {Outcome(x, bus, FALSE)}
          [] OTHER -> {Failing(Outcome(x, bus, FALSE)),
                       [Outcome(IF f.ok THEN [cleared EXCEPT !.proc[k] = None] ELSE cleared, f.b, f.ok)
                            EXCEPT !.rob = Victims(bus, c, d), !.odd = cleared.reg[k] # None]}

\* Bounce: the same with a register that must be free; in snoop mode both streams are
\* receive streams and meet in one register.
RegOf(k) == IF snoop THEN "rx" ELSE k
start_bounce(d, k) ==
    LET x == dev[d]
        a == allocateIsoChannelGeneric(bus, d)
        quiet == [x EXCEPT !.proc[k] = None]
        back == freeIsoChannel(a.b, a.c).b
    IN  IF a.c = None THEN {Outcome(x, a.b, FALSE)}
        ELSE {Failing(Outcome(quiet, back, FALSE))} \cup
             IF x.reg[RegOf(k)] # None THEN {Outcome(quiet, back, FALSE)}
             ELSE {Outcome([x EXCEPT !.proc[k] = a.c, !.reg[RegOf(k)] = a.c, !.on[k] = TRUE], a.b, TRUE)}

stop_bounce(d, k) ==
    LET x == dev[d]
        c == x.proc[k]
        f == freeIsoChannel(bus, c)
        cleared == [x EXCEPT !.reg[RegOf(k)] = None, !.on[k] = FALSE]
    IN  {Failing(Outcome(x, bus, FALSE))} \cup
        IF x.reg[RegOf(k)] # c THEN {Outcome(x, bus, FALSE)}
        ELSE {[Outcome(IF f.ok THEN [cleared EXCEPT !.proc[k] = None] ELSE cleared, f.b, f.ok)
                  EXCEPT !.rob = Victims(bus, c, d)]}

\* The slave waits until the other side has written a channel.
start_slave(d, k) ==
    LET x == dev[d] IN
    IF x.reg[k] # None THEN {Outcome([x EXCEPT !.proc[k] = x.reg[k], !.on[k] = TRUE], bus, TRUE)}
                       ELSE {Outcome(x, bus, FALSE)}
stop_slave(d, k) == {Outcome(dev[d], bus, FALSE)}

\* MOTU, RME and Digidesign use the channels that prepare took; without the stream
\* processors of prepare the call is one on a null pointer.
Use_one(x, K) == [x EXCEPT !.proc = [k \in Streams |-> IF k \in K THEN x.mem["rx"] ELSE x.proc[k]],
                           !.on = [k \in Streams |-> k \in K \/ x.on[k]]]
Use(x, K) == [x EXCEPT !.proc = [k \in Streams |-> IF k \in K THEN x.mem[k] ELSE x.proc[k]],
                       !.on = [k \in Streams |-> k \in K \/ x.on[k]]]
Null(x, K) == \E k \in K : x.proc[k] = Absent
Crash(x) == [Outcome(x, bus, FALSE) EXCEPT !.crash = TRUE]
start_motu(d, k) ==
    LET x == dev[d] IN {IF Null(x, {k}) THEN Crash(x) ELSE Outcome(Use(x, {k}), bus, TRUE)}
stop_motu(d, k) == {Outcome([dev[d] EXCEPT !.on[k] = FALSE], bus, TRUE)}

hardware_start_streaming(x) ==
    IF x.is_streaming THEN {Outcome(x, bus, TRUE)}
    ELSE {Outcome([x EXCEPT !.is_streaming = TRUE], bus, TRUE), Failing(Outcome(x, bus, FALSE))}
hardware_stop_streaming(x) ==
    IF ~x.is_streaming THEN {Outcome(x, bus, TRUE)}
    ELSE {Outcome([x EXCEPT !.is_streaming = FALSE, !.on = [k \in Streams |-> FALSE]], bus, TRUE),
          Failing(Outcome(x, bus, FALSE))}
start_rme(d, k) ==
    LET x == dev[d] IN
    CASE k # "rx" -> {Outcome(x, bus, TRUE)}
      [] k = "rx" /\ Null(x, Streams) -> {Crash(x)}
      [] OTHER -> hardware_start_streaming(Use(x, Streams))
stop_rme_released(d, k) ==
    IF k = "rx" THEN hardware_stop_streaming(dev[d])
    ELSE LET c == dev[d].mem[k]
         IN  {[Outcome(dev[d], freeIsoChannel(bus, c).b, TRUE) EXCEPT !.rob = Victims(bus, c, d)]}
stop_rme(d, k) == IF k = "rx" THEN hardware_stop_streaming(dev[d]) ELSE {Outcome(dev[d], bus, TRUE)}

start_digidesign(d, k) ==
    LET x == dev[d] IN
    CASE k # "rx" -> {Outcome(x, bus, TRUE)}
      [] k = "rx" /\ Null(x, Streams) -> {Crash(x)}
      [] OTHER -> {Outcome(Use(x, Streams), bus, TRUE)}
stop_digidesign(d, k) == {Outcome(dev[d], bus, TRUE)}

startStreamByIndex(d, k) ==
    CASE Family[d] = "avc" -> start_avc(d, k)
      [] Family[d] = "dice" -> start_dice(d, k)
      [] Family[d] = "bounce" -> start_bounce(d, k)
      [] Family[d] = "slave" -> start_slave(d, k)
      [] Family[d] = "motu" -> start_motu(d, k)
      [] Family[d] = "digidesign" -> start_digidesign(d, k)
      [] OTHER -> start_rme(d, k)
stopStreamByIndex(d, k) ==
    CASE Family[d] = "avc" -> stop_avc(d, k)
      [] Family[d] = "dice" -> stop_dice(d, k)
      [] Family[d] = "bounce" -> stop_bounce(d, k)
      [] Family[d] = "slave" -> stop_slave(d, k)
      [] Family[d] = "motu" -> stop_motu(d, k)
      [] Family[d] = "digidesign" -> stop_digidesign(d, k)
      [] OTHER -> stop_rme(d, k)

\* getStreamCount and getStreamProcessorByIndex.
Missing(d, k) == Family[d] \in Vectors /\ dev[d].proc[k] = Absent
StreamsOf(d) ==
    (IF Missing(d, "rx") THEN <<>> ELSE <<"rx">>) \o (IF Missing(d, "tx") THEN <<>> ELSE <<"tx">>)

\* Only DICE has something to switch on and off for the whole device.
enableStreaming(d) ==
    {Outcome(dev[d], bus, TRUE)} \cup
    IF Family[d] = "dice" /\ ~snoop THEN {Failing(Outcome(dev[d], bus, FALSE))} ELSE {}
disableStreaming(d) == enableStreaming(d)

\* The destructors.  MOTU, RME and Digidesign release their channels here.
Holds(d) == {k \in Streams : dev[d].mem[k] # None /\ ~(Family[d] = "rme800" /\ k = "rx")}
delete_dice(d) ==
    IF dev[d].notifier THEN {[o EXCEPT !.x = NewObject(@)] : o \in unlock(d)}
                       ELSE {Outcome(NewObject(dev[d]), bus, TRUE)}
delete_channels(d) ==
    LET x == dev[d]
        release(b, k) == IF k \in Holds(d) THEN freeIsoChannel(b, x.mem[k]).b ELSE b
        b1 == release(bus, "rx")
    IN  {[Outcome(NewObject(x), release(b1, "tx"), TRUE) EXCEPT
             !.rob = UNION {Victims(IF k = "tx" THEN b1 ELSE bus, x.mem[k], d) : k \in Holds(d)}]}
delete_motu(d) == delete_channels(d)
delete_rme(d) == delete_channels(d)
delete_digidesign(d) == delete_channels(d)
delete(d) == CASE Family[d] = "dice" -> delete_dice(d)
               [] Family[d] = "motu" -> delete_motu(d)
               [] Family[d] = "digidesign" -> delete_digidesign(d)
               [] Family[d] \in {"rme400", "rme800"} -> delete_rme(d)
               [] OTHER -> {Outcome(NewObject(dev[d]), bus, TRUE)}

-----------------------------------------------------------------------------
\* One call of the manager on the device it is at: o is the outcome of the driver.
Apply(o) ==
    /\ faults + (IF o.fault THEN 1 ELSE 0) <= MaxFaults
    /\ faults' = faults + (IF o.fault THEN 1 ELSE 0)
    /\ dev' = [dev EXCEPT ![list[at]] = o.x]
    /\ bus' = o.b
    /\ odd' = odd \cup o.rob \cup (IF o.odd THEN {list[at]} ELSE {})
    /\ robbed' = robbed \cup (IF o.rob # {} THEN {list[at]} ELSE {})
    /\ UNCHANGED <<list, snoop, sessions>>
Go(p, i, j) == phase' = p /\ at' = i /\ stream' = j
This == list[at]
IsLast == at = Len(list)
\* The next device of a loop, or what follows the loop.
NextDevice(p, after) == IF IsLast THEN Go(after, 1, 1) ELSE Go(p, at + 1, 1)
Unchanged == UNCHANGED <<limit, starts, undone>>
\* startStreaming fails at device i: the devices before it are stopped.
Undo(i) == limit' = i /\ IF i = 1 THEN Go("ready", 1, 1) ELSE Go("undo", 1, 0)

\* ffado_streaming_init; an unlocked device is skipped, a rate that cannot be set after two
\* tries ends the call, with the devices locked and the manager never deleted.
ffado_streaming_init ==
    /\ phase = "none" /\ sessions < MaxSessions
    /\ sessions' = sessions + 1 /\ starts' = 0 /\ Go("lock", 1, 1)
    /\ bus' = [bus EXCEPT !.chan = [c \in Channels |-> "free"]]
    /\ UNCHANGED <<dev, list, snoop, limit, faults, odd, robbed, undone>>

initStreaming_lock ==
    /\ phase = "lock"
    /\ \E o \in lock(This) : /\ Apply(o)
                             /\ IF o.ok THEN Go("rate", at, 1) ELSE NextDevice("lock", "ready")
    /\ Unchanged

setSamplingFrequency ==
    /\ phase = "rate"
    /\ \/ Go("prepare", at, 1) /\ UNCHANGED <<dev, faults>>
       \/ /\ faults < MaxFaults /\ faults' = faults + 1
          /\ Go("none", 1, 1)
          /\ dev' = [d \in Devices |-> NewObject(dev[d])]
    /\ UNCHANGED <<bus, list, snoop, sessions, odd, robbed>> /\ Unchanged

initStreaming_prepare ==
    /\ phase = "prepare"
    /\ \E o \in prepare(This) : Apply(o)
    /\ NextDevice("lock", "ready")
    /\ Unchanged

\* startStreaming.
ffado_streaming_start ==
    /\ phase = "ready" /\ starts < MaxStarts
    /\ starts' = starts + 1 /\ Go("reset", 1, 1)
    /\ UNCHANGED <<bus, dev, list, snoop, limit, sessions, faults, odd, robbed, undone>>

startStreamingOnDevice_reset ==
    /\ phase = "reset"
    /\ \E o \in resetForStreaming(This) :
          /\ Apply(o)
          /\ IF ~o.ok THEN Undo(at)
             ELSE /\ Go(IF StreamsOf(This) = <<>> THEN "enable" ELSE "start", at, 1)
                  /\ UNCHANGED limit
    /\ UNCHANGED <<starts, undone>>

startStreamingOnDevice_start ==
    LET ks == StreamsOf(This) IN
    /\ phase = "start"
    /\ \E o \in startStreamByIndex(This, ks[stream]) :
          /\ Apply(o)
          /\ CASE o.crash -> Go("crashed", at, 1)
               [] ~o.crash /\ o.ok -> IF stream = Len(ks) THEN Go("enable", at, 1) ELSE Go("start", at, stream + 1)
               [] OTHER -> Go("back", at, stream - 1)
    /\ Unchanged

\* The streams of this device that did start are stopped, then the devices before it.
startStreamingOnDevice_back ==
    /\ phase = "back"
    /\ IF stream = 0
       THEN Undo(at) /\ UNCHANGED <<bus, dev, list, snoop, sessions, faults, odd, robbed, undone>>
       ELSE /\ \E o \in stopStreamByIndex(This, StreamsOf(This)[stream]) :
                  Apply(o) /\ undone' = (IF o.ok THEN undone ELSE "stop")
            /\ Go("back", at, stream - 1) /\ UNCHANGED limit
    /\ UNCHANGED starts

startStreamingOnDevice_enable ==
    /\ phase = "enable"
    /\ \E o \in enableStreaming(This) :
          /\ Apply(o) /\ undone' = (IF o.ok \/ undone = "stop" THEN undone ELSE "enable")
          /\ IF o.ok THEN NextDevice("reset", "spm") /\ UNCHANGED limit ELSE Undo(at)
    /\ UNCHANGED starts

\* The stream processor manager tunes in to the channels.
startStreaming_spm ==
    /\ phase = "spm"
    /\ \/ Go("running", 1, 1) /\ UNCHANGED <<faults, limit>>
       \/ faults < MaxFaults /\ faults' = faults + 1 /\ Undo(Len(list) + 1)
    /\ UNCHANGED <<bus, dev, list, snoop, sessions, odd, robbed, starts, undone>>

\* stopStreamingOnDevice on the devices before limit: the device is disabled, at position 0,
\* then its streams stop in turn; one that fails does not keep the next from being stopped.
stopStreamingOnDevice ==
    LET ks == StreamsOf(This)
        calls == IF stream = 0 THEN disableStreaming(This) ELSE stopStreamByIndex(This, ks[stream])
    IN  /\ phase \in {"undo", "stop"}
        /\ \E o \in calls : Apply(o) /\ undone' = (IF o.ok \/ stream = 0 THEN undone ELSE "stop")
        /\ CASE stream < Len(ks)                        -> Go(phase, at, stream + 1)
             [] stream = Len(ks) /\ at + 1 < limit      -> Go(phase, at + 1, 0)
             [] OTHER                                   -> Go("ready", 1, 1)
        /\ UNCHANGED <<limit, starts>>

ffado_streaming_stop ==
    /\ phase = "running"
    /\ limit' = Len(list) + 1 /\ Go("stop", 1, 0)
    /\ UNCHANGED <<bus, dev, list, snoop, sessions, faults, odd, robbed, starts, undone>>

\* finishStreaming unlocks every device, then the manager deletes them.
ffado_streaming_finish ==
    /\ phase = "ready" /\ Go("unlock", 1, 1)
    /\ UNCHANGED <<bus, dev, list, snoop, sessions, faults, odd, robbed>> /\ Unchanged

finishStreaming ==
    /\ phase = "unlock"
    /\ \E o \in unlock(This) : Apply(o)
    /\ NextDevice("unlock", "delete") /\ Unchanged

DeleteDevice ==
    /\ phase = "delete"
    /\ \E o \in delete(This) : Apply(o)
    /\ NextDevice("delete", "none") /\ Unchanged

-----------------------------------------------------------------------------
\* Another node takes and releases channels of the bus; the other side of a slave writes
\* the channels of its streams; when all sessions are over nothing happens any more.
OtherNode ==
    /\ phase \in {"none", "ready"}
    /\ \E c \in Channels :
          \/ bus.irm[c] = Nobody /\ bus.units > 0 /\ bus' = [bus EXCEPT !.irm[c] = Other, !.units = @ - 1]
          \/ bus.irm[c] = Other /\ bus' = [bus EXCEPT !.irm[c] = Nobody, !.units = @ + 1]
    /\ UNCHANGED <<dev, list, snoop, phase, at, stream, limit, starts, sessions, faults, odd, robbed, undone>>

MasterWrites ==
    /\ phase \in {"ready", "start"}
    /\ \E d \in Devices, k \in Streams, c \in Channels :
          /\ Family[d] = "slave" /\ dev[d].notifier /\ dev[d].reg[k] = None
          /\ dev' = [dev EXCEPT ![d].reg[k] = c]
    /\ UNCHANGED <<bus, list, snoop, phase, at, stream, limit, starts, sessions, faults, odd, robbed, undone>>

Finished ==
    /\ phase = "crashed" \/ (phase = "none" /\ sessions = MaxSessions)
    /\ UNCHANGED streamVars

StreamsNext ==
    \/ ffado_streaming_init \/ initStreaming_lock \/ setSamplingFrequency \/ initStreaming_prepare
    \/ ffado_streaming_start \/ startStreamingOnDevice_reset \/ startStreamingOnDevice_start
    \/ startStreamingOnDevice_back \/ startStreamingOnDevice_enable \/ startStreaming_spm
    \/ stopStreamingOnDevice \/ ffado_streaming_stop
    \/ ffado_streaming_finish \/ finishStreaming \/ DeleteDevice
    \/ OtherNode \/ MasterWrites \/ Finished

StreamsSpec == StreamsInit /\ [][StreamsNext]_streamVars

-----------------------------------------------------------------------------
(***************************************************************************)
(* Properties.                                                             *)
(***************************************************************************)
Channel == Channels \cup {None}
\* The state keeps its shape: channels, registers, positions and bounds.
StreamsTypeOK ==
    /\ bus \in [irm : [Channels -> Devices \cup {Nobody, Other, Own}], units : 0..MaxUnits,
                chan : [Channels -> {"free", "generic", "cmp"}]]
    /\ dev \in [Devices -> [proc : [Streams -> Channel \cup {Absent}], mem : [Streams -> Channel],
                            reg : [Streams -> Channel], on : [Streams -> BOOLEAN],
                            notifier : BOOLEAN, owner : BOOLEAN, is_streaming : BOOLEAN]]
    /\ list \in DeviceLists /\ snoop \in BOOLEAN
    /\ at \in 1..Len(list) /\ stream \in 0..2 /\ limit \in 1..(Len(list) + 1)
    /\ starts \in 0..MaxStarts /\ sessions \in 0..MaxSessions /\ faults \in 0..MaxFaults
    /\ odd \subseteq Devices /\ robbed \subseteq Devices /\ undone \in {"all", "enable", "stop"}

\* A channel that Ieee1394Service has on its books belongs to a device of this host: the
\* books never claim what the resource manager has given to another node.
RegisteredIsHeld == \A c \in Channels : bus.chan[c] # "free" => bus.irm[c] \in Devices

\* While the manager runs, every stream that was started has a channel which the resource
\* manager holds for its device, which the service has on its books, which no other stream
\* uses, and which the register of the device agrees with.
Regular == {d \in Devices : Family[d] # "slave"} \ odd
Playing == {p \in Regular \X Streams : dev[p[1]].on[p[2]] /\ dev[p[1]].proc[p[2]] # Absent}
RunningOnOwnChannels ==
    phase = "running" /\ ~snoop =>
       /\ \A p \in Playing :
             LET x == dev[p[1]]
                 c == x.proc[p[2]]
                 foreign == Family[p[1]] = "rme800" /\ p[2] = "rx"
             IN  /\ c # None
                 /\ bus.irm[c] = (IF foreign THEN Own ELSE p[1])
                 /\ ~foreign => Registered(bus, c)
                 /\ Family[p[1]] \in Registers => x.reg[p[2]] = c
       /\ \A p, q \in Playing : dev[p[1]].proc[p[2]] = dev[q[1]].proc[q[2]] => p = q

\* Whatever fails, a device that never kept a stale number releases no channel of another,
\* and the books of the service claim nothing the resource manager has given elsewhere.
OnlyOwnFreed == robbed \subseteq odd /\ RegisteredIsHeld

\* Both: no device plays on, or takes away, a channel that is not its own.
ChannelsAreOwn == RunningOnOwnChannels /\ OnlyOwnFreed

\* Its inductive form.  Of the bus: channels on the books are held by devices.
BusOK(b) ==
    /\ DOMAIN b = {"irm", "units", "chan"}
    /\ b.irm \in [Channels -> Devices \cup {Nobody, Other, Own}] /\ b.chan \in [Channels -> {"free", "generic", "cmp"}]
    /\ \A c \in Channels : b.chan[c] # "free" => b.irm[c] \in Devices
\* Of a device: it has the channels whose numbers its object keeps, and two of them; a
\* stream processor exists only with a channel where prepare takes them; and the channel a
\* Fireface 800 has taken stays its own.
NumbersOK(x) ==
    /\ DOMAIN x = {"proc", "mem", "notifier", "reg", "on", "owner", "is_streaming"}
    /\ x.proc \in [Streams -> Channel \cup {Absent}] /\ x.mem \in [Streams -> Channel]
    /\ x.reg \in [Streams -> Channel] /\ DOMAIN x.on = Streams
Renting == {"motu", "digidesign", "rme400", "rme800"}
Foreign(d, k) == Family[d] = "rme800" /\ k = "rx"
Number(x, d, k) ==
    CASE Family[d] \in Renting -> IF Foreign(d, k) THEN None ELSE x.mem[k]
      [] Family[d] = "slave" \/ (snoop /\ Family[d] \in {"avc", "dice"}) -> None
      [] OTHER -> x.proc[k]
Has(b, c, d) == Registered(b, c) /\ b.irm[c] = d
KeepsOwn(b, x, d) ==
    /\ \A k \in Streams : Number(x, d, k) \notin {None, Absent} => Has(b, Number(x, d, k), d)
    /\ Number(x, d, "rx") = Number(x, d, "tx") => Number(x, d, "rx") \in {None, Absent}
    /\ Family[d] \in Renting => \A k \in Streams : x.proc[k] # Absent => x.mem[k] # None
ForeignOK(b, x, d) ==
    Family[d] = "rme800" => /\ x.reg["rx"] # None => b.irm[x.reg["rx"]] = Own
                            /\ x.mem["rx"] \in {None, x.reg["rx"]}
OwnInv ==
    /\ BusOK(bus) /\ DOMAIN dev = Devices /\ snoop \in BOOLEAN
    /\ odd \subseteq Devices /\ robbed \subseteq odd
    /\ \A d \in Devices : NumbersOK(dev[d]) /\ ForeignOK(bus, dev[d], d)
    /\ \A d \in Devices \ odd : KeepsOwn(bus, dev[d], d)
    /\ \A d, e \in Devices : Family[d] = "rme800" /\ Family[e] = "rme800" /\ dev[d].reg["rx"] = dev[e].reg["rx"] =>
          d = e \/ dev[d].reg["rx"] = None
\* Of the call under way: its position; the objects that are new; the streams that have started.
PlaceInv ==
    /\ list \in DeviceLists /\ at \in DOMAIN list /\ limit \in 1..(Len(list) + 1)
    /\ phase = "start" => stream \in DOMAIN StreamsOf(This)
    /\ phase \in {"back", "undo", "stop"} => stream \in 0..Len(StreamsOf(This))
    /\ phase \in {"undo", "stop"} => at < limit
Empty(d) == \A k \in Streams : dev[d].proc[k] = Absent /\ dev[d].mem[k] = None
NewInv ==
    /\ \A d \in Devices : phase = "none" \/ d \notin Range(list) => Empty(d)
    /\ phase \in {"lock", "rate", "prepare"} => \A i \in DOMAIN list : i >= at => Empty(list[i])
    /\ phase = "delete" => \A i \in DOMAIN list : i < at => Empty(list[i])
Ready(x, d, k) ==
    x.proc[k] # Absent => /\ x.proc[k] # None
                          /\ Family[d] \in Renting => x.proc[k] = x.mem[k]
                          /\ Family[d] \in {"dice", "bounce"} => x.proc[k] = x.reg[k]
AllReady(d) == d \in Regular => \A k \in Streams : Ready(dev[d], d, k)
StartedHere ==
    This \in Regular => \A j \in DOMAIN StreamsOf(This) :
        j < stream \/ (1 < stream /\ Family[This] \in Renting \ {"motu"}) => Ready(dev[This], This, StreamsOf(This)[j])
StartedInv ==
    ~snoop => /\ phase \in {"reset", "start", "enable"} => \A i \in DOMAIN list : i < at => AllReady(list[i])
              /\ phase = "start" => StartedHere
              /\ phase = "enable" => AllReady(This)
              /\ phase \in {"spm", "running"} => \A i \in DOMAIN list : AllReady(list[i])
StreamsInv == OwnInv /\ PlaceInv /\ NewInv /\ StartedInv

\* A start that fails leaves none of its connections behind, on the device that failed or
\* on those before it, as long as every stop that the manager asks for succeeds.
NothingStarted ==
    \A d \in Regular : Family[d] \in {"avc", "dice", "bounce"} =>
        /\ \A k \in Streams : dev[d].proc[k] \in {None, Absent}
        /\ \A c \in 0..(NrChannels - 2) : bus.irm[c] # d
FailedStartUndone == phase = "ready" /\ undone = "all" => NothingStarted
StartFailureCleansUp == phase = "ready" /\ undone # "stop" => NothingStarted

\* When a session without a failed call is over, the bus is as it was: no channel, no
\* bandwidth, no owner and no notifier is left behind; nor does a start that failed and
\* was undone leave a connection (FailedStartUndone).
SessionLeavesNothing ==
    /\ FailedStartUndone
    /\ phase = "none" /\ faults = 0 /\ odd = {} =>
       /\ \A c \in Channels : bus.irm[c] \notin Devices /\ bus.chan[c] = "free"
       /\ bus.units + Cardinality({c \in Channels : bus.irm[c] # Nobody}) = MaxUnits
       /\ \A d \in Devices : ~dev[d].owner /\ ~dev[d].notifier

\* Its inductive form.  Of the bus: a channel that is held, by whomever, costs a unit.
Balanced(b) == b.units \in Nat /\ b.units + Cardinality({c \in Channels : b.irm[c] # Nobody}) = MaxUnits
\* What a device holds its object has the number of, unless a call failed or, where streams
\* take channels as they start, a start was not undone; and nobody has the last channel.
Clean == faults = 0 /\ odd = {}
Calm == undone = "all" \/ Clean
Numbered(x, d, c) == \E k \in Streams : c = Number(x, d, k)
HeldIsKept ==
    \A d \in Devices \ odd, c \in 0..(NrChannels - 2) :
        bus.irm[c] = d /\ (IF Family[d] \in Renting THEN Clean ELSE Calm) => Numbered(dev[d], d, c)
LastIsFree == faults = 0 => bus.irm[NrChannels - 1] \notin Devices
\* Streams that have not started yet, or have been stopped, have no channel.
Still(d, k) == d \in Regular /\ Family[d] \in {"avc", "dice", "bounce"} => dev[d].proc[k] \in {None, Absent}
AllStill(d) == \A k \in Streams : Still(d, k)
StillHere(J) == \A j \in DOMAIN StreamsOf(This) \cap J : Still(This, StreamsOf(This)[j])
StoppedInv ==
    Calm =>
       /\ phase \in {"none", "lock", "rate", "prepare", "ready", "unlock", "delete"} => \A d \in Devices : AllStill(d)
       /\ phase \in {"reset", "start", "back", "enable"} => \A i \in DOMAIN list : i > at => AllStill(list[i])
       /\ phase = "reset" => AllStill(This)
       /\ phase = "start" => StillHere(stream..2)
       /\ phase = "back" => StillHere((stream + 1)..2)
       /\ phase \in {"undo", "stop"} => /\ \A i \in DOMAIN list : i < at \/ i >= limit => AllStill(list[i])
                                        /\ StillHere(1..(stream - 1))
\* So that a stop succeeds: the register of a stream has its channel.
AgreeInv ==
    Clean => \A d \in Devices, k \in Streams :
        Family[d] = "bounce" \/ (Family[d] = "dice" /\ ~snoop) =>
            dev[d].proc[k] \in {None, Absent, dev[d].reg[RegOf(k)]}
\* Who owns a device is notified by it, until it is unlocked; deleted objects are not.
OwnerInv ==
    faults = 0 =>
       /\ \A d \in Devices : dev[d].owner => Family[d] = "dice" /\ ~snoop /\ dev[d].notifier
       /\ \A d \in Devices : phase = "none" \/ d \notin Range(list) => ~dev[d].notifier
       /\ phase = "unlock" => \A i \in DOMAIN list : i < at => ~dev[list[i]].owner
       /\ phase = "delete" => \A i \in DOMAIN list : ~dev[list[i]].owner /\ (i < at => ~dev[list[i]].notifier)
\* A start that failed has the stream before it to stop.
BackInv == phase = "back" => stream < 2
LeavesInv == Balanced(bus) /\ faults \in Nat /\ HeldIsKept /\ LastIsFree /\ StoppedInv /\ AgreeInv /\ OwnerInv /\ BackInv
=============================================================================
