---------------------------- MODULE ControlTree ----------------------------
(***************************************************************************)
(* The tree of control elements and its D-Bus mirror.  DeviceManager is    *)
(* the root of the tree; a device builds its mixer below itself when it is *)
(* discovered, and again on each rediscovery.  Every change of a container *)
(* signals the mirror, which the D-Bus server's main thread serves to      *)
(* clients.  The server is told before and after each update of the        *)
(* device list; it leaves its dispatcher and waits on a semaphore.         *)
(***************************************************************************)
EXTENDS Integers, Sequences, FiniteSets, SequencesExt

CONSTANTS
    Families,   \* families of the device on the bus
    MotuCtrls,  \* the mixer controls of the MOTU model: sequence of [name, type]
    MaxUpdates, \* bound on discoveries of the device manager
    MaxObjects  \* bound on containers and controls the device creates

VARIABLES
    family,   \* the driver of the device
    device,   \* the elements of the device: sequence of [id, name, leaves]
    attached, \* the device is an element of the device manager
    member,   \* the device's pointers to its containers; 0 is NULL
    nextId,
    freed,    \* ids of deleted elements
    prog,     \* what is left of the discovery under way
    signal,   \* of the signal being handled: [step, on, i]
    mirror,   \* elements that have a D-Bus object
    listening,\* containers whose mirror receives their signals
    ctlLock,  \* holder of the lock of the control tree
    updLock,  \* holder of the lock of the mirror
    server,   \* the server's main thread: [pc, target, count]
    running,  \* the dispatcher's flag
    sem,      \* run_sem
    run,      \* cleared by a signal to stop
    updating, updates,
    staleCall, unheld \* histories: a call reached a deleted element; a lock was released by another thread

treeVars == <<family, device, attached, member, nextId, freed, prog, signal, mirror, listening, ctlLock,
              updLock, server, running, sem, run, updating, updates, staleCall, unheld>>
deviceVars == <<device, attached, member, nextId, freed>>
mirrorVars == <<mirror, listening>>
serverVars == <<server, sem, run, staleCall>>

Root == 0        \* the device manager
Dev == 1         \* the device: id 1 names it, its elements have larger ids
Null == 0
Free == "nobody"

-----------------------------------------------------------------------------
\* The programs of buildMixer and destroyMixer.  A container is filled before it is visible.
Container(m, name) == [op |-> "container", m |-> m, name |-> name]
Leaf(name)   == [op |-> "leaf", name |-> name]
Attach(m)    == [op |-> "attach", m |-> m]
Renew(m)     == [op |-> "renew", m |-> m]
Detach(m, null, failed, resets) ==
    [op |-> "detach", m |-> m, null |-> null, failed |-> failed, resets |-> resets]

Cross(prefixes, suffixes) ==
    [i \in 1..(Len(prefixes) * Len(suffixes)) |->
        <<prefixes[((i - 1) \div Len(suffixes)) + 1], suffixes[((i - 1) % Len(suffixes)) + 1]>>]
Plain(names) == [i \in DOMAIN names |-> <<names[i]>>]
Numbered(prefix, from, to) == [i \in 1..(to - from + 1) |-> <<prefix, from + i - 1>>]
Outs4 == <<"Out12", "Out34", "Out56", "Out78">>
Outs3 == <<"Out12", "Out34", "Out56">>

\* The controls each family puts into its containers.
buildMixer_saffirepro_mixer ==
    Cross(<<"Mute", "HwCtrl", "Pad", "Dim">>, Outs4) \o Plain(<<"MonitorDial">>)
    \o Numbered("DirectMonitorCH", 1, 8) \o Cross(<<"Level">>, Outs4)
    \o Plain(<<"Out12MuteInd", "Out12DimInd", "InputMix", "OutputMix">>)
buildMixer_saffirepro_control ==
    Plain(<<"Phantom_1to4", "Phantom_5to8", "Insert1", "Insert2", "AC3pass", "MidiTru", "ADATDisable",
            "MIDIEnable", "StandaloneConfig", "Reboot", "FlashLed", "UseHighVoltageRail",
            "ExitStandalone", "PllLockRange", "SaveSettings", "EnableAdat1", "EnableAdat2",
            "EnableSPDIF1", "DeviceName">>)
buildMixer_saffirele ==
    Plain(<<"SpdifTransparent", "MidiThru", "SaveSettings", "HighGainLine3", "HighGainLine4">>)
    \o Cross(<<"Mute", "HwCtrl", "DacIgnore", "Level">>, Outs3)
    \o Plain(<<"LEMix48", "LEMix96", "Swap41_48", "Swap41_96">>)
buildMixer_saffire_switches ==
    Plain(<<"SpdifSwitch", "MonoMode", "DeviceMode", "ExternalLock", "AudioOnStatus", "SaveSettings",
            "Out910Mute", "Out12Dim">>) \o Cross(<<"Mute", "HwCtrl", "DacIgnore">>, Outs4)
buildMixer_saffire_levels ==
    Cross(<<"Level">>, Outs4) \o Plain(<<"MonitorDial", "MatrixMixerStereo", "MatrixMixerMono">>)
    \o Numbered("MeteringIn", 1, 4) \o Numbered("MeteringPc", 1, 10)
buildMixer_fireworks_mixer ==
    Cross(<<"Monitor">>, <<"Gain", "Mute", "Solo", "Pan">>)
    \o Cross(<<"PC0", "PC1">>, <<"Mute", "Solo", "Gain">>)
    \o Cross(<<"OUT0", "OUT1">>, <<"Mute", "Nominal", "Gain">>) \o Cross(<<"IN0", "IN1">>, <<"Nominal">>)
buildMixer_fireworks_hwinfo ==
    Plain(<<"PhysicalAudioOutCount", "PhysicalAudioInCount", "1394PlaybackCount", "1394RecordCount",
            "GroupOutCount", "GroupInCount", "PhantomPower", "OpticalInterface", "PlaybackRouting">>)
buildMixer_rme_control(ff800) ==
    Plain(<<"Model", "TCO_present", "sysclock_mode", "sysclock_freq", "autosync_freq", "autosync_src",
            "sync_status", "spdif_freq", "Phantom", "Input_level", "Output_level", "SPDIF_input_mode",
            "SPDIF_output_optical", "SPDIF_output_emphasis", "SPDIF_output_pro", "SPDIF_output_nonaudio",
            "Phones_level", "Clock_mode", "Sync_ref", "Bandwidth_limit", "Flash_control", "Mixer_preset">>)
    \o (IF ff800 THEN Plain(<<"Chan1_source", "Chan7_source", "Chan8_source", "Chan1_instr_opts">>)
        ELSE Cross(<<"Chan3", "Chan4">>, <<"opt_instr", "opt_pad">>) \o Plain(<<"Gains">>))
buildMixer_rme_mixer ==
    Cross(<<"Input", "Playback", "Output">>, <<"Faders", "Mutes">>) \o Cross(<<"Input", "Playback">>, <<"Inverts">>)

\* A MOTU control creates one element for each flag of its type, named by a suffix.
MotuMatrices == <<"fader", "pan", "solo", "mute">>
MotuSuffix == [channel_fader |-> "fader", channel_pan |-> "pan", channel_mute |-> "mute", channel_solo |-> "solo",
               mix_fader |-> "fader", mix_mute |-> "mute", mix_dest |-> "dest", ul_gain |-> "trimgain",
               phase_inv |-> "invert", trimgain |-> "trimgain", pad |-> "pad", level |-> "level",
               boost |-> "boost", phones_src |-> "src", optical_mode |-> "", peakhold |-> "peakhold_time",
               cliphold |-> "cliphold_time", aesebu_src |-> "aesebu_src", prog_src |-> "src"]
buildMixerAudioControls ==
    Plain(MotuMatrices)
    \o FlattenSeq([i \in DOMAIN MotuCtrls |->
                    Cross(<<MotuCtrls[i].name>>, [j \in DOMAIN MotuCtrls[i].type |-> MotuSuffix[MotuCtrls[i].type[j]]])])
buildMixer_motu_info == Cross(<<"Info">>, <<"Model", "IsStreaming", "SampleRate">>)

\* BeBoB: one element per selector and mixer block, two per feature block, for the blocks of
\* audio subunit 0; M-Audio special: a fixed list.
addElementForAllFunctionBlocks ==
    Plain(<<"Selector_1", "Feature_Volume_1", "Feature_LRBalance_1", "Feature_Volume_2",
            "Feature_LRBalance_2", "EnhancedMixer_1">>)
buildMixer_special == Numbered("Volume", 1, 27) \o Numbered("LRBalance", 1, 9)
                      \o Numbered("Selector", 1, 4) \o Numbered("Processing", 1, 2)
addSpecificControls == Plain(<<"PhonoSwitch", "PhantomPower", "MicBoost", "MicLimit">>)
GenericControls == Plain(<<"ClockSelect", "SamplerateSelect", "Nickname", "StreamingStatus">>)

Controls(f, m) ==
    CASE m = "generic" -> GenericControls     [] m = "preamp" -> addSpecificControls
      [] m = "hwinfo" -> buildMixer_fireworks_hwinfo [] m = "eap" -> Plain(<<"Mixer", "Router">>)
      [] m = "control" -> (CASE f = "saffirepro" -> buildMixer_saffirepro_control
                             [] f = "ff800" -> buildMixer_rme_control(TRUE)
                             [] f = "ff400" -> buildMixer_rme_control(FALSE) [] OTHER -> <<>>)
      [] OTHER -> (CASE f = "saffirepro" -> buildMixer_saffirepro_mixer
                     [] f = "saffire" -> buildMixer_saffire_switches \o buildMixer_saffire_levels
                     [] f = "saffirele" -> buildMixer_saffirele
                     [] f = "fireworks" -> buildMixer_fireworks_mixer
                     [] f \in {"ff800", "ff400"} -> buildMixer_rme_mixer
                     [] f = "motu" -> buildMixerAudioControls \o buildMixer_motu_info
                     [] f = "motu3" -> buildMixer_motu_info
                     [] f \in {"special", "uncached"} -> buildMixer_special
                     [] OTHER -> addElementForAllFunctionBlocks)

\* The order in which buildMixer creates its containers and makes them elements of the device.
\* None fails: a Mark3 model has no mixer of its own, which buildMixerAudioControls takes for
\* success, and the elements it adds are new.  The M-Audio special devices build theirs in
\* loadFromCache; without the cache ("uncached") their discover() builds none.
buildMixer(f) ==
    CASE f = "saffirepro" -> <<Container("mixer", "Mixer"), Attach("mixer"), Container("control", "Control"),
                               Leaf("Register"), Attach("control")>>
      [] f \in {"saffire", "saffirele"} -> <<Container("mixer", "Mixer"), Attach("mixer"), Leaf("Register")>>
      [] f = "fireworks" -> <<Container("mixer", "Mixer"), Container("hwinfo", "HwInfo"), Leaf("SaveSettings"),
                              Leaf("Identify"), Leaf("SpdifMode"), Attach("mixer"), Attach("hwinfo")>>
      [] f \in {"ff800", "ff400"} -> <<Container("control", "Control"), Container("mixer", "Mixer"),
                                       Attach("control"), Attach("mixer")>>
      [] f \in {"motu", "motu3"} -> <<Container("mixer", "Mixer"), Attach("mixer"), Container("control", "Control"),
                                      Attach("control")>>
      [] f = "dice" -> <<Container("eap", "EAP"), Attach("eap")>>
      [] f = "special" -> <<Renew("mixer"), Attach("mixer")>>
      [] f = "uncached" -> <<>>
      [] OTHER -> <<Container("mixer", "Mixer"), Attach("mixer")>>

\* What destroyMixer does with each of the containers, in order: whether NULL, or a
\* container that is no child, ends it, and whether the pointer is reset.
destroyMixer_saffirepro == <<Detach("mixer", "return", "return", TRUE), Detach("control", "return", "return", TRUE)>>
destroyMixer_saffire == <<Detach("mixer", "return", "return", FALSE)>>
destroyMixer_fireworks == <<Detach("mixer", "continue", "return", TRUE), Detach("hwinfo", "continue", "return", TRUE)>>
destroyMixer_rme == <<Detach("mixer", "continue", "continue", TRUE), Detach("control", "continue", "continue", TRUE)>>
destroyMixer_motu == <<Detach("mixer", "return", "return", TRUE), Detach("control", "return", "return", TRUE)>>
destroyMixer_bebob == <<Detach("mixer", "continue", "continue", TRUE)>>
destroyMixer(f) ==
    CASE f = "saffirepro" -> destroyMixer_saffirepro
      [] f \in {"saffire", "saffirele"} -> destroyMixer_saffire
      [] f = "fireworks" -> destroyMixer_fireworks
      [] f \in {"ff800", "ff400"} -> destroyMixer_rme
      [] f \in {"motu", "motu3"} -> destroyMixer_motu
      [] f \in {"special", "uncached", "dice"} -> <<>>
      [] OTHER -> destroyMixer_bebob

-----------------------------------------------------------------------------
\* What a discovery of the device manager does with the device.
Op(name) == [op |-> name]
Create(f) ==
    <<Op("newDevice")>> \o (IF f = "inspire" THEN <<Container("preamp", "Preamp"), Attach("preamp")>> ELSE <<>>)
    \o buildMixer(f) \o <<Op("attachDevice")>>
Rebuild(f) == destroyMixer(f) \o <<Op("endDestroy")>> \o buildMixer(f)
Withdraw == <<Op("detachDevice"), Op("deleteDevice")>>

NoSignal == [step |-> "none", on |-> Root, i |-> 1]
TreeInit ==
    /\ family \in Families
    /\ device = <<>> /\ attached = FALSE /\ nextId = Dev + 1 /\ freed = {}
    /\ member = [m \in {"mixer", "control", "hwinfo", "eap", "preamp", "generic"} |-> Null]
    /\ prog = <<>> /\ signal = NoSignal
    /\ mirror = {} /\ listening = {} /\ ctlLock = Free /\ updLock = Free
    /\ server = [pc |-> "start", target |-> Null, count |-> 0]
    /\ running = FALSE /\ sem = 0 /\ run = TRUE /\ updating = FALSE /\ updates = 0
    /\ staleCall = FALSE /\ unheld = FALSE

\* preUpdateHandler, and the choice of what the discovery finds; postUpdateHandler.
preUpdateHandler ==
    /\ ~updating /\ updates < MaxUpdates /\ nextId + 9 <= MaxObjects
    /\ updating' = TRUE /\ updates' = updates + 1
    /\ running' = FALSE
    /\ prog' \in (IF attached THEN {Rebuild(family), Withdraw} ELSE {Create(family)})
    /\ UNCHANGED <<family, deviceVars, signal, mirrorVars, ctlLock, updLock, serverVars, unheld>>
postUpdateHandler_silent ==
    /\ updating /\ prog = <<>> /\ signal.step = "none"
    /\ updating' = FALSE
    /\ UNCHANGED <<family, deviceVars, prog, signal, mirrorVars, ctlLock, updLock, serverVars, running, updates,
                   unheld>>
postUpdateHandler ==
    /\ updating /\ prog = <<>> /\ signal.step = "none"
    /\ updating' = FALSE /\ sem' = sem + 1
    /\ UNCHANGED <<family, deviceVars, prog, signal, mirrorVars, ctlLock, updLock, server, running, run, staleCall,
                   updates, unheld>>

\* Element and Container.  The children of the root are the device, if attached.
Ids(s) == {s[i].id : i \in DOMAIN s}
Element(id) == CHOOSE e \in Range(device) : e.id = id
Children(c) == IF c = Root THEN (IF attached THEN <<[id |-> Dev, name |-> "device", m |-> "device"]>> ELSE <<>>)
               ELSE device
\* emitSignal(eS_Updated): synchronous, if a mirror listens to the container.
emitSignal(c) == signal' = IF c \in listening THEN [step |-> "lock", on |-> c, i |-> 1] ELSE NoSignal
\* addElement to the device: the lock is taken for the change and released before the signal.
addElement(e) ==
    /\ ctlLock = Free
    /\ device' = IF e.id \in Ids(device) THEN device ELSE Append(device, e)
    /\ IF e.id \in Ids(device) THEN signal' = NoSignal ELSE emitSignal(Dev)
\* The first child that is the element, if there is one.
deleteElementNoLock(id) ==
    LET k == SelectInSeq(device, LAMBDA e : e.id = id)
    IN  IF k = 0 THEN device ELSE RemoveAt(device, k)
deleteElement_kept(id) == ctlLock = Free /\ UNCHANGED <<device, signal>>
deleteElement_silent(id) ==
    /\ ctlLock = Free
    /\ device' = deleteElementNoLock(id)
    /\ signal' = NoSignal
deleteElement(id) ==
    /\ ctlLock = Free
    /\ device' = deleteElementNoLock(id)
    /\ IF id \in Ids(device) THEN emitSignal(Dev) ELSE signal' = NoSignal

-----------------------------------------------------------------------------
\* The discovering thread: one operation of the program at a time, once the signal of the
\* one before has been handled.
Stepping(op) == updating /\ prog # <<>> /\ Head(prog).op = op /\ signal.step = "none"
Rest == prog' = Tail(prog)
unchangedByProgram == <<family, mirrorVars, ctlLock, updLock, serverVars, running, updating, updates, unheld>>

\* FFADODevice::FFADODevice
NewDevice ==
    /\ Stepping("newDevice") /\ Rest
    /\ device' = <<[id |-> nextId, name |-> "ConfigRom", m |-> "leaf"],
                   [id |-> nextId + 1, name |-> "Generic", m |-> "generic"]>>
    /\ member' = [member EXCEPT !["generic"] = nextId + 1]
    /\ nextId' = nextId + 2 /\ freed' = freed \ {Dev}
    /\ UNCHANGED <<attached, signal, unchangedByProgram>>
NewContainer ==
    /\ Stepping("container") /\ Rest
    /\ member' = [member EXCEPT ![Head(prog).m] = nextId] /\ nextId' = nextId + 1
    /\ UNCHANGED <<device, attached, freed, signal, unchangedByProgram>>
AddContainer ==
    /\ Stepping("attach") /\ Rest
    /\ addElement([id |-> member[Head(prog).m], name |-> Head(prog).m, m |-> Head(prog).m])
    /\ UNCHANGED <<attached, member, nextId, freed, unchangedByProgram>>
AddLeaf ==
    /\ Stepping("leaf") /\ Rest
    /\ addElement([id |-> nextId, name |-> Head(prog).name, m |-> "leaf"])
    /\ nextId' = nextId + 1
    /\ UNCHANGED <<attached, member, freed, unchangedByProgram>>
\* The special devices delete the old mixer, whose destructor leaves it in the list of the
\* device, and create a new one: elsewhere, or at the address the old one had.  (The pointer
\* is not initialized: a first value other than NULL is outside the model.)
RenewContainer ==
    LET m == Head(prog).m IN
    /\ Stepping("renew") /\ Rest
    /\ \/ /\ member' = [member EXCEPT ![m] = nextId] /\ nextId' = nextId + 1
          /\ freed' = freed \cup ({member[m]} \ {Null})
       \/ member[m] # Null /\ UNCHANGED <<member, nextId, freed>>
    /\ UNCHANGED <<device, attached, signal, unchangedByProgram>>

AfterDestroy == LET k == SelectInSeq(prog, LAMBDA o : o.op = "endDestroy")
                IN  SubSeq(prog, k, Len(prog))
\* One container of destroyMixer: deleteElement, which signals, and then the deletion.
DetachContainer ==
    LET o == Head(prog)  c == member[Head(prog).m] IN
    /\ Stepping("detach")
    /\ IF c = Null
       THEN /\ prog' = IF o.null = "return" THEN AfterDestroy ELSE Tail(prog)
            /\ UNCHANGED <<device, signal>>
       ELSE IF c \notin Ids(device)
       THEN /\ prog' = IF o.failed = "return" THEN AfterDestroy ELSE Tail(prog)
            /\ UNCHANGED <<device, signal>>
       ELSE deleteElement(c) /\ prog' = <<[o EXCEPT !.op = "delete"]>> \o Tail(prog)
    /\ UNCHANGED <<attached, member, nextId, freed, unchangedByProgram>>
DeleteContainer ==
    LET o == Head(prog) IN
    /\ Stepping("delete") /\ Rest
    /\ freed' = freed \cup {member[o.m]}
    /\ member' = IF o.resets THEN [member EXCEPT ![o.m] = Null] ELSE member
    /\ UNCHANGED <<device, attached, nextId, signal, unchangedByProgram>>
EndDestroy == Stepping("endDestroy") /\ Rest /\ UNCHANGED <<deviceVars, signal, unchangedByProgram>>

\* DeviceManager::addElement and deleteElement of the device, and its destructor.
AttachDevice ==
    /\ Stepping("attachDevice") /\ Rest /\ ctlLock = Free
    /\ attached' = TRUE /\ emitSignal(Root)
    /\ UNCHANGED <<device, member, nextId, freed, unchangedByProgram>>
DetachDevice ==
    /\ Stepping("detachDevice") /\ Rest /\ ctlLock = Free
    /\ attached' = FALSE /\ emitSignal(Root)
    /\ UNCHANGED <<device, member, nextId, freed, unchangedByProgram>>
Leaked == {"leaf", "preamp"} \cup (IF family = "special" THEN {"mixer"} ELSE {})
DeleteDevice ==
    /\ Stepping("deleteDevice") /\ Rest
    /\ freed' = freed \cup {Dev} \cup {device[i].id : i \in {j \in DOMAIN device :
                     device[j].name = "ConfigRom" \/ device[j].m \notin Leaked}}
    /\ device' = <<>> /\ member' = [m \in DOMAIN member |-> Null]
    /\ UNCHANGED <<attached, nextId, signal, unchangedByProgram>>

-----------------------------------------------------------------------------
\* The mirror.  createHandler fails if the path of the element is taken: another element of
\* the container that has the same name has an object already.
PathTaken(c, e) == \E x \in Range(Children(c)) : x.id # e.id /\ x.id \in mirror /\ x.name = e.name
IsContainer(e) == e.m # "leaf"
\* The objects of an element and, for the device, of what is below it.
FirstOfName(s) == {s[i].id : i \in {j \in DOMAIN s : \A k \in 1..(j - 1) : s[k].name # s[j].name}}
Subtree(e) == {e.id} \cup (IF e.id = Dev THEN FirstOfName(device) ELSE {})
Listeners(e) == (IF IsContainer(e) THEN {e.id} ELSE {})
                \cup (IF e.id = Dev THEN {x \in FirstOfName(device) : IsContainer(Element(x))} ELSE {})

\* Container::updated: both locks, updateTree, and both locks released.
unchangedByMirror == <<family, deviceVars, prog, serverVars, running, updating, updates>>
updated_lock ==
    /\ signal.step = "lock" /\ updLock = Free /\ ctlLock = Free
    /\ updLock' = "updater" /\ ctlLock' = "updater"
    /\ signal' = [signal EXCEPT !.step = "walk"]
    /\ UNCHANGED <<mirrorVars, unheld, unchangedByMirror>>
\* updateTree, one element of the container after the other.  createHandler releases both
\* locks if it fails, and the walk goes on.
updateTree_add ==
    LET s == Children(signal.on)
        e == s[signal.i]
        known == signal.i \in DOMAIN s /\ e.id \in mirror
        fails == signal.i \in DOMAIN s /\ ~known /\ PathTaken(signal.on, e)
    IN  /\ signal.step = "walk"
        /\ signal' = IF signal.i \in DOMAIN s THEN [signal EXCEPT !.i = @ + 1]
                                              ELSE [signal EXCEPT !.step = "prune"]
        /\ IF signal.i \in DOMAIN s /\ ~known /\ ~fails
           THEN mirror' = mirror \cup Subtree(e) /\ listening' = listening \cup Listeners(e)
           ELSE UNCHANGED mirrorVars
        /\ IF fails THEN ctlLock' = Free /\ updLock' = Free ELSE UNCHANGED <<ctlLock, updLock>>
        /\ UNCHANGED <<unheld, unchangedByMirror>>
\* Objects whose element is gone are deleted, with those below them.
updateTree_remove ==
    LET there == Ids(Children(signal.on))
        under == IF signal.on = Root THEN {Dev} ELSE mirror \ {Root, Dev}
        gone  == under \ there
    IN  /\ signal.step = "prune" /\ signal' = [signal EXCEPT !.step = "unlock"]
        /\ mirror' = mirror \ (gone \cup (IF Dev \in gone THEN Ids(device) ELSE {}))
        /\ listening' = listening \cap mirror'
        /\ UNCHANGED <<ctlLock, updLock, unheld, unchangedByMirror>>
updated_unlock ==
    /\ signal.step = "unlock" /\ signal' = NoSignal
    /\ unheld' = (unheld \/ ctlLock # "updater" \/ updLock # "updater")
    /\ ctlLock' = Free /\ updLock' = Free
    /\ UNCHANGED <<mirrorVars, unchangedByMirror>>

-----------------------------------------------------------------------------
\* The server's main thread.
At(p) == server.pc = p
Go(p) == server' = [pc |-> p, target |-> Null, count |-> 0]
unchangedByServer == <<family, deviceVars, prog, signal, updLock, updating, updates, unheld>>

\* The mirror is built with the control tree locked.
StartServer ==
    /\ At("start") /\ ctlLock = Free
    /\ mirror' = {Root} \cup (IF attached THEN {Dev} \cup FirstOfName(device) ELSE {})
    /\ listening' = {x \in mirror' : x \in {Root, Dev} \/ IsContainer(Element(x))}
    /\ Go("enter")
    /\ UNCHANGED <<ctlLock, running, sem, run, staleCall, unchangedByServer>>
enter ==
    /\ At("enter") /\ Go("dispatch") /\ running' = TRUE
    /\ UNCHANGED <<mirrorVars, ctlLock, sem, run, staleCall, unchangedByServer>>
\* The dispatcher takes a message for an object, or finds that it was told to leave.
dispatch ==
    /\ At("dispatch")
    /\ IF running
       THEN \E x \in mirror : \/ server' = [pc |-> "call", target |-> x, count |-> 0]
                              \/ /\ x \in {Root, Dev} /\ ctlLock = Free /\ Children(x) # <<>>
                                 /\ server' = [pc |-> "name", target |-> x, count |-> Len(Children(x))]
       ELSE Go("wait")
    /\ UNCHANGED <<mirrorVars, ctlLock, running, sem, run, staleCall, unchangedByServer>>
\* A method of an element: it uses the D-Bus object and the element behind it, without a lock.
call ==
    /\ At("call") /\ Go("dispatch")
    /\ staleCall' = (staleCall \/ server.target \in freed \/ server.target \notin mirror)
    /\ UNCHANGED <<mirrorVars, ctlLock, running, sem, run, unchangedByServer>>
\* getElementName for the last element: the count was read under an earlier lock.
getElementName ==
    /\ At("name") /\ ctlLock = Free
    /\ Go(IF server.count <= Len(Children(server.target)) THEN "dispatch" ELSE "crashed")
    /\ staleCall' = (staleCall \/ server.target \in freed \/ server.target \notin mirror)
    /\ UNCHANGED <<mirrorVars, ctlLock, running, sem, run, unchangedByServer>>
sem_wait ==
    /\ At("wait") /\ sem > 0 /\ sem' = sem - 1
    /\ Go(IF run THEN "enter" ELSE "stop")
    /\ UNCHANGED <<mirrorVars, ctlLock, running, run, staleCall, unchangedByServer>>
\* The handlers are unregistered, and the mirror is deleted, while it may still be updated.
StopServer ==
    /\ At("stop")
    /\ mirror' = {} /\ listening' = {} /\ Go("done")
    /\ staleCall' = (staleCall \/ signal.step \in {"walk", "prune", "unlock"})
    /\ UNCHANGED <<ctlLock, running, sem, run, unchangedByServer>>
sighandler ==
    /\ run /\ server.pc \notin {"start", "done", "crashed"}
    /\ run' = FALSE /\ running' = FALSE /\ sem' = sem + 1
    /\ UNCHANGED <<mirrorVars, ctlLock, server, staleCall, unchangedByServer>>

Discovering == preUpdateHandler \/ NewDevice \/ NewContainer \/ AddContainer \/ AddLeaf \/ RenewContainer
               \/ DetachContainer \/ DeleteContainer \/ EndDestroy \/ AttachDevice \/ DetachDevice
               \/ DeleteDevice \/ postUpdateHandler
Mirroring == updated_lock \/ updateTree_add \/ updateTree_remove \/ updated_unlock
Serving == StartServer \/ enter \/ dispatch \/ call \/ getElementName \/ sem_wait \/ StopServer \/ sighandler
TreeNext == Discovering \/ Mirroring \/ Serving
TreeSpec == TreeInit /\ [][TreeNext]_treeVars

-----------------------------------------------------------------------------
\* No element of the tree has been deleted: buildMixer and destroyMixer take what they
\* delete out of the tree first, after any number of rediscoveries, in every family but the
\* M-Audio special devices, whose buildMixer does not.
Special == family = "special"
TreeIsLive == attached /\ ~Special => Dev \notin freed /\ Ids(device) \cap freed = {}
\* What BeBoB's buildMixer says of the deletion, of the special devices too.
OldMixerIsRemoved == attached => Ids(device) \cap freed = {}

\* Its inductive form, where the device is no special one.  Of a program: the pointers it
\* names exist; what destroyMixer takes
\* out comes before what buildMixer puts in; only the first step may be half done, and the
\* container it is about to delete is out of the tree; a device is detached before it is
\* deleted; and a container is created, or alive already, when it is attached.
MemberNames == {"mixer", "control", "hwinfo", "eap", "preamp", "generic"}
NamesMembers(p) ==
    \A i \in DOMAIN p :
        p[i].op # "renew" /\ (p[i].op \in {"container", "attach", "detach", "delete"} => p[i].m \in MemberNames)
DestroysFirst(p) ==
    /\ \A i, j \in DOMAIN p : i < j =>
          /\ p[j].op # "delete"
          /\ p[i].op \in {"container", "newDevice"} => p[j].op \notin {"detach", "endDestroy"}
    /\ \A i \in DOMAIN p : p[i].op = "detach" =>
          \E j \in DOMAIN p : i < j /\ p[j].op = "endDestroy"
DetachesDevice(p, there) ==
    \A i \in DOMAIN p : p[i].op = "deleteDevice" =>
        i = Len(p) /\ (IF i = 1 THEN ~there ELSE p[i - 1].op = "detachDevice")
AttachesLive(p, mem, dead) ==
    \A i \in DOMAIN p : p[i].op = "attach" =>
        \/ \E j \in DOMAIN p : j < i /\ p[j].op = "container" /\ p[j].m = p[i].m
        \/ /\ mem[p[i].m] \notin dead
           /\ \A j \in DOMAIN p : j < i => p[j].op \notin {"detach", "delete"}
CreatesDevice(p) ==
    \A i \in DOMAIN p : p[i].op = "attachDevice" => \E j \in DOMAIN p : j < i /\ p[j].op = "newDevice"
KnownIds == 0..(nextId - 1)
Clean == Dev \notin freed /\ Ids(device) \cap freed = {}
TreeInv ==
    /\ nextId \in Nat /\ nextId > Dev
    /\ \A i, j \in DOMAIN device : device[i].id = device[j].id => i = j
    /\ freed \subseteq KnownIds /\ Ids(device) \subseteq KnownIds /\ member \in [MemberNames -> KnownIds \ {Dev}]
    /\ NamesMembers(prog) /\ DestroysFirst(prog) /\ DetachesDevice(prog, attached)
    /\ AttachesLive(prog, member, freed)
    /\ prog # <<>> /\ Head(prog).op = "delete" => member[Head(prog).m] \notin Ids(device)
    /\ Clean \/ (~attached /\ CreatesDevice(prog))

\* Once the signals of a change are handled, the D-Bus objects are exactly the elements of
\* the tree, one per name: nothing that is gone keeps its object, nothing new lacks one.  (Of
\* a special device the walk may read a deleted mixer: nothing is claimed.)
Handled == signal.step = "none" /\ server.pc \notin {"start", "done"}
Exported(c) == {e.name : e \in {x \in Range(Children(c)) : x.id \in mirror}}
MirrorIsTree ==
    Handled /\ ~Special =>
               /\ (Dev \in mirror) = attached
               /\ attached => /\ mirror \ {Root, Dev} \subseteq Ids(device)
                              /\ Exported(Dev) = {e.name : e \in Range(device)}
                              /\ \A m \in {e.m : e \in Range(device)} \ {"leaf"} :
                                    IsInjective(Controls(family, m))

\* The names of the controls in a container differ, in each family: a fact about the tables.
ASSUME ControlNamesDiffer ==
    \A f \in Families, m \in {"mixer", "control", "hwinfo", "eap", "preamp", "generic"} : IsInjective(Controls(f, m))

\* The inductive form of MirrorIsTree.  Elements exist, a container is created before it is
\* attached, and a device is created only where there is none.
MadeInv ==
    /\ family \in Families
    /\ \A i \in DOMAIN device : device[i].id > Dev /\ device[i].m \in MemberNames \cup {"leaf"}
    /\ AttachesLive(prog, member, {Null})
    /\ \A i \in DOMAIN prog : prog[i].op = "newDevice" => i = 1 /\ ~attached
\* Every name up to the i-th has an object; every object has an element.
Covered(n) ==
    \A i \in DOMAIN device : i < n =>
        \E j \in DOMAIN device : device[j].id \in mirror /\ device[j].name = device[i].name
AllCovered == \A i \in DOMAIN device :
        \E j \in DOMAIN device : device[j].id \in mirror /\ device[j].name = device[i].name
InTree == mirror \ {Root, Dev} \subseteq Ids(device)
Shown == IF attached THEN Dev \in mirror /\ InTree /\ AllCovered ELSE mirror = {Root}
\* How far the signal of a change of the device, or of the list of devices, has got.
DeviceSignal ==
    /\ attached /\ Dev \in mirror
    /\ signal.step \in {"lock", "walk"} => Covered(signal.i)
    /\ signal.step \in {"prune", "unlock"} => AllCovered
    /\ signal.step = "unlock" => InTree
RootSignal ==
    IF attached THEN Shown \/ (mirror = {Root} /\ signal.step \in {"lock", "walk"} /\ signal.i = 1)
    ELSE InTree /\ (signal.step = "unlock" => mirror = {Root})
Listening == Root \in mirror /\ Root \in listening /\ (Dev \in listening <=> Dev \in mirror)
MirrorInv ==
    /\ attached \in BOOLEAN
    /\ signal \in [step : {"none", "lock", "walk", "prune", "unlock"}, on : {Root, Dev}, i : Nat \ {0}]
    /\ signal.step = "lock" => signal.i = 1
    /\ server.pc = "start" => listening = {} /\ signal.step = "none"
    /\ server.pc \notin {"start", "done"} =>
          /\ Listening
          /\ signal.step = "none" => Shown
          /\ signal.step # "none" => IF signal.on = Dev THEN DeviceSignal ELSE RootSignal

\* The server is not left waiting: if it waits and nothing will wake it, an update is under
\* way whose end does.
ServerWakes == At("wait") /\ sem = 0 => updating
\* Its inductive form: nor is it about to wait so.
WakeInv ==
    /\ sem \in Nat
    /\ sem = 0 /\ (At("wait") \/ (~running /\ server.pc \in {"dispatch", "call", "name"})) => updating

\* updateTree is called with the tree locked, and works on it while it is.
WalkIsLocked == signal.step \in {"walk", "prune"} => ctlLock = "updater" /\ updLock = "updater"
=============================================================================
