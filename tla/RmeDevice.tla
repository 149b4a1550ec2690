----------------------------- MODULE RmeDevice ------------------------------
(***************************************************************************)
(* The settings of an RME Fireface 400 or 800.  The device cannot be read  *)
(* back, so every driver process keeps its settings in one shared-memory   *)
(* object: a setting is stored there, and then the three configuration     *)
(* registers, or one cell of the mixer RAM, are written from it.  Settings *)
(* and mixer can be saved to, and loaded from, the device's flash: a save  *)
(* erases and then writes block by block, every step may fail, and a       *)
(* program may die, or the power go, between two steps.                    *)
(* A register is the set of its bits.                                      *)
(***************************************************************************)
EXTENDS Integers, Sequences, FiniteSets, SequencesExt, TLC

CONSTANTS
    RmeModels,   \* of {"ff400", "ff800"}
    RmeProcs,    \* driver processes
    RmeCells,    \* cells of the mixer: <<"in" | "play", source, destination>>, destinations in pairs, and <<"out", source, 0>>
    RmeFoci,     \* what the clients work on: of {"settings", "mixer", "rates"}
    MaxRmeOps,   \* bound on operations
    MaxRmeSets   \* bound on the controls that are set after a load or an opening

VARIABLES
    rme,       \* the model and what the clients work on
    procs,     \* the processes that have the shared object open
    soft,      \* the shared settings, rme_shm_t
    pend,      \* of each process: registers it has computed and not yet written, or the save it is at
    dev,       \* the device: configuration registers, mixer RAM, input amplifiers, rate, flash
    setTo,     \* what each control was last set to, since settings were last loaded
    stale,     \* what the device has not been told: the registers, gains and cells of the mixer
    saved,     \* the settings and faders last saved, while the flash holds them: from the erasure on it does not
    rmeOps

rmeVars == <<rme, procs, soft, pend, dev, setTo, stale, saved, rmeOps>>

FF400 == rme.model = "ff400"
FF800 == rme.model = "ff800"
Closed == [open |-> FALSE]
NoData == <<>>
Conf == <<"conf", 0, 0>>
Amp == <<"amp", 0, 0>>
NotSaved == [valid |-> FALSE]
Refused(val) == val > 65536 \/ val < -65536

-----------------------------------------------------------------------------
\* The three configuration registers, computed from the settings.
Blank == -1   \* a word of erased flash, 0xffffffff
On(test, bits) == IF test THEN bits ELSE {}
CR0_level(s) == CASE s.input_level = 0 -> {3} [] s.input_level = 2 -> {4} [] s.input_level = 1 -> {5} [] OTHER -> {}
CR0_olevel(s) == CASE s.output_level = 2 -> {10} [] s.output_level = 1 -> {11} [] s.output_level = 0 -> {12} [] OTHER -> {}
CR0(s) ==
    On(s.mic_phantom[0] # 0, {0}) \cup On(s.mic_phantom[1] # 0, {7}) \cup CR0_level(s) \cup CR0_olevel(s)
    \cup (IF FF800 THEN On(s.mic_phantom[2] # 0, {1}) \cup On(s.mic_phantom[3] # 0, {8})
                        \cup On(s.filter, {2}) \cup On(s.fuzz, {9})
          ELSE On(s.pad[3] # 0, {8}) \cup On(s.pad[4] # 0, {1}) \cup On(s.instr[3] # 0, {9}) \cup On(s.instr[4] # 0, {2})
               \cup (CASE s.phones_level = 0 -> {17} [] s.phones_level = 2 -> {16} [] OTHER -> {}))
FrontIn == 2   \* bits of input_opt
RearIn == 1
Has(opt, bit) == (opt \div bit) % 2 = 1
CR1(s) ==
    (CASE s.input_level = 0 -> {} [] s.input_level = 2 -> {1} [] s.input_level = 1 -> {0, 1} [] OTHER -> {})
    \cup (CASE s.output_level = 0 -> {3} [] s.output_level = 2 -> {4} [] s.output_level = 1 -> {3, 4} [] OTHER -> {})
    \cup On(Has(s.input_opt[7], FrontIn), {5}) \cup On(Has(s.input_opt[7], RearIn), {6})
    \cup On(Has(s.input_opt[8], FrontIn), {7}) \cup On(Has(s.input_opt[8], RearIn), {8})
    \cup On(Has(s.input_opt[1], RearIn), {2}) \cup On(Has(s.input_opt[1], FrontIn), IF s.filter THEN {10} ELSE {11})
    \cup On(FF800 /\ ~s.fuzz, {9})
Syncs == <<{12}, {}, {10}, {10, 11}, {10, 12}>>   \* word clock, ADAT 1, ADAT 2, SPDIF, TCO
CR2(s) ==
    On(s.spdif_emphasis, {6}) \cup On(s.spdif_pro, {5}) \cup On(s.spdif_nonaudio, {7}) \cup On(s.spdif_optical, {8})
    \cup On(s.clock_mode = "master", {0}) \cup On(s.spdif_in = "optical", {9})
    \cup (IF s.sync_ref = Blank THEN {} ELSE Syncs[s.sync_ref + 1]) \cup {13, 31, 1, 2, 3, 4} \cup On(FF400, {26})
    \cup On(~s.limiter /\ s.input_opt[1] = FrontIn, {16})
set_hardware_params(s) == <<CR0(s), CR1(s), CR2(s)>>

\* What the registers say of a control (fireface_def.h).
Told(c, conf) ==
    LET b(r, bit) == IF bit \in conf[r + 1] THEN 1 ELSE 0
        which(f, x) == CHOOSE i \in DOMAIN f : f[i] = x
        plug(front, rear) == IF front = 1 /\ rear = 1 THEN 2 ELSE IF rear = 1 THEN 1 ELSE 0
    IN  CASE c[1] = "phantom" -> b(0, (0 :> 0 @@ 1 :> 7 @@ 2 :> 1 @@ 3 :> 8)[c[2]])
          [] c[1] = "pad" -> b(0, IF c[2] = 3 THEN 8 ELSE 1)
          [] c[1] = "instr" -> b(0, IF c[2] = 3 THEN 9 ELSE 2)
          [] c[1] = "input_level" -> which(<<{}, {0, 1}, {1}>>, conf[2] \cap {0, 1}) - 1
          [] c[1] = "output_level" -> which(<<{3}, {3, 4}, {4}>>, conf[2] \cap {3, 4}) - 1
          [] c[1] = "phones_level" -> which(<<{17}, {}, {16}>>, conf[1] \cap {16, 17}) - 1
          [] c[1] = "source" -> IF c[2] = 1 THEN plug(IF conf[2] \cap {10, 11} # {} THEN 1 ELSE 0, b(1, 2))
                                ELSE plug(b(1, 2 * c[2] - 9), b(1, 2 * c[2] - 8))
          [] c[1] = "instr_opts" -> 2 * b(0, 2) + 4 * b(0, 9) + 8 * (1 - b(2, 16))
          [] c[1] = "spdif_in" -> b(2, 9) [] c[1] = "spdif_optical" -> b(2, 8) [] c[1] = "spdif_pro" -> b(2, 5)
          [] c[1] = "spdif_emphasis" -> b(2, 6) [] c[1] = "spdif_nonaudio" -> b(2, 7)
          [] c[1] = "clock_mode" -> 1 - b(2, 0)
          [] c[1] = "sync_ref" -> which(Syncs, conf[3] \cap {10, 11, 12}) - 1

-----------------------------------------------------------------------------
\* The controls, and the values a client gives them.
RmeControls(m) ==
    {<<t, 0>> : t \in {"input_level", "output_level", "spdif_in", "spdif_optical", "spdif_emphasis", "spdif_pro",
                       "spdif_nonaudio", "phones_level", "clock_mode", "sync_ref", "bandwidth"}}
    \cup {<<"phantom", i>> : i \in IF m = "ff800" THEN 0..3 ELSE 0..1}
    \cup IF m = "ff800" THEN {<<"source", i>> : i \in {1, 7, 8}} \cup {<<"instr_opts", 1>>}
         ELSE {<<t, i>> : t \in {"pad", "instr"}, i \in 3..4}
RmeValues(c) ==
    CASE c[1] \in {"input_level", "output_level", "phones_level", "source"} -> 0..2
      [] c[1] = "sync_ref" -> {0, 1, 4} [] c[1] = "bandwidth" -> {0, 1, 3} [] c[1] = "instr_opts" -> {0, 2, 4, 8} [] OTHER -> 0..1

\* RmeSettingsCtrl::setValue and the setter of the device it calls.
setBandwidthLimit(s, v) == IF FF400 /\ v = 1 THEN s ELSE [s EXCEPT !.limit_bandwidth = v]
setInputInstrOpt(s, i, v) ==
    IF FF400 THEN [s EXCEPT !.instr[i] = v]
    ELSE [s EXCEPT !.filter = (v \div 2) % 2 = 1, !.fuzz = (v \div 4) % 2 = 1, !.limiter = (v \div 8) % 2 = 1]
setInputSource(s, i, v) == [s EXCEPT !.input_opt[i] = IF v = 0 THEN FrontIn ELSE IF v = 1 THEN RearIn ELSE FrontIn + RearIn]
setPhantom(s, i, v) == [s EXCEPT !.mic_phantom[i] = v]
RmeSettingsCtrl_setValue(s, c, v) ==
    CASE c[1] = "phantom" -> setPhantom(s, c[2], v)
      [] c[1] = "input_level" -> [s EXCEPT !.input_level = v]
      [] c[1] = "output_level" -> [s EXCEPT !.output_level = v]
      [] c[1] = "phones_level" -> [s EXCEPT !.phones_level = v]
      [] c[1] = "pad" -> [s EXCEPT !.pad[c[2]] = v]
      [] c[1] \in {"instr", "instr_opts"} -> setInputInstrOpt(s, c[2], v)
      [] c[1] = "source" -> setInputSource(s, c[2], v)
      [] c[1] = "spdif_in" -> [s EXCEPT !.spdif_in = IF v = 0 THEN "coax" ELSE "optical"]
      [] c[1] = "spdif_optical" -> [s EXCEPT !.spdif_optical = (v = 1)]
      [] c[1] = "spdif_pro" -> [s EXCEPT !.spdif_pro = (v = 1)]
      [] c[1] = "spdif_emphasis" -> [s EXCEPT !.spdif_emphasis = (v = 1)]
      [] c[1] = "spdif_nonaudio" -> [s EXCEPT !.spdif_nonaudio = (v = 1)]
      [] c[1] = "clock_mode" -> [s EXCEPT !.clock_mode = IF v = 1 THEN "autosync" ELSE "master"]
      [] c[1] = "sync_ref" -> [s EXCEPT !.sync_ref = v]
      [] c[1] = "bandwidth" -> setBandwidthLimit(s, v)
\* RmeSettingsCtrl::getValue.  The phantom switches of channels 0 to 2 only are shown.
RmeSettingsCtrl_getValue(s, c) ==
    LET n(test) == IF test THEN 1 ELSE 0
        or(v, other) == IF v = Blank THEN other ELSE v
    IN  CASE c[1] = "phantom" -> IF c[2] < 3 THEN n(s.mic_phantom[c[2]] # 0) ELSE 0
          [] c[1] = "input_level" -> or(s.input_level, 2) [] c[1] = "output_level" -> or(s.output_level, 2)
          [] c[1] = "phones_level" -> s.phones_level [] c[1] = "pad" -> s.pad[c[2]] [] c[1] = "instr" -> s.instr[c[2]]
          [] c[1] = "instr_opts" -> 2 * n(s.filter) + 4 * n(s.fuzz) + 8 * n(s.limiter)
          [] c[1] = "source" -> IF s.input_opt[c[2]] = FrontIn THEN 0 ELSE IF s.input_opt[c[2]] = RearIn THEN 1 ELSE 2
          [] c[1] = "spdif_in" -> n(s.spdif_in = "optical") [] c[1] = "spdif_optical" -> n(s.spdif_optical)
          [] c[1] = "spdif_pro" -> n(s.spdif_pro) [] c[1] = "spdif_emphasis" -> n(s.spdif_emphasis)
          [] c[1] = "spdif_nonaudio" -> n(s.spdif_nonaudio) [] c[1] = "clock_mode" -> n(s.clock_mode = "autosync")
          [] c[1] = "sync_ref" -> or(s.sync_ref, 0) [] c[1] = "bandwidth" -> s.limit_bandwidth

-----------------------------------------------------------------------------
\* The input and output amplifiers of the Fireface 400, and the mixer RAM.
GainIndices == {0, 4}
GainValues == {5, 20}
set_hardware_ampgain(i, val) ==
    CASE i <= 1 -> IF val >= 10 THEN val ELSE 0
      [] i \in 2..3 -> val
      [] OTHER -> IF 6 - val > 53 THEN 63 ELSE 6 - val
FaderValues == {20, 32768, 80000}
\* To the amplifiers everything below 146 is silence; the output fader is there, or near 32768, 0 dB.
Decibel(val) == IF val \in -145..145 THEN -90 ELSE 0
\* What a write of val to a cell leaves in the device; bad: the writes that fail (the failure is not reported).
set_hardware_mixergain(d, c, val, bad) ==
    IF Refused(val) THEN d
    ELSE [d EXCEPT !.ram[c] = IF c \in bad THEN @ ELSE val,
                   !.amps[4] = IF FF400 /\ c = <<"out", 0, 0>> /\ Amp \notin bad
                               THEN set_hardware_ampgain(4, Decibel(val)) ELSE @]
setMixerGain(s, c) ==
    LET muted == IF "muted" \in s.flags[c] THEN 0 ELSE s.faders[c]
    IN  IF "inverted" \in s.flags[c] THEN (IF muted = 0 THEN -1 ELSE -muted) ELSE muted
setMixerFlags(s, c, flag, on) == [s EXCEPT !.flags[c] = IF on THEN @ \cup {flag} ELSE @ \ {flag}]

-----------------------------------------------------------------------------
\* The flash: the settings in the device's own layout, the faders as volume and pan of each pair.
Zero ==
    [mic_phantom |-> [i \in 0..3 |-> 0], spdif_in |-> "optical", spdif_emphasis |-> FALSE, spdif_pro |-> FALSE,
     spdif_nonaudio |-> FALSE, spdif_optical |-> FALSE, clock_mode |-> "master", sync_ref |-> 1, limit_bandwidth |-> 0,
     input_level |-> 0, output_level |-> 0, filter |-> FALSE, fuzz |-> FALSE, limiter |-> FALSE, sample_rate |-> 0,
     pad |-> [i \in 3..4 |-> 0], instr |-> [i \in 3..4 |-> 0], phones_level |-> 0, input_opt |-> [i \in {1, 7, 8} |-> 0],
     gains |-> [i \in GainIndices |-> 0], faders |-> [c \in RmeCells |-> 0], flags |-> [c \in RmeCells |-> {}]]
Default ==
    [Zero EXCEPT !.spdif_in = "coax", !.sync_ref = 0, !.output_level = 2, !.limiter = FF800, !.sample_rate = 44100,
                 !.input_opt = [i \in {1, 7, 8} |-> IF FF800 THEN FrontIn ELSE 0]]
write_device_flash_settings_limiter(s) ==
    [s EXCEPT !.pad = [i \in 3..4 |-> s.mic_phantom[i - 1]],
              !.instr = (3 :> IF s.fuzz THEN 1 ELSE 0) @@ (4 :> IF s.filter THEN 1 ELSE 0),
              !.limiter = FF800 /\ ~s.limiter /\ s.input_opt[1] = FrontIn,
              !.phones_level = IF FF400 THEN @ ELSE 0,
              !.gains = Zero.gains, !.faders = Zero.faders, !.flags = Zero.flags]
write_device_flash_settings(s) ==
    [s EXCEPT !.pad = [i \in 3..4 |-> s.mic_phantom[i - 1]],
              !.instr = (3 :> IF s.fuzz THEN 1 ELSE 0) @@ (4 :> IF s.filter THEN 1 ELSE 0),
              !.limiter = ~(FF800 /\ ~s.limiter /\ s.input_opt[1] = FrontIn),
              !.phones_level = IF FF400 THEN @ ELSE 0,
              !.gains = Zero.gains, !.faders = Zero.faders, !.flags = Zero.flags]
read_device_flash_settings(f) ==
    [f EXCEPT !.mic_phantom = [i \in 0..3 |-> IF i < 2 \/ FF800 THEN @[i] ELSE 0],
              !.filter = FF800 /\ @, !.fuzz = FF800 /\ @,
              !.pad = IF FF400 THEN @ ELSE Zero.pad, !.instr = IF FF400 THEN @ ELSE Zero.instr,
              !.gains = Zero.gains, !.faders = Zero.faders, !.flags = Zero.flags]
\* What the driver takes an erased settings block for: it does not notice.
BlankSettings ==
    [Zero EXCEPT !.mic_phantom = [i \in 0..3 |-> Blank], !.sync_ref = Blank, !.input_level = Blank, !.output_level = Blank,
                 !.filter = TRUE, !.fuzz = TRUE, !.sample_rate = Blank, !.pad = [i \in 3..4 |-> Blank],
                 !.instr = [i \in 3..4 |-> Blank], !.phones_level = IF FF400 THEN Blank ELSE 0]
\* The first 32 quadlets only, which is what the first transfer to a Fireface 400 holds.
HalfSettings(s) ==
    [s EXCEPT !.mic_phantom = BlankSettings.mic_phantom, !.filter = TRUE, !.fuzz = TRUE, !.sample_rate = Blank,
              !.pad = BlankSettings.pad, !.instr = BlankSettings.instr, !.limiter = FALSE]

\* The volume curve, 65536 (e^(n / 341) - 1) / (e^3 - 1) for the volume n, in steps of 1/4096 and without the -1:
\* a product of the powers of e^(1 / 341) that make up n, each a fraction.
MaxVolume == 1400
Origin == 14064863
Powers == <<<<1024, 13799, 685>>, <<512, 8797, 1960>>, <<256, 34954, 16499>>, <<128, 42692, 29331>>, <<64, 29996, 24863>>,
            <<32, 13609, 12390>>, <<16, 21271, 20296>>, <<8, 24798, 24223>>, <<4, 43733, 43223>>, <<2, 171, 170>>, <<1, 683, 681>>>>
Scaled(g, w) == (g \div w[3]) * w[2] + ((g % w[3]) * w[2]) \div w[3]
Curve(n) == FoldLeft(LAMBDA g, w : IF (n \div w[1]) % 2 = 1 THEN Scaled(g, w) ELSE g, Origin, Powers)
BlankVolume == 65535
Wild == -1000000000   \* what a float that is no integer becomes
\* The logarithm rounded down; a negative one, or none, as an unsigned short.
fader2flashvol(v) ==
    IF v < 0 THEN (IF v > -11 \/ v < -3433 THEN 0 ELSE BlankVolume)
    ELSE IF v > 200000 THEN MaxVolume
    ELSE FoldLeft(LAMBDA x, w : IF x.n + w[1] <= MaxVolume /\ Scaled(x.g, w) - Origin <= 4096 * v + 8
                                THEN [n |-> x.n + w[1], g |-> Scaled(x.g, w)] ELSE x, [n |-> 0, g |-> Origin], Powers).n
Faders == [vol \in 0..MaxVolume |-> (Curve(vol) - Origin) \div 4096]
flashvol2fader(vol) == CASE vol = 803 -> 32768 [] vol = BlankVolume -> Wild [] OTHER -> Faders[vol]
Outs == {c \in RmeCells : c[1] = "out"}
Pair(c) == <<c[1], c[2], c[3] \div 2>>
Pairs == {Pair(c) : c \in RmeCells \ Outs}
Side(q, i) == <<q[1], q[2], 2 * q[3] + i>>
PairSum(f, q) == f[Side(q, 0)] + f[Side(q, 1)]
In256ths(x, v) == IF v <= 0 THEN 0 ELSE ((x \div v) * 256 + (256 * (x % v)) \div v) % 65536
faders2flash(f) ==
    [vol |-> [q \in Pairs |-> fader2flashvol(PairSum(f, q))],
     pan |-> [q \in Pairs |-> In256ths(f[Side(q, 1)], PairSum(f, q))],
     out |-> [c \in Outs |-> fader2flashvol(f[c])]]
Share(v, n) == IF n < 0 THEN -(v * ((-n) \div 256) + (v * ((-n) % 256)) \div 256)
               ELSE v * (n \div 256) + (v * (n % 256)) \div 256
flash2faders(m) ==
    [c \in RmeCells |->
        LET v == flashvol2fader(IF c \in Outs THEN m.out[c] ELSE m.vol[Pair(c)])
        IN  IF c \in Outs \/ v = Wild THEN v
            ELSE Share(v, IF c[3] % 2 = 1 THEN m.pan[Pair(c)] ELSE 256 - m.pan[Pair(c)])]
BlankMixer == [vol |-> [q \in Pairs |-> BlankVolume], pan |-> [q \in Pairs |-> 65535], out |-> [c \in Outs |-> BlankVolume]]
\* Loading the mixer stores 30 output faders into an array of 28: the other two fall on the flags of the inputs' first cells.
Overrun == {c \in RmeCells : c[1] = "in" /\ c[2] < 8 /\ c[3] = 0}
\* lost: the arrays that could not be read.  They are used all the same, uninitialised; any then stands for their faders.
read_device_mixer_settings(s, garbage, lost, any) ==
    LET f == flash2faders(dev.flash)
        unknown(c) == IF c \in Outs THEN "out" \in lost
                      ELSE "vol" \in lost \/ ("pan" \in lost /\ dev.flash.vol[Pair(c)] # 0)
    IN  [s EXCEPT !.faders = [c \in RmeCells |-> IF unknown(c) THEN any ELSE f[c]],
                  !.flags = [c \in RmeCells |-> IF c \in Overrun THEN garbage[c] ELSE @[c]]]
Garbage == [Overrun -> SUBSET {"muted", "inverted"}]

-----------------------------------------------------------------------------
\* Processes come and go.  The first opens an empty object and fills it from the flash, or with
\* defaults; every one takes the faders from the flash and writes them all to the device.
Opened == IF soft = Closed THEN [open |-> TRUE, refs |-> 1, valid |-> FALSE, streaming |-> FALSE, software_freq |-> 0,
                                 hardware_freq |-> 0, set |-> Zero] ELSE [soft EXCEPT !.refs = @ + 1]
WriteCells(d, s, bad) ==
    LET out == <<"out", 0, 0>>
    IN  [d EXCEPT !.ram = [c \in RmeCells |-> IF c \in bad \/ Refused(s.faders[c]) THEN @[c] ELSE s.faders[c]],
                  !.amps[4] = IF FF400 /\ out \in Outs /\ ~Refused(s.faders[out])
                              THEN set_hardware_ampgain(4, Decibel(s.faders[out])) ELSE @]
Settled(o, readable) ==
    IF o.valid THEN o
    ELSE IF readable THEN [o EXCEPT !.valid = TRUE, !.set = read_device_flash_settings(dev.flash.settings),
                                    !.software_freq = dev.flash.settings.sample_rate]
    ELSE [o EXCEPT !.valid = TRUE, !.set = Default, !.software_freq = 44100]

PowerOn(flash) ==
    [conf |-> <<{}, {}, {}>>, ram |-> [c \in RmeCells |-> 0], amps |-> [i \in GainIndices |-> 0], clock |-> 0, flash |-> flash]
Device == PowerOn([settings |-> write_device_flash_settings(Default)] @@ faders2flash([c \in RmeCells |-> 0]))
RmeInit ==
    /\ rme \in [model : RmeModels, focus : RmeFoci]
    /\ procs = {} /\ soft = Closed /\ pend = [p \in RmeProcs |-> NoData] /\ dev = Device
    /\ setTo = <<>> /\ stale = {Conf} \cup RmeCells /\ saved = [settings |-> NotSaved, mixer |-> NotSaved] /\ rmeOps = 0

\* discover: open the object, then init_hardware.
Open(p, readable, confOk, bad, garbage, lost, any) ==
    /\ p \notin procs
    /\ LET first == ~Opened.valid
           o == Settled(Opened, readable)
           s == read_device_mixer_settings(o.set, garbage, lost, any)
           written == IF first /\ confOk THEN [dev EXCEPT !.conf = set_hardware_params(o.set)] ELSE dev
           timed == first /\ ~readable /\ confOk
       IN  /\ soft' = [o EXCEPT !.set = s, !.hardware_freq = IF timed THEN 44100 ELSE @]
           /\ dev' = WriteCells([written EXCEPT !.amps = IF first /\ ~readable /\ FF400
                                                         THEN [i \in GainIndices |-> IF i < 4 THEN 0 ELSE @[i]] ELSE @], s, bad)
           /\ stale' = (IF first /\ confOk THEN stale \ ({Conf} \cup RmeCells) ELSE stale \ RmeCells)
                       \cup bad \cup {c \in RmeCells : s.flags[c] # {} \/ Refused(s.faders[c])}
           /\ setTo' = IF first THEN <<>> ELSE setTo
    /\ procs' = procs \cup {p}
    /\ UNCHANGED <<rme, pend, saved>>
\* The last process to leave takes the object with it.  One that died is still counted.
rme_shm_close(p) ==
    /\ p \in procs /\ pend[p] = NoData
    /\ procs' = procs \ {p}
    /\ soft' = IF soft.refs = 1 THEN Closed ELSE [soft EXCEPT !.refs = @ - 1]
    /\ UNCHANGED <<rme, pend, dev, setTo, stale, saved>>
\* A process dies between two writes, or the power goes: then only the flash remains.
Dies(p) ==
    /\ pend[p] # NoData
    /\ procs' = procs \ {p} /\ pend' = [pend EXCEPT ![p] = NoData]
    /\ UNCHANGED <<rme, soft, dev, setTo, stale, saved>>
PowerLoss ==
    /\ procs # {}
    /\ procs' = {} /\ soft' = Closed /\ pend' = [p \in RmeProcs |-> NoData] /\ dev' = PowerOn(dev.flash)
    /\ setTo' = <<>> /\ stale' = {Conf} \cup RmeCells
    /\ UNCHANGED <<rme, saved>>

\* A control is set: the shared setting, then the registers, computed from all settings and written.
MaySet(c) == c \in DOMAIN setTo \/ Cardinality(DOMAIN setTo) < MaxRmeSets
RmeSetControl(p, c, v) ==
    /\ pend[p] = NoData /\ MaySet(c)
    /\ LET s == RmeSettingsCtrl_setValue(soft.set, c, v)
           refused == c[1] = "bandwidth" /\ s.limit_bandwidth # v
       IN  /\ soft' = [soft EXCEPT !.set = s]
           /\ pend' = IF refused THEN pend ELSE [pend EXCEPT ![p] = [do |-> "conf", data |-> set_hardware_params(s)]]
           /\ stale' = IF refused THEN stale ELSE stale \cup {Conf}
           /\ setTo' = IF refused THEN setTo ELSE (c :> v) @@ setTo
    /\ UNCHANGED <<rme, procs, dev, saved>>
At(p, what) == pend[p] # NoData /\ pend[p].do = what
WriteConf(p, ok) ==
    /\ At(p, "conf") /\ pend' = [pend EXCEPT ![p] = NoData]
    /\ dev' = IF ok THEN [dev EXCEPT !.conf = pend[p].data] ELSE dev
    /\ stale' = IF ok THEN stale \ {Conf} ELSE stale
    /\ UNCHANGED <<rme, procs, soft, setTo, saved>>
setAmpGain(i, v, ok) ==
    /\ FF400 /\ MaySet(<<"gain", i>>)
    /\ soft' = [soft EXCEPT !.set.gains[i] = v]
    /\ dev' = IF ok THEN [dev EXCEPT !.amps[i] = set_hardware_ampgain(i, v)] ELSE dev
    /\ stale' = IF ok THEN stale \ {<<"gain", i>>} ELSE stale \cup {<<"gain", i>>}
    /\ setTo' = (<<"gain", i>> :> v) @@ setTo
    /\ UNCHANGED <<rme, procs, pend, saved>>
\* A fader or a flag of the mixer is set.
Mix(s, c, bad) ==
    LET d == set_hardware_mixergain(dev, c, setMixerGain(s, c), bad)
    IN  /\ soft' = [soft EXCEPT !.set = s] /\ dev' = d
        /\ stale' = IF c \in bad \/ Refused(setMixerGain(s, c)) THEN stale \cup {c} ELSE stale \ {c}
        /\ UNCHANGED <<rme, procs, pend, setTo, saved>>
SetFader(c, v, bad) == Mix([soft.set EXCEPT !.faders[c] = v], c, bad)
SetFlag(c, flag, on, bad) == (c[1] = "out" => flag = "muted") /\ Mix(setMixerFlags(soft.set, c, flag, on), c, bad)

\* Flash control.  A save erases the block and writes it, array by array.  Failures are ignored, but for a
\* failed erasure, which ends the save; the device may have erased all the same.
Arrays(what) == IF what = "settings" THEN <<"settings">> ELSE <<"vol", "pan", "out">>
Saves(p, what) ==
    /\ pend[p] = NoData
    /\ pend' = [pend EXCEPT ![p] = [do |-> "erase", of |-> what,
                                         was |-> IF what = "settings" THEN soft.set ELSE NoData]]
    /\ UNCHANGED <<rme, procs, soft, dev, setTo, stale, saved>>
SaveSettings(p) == Saves(p, "settings")
SaveMixer(p) == Saves(p, "mixer")
erase_flash(p, ok, done) ==
    /\ At(p, "erase")
    /\ LET what == pend[p].of
           blank == IF what = "settings" THEN [settings |-> BlankSettings] ELSE BlankMixer
           was == IF what = "settings" THEN pend[p].was ELSE soft.set.faders   \* which are read after the erasure
           data == IF what = "settings" THEN [settings |-> write_device_flash_settings(was)] ELSE faders2flash(was)
       IN  /\ dev' = IF done THEN [dev EXCEPT !.flash = blank @@ @] ELSE dev
           /\ saved' = IF done THEN [saved EXCEPT ![what] = NotSaved] ELSE saved
           /\ pend' = [pend EXCEPT ![p] = IF ok THEN [do |-> "write", of |-> what, data |-> data, was |-> was,
                                                     left |-> Arrays(what), good |-> TRUE] ELSE NoData]
    /\ UNCHANGED <<rme, procs, soft, setTo, stale>>
\* got: what arrives of the array, "all", "none" or its first transfer, "half".
write_flash(p, got) ==
    /\ At(p, "write")
    /\ LET job == pend[p]   a == Head(job.left)   good == job.good /\ got = "all"   last == Len(job.left) = 1
       IN  /\ dev' = CASE got = "all" -> [dev EXCEPT !.flash[a] = job.data[a]]
                       [] got = "half" -> [dev EXCEPT !.flash[a] = HalfSettings(job.data[a])]
                       [] got = "none" -> dev
           /\ pend' = [pend EXCEPT ![p] = IF last THEN NoData ELSE [job EXCEPT !.left = Tail(@), !.good = good]]
           /\ saved' = IF last /\ good
                       THEN [saved EXCEPT ![job.of] = [valid |-> TRUE, was |-> job.was]] ELSE saved
    /\ UNCHANGED <<rme, procs, soft, setTo, stale>>
Arrives(p) == {"all", "none"} \cup IF pend[p].of = "settings" /\ FF400 THEN {"half"} ELSE {}
\* A load changes the settings only; the device hears of them when something is set.
LoadSettings(p, ok) ==
    /\ pend[p] = NoData
    /\ IF ok THEN /\ soft' = [soft EXCEPT !.set = read_device_flash_settings(dev.flash.settings)]
                  /\ setTo' = <<>> /\ stale' = stale \cup {Conf} \cup RmeCells
       ELSE UNCHANGED <<soft, setTo, stale>>
    /\ UNCHANGED <<rme, procs, pend, dev, saved>>
LoadMixer(p, garbage, lost, any) ==
    /\ pend[p] = NoData
    /\ soft' = [soft EXCEPT !.set = read_device_mixer_settings(soft.set, garbage, lost, any)]
    /\ stale' = stale \cup RmeCells
    /\ UNCHANGED <<rme, procs, pend, dev, setTo, saved>>

-----------------------------------------------------------------------------
\* Sample rates.  The device reports the rate of its external clock as a code; 0: there is none.
BaseRates == {32000, 44100, 48000}
Times(k) == {k * f : f \in BaseRates}
multiplier_of_freq(f) == IF f > 112000 \/ f < 0 THEN 4 ELSE IF f > 56000 THEN 2 ELSE 1
autosync_freq(code) == <<0, 32000, 44100, 48000, 64000, 88200, 96000, 128000, 176400, 192000>>[code + 1]
Slave == soft.set.clock_mode = "autosync"
Accepts(f) ==
    IF Slave THEN autosync_freq(dev.clock) # 0 /\ autosync_freq(dev.clock) = f
    ELSE IF soft.streaming /\ soft.software_freq > 0
         THEN multiplier_of_freq(f) = multiplier_of_freq(soft.software_freq)
              /\ f \in Times(multiplier_of_freq(soft.software_freq))
         ELSE f \in Times(1) \cup Times(2) \cup Times(4)
setSamplingFrequency(f, ok) ==
    /\ Accepts(f) /\ (Slave \/ ok)
    /\ soft' = [soft EXCEPT !.software_freq = f, !.hardware_freq = IF Slave THEN @ ELSE f,
                             !.set.sample_rate = IF Slave THEN @ ELSE f]
    /\ UNCHANGED <<rme, procs, pend, dev, setTo, stale, saved>>
getSupportedSamplingFrequencies ==
    IF Slave THEN {autosync_freq(dev.clock)}
    ELSE IF soft.streaming THEN Times(multiplier_of_freq(soft.software_freq))
    ELSE Times(1) \cup Times(2) \cup Times(4)
hardware_streaming(on) ==
    /\ soft.streaming # on /\ soft' = [soft EXCEPT !.streaming = on]
    /\ UNCHANGED <<rme, procs, pend, dev, setTo, stale, saved>>
ExternalClock(code) ==
    /\ dev' = [dev EXCEPT !.clock = code]
    /\ UNCHANGED <<rme, procs, soft, pend, setTo, stale, saved>>

-----------------------------------------------------------------------------
\* The failures to be met: of the mixer where the clients work on it, of the settings elsewhere.
\* An opening meets one at most.
Mixing == rme.focus = "mixer"
Lost == IF Mixing THEN {{}, RmeCells} ELSE {{}}
Overwritten == IF Mixing THEN Garbage ELSE {[c \in Overrun |-> {}]}
Unread == {<<{}, 0>>} \cup IF Mixing THEN {<<{"pan"}, Wild>>, <<{"vol", "out"}, 20>>} ELSE {}
Answers == IF Mixing THEN {TRUE} ELSE BOOLEAN
OneFailure(readable, confOk, bad, u) ==
    Cardinality({i \in 1..4 : <<~readable, ~confOk, bad # {}, u[1] # {}>>[i]}) <= 1
SettingsStep(p) ==
    \/ \E c \in RmeControls(rme.model) : \E v \in RmeValues(c) : RmeSetControl(p, c, v)
    \/ pend[p] = NoData /\ \E i \in GainIndices, v \in GainValues, ok \in BOOLEAN : setAmpGain(i, v, ok)
    \/ SaveSettings(p)
    \/ \E ok \in BOOLEAN : LoadSettings(p, ok)
MixerStep(p) ==
    /\ pend[p] = NoData
    /\ \/ \E c \in RmeCells, v \in FaderValues, bad \in {{}, RmeCells, {Amp}} : SetFader(c, v, bad)
       \/ \E c \in RmeCells, flag \in {"muted", "inverted"}, on \in BOOLEAN, bad \in {{}, RmeCells} : SetFlag(c, flag, on, bad)
       \/ SaveMixer(p)
       \/ \E g \in Garbage, u \in Unread : LoadMixer(p, g, u[1], u[2])
RateStep(p) ==
    /\ pend[p] = NoData
    /\ \/ \E f \in Times(1) \cup Times(2) \cup Times(4), ok \in BOOLEAN : setSamplingFrequency(f, ok)
       \/ \E on \in BOOLEAN : hardware_streaming(on)
       \/ \E code \in 0..9 : ExternalClock(code)
       \/ \E v \in 0..1 : RmeSetControl(p, <<"clock_mode", 0>>, v)
RmeOperation(p) ==
    \/ \E readable, confOk \in Answers, bad \in Lost, g \in Overwritten, u \in Unread :
          OneFailure(readable, confOk, bad, u) /\ Open(p, readable, confOk, bad, g, u[1], u[2])
    \/ rme_shm_close(p)
    \/ p \in procs /\ rme.focus = "settings" /\ SettingsStep(p)
    \/ p \in procs /\ rme.focus = "mixer" /\ MixerStep(p)
    \/ p \in procs /\ rme.focus = "rates" /\ RateStep(p)
RmeNext ==
    \/ \E p \in RmeProcs :
        \/ rmeOps < MaxRmeOps /\ rmeOps' = rmeOps + 1 /\ RmeOperation(p)
        \/ \E ok \in BOOLEAN : WriteConf(p, ok) /\ UNCHANGED rmeOps
        \/ \E ok, done \in BOOLEAN : (ok => done) /\ erase_flash(p, ok, done) /\ UNCHANGED rmeOps
        \/ At(p, "write") /\ \E got \in Arrives(p) : write_flash(p, got) /\ UNCHANGED rmeOps
        \/ Dies(p) /\ UNCHANGED rmeOps
    \/ rmeOps < MaxRmeOps /\ PowerLoss /\ UNCHANGED rmeOps
RmeSpec == RmeInit /\ [][RmeNext]_rmeVars

\* The controls the registers tell of, and how much of the value.
InRegisters(c) == c[1] \notin {"bandwidth", "gain"} /\ (c[1] = "phones_level" => FF400)
AsTold(c, v) == IF c[1] = "instr_opts" /\ soft.set.input_opt[1] # FrontIn THEN v % 8 ELSE v

(* Every control shows what it was last set to, whatever else was set      *)
(* since, and, when the last write arrived, the bits of the configuration  *)
(* registers tell the device the same: no control reaches into another's   *)
(* bits (RmeSettingsCtrl, set_hardware_params).  The getter of the phantom *)
(* switches leaves out the fourth.                                         *)
RmeControlsTold ==
    \A c \in DOMAIN setTo :
        /\ IF c[1] = "gain" THEN soft # Closed => soft.set.gains[c[2]] = setTo[c]
           ELSE (soft # Closed /\ c # <<"phantom", 3>>) => RmeSettingsCtrl_getValue(soft.set, c) = setTo[c]
        /\ (soft # Closed /\ Conf \notin stale /\ InRegisters(c)) => AsTold(c, Told(c, dev.conf)) = AsTold(c, setTo[c])
        /\ (c[1] = "gain" /\ c[2] < 4 /\ c \notin stale) => dev.amps[c[2]] = set_hardware_ampgain(c[2], setTo[c])

(* The gain in the mixer RAM is the fader's, silenced when the cell is     *)
(* muted and negated when it is inverted, in whatever order faders and     *)
(* flags were set (setMixerGain, setMixerFlags), as long as the writes     *)
(* arrived and the faders were not replaced from the flash.                *)
RmeGainIsFader ==
    soft # Closed =>
        \A c \in RmeCells \ stale :
            LET f == soft.set.faders[c]   g == dev.ram[c]
            IN  CASE "muted" \in soft.set.flags[c] -> g \in {0, -1}
                  [] "inverted" \in soft.set.flags[c] -> g = -f \/ (f = 0 /\ g = -1)
                  [] OTHER -> g = f

Survives(c) == c[1] \notin {"pad", "instr"} /\ (c[1] = "phones_level" => FF400)
LoadsSettings ==
    \E p \in RmeProcs :
        \/ p \in procs /\ LoadSettings(p, TRUE)
        \/ soft = Closed /\ \E confOk \in Answers, bad \in Lost, g \in Overwritten, u \in Unread :
                               Open(p, TRUE, confOk, bad, g, u[1], u[2])
LoadsMixer ==
    \E p \in RmeProcs :
        \/ p \in procs /\ \E g \in Garbage : LoadMixer(p, g, {}, 0)
        \/ \E readable, confOk \in Answers, bad \in Lost, g \in Overwritten : Open(p, readable, confOk, bad, g, {}, 0)
\* How far the steps of curve and pan may take a fader of a pair of sum v.
Rounding(v) == v \div 256 + ((v + 3434) * 3) \div 1023 + 2
Near(f, was) ==
    \A c \in RmeCells :
        LET v == IF c \in Outs THEN was[c] ELSE PairSum(was, Pair(c))
            pair == IF c \in Outs THEN {c} ELSE {Side(Pair(c), 0), Side(Pair(c), 1)}
        IN  (\A d \in pair : was[d] \in 0..65536) => f[c] - was[c] \in -Rounding(v)..Rounding(v)
(* What is loaded from the flash, by a program that opens the device too,  *)
(* is what was last saved there: every control shows again what it showed  *)
(* at the save, and every fader within the mixer's range comes back to     *)
(* within the steps of the flash's volume curve and pan (write/            *)
(* read_device_flash_settings, _mixer_settings).  A save that ends before  *)
(* the erasure leaves the last one as it was, whatever failed or died and  *)
(* whether or not the power went; from the erasure on the flash holds what *)
(* the save wrote only when every write arrived, and a load only what it   *)
(* could read.  The pads and instrument switches of the Fireface 400 do    *)
(* not survive, and the limiter only while input 1 is at the front.        *)
RmeLoadedIsSaved ==
    [][/\ (soft' # Closed /\ saved.settings # NotSaved /\ LoadsSettings) =>
             \A c \in RmeControls(rme.model) :
                Survives(c) => LET was == saved.settings.was
                                   lim(v) == IF c[1] = "instr_opts" /\ was.input_opt[1] # FrontIn THEN v % 8 ELSE v
                               IN  lim(RmeSettingsCtrl_getValue(soft'.set, c)) = lim(RmeSettingsCtrl_getValue(was, c))
       /\ (soft' # Closed /\ saved.mixer # NotSaved /\ LoadsMixer) =>
             Near(soft'.set.faders, saved.mixer.was)]_rmeVars

(* Every rate that is offered is accepted when it is asked for: the rules  *)
(* of getSupportedSamplingFrequencies and of setSamplingFrequency agree in *)
(* each clock mode, streaming or not.  Without external clock the offer is *)
(* 0.                                                                      *)
RmeOfferedIsAccepted ==
    soft # Closed => \A f \in getSupportedSamplingFrequencies : f # 0 => Accepts(f)

(* The faders a process sets stay as long as some process has the shared   *)
(* object open, until someone sets or loads them: "so long as at least one *)
(* RME process is active (...) the device's configuration will be          *)
(* persistent" (rme_shm.cpp).                                              *)
RmeConfigPersists ==
    [][(procs # {} /\ procs' # procs /\ procs' # {}) => soft'.set.faders = soft.set.faders]_rmeVars
=============================================================================
