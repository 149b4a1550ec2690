----------------------------- MODULE MotuDevice -----------------------------
(***************************************************************************)
(* The settings of a MOTU device: the mixer controls, the optical ports,   *)
(* the clock register, and the layout of an audio event that follows from  *)
(* them.  Many controls share a register.  Some registers have set-enable  *)
(* bits and take only the fields whose bit is written as 1; for the others *)
(* the driver reads the register, changes its field and writes it back.    *)
(* A register is the set of its bits.  Two programs use the device: the    *)
(* mixer, which makes one setting after another, and the one that streams, *)
(* which sets the rate and prepares.  Nothing keeps one from writing       *)
(* between the read and the write of the other, and a failed read or write *)
(* goes unnoticed.                                                         *)
(***************************************************************************)
EXTENDS Integers, Sequences, FiniteSets, FiniteSetsExt, SequencesExt

CONSTANTS
    MotuModels,         \* models to check
    MotuFoci,           \* of {"mixer", "streams"}: every control, or what matters to a stream
    MotuRows, MotuCols, \* rows (mixes) and columns (channels) of the mixer matrices to set
    MotuRates,          \* rates to set
    MaxMotuOps,         \* bound on settings, a prepare included
    MaxMotuFaults       \* bound on reads and writes that fail

VARIABLES
    motu,        \* the model, and which of its settings are made
    regs,        \* the device's registers
    motuJobs,    \* of each program: the steps its setting still has to take, and what it has read
    motuWant,    \* what each setting was last set to
    motuSpoiled, \* registers whose settings the programs have mixed up
    motuPorts,   \* of each direction: what its event was laid out for (Layout), once prepared
    motuBudget   \* settings made and faults met

motuVars == <<motu, regs, motuJobs, motuWant, motuSpoiled, motuPorts, motuBudget>>

Reg == [isoctrl |-> 2816, unknown1 |-> 2820, unknown2 |-> 2824, optical |-> 2832, clock |-> 2836, meter |-> 2844, meterConf |-> 2852, route |-> 3076,
        level |-> 3080, boost |-> 3092, pad |-> 3100, invert |-> 3184, g3optical |-> 3220]
None == -1
getDeviceGeneration(m) ==
    CASE m = "828mk1" -> 1
      [] m \in {"828mk3", "ultralitemk3", "hybrid", "travelermk3", "896mk3"} -> 3 [] OTHER -> 2

-----------------------------------------------------------------------------
\* Bits of numbers and fields of registers.
Quadlet == 0..31
MotuBits(n) == {b \in 0..7 : (n \div 2^b) % 2 = 1} \cup IF n < 0 THEN 8..31 ELSE {}
Offset(shift, n) == {b + shift : b \in MotuBits(n)} \cap Quadlet
Unsigned == [f \in SUBSET (0..7) |-> SumSet({2^b : b \in f})]
Number(r, bits, low) == Unsigned[{b - low : b \in r \cap bits}]
Clamp(v, lo, hi) == IF v < lo THEN lo ELSE IF v > hi THEN hi ELSE v

\* The fields a register takes when it is written, by set-enable bit; none: it takes all.
Enables(reg) ==
    CASE reg >= 16384 -> {<<30, 0..7>>, <<31, 8..15>>, <<24, {16}>>, <<25, {17}>>}
      [] reg \in {3104, 3108, 3112, 3116, 3084, 3088} -> {<<24, 0..7>>, <<25, 8..12>>}
      [] reg = Reg.route -> {<<24, 0..3>>, <<25, 8..11>>}
      [] reg \in {Reg.pad} \cup {Reg.invert + 4 * i : i \in 0..2} -> {<<8 * i + 7, (8 * i)..(8 * i + 6)>> : i \in 0..3}
      [] OTHER -> {}
Taken(reg, data) == IF Enables(reg) = {} THEN Quadlet ELSE UNION {e[2] : e \in {x \in Enables(reg) : x[1] \in data}}
Stored(reg, old, data) == (data \cap Taken(reg, data)) \cup (old \ Taken(reg, data))

-----------------------------------------------------------------------------
\* The controls of the mixers.
Control(kind, name, reg, bits) == [kind |-> kind, name |-> <<kind, name>>, reg |-> reg, bits |-> bits, low |-> Min(bits)]
Buses == <<16384, 16640, 16896, 17152>>
ChannelOffsets(m) ==
    CASE m \in {"traveler", "828mk2"} -> [i \in 1..20 |-> 4 * (i - 1)]
      [] m = "896hd" -> [i \in 1..20 |-> IF i <= 10 THEN 4 * (i - 1) ELSE IF i <= 12 THEN 72 + 4 * (i - 11) ELSE 40 + 4 * (i - 13)]
      [] m = "ultralite" -> [i \in 1..20 |-> IF i <= 8 THEN 4 * (i - 1) ELSE IF i \in 11..12 THEN 32 + 4 * (i - 11) ELSE None]
      [] m = "8pre" -> [i \in 1..20 |-> IF i <= 8 THEN 4 * (i - 1) ELSE IF i <= 12 THEN None ELSE 32 + 4 * (i - 13)]
      [] OTHER -> <<>>
getCellRegister(m, row, col) == IF ChannelOffsets(m)[col] = None THEN None ELSE Buses[row] + ChannelOffsets(m)[col]
\* A cell without a register has no effect and shows 0.
ChannelMatrices(m) ==
    IF ChannelOffsets(m) = <<>> THEN {}
    ELSE {Control(k[1][1], 100 * k[2] + k[3], getCellRegister(m, k[2], k[3]), k[1][2]) :
            k \in {<<"fader", 0..7>>, <<"pan", 8..15>>, <<"mute", {16}>>, <<"solo", {17}>>} \X MotuRows \X MotuCols}
StdMix(i) == {Control("mixfader", i, 3104 + 4 * i, 0..7), Control("mixmute", i, 3104 + 4 * i, {12}),
              Control("mixdest", i, 3104 + 4 * i, 8..11)}
OutFaders == {Control("mixfader", 8, 3084, 0..7), Control("mixfader", 9, 3088, 0..7)}
\* A channel's byte in the gain registers.
dev_register(base, ch) == base + 4 * (ch \div 4)
Byte(ch, bits) == {b + 8 * (ch % 4) : b \in bits}
MicInput(ch) == {Control("trimgain", ch, dev_register(Reg.pad, ch), Byte(ch, 0..5)),
                 Control("pad", ch, dev_register(Reg.pad, ch), Byte(ch, {6}))}
LineInput(ch) == {Control("level", ch, Reg.level, {ch}), Control("boost", ch, Reg.boost, {ch})}
\* The Ultralite's SPDIF inputs 1 and 2 have the bytes of its analog inputs 7 and 8.
UltraliteInput(name, ch) == {Control("ulgain", name, dev_register(Reg.invert, ch), Byte(ch, 0..5)),
                             Control("invert", name, dev_register(Reg.invert, ch), Byte(ch, {6}))}
Phones == {Control("phones", 0, Reg.route, 0..3)}
Meters == {Control("meter", 1, Reg.meterConf, 11..13), Control("meter", 2, Reg.meterConf, 8..10),
           Control("meter", 3, Reg.meterConf, {2}), Control("meter", 4, Reg.meterConf, 0..1)}
MixerCtrls(m) ==
    CASE m = "traveler" -> UNION {MicInput(ch) : ch \in 0..3} \cup UNION {LineInput(ch) : ch \in 4..7} \cup OutFaders
      [] m = "ultralite" -> UNION {UltraliteInput(ch, ch) : ch \in 0..7} \cup OutFaders
                            \cup UltraliteInput(20, 6) \cup UltraliteInput(21, 7)
      [] m = "896hd" -> OutFaders \cup Meters
      [] m = "828mk2" -> UNION {LineInput(ch) : ch \in 0..7} \cup OutFaders
      [] OTHER -> {}
Mixer(m) ==
    IF m \notin {"traveler", "ultralite", "896hd", "828mk2", "8pre"} THEN {}
    ELSE ChannelMatrices(m) \cup MixerCtrls(m) \cup UNION {StdMix(row - 1) : row \in MotuRows} \cup Phones

Mixers == [m \in MotuModels |-> Mixer(m)]

\* The bits of the register that a control writes back as it has read them.
Keeps_none(c) == {}
Keeps(c) ==
    CASE c.kind = "mixmute" -> 8..11 [] c.kind = "mixdest" -> {12}
      [] c.kind \in {"level", "boost", "meter"} -> (0..31) \ c.bits
      [] c.kind \in {"pad", "invert"} -> (c.low - 6)..(c.low - 1)
      [] c.kind \in {"trimgain", "ulgain"} -> {c.low + 6}
      [] OTHER -> {}
\* The set-enable bits it writes.
EnableOf(c) ==
    CASE c.kind = "fader" -> {30} [] c.kind = "pan" -> {31} [] c.kind \in {"mute", "mixfader", "phones"} -> {24}
      [] c.kind \in {"solo", "mixmute", "mixdest"} -> {25}
      [] c.kind \in {"pad", "invert"} -> {Max(c.bits) + 1} [] c.kind \in {"trimgain", "ulgain"} -> {Max(c.bits) + 2}
      [] OTHER -> {}
\* The value each class puts into its field.
ChannelFader(v) == Clamp(v, 0, 128)
ChannelPan(v) == Clamp((Clamp(v, -64, v) + 64) % 256, 0, 128)
ChannelBinSw(v) == IF v = 0 THEN 0 ELSE 1
MixFader(v) == Clamp(v, 0, 128)
MixDest(v) == IF v \in 0..11 THEN v ELSE 0
PhonesSrc(v) == IF v \in 0..11 THEN v ELSE 0
InputGainPadInv(v, kind) ==
    CASE kind = "trimgain" -> IF v > 53 THEN 53 ELSE v
      [] kind = "ulgain" -> IF v > 24 THEN 24 ELSE v [] OTHER -> IF v = 0 THEN 0 ELSE 1
MotuBinarySwitch(v) == IF v = 0 THEN 0 ELSE 1
Field(c, v) ==
    CASE c.kind = "fader" -> ChannelFader(v) [] c.kind = "pan" -> ChannelPan(v)
      [] c.kind \in {"mute", "solo"} -> ChannelBinSw(v)
      [] c.kind = "mixfader" -> MixFader(v) [] c.kind = "mixdest" -> MixDest(v) [] c.kind = "phones" -> PhonesSrc(v)
      [] c.kind \in {"trimgain", "ulgain", "pad", "invert"} -> InputGainPadInv(v, c.kind)
      [] c.kind \in {"mixmute", "level", "boost"} -> MotuBinarySwitch(v)
      [] c.kind = "meter" -> v
\* A gain is not masked: a negative one runs over the rest of the register.
Masked(c) == IF c.kind = "meter" THEN c.bits ELSE Quadlet
RunsOver(c, v) == c.kind \in {"trimgain", "ulgain"} /\ v < 0
setValue(c, v, old) == (old \cap Keeps(c)) \cup (Offset(c.low, Field(c, v)) \cap Masked(c)) \cup EnableOf(c)
getValue(c, r) ==
    IF c.reg = None THEN 0 ELSE Number(r[c.reg], c.bits, c.low) - (IF c.kind = "pan" THEN 64 ELSE 0)

\* The settings a client makes, and what each is then expected to show.
MotuValues(c) ==
    CASE c.kind = "fader" -> {1} [] c.kind = "mixfader" -> {200} [] c.kind = "pan" -> {-100}
      [] c.kind \in {"mixdest", "phones"} -> {5} [] c.kind \in {"trimgain", "ulgain"} -> {2, -1}
      [] c.kind = "meter" -> {1} [] OTHER -> {0, 1}
Expected(c, v) ==
    CASE c.reg = None -> 0
      [] c.kind \in {"fader", "mixfader"} -> Clamp(v, 0, 128) [] c.kind = "pan" -> Clamp(v, -64, 64)
      [] c.kind \in {"mixdest", "phones"} -> IF v <= 11 THEN v ELSE 0
      [] OTHER -> v

-----------------------------------------------------------------------------
\* The optical ports.  mode: off, ADAT or TOSLINK; dir: the set of directions.
OpticalModes == <<"off", "adat", "toslink">>
HasOptical(m) == m \notin {"ultralitemk3", "hybrid"}
G1Toslink(dir) == IF dir = {"in"} THEN {15} ELSE {14}
G1NoAdat(dir) == IF dir = {"in"} THEN {7} ELSE {6}
G3Enable(port, dir) == {8 * (IF d = "in" THEN 0 ELSE 1) + (IF port = "a" THEN 0 ELSE 1) : d \in dir}
G3Toslink(port, dir) == {16 + 2 * (IF d = "in" THEN 0 ELSE 1) + (IF port = "a" THEN 0 ELSE 4) : d \in dir}
G2Field(d) == IF d = "in" THEN {8, 9} ELSE {10, 11}

getOpticalMode(m, r, d, port) ==
    CASE getDeviceGeneration(m) = 1 ->
            IF port = "b" THEN "none"
            ELSE LET tos == G1Toslink({d}) \subseteq r[Reg.isoctrl]   noadat == G1NoAdat({d}) \subseteq r[Reg.optical]
                 IN  IF tos /\ noadat THEN "toslink" ELSE IF ~tos /\ ~noadat THEN "adat" ELSE "off"
      [] getDeviceGeneration(m) = 3 ->
            IF ~HasOptical(m) THEN "none"
            ELSE IF ~(G3Enable(port, {d}) \subseteq r[Reg.g3optical]) THEN "off"
            ELSE IF G3Toslink(port, {d}) \subseteq r[Reg.g3optical] THEN "toslink" ELSE "adat"
      [] OTHER -> IF port = "b" THEN "none" ELSE OpticalModes[Number(r[Reg.route], G2Field(d), Min(G2Field(d))) + 1]

G3Port(old, port, dir, mode) ==
    IF mode = "keep" THEN old
    ELSE (old \ (G3Enable(port, dir) \cup G3Toslink(port, dir)))
         \cup (IF mode = "off" THEN {} ELSE G3Enable(port, dir)) \cup (IF mode = "toslink" THEN G3Toslink(port, dir) ELSE {})
\* On a second generation device the outputs' ADAT state of the control register follows the modes.
G2NotAdat(r, dir, mode) ==
    {b \in {7, 6} : LET d == IF b = 7 THEN "in" ELSE "out"
                    IN  IF d \in dir THEN mode # "adat" ELSE Number(r[Reg.route], G2Field(d), Min(G2Field(d))) # 1}
G2Mode(mode) == IF mode = "toslink" THEN 2 ELSE IF mode = "adat" THEN 1 ELSE 0
\* The writes of setOpticalMode from what it has read: register and data.  A first generation device
\* is written only where something changes.
setOpticalMode(m, r, dir, a, b) ==
    CASE getDeviceGeneration(m) = 1 ->
            LET conf1 == (r[Reg.isoctrl] \ 16..31) \cup {3}   conf2 == r[Reg.optical] \cup {1}
                new1 == IF a = "toslink" THEN conf1 \cup G1Toslink(dir) ELSE conf1 \ G1Toslink(dir)
                new2 == IF a = "adat" THEN conf2 \ G1NoAdat(dir) ELSE conf2 \cup G1NoAdat(dir)
            IN  <<[reg |-> Reg.isoctrl, data |-> new1, skip |-> new1 = conf1],
                  [reg |-> Reg.optical, data |-> new2, skip |-> new2 = conf2]>>
      [] getDeviceGeneration(m) = 3 ->
            <<[reg |-> Reg.g3optical, data |-> G3Port(G3Port(r[Reg.g3optical], "a", dir, a), "b", dir, b), skip |-> FALSE]>>
      [] OTHER ->
            LET keep == r[Reg.route] \ (UNION {G2Field(d) : d \in dir} \cup {24})
            IN  <<[reg |-> Reg.route, data |-> keep \cup UNION {Offset(Min(G2Field(d)), G2Mode(a)) : d \in dir} \cup {25},
                   skip |-> FALSE],
                  [reg |-> Reg.optical, data |-> {1} \cup G2NotAdat(r, dir, a), skip |-> FALSE]>>
OpticalRefused(m, a) == (m = "896hd" /\ a = "toslink") \/ (getDeviceGeneration(m) # 3 /\ a = "keep")

-----------------------------------------------------------------------------
\* The clock register: the rate and the clock source.
MaxSampleRate(m) ==
    CASE m = "828mk1" -> 48000 [] m \in {"828mk2", "ultralite", "8pre", "4pre"} -> 96000 [] OTHER -> 192000
RateBits(m) == CASE getDeviceGeneration(m) = 1 -> {2} [] getDeviceGeneration(m) = 2 -> {3, 4, 5} [] OTHER -> {8, 9, 10}
Rates == {44100, 48000, 88200, 96000, 176400, 192000}
RateCode(f) == (IF f % 48000 = 0 THEN 1 ELSE 0) + (IF f > 96000 THEN 4 ELSE IF f > 48000 THEN 2 ELSE 0)
ClockReg(m) == IF getDeviceGeneration(m) = 1 THEN Reg.isoctrl ELSE Reg.clock
getSamplingFrequency(m, r) ==
    LET code == Number(r[ClockReg(m)], RateBits(m), Min(RateBits(m)))
        base == IF code % 2 = 1 THEN 48000 ELSE 44100
    IN  CASE code \div 2 = 2 -> 4 * base [] code \div 2 = 1 -> 2 * base [] OTHER -> base

\* The codes of the clock sources in each generation; a source without one is not written.
ClockBits(m) == CASE getDeviceGeneration(m) = 1 -> {0, 1, 5} [] getDeviceGeneration(m) = 2 -> 0..2 [] OTHER -> {0, 1, 3, 4}
ClockCodes(m) ==
    CASE getDeviceGeneration(m) = 1 -> {<<"adat9", {0}>>, <<"internal", {5}>>, <<"spdif", {5, 1}>>, <<"adat", {5, 0}>>}
      [] getDeviceGeneration(m) = 2 ->
            {<<"internal", {}>>, <<"adat", {0}>>, <<"spdif", {1}>>, <<"smpte", {0, 1}>>, <<"word", {2}>>,
             <<"adat9", {2, 0}>>, <<"aes", {2, 1, 0}>>}
      [] OTHER -> {<<"internal", {}>>, <<"word", {0}>>, <<"smpte", {1}>>, <<"spdif", {4}>>, <<"optA", {4, 3}>>, <<"optB", {4, 3, 0}>>}
CodeOf(m, s) == IF \E c \in ClockCodes(m) : c[1] = s THEN (CHOOSE c \in ClockCodes(m) : c[1] = s)[2] ELSE {}
getHwClockSource(m, r) ==
    IF \E c \in ClockCodes(m) : c[2] = r[ClockReg(m)] \cap ClockBits(m)
    THEN (CHOOSE c \in ClockCodes(m) : c[2] = r[ClockReg(m)] \cap ClockBits(m))[1] ELSE "none"
getSupportedClockSources(m) ==
    {"internal", "spdif", "smpte"}
    \cup (IF getDeviceGeneration(m) # 3 THEN {"adat"} ELSE {}) \cup (IF getDeviceGeneration(m) # 1 THEN {"word"} ELSE {})
    \cup (IF m \in {"828mk2", "traveler", "896hd", "828mk1"} THEN {"adat9"} ELSE {})
    \cup (IF m \in {"traveler", "travelermk3", "896hd", "896mk3"} THEN {"aes"} ELSE {})
    \cup (IF m \in {"828mk3", "travelermk3", "896mk3"} THEN {"optA", "optB"} ELSE {})

\* The setting is refused without a write; f = 0 keeps the rate, s = "none" the source.
ClockRefused(m, f, s) ==
    f > MaxSampleRate(m) \/ (getDeviceGeneration(m) = 1 /\ s \notin {"none"} \cup {c[1] : c \in ClockCodes(m)})
\* The strobes that make a device take its clock register.
Strobe(m) == IF m = "traveler" THEN {24, 25, 26} ELSE {24, 25}
\* The data written to the clock register; the name for the display that follows is left out.
setClockCtrlRegister(m, r, f, s) ==
    LET rate == IF f = 0 THEN r[ClockReg(m)] \cap RateBits(m) ELSE {Min(RateBits(m)) + b : b \in MotuBits(RateCode(f))}
        clock == IF s = "none" THEN r[ClockReg(m)] \cap ClockBits(m) ELSE CodeOf(m, s)
        rest == r[ClockReg(m)] \ (RateBits(m) \cup ClockBits(m))
    IN  rate \cup clock \cup IF getDeviceGeneration(m) = 1 THEN rest ELSE (rest \ 24..26) \cup Strobe(m)

-----------------------------------------------------------------------------
\* The groups of ports of an event, in the order of the packet: name, channels, directions, rates,
\* modes of optical port A and of B.  A channel named by number counts from 1, or from 3.
InOut == {"in", "out"}
In == {"in"}
Out == {"out"}
R1 == {1}
R2 == {2}
R4 == {4}
R12 == {1, 2}
RAny == {1, 2, 4}
OAny == {"off", "adat", "toslink"}
G(name, n, dir, rates) == [name |-> name, n |-> n, dir |-> dir, rates |-> rates, a |-> OAny, b |-> OAny, from |-> 1]
OnA(g, modes) == [g EXCEPT !.a = modes]
OnB(g, modes) == [g EXCEPT !.b = modes]
From3(g) == [g EXCEPT !.from = 3]
Padding == {"Padding", "Pad out"}
ByLetter == {"Mix", "Phones", "MainOut", "Main", "Unknown-s", "Reverb-s"}
Adat == <<OnA(G("ADAT", 8, InOut, R1), {"adat"}), OnA(G("ADAT", 4, InOut, R2), {"adat"})>>
AdatA == <<OnA(G("ADAT-A", 8, InOut, R1), {"adat"}), OnA(G("ADAT-A", 4, InOut, R2), {"adat"})>>
AdatB == <<OnB(G("ADAT-B", 8, InOut, R1), {"adat"}), OnB(G("ADAT-B", 4, InOut, R2), {"adat"})>>
ToslinkA == <<OnA(G("Toslink-A", 2, InOut, R12), {"toslink"}), OnA(G("Toslink-A-extra", 2, InOut, R12), {"toslink"})>>
ToslinkB == <<OnB(G("Toslink-B", 2, InOut, R12), {"toslink"}), OnB(G("Toslink-B-extra", 2, InOut, R12), {"toslink"})>>

PortGroups_828MKI == <<G("Analog", 8, InOut, RAny), G("SPDIF", 2, InOut, RAny)>> \o Adat
PortGroups_896HD ==
    <<G("Mix", 2, In, R12), G("Phones", 2, Out, R12), G("Analog", 8, InOut, RAny), G("MainOut", 2, Out, R12),
      G("unknown", 2, In, R12)>> \o Adat \o <<G("AES/EBU", 2, InOut, R12)>>
PortGroups_828MKII ==
    <<G("Mix", 2, In, RAny), G("Phones", 2, Out, RAny), G("Analog", 8, InOut, RAny), G("Mic", 2, In, RAny),
      G("Main", 2, Out, RAny), G("SPDIF", 2, InOut, RAny)>> \o Adat
PortGroups_TRAVELER ==
    <<G("Mix", 2, In, R12), G("Phones", 2, Out, R12), G("Analog", 8, InOut, RAny), G("AES/EBU", 2, InOut, R12),
      OnA(G("SPDIF", 2, InOut, R12), {"off", "adat"}), OnA(G("Toslink", 2, InOut, R12), {"toslink"})>> \o Adat
PortGroups_ULTRALITE ==
    <<G("Mix", 2, In, RAny), G("Phones", 2, Out, RAny), G("Mic", 2, In, RAny), G("Analog", 2, Out, RAny),
      From3(G("Analog", 6, InOut, RAny)), G("Main", 2, Out, RAny), G("SPDIF", 2, InOut, RAny), G("Padding", 2, In, RAny)>>
PortGroups_8PRE ==
    <<G("Mix", 2, In, RAny), G("Phones", 2, Out, RAny), G("Analog", 8, In, RAny), G("Main", 2, Out, RAny),
      G("Padding", 2, Out, RAny)>> \o Adat
PortGroups_828mk3 ==
    <<G("Mic", 2, In, RAny), G("Phones", 2, Out, R12), G("Unknown-s", 2, Out, R4), G("Analog", 8, InOut, RAny),
      G("Return", 2, In, RAny), G("MainOut", 2, Out, R12), G("SPDIF", 2, InOut, R12), G("Unknown", 2, Out, R4),
      G("Reverb", 2, In, R12), G("UnknownA", 2, In, R1)>>
    \o ToslinkA \o AdatA \o ToslinkB \o AdatB \o <<G("UnknownB", 2, In, R2)>>
PortGroups_ULTRALITEmk3 ==
    <<G("Mix", 2, In, RAny), G("Main", 2, Out, RAny), G("Mic", 2, In, RAny), G("Analog", 2, Out, RAny),
      From3(G("Analog", 6, InOut, RAny)), G("Phones", 2, Out, RAny), G("SPDIF", 2, InOut, R12),
      G("Reverb-s", 2, In, R12), G("Padding", 4, In, R1), G("Pad out", 2, Out, R4)>>
PortGroups_ULTRALITEmk3_hybrid ==
    <<G("Mix", 2, In, RAny), G("Phones", 2, Out, RAny), G("Mic", 2, In, RAny), G("Analog", 2, Out, RAny),
      From3(G("Analog", 6, InOut, RAny)), G("Main", 2, Out, RAny), G("SPDIF", 2, InOut, R12), G("Reverb", 2, In, R12),
      G("Unknown", 4, In, R1)>>
PortGroups_TRAVELERmk3 ==
    <<G("Mix", 2, In, RAny), G("Phones", 2, Out, RAny), G("Analog", 8, InOut, RAny), G("AES/EBU", 2, InOut, R12),
      G("SPDIF", 2, InOut, R12), G("Reverb", 2, In, R1), G("Unknown", 2, In, R1)>>
    \o ToslinkA \o AdatA \o ToslinkB \o AdatB \o <<OnA(OnB(G("UnknownB", 2, In, R2), {"toslink"}), {"toslink"})>>
PortGroups_896mk3 ==
    <<G("Mix", 2, In, RAny), G("Phones", 2, Out, R1), G("Analog", 8, InOut, RAny), G("MainOut", 2, Out, RAny),
      G("UnknownIn", 4, In, R1), G("AES/EBU", 2, InOut, R12), G("SPDIF", 2, InOut, R12), G("UnknownOut", 2, Out, R1),
      ToslinkA[1], AdatA[1], ToslinkA[2], AdatA[2]>> \o ToslinkB \o AdatB
PortGroups_4PRE ==
    <<G("Mix", 2, In, RAny), G("Phones", 2, Out, RAny), G("Mic/Line", 2, In, RAny), G("Mic/Guitar", 2, In, RAny),
      G("Analog", 2, Out, RAny), G("Main", 2, Out, RAny), G("SPDIF", 2, InOut, R12), G("Extra", 2, InOut, R12)>>
PortGroups(m) ==
    CASE m = "828mk1" -> PortGroups_828MKI [] m = "896hd" -> PortGroups_896HD [] m = "828mk2" -> PortGroups_828MKII
      [] m = "traveler" -> PortGroups_TRAVELER [] m = "ultralite" -> PortGroups_ULTRALITE [] m = "8pre" -> PortGroups_8PRE
      [] m = "828mk3" -> PortGroups_828mk3 [] m = "ultralitemk3" -> PortGroups_ULTRALITEmk3
      [] m = "hybrid" -> PortGroups_ULTRALITEmk3_hybrid [] m = "travelermk3" -> PortGroups_TRAVELERmk3
      [] m = "896mk3" -> PortGroups_896mk3 [] m = "4pre" -> PortGroups_4PRE
\* Where the ports of a group come among all ports (from 0); <<>>: in the order of the packet.
PortOrder(m) ==
    CASE m = "ultralite" -> <<1, 2, 3, 4, 5, 0, 6, 7>> [] m = "8pre" -> <<2, 3, 0, 1, 4, 5, 6>>
      [] m = "ultralitemk3" -> <<6, 0, 1, 2, 3, 4, 5, 7, 8, 9>> [] m = "hybrid" -> <<1, 2, 3, 4, 5, 0, 6, 7, 8>>
      [] m = "4pre" -> <<1, 2, 3, 4, 5, 0, 6, 7>> [] OTHER -> <<>>

\* A group is in the event: its flags meet the direction, the rate and the mode of each optical port.
Multiplier(f) == IF f > 96000 THEN 4 ELSE IF f > 48000 THEN 2 ELSE 1
InEvent(g, d, f, a, b) ==
    d \in g.dir /\ Multiplier(f) \in g.rates /\ (a = "none" \/ a \in g.a) /\ (b = "none" \/ b \in g.b)
EventStart(m) == IF m = "828mk1" THEN 4 ELSE 10
Ofs(gs, i, m, d, f, a, b) ==
    EventStart(m) + 3 * FoldLeft(LAMBDA n, g : IF InEvent(g, d, f, a, b) THEN n + g.n ELSE n, 0, SubSeq(gs, 1, i - 1))
initDirPortGroups(m, d, f, a, b) ==
    LET gs == PortGroups(m)
    IN  [offset |-> [i \in DOMAIN gs |-> IF InEvent(gs[i], d, f, a, b) /\ gs[i].name \notin Padding
                                         THEN Ofs(gs, i, m, d, f, a, b) ELSE None],
         size |-> Ofs(gs, Len(gs) + 1, m, d, f, a, b) + IF d = "in" /\ m = "828mk1" THEN 6 ELSE 0]
getEventSize(size) == ((size + 3) \div 4) * 4
\* The ports, group after group: a later group at the same place replaces an earlier one.
creation_indices(m, offset) ==
    [k \in DOMAIN offset |->
        LET at == {i \in DOMAIN offset : offset[i] # None /\ (IF PortOrder(m) = <<>> THEN i = k ELSE PortOrder(m)[i] + 1 = k)}
        IN  IF at = {} THEN None ELSE Max(at)]
PortName(g, ch) == <<g.name, IF g.name \in ByLetter THEN -1 - (ch % 2) ELSE ch + g.from>>
addDirPortGroups(m, offset) ==
    LET gs == PortGroups(m)  at == SelectSeq(creation_indices(m, offset), LAMBDA i : i # None)
    IN  FlattenSeq([k \in DOMAIN at |->
            [c \in 1..gs[at[k]].n |-> [name |-> PortName(gs[at[k]], c - 1), pos |-> offset[at[k]] + 3 * (c - 1)]]])

\* The event of a direction: its size and its ports.
Layout(m, d, f, a, b) ==
    LET g == initDirPortGroups(m, d, f, a, b)
    IN  [size |-> getEventSize(g.size), ports |-> addDirPortGroups(m, g.offset)]

-----------------------------------------------------------------------------
\* What a program is doing: the steps it still has to take, the rate and the modes prepare has read,
\* and the bits another program has changed in the meantime.
MotuProgs == {"mixer", "streams"}
MotuIdle == [todo |-> <<>>, rate |-> 0, modes |-> <<>>, moved |-> {}]
AtRest == \A p \in MotuProgs : motuJobs[p] = MotuIdle
Todo(p, kind) == motuJobs[p].todo # <<>> /\ Head(motuJobs[p].todo).step = kind
\* The settings made: in the focus on streams, the controls that share a register with one of its settings.
Ctrls == IF motu.focus = "mixer" THEN Mixers[motu.model] ELSE {c \in Mixers[motu.model] : c.reg = Reg.route}

\* A step: read the registers and work out what to write, or write.  sure: what was to be read has
\* been read.  A write has the setting it completes and, of each register of that setting, the bits
\* it takes to be as they were read.
MixStep(c, v) == [step |-> "mixer", c |-> c, v |-> v]
OpticalStep(dir, a, b, want, sure) == [step |-> "optical", dir |-> dir, a |-> a, b |-> b, want |-> want, sure |-> sure]
ClockStep(f, s) == [step |-> "clock", f |-> f, s |-> s]
WriteStep(reg, data, own, want, sure) ==
    [step |-> "write", reg |-> reg, data |-> data, skip |-> FALSE, want |-> want, all |-> {<<reg, Taken(reg, data) \ own>>}, sure |-> sure]
NoWant == [mix |-> <<>>, opt |-> <<>>, rate |-> 0, source |-> "none"]

MixerWrites(c, v, r, sure) ==
    <<WriteStep(c.reg, setValue(c, v, r[c.reg]), c.bits,
                [NoWant EXCEPT !.mix = [n \in {d.name : d \in {e \in Ctrls : e.reg = c.reg /\ e.bits = c.bits}} |-> Expected(c, v)]],
                sure /\ ~RunsOver(c, v))>>
    \o IF c.kind = "meter" THEN <<WriteStep(Reg.meter, {10}, Quadlet, NoWant, TRUE)>> ELSE <<>>
OpticalWrites(o, r, sure) ==
    IF OpticalRefused(motu.model, o.a) THEN <<>>
    ELSE LET ws == setOpticalMode(motu.model, r, o.dir, o.a, o.b)
         IN  [i \in DOMAIN ws |->
                [step |-> "write", reg |-> ws[i].reg, data |-> ws[i].data, skip |-> ws[i].skip,
                 all |-> {<<ws[k].reg, Taken(ws[k].reg, ws[k].data)>> : k \in DOMAIN ws}, sure |-> sure /\ o.sure,
                 want |-> IF i = Len(ws) /\ o.want THEN [NoWant EXCEPT !.opt = [d \in o.dir |-> o.a]] ELSE NoWant]]
\* The optical ports are turned off between the read and the write of the clock register.
ClockWrites(o, r, sure) ==
    (IF o.f > 96000 THEN <<OpticalStep(InOut, "off", "off", HasOptical(motu.model), TRUE)>> ELSE <<>>)
    \o <<WriteStep(ClockReg(motu.model), setClockCtrlRegister(motu.model, r, o.f, o.s),
                   24..26 \cup (IF o.f = 0 THEN {} ELSE RateBits(motu.model)) \cup (IF o.s = "none" THEN {} ELSE ClockBits(motu.model)),
                   [NoWant EXCEPT !.rate = o.f, !.source = o.s], sure)>>

-----------------------------------------------------------------------------
\* A program begins a setting when it has finished the one before.
Begin(p, todo) ==
    /\ motuJobs[p] = MotuIdle /\ motuBudget.ops < MaxMotuOps
    /\ motuJobs' = [motuJobs EXCEPT ![p].todo = todo]
    /\ motuBudget' = [motuBudget EXCEPT !.ops = @ + 1]
    /\ UNCHANGED <<motu, regs, motuWant, motuSpoiled>>

\* A control that takes its register whole does not read it.
SetMixer(c, v) ==
    /\ Begin("mixer", IF c.reg = None THEN <<>> ELSE IF Keeps(c) = {} THEN MixerWrites(c, v, regs, TRUE) ELSE <<MixStep(c, v)>>)
    /\ UNCHANGED motuPorts
OpticalCtrls(m) == IF getDeviceGeneration(m) = 3 \/ m = "4pre" THEN {} ELSE InOut
SetOptical(d, mode) ==
    /\ d \in OpticalCtrls(motu.model)
    /\ Begin("mixer", <<OpticalStep({d}, mode, "keep", TRUE, TRUE)>>)
    /\ UNCHANGED motuPorts
SetClock(p, f, s) ==
    /\ Begin(p, IF ClockRefused(motu.model, f, s) THEN <<>> ELSE <<ClockStep(f, s)>>)
    /\ UNCHANGED motuPorts
\* prepare reads the rate and the optical modes, lays out the events and sets the modes again.
prepare ==
    /\ UNCHANGED motuPorts
    /\ Begin("streams", <<[step |-> "rate"]>> \o (IF motu.model = "828mk1" THEN <<[step |-> "unknown"]>> ELSE <<>>)
                        \o <<[step |-> "modes", dir |-> "in"], [step |-> "modes", dir |-> "out"]>>)

\* A step may fail: a register that cannot be read is taken to be 0.
Fault(fails) ==
    /\ fails => motuBudget.faults < MaxMotuFaults
    /\ motuBudget' = [motuBudget EXCEPT !.faults = @ + IF fails THEN 1 ELSE 0]
ReadRegister(fails) == IF fails THEN [a \in DOMAIN regs |-> {}] ELSE regs
\* Changes before the first read do no harm.  After its last step a program is idle.
FirstRead(job) == IF Len(job.todo) = 1 /\ job.rate = 0 THEN {} ELSE job.moved
Next_(job, todo) == IF todo = <<>> THEN MotuIdle ELSE [job EXCEPT !.todo = todo]

ReadSetting(p, fails) ==
    LET j == motuJobs[p]  o == Head(j.todo)  r == ReadRegister(fails)
    IN  /\ \E k \in {"mixer", "optical", "clock"} : Todo(p, k)
        /\ Fault(fails)
        /\ motuJobs' = [motuJobs EXCEPT ![p] = Next_([j EXCEPT !.moved = FirstRead(j)],
              (CASE o.step = "mixer" -> MixerWrites(o.c, o.v, r, ~fails)
                 [] o.step = "optical" -> OpticalWrites(o, r, ~fails)
                 [] o.step = "clock" -> ClockWrites(o, r, ~fails)) \o Tail(j.todo))]
        /\ UNCHANGED <<motu, regs, motuWant, motuSpoiled, motuPorts>>

ReadRate(p, fails) ==
    /\ Todo(p, "rate") /\ Fault(fails)
    /\ motuJobs' = [motuJobs EXCEPT ![p].todo = Tail(@), ![p].moved = {},
                                     ![p].rate = getSamplingFrequency(motu.model, ReadRegister(fails))]
    /\ UNCHANGED <<motu, regs, motuWant, motuSpoiled, motuPorts>>

Again(d, mode, want) == OpticalStep({d}, mode.a, mode.b, want, mode.sure)
\* What prepare does with the modes, and the two registers it sets on the original 828.
Prepared(p, modes, want) ==
    /\ motuPorts' = [d \in InOut |-> [rate |-> motuJobs[p].rate, a |-> modes[d].a, b |-> modes[d].b]]
    /\ motuJobs' = [motuJobs EXCEPT ![p].modes = <<>>, ![p].todo =
          <<Again("in", modes["in"], want), Again("out", modes["out"], want)>>
          \o (IF motu.model # "828mk1" THEN <<>>
              ELSE <<WriteStep(Reg.unknown1, {0} \cup 22..31, Quadlet, NoWant, TRUE), WriteStep(Reg.unknown2, {}, Quadlet, NoWant, TRUE)>>)]
\* The original 828 has no optical modes until it was set up once: then they are off.
ReadUnknown(p, fails) ==
    /\ Todo(p, "unknown") /\ Fault(fails)
    /\ IF ReadRegister(fails)[Reg.unknown2] # {}
       THEN Prepared(p, [d \in InOut |-> [a |-> "off", b |-> "none", sure |-> TRUE]], TRUE)
       ELSE motuJobs' = [motuJobs EXCEPT ![p].todo = Tail(@)] /\ UNCHANGED motuPorts
    /\ UNCHANGED <<motu, regs, motuWant, motuSpoiled>>
ReadModes(p, fails) ==
    LET j == motuJobs[p]  d == Head(j.todo).dir
        mode == [a |-> getOpticalMode(motu.model, ReadRegister(fails), d, "a"),
                 b |-> getOpticalMode(motu.model, ReadRegister(fails), d, "b"), sure |-> ~fails]
    IN  /\ Todo(p, "modes") /\ Fault(fails)
        /\ IF d = "in" THEN motuJobs' = [motuJobs EXCEPT ![p].todo = Tail(@), ![p].modes = mode] /\ UNCHANGED motuPorts
           ELSE Prepared(p, [e \in InOut |-> IF e = "in" THEN j.modes ELSE mode], FALSE)
        /\ UNCHANGED <<motu, regs, motuWant, motuSpoiled>>

\* A write replaces every field the device takes, those another program has changed since they were
\* read included.  That, a write made without a read, and a part of a group that is lost spoil the
\* register.
Overtaken(p, w) == \E a \in w.all : \E m \in motuJobs[p].moved : m[1] = a[1] /\ m[2] \in a[2]
Spoils(p, w, fails) == Overtaken(p, w) \/ (~fails /\ ~w.sure) \/ (fails /\ Cardinality(w.all) > 1)
\* A lost write of the first register ends the setting of a first generation optical port.
AfterWrite(w, todo, fails) ==
    IF fails /\ getDeviceGeneration(motu.model) = 1 /\ Cardinality(w.all) > 1 /\ w.reg = Reg.isoctrl THEN Tail(todo) ELSE todo
Wanted(want) ==
    [mix |-> [n \in DOMAIN motuWant.mix |-> IF n \in DOMAIN want.mix THEN want.mix[n] ELSE motuWant.mix[n]],
     opt |-> [d \in InOut |-> IF d \in DOMAIN want.opt THEN want.opt[d] ELSE motuWant.opt[d]],
     rate |-> IF want.rate = 0 THEN motuWant.rate ELSE want.rate,
     source |-> IF want.source = "none" THEN motuWant.source ELSE want.source]
WriteRegister(p, fails) ==
    LET j == motuJobs[p]  w == Head(j.todo)
        stored == IF fails \/ w.skip THEN regs[w.reg] ELSE Stored(w.reg, regs[w.reg], w.data)
        changed == {<<w.reg, b>> : b \in (stored \ regs[w.reg]) \cup (regs[w.reg] \ stored)}
    IN  /\ Todo(p, "write") /\ Fault(fails) /\ (fails => ~w.skip)
        /\ regs' = [regs EXCEPT ![w.reg] = stored]
        /\ motuSpoiled' = IF Spoils(p, w, fails) THEN motuSpoiled \cup {a[1] : a \in w.all} ELSE motuSpoiled
        /\ motuWant' = IF fails THEN motuWant ELSE Wanted(w.want)
        /\ motuJobs' = [q \in MotuProgs |->
              IF q = p THEN Next_(j, AfterWrite(w, Tail(j.todo), fails))
              ELSE IF motuJobs[q] = MotuIdle THEN MotuIdle ELSE [motuJobs[q] EXCEPT !.moved = @ \cup changed]]
        /\ UNCHANGED <<motu, motuPorts>>

-----------------------------------------------------------------------------
\* The device as it was left: every fader up, every switch on, the optical ports in some mode.
MotuRegs ==
    {Reg.isoctrl, Reg.unknown1, Reg.unknown2, Reg.optical, Reg.clock, Reg.meter, Reg.route, Reg.g3optical}
    \cup ({c.reg : c \in Ctrls} \ {None})
LeftOptical(m, a, b) ==
    [x \in MotuRegs |->
        CASE x = Reg.isoctrl -> (IF a = "toslink" THEN {14, 15} ELSE {}) \cup {3, 5}
          [] x = Reg.optical -> IF a = "adat" THEN {} ELSE {6, 7}
          [] x = Reg.route -> UNION {Offset(Min(G2Field(d)), G2Mode(a)) : d \in InOut}
          [] x = Reg.g3optical -> G3Port(G3Port({}, "a", InOut, a), "b", InOut, b)
          [] OTHER -> {}]
MotuInit ==
    /\ motu \in [model : MotuModels, focus : MotuFoci]
    /\ \E a \in OAny, b \in OAny, power \in {{}, Quadlet} :
         /\ getDeviceGeneration(motu.model) # 3 => a = b
         /\ motu.focus = "mixer" => a = "off" /\ b = "off"
         /\ power # {} => motu.model = "828mk1"
         /\ regs = [x \in MotuRegs |->
                IF x = Reg.unknown2 THEN power
                ELSE LeftOptical(motu.model, a, b)[x] \cup UNION {c.bits : c \in {e \in Ctrls : e.reg = x}}]
    /\ motuWant = [mix |-> [n \in {c.name : c \in Ctrls} |-> getValue(CHOOSE c \in Ctrls : c.name = n, regs)],
                   opt |-> [d \in InOut |-> getOpticalMode(motu.model, regs, d, "a")],
                   rate |-> getSamplingFrequency(motu.model, regs), source |-> getHwClockSource(motu.model, regs)]
    /\ motuJobs = [p \in MotuProgs |-> MotuIdle]
    /\ motuSpoiled = {} /\ motuPorts = <<>> /\ motuBudget = [ops |-> 0, faults |-> 0]
MotuNext ==
    \/ \E c \in Ctrls : \E v \in MotuValues(c) : SetMixer(c, v)
    \/ \E d \in InOut, i \in 1..3 : SetOptical(d, OpticalModes[i])
    \/ \E s \in getSupportedClockSources(motu.model) : SetClock("mixer", 0, s)
    \/ \E f \in MotuRates : SetClock(IF motu.focus = "mixer" THEN "mixer" ELSE "streams", f, "none")
    \/ motu.focus = "streams" /\ prepare
    \/ \E p \in MotuProgs, fails \in BOOLEAN :
         \/ ReadSetting(p, fails) \/ ReadRate(p, fails) \/ ReadUnknown(p, fails) \/ ReadModes(p, fails)
         \/ WriteRegister(p, fails)

-----------------------------------------------------------------------------
\* A setting shows what it was last set to, whatever the settings that share its register were set
\* to in between, by this or another program, and whatever prepare writes, except in registers that
\* were spoiled: written back over what another program had changed since the read
\* (motu_controls.cpp:92), written from a value that could not be read, written in part, or overrun
\* by a negative gain (motu_controls.cpp:805).  The third generation has no code for the AES/EBU
\* clock it offers.
SettingsApart ==
    /\ \A c \in Ctrls : c.reg \notin motuSpoiled => getValue(c, regs) = motuWant.mix[c.name]
    /\ AtRest /\ motuSpoiled \cap {Reg.isoctrl, Reg.optical, Reg.route, Reg.g3optical} = {} =>
         \A d \in InOut : getOpticalMode(motu.model, regs, d, "a") = motuWant.opt[d]
    /\ ClockReg(motu.model) \notin motuSpoiled =>
         /\ getSamplingFrequency(motu.model, regs) = motuWant.rate
         /\ getHwClockSource(motu.model, regs) = motuWant.source
            \/ (getDeviceGeneration(motu.model) = 3 /\ motuWant.source = "aes")

\* The ports of an event lie apart and inside it, each channel of the event that is not padding has
\* one, and no two ports have the same name: for every rate and optical modes that prepare meets.
Channels(m, d, f, a, b) ==
    FoldLeft(LAMBDA n, g : IF InEvent(g, d, f, a, b) /\ g.name \notin Padding THEN n + g.n ELSE n, 0, PortGroups(m))
LaidOut(m, d, f, a, b) ==
    LET e == Layout(m, d, f, a, b)  ports == Range(e.ports)
    IN  /\ Cardinality({x.name : x \in ports}) = Len(e.ports)
        /\ Cardinality(UNION {x.pos..(x.pos + 2) : x \in ports}) = 3 * Len(e.ports)
        /\ \A x \in ports : x.pos >= EventStart(m) /\ x.pos + 3 <= e.size
        /\ Len(e.ports) = Channels(m, d, f, a, b)
PortModes == {"off", "adat", "toslink", "none"}
LayoutTable == [m \in MotuModels, d \in InOut, f \in Rates, a \in PortModes, b \in PortModes |-> LaidOut(m, d, f, a, b)]
PortsApart ==
    \A d \in DOMAIN motuPorts : LayoutTable[motu.model, d, motuPorts[d].rate, motuPorts[d].a, motuPorts[d].b]
=============================================================================
