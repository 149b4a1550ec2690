------------------------------ MODULE AvcCodec ------------------------------
(***************************************************************************)
(* The frames of the AV/C commands: what each command class writes into    *)
(* the FCP request (serialize) and how it takes a response apart again     *)
(* (deserialize).  A frame is a sequence of bytes; a command object is a   *)
(* record of the members the class keeps.  A reader is a record            *)
(*    o  the object being filled, b  the bytes not consumed yet,           *)
(*    ok the conjunction of the results of the reads so far.               *)
(* Members that a class packs into one byte are packed here as well.       *)
(***************************************************************************)
EXTENDS Integers, Sequences, SequencesExt

\* A byte a short frame never delivered: the local variable stays unset.
Unset == -1

\* BufferSerialize: bytes in order, 16 bit values high byte first.
write16(v) == <<v \div 256, v % 256>>
write24(v) == <<v \div 65536, (v \div 256) % 256, v % 256>>
\* Two members packed into a byte: hi above lo, which is taken modulo n.
pack(hi, n, lo) == ((hi * n) % 256) + (lo % n)
write(o, fs) == [i \in DOMAIN fs |-> o[fs[i]]]

\* BufferDeserialize: reading past the end fails and leaves the target alone.
read(s, f) ==
    IF s.b = <<>> THEN [s EXCEPT !.ok = FALSE]
                  ELSE [o |-> (f :> Head(s.b)) @@ s.o, b |-> Tail(s.b), ok |-> s.ok]
reads(s, fs) == FoldLeft(read, s, fs)
read16(s, f) ==
    IF Len(s.b) < 2 THEN [s EXCEPT !.b = <<>>, !.ok = FALSE]
    ELSE [o |-> (f :> 256 * s.b[1] + s.b[2]) @@ s.o, b |-> SubSeq(s.b, 3, Len(s.b)), ok |-> s.ok]
read16s(s, fs) == FoldLeft(read16, s, fs)
read24(s, f) ==
    LET t == reads(s, <<"x2", "x1", "x0">>)
        v == 65536 * t.o.x2 + 256 * t.o.x1 + t.o.x0
    IN  [t EXCEPT !.o = (f :> v) @@ s.o]
\* read( char**, length ): a pointer into the frame, or failure with the position moved on.
readString(s, f, n) ==
    IF s.b = <<>> THEN [s EXCEPT !.ok = FALSE]
    ELSE IF n > Len(s.b) THEN [s EXCEPT !.b = <<>>, !.ok = FALSE]
    ELSE [o |-> (f :> SubSeq(s.b, 1, n)) @@ s.o, b |-> SubSeq(s.b, n + 1, Len(s.b)), ok |-> s.ok]
peek(s) == IF s.b = <<>> THEN Unset ELSE Head(s.b)
peek16(s, offset) ==
    IF Len(s.b) < offset + 2 THEN Unset ELSE 256 * s.b[offset + 1] + s.b[offset + 2]
skip(s, n) == [s EXCEPT !.b = SubSeq(s.b, n + 1, Len(s.b))]

\* The reads behind t, which depend on what t has read.
then(t, Rest(_)) == Rest(t)
\* A member that is an object of its own: R reads it, starting from the object o0.
nested(s, f, o0, R(_)) ==
    then(R([o |-> o0, b |-> s.b, ok |-> s.ok]),
         LAMBDA t : [o |-> (f :> t.o) @@ s.o, b |-> t.b, ok |-> t.ok])
\* A vector member: n elements read by R, each a new object, pushed behind what is there.
readVector(s, f, n, o0, R(_)) ==
    FoldLeft(LAMBDA t, i : then(nested(t, "elem", o0, R),
                                LAMBDA u : [u EXCEPT !.o = (f :> Append(t.o[f], u.o.elem)) @@ t.o]),
             s, [i \in 1..n |-> i])
writeVector(v, W(_)) == FoldLeft(LAMBDA acc, e : acc \o W(e), <<>>, v)

-----------------------------------------------------------------------------
\* The header every command starts with; m_commandType, what was asked, is not on the wire.
AVCCommand_serialize(o) == <<o.ctype, o.subunit, o.opcode>>
AVCCommand_deserialize(s) == reads(s, <<"ctype", "subunit", "opcode">>)

getSubunitType(o) == o.subunit \div 8
eST_Unit == 31
eST_Audio == 1
eST_Music == 12
eCT_Control == 0
eCT_Status == 1

UnitInfoCmd_serialize(o) ==
    AVCCommand_serialize(o) \o <<o.reserved, pack(o.unit_type, 8, o.unit)>>
                            \o write24(o.company_id % 16777216)

UnitInfoCmd_deserialize(s) ==
    LET t == reads(AVCCommand_deserialize(s), <<"reserved", "operand">>)
        u == [t EXCEPT !.o = ("unit_type" :> t.o.operand \div 8) @@ ("unit" :> t.o.operand % 8) @@ @]
    IN  read24(u, "company_id")

eMaxSubunitsPerPage == 4

SubUnitInfoCmd_serialize(o) ==
    AVCCommand_serialize(o) \o <<(o.page % 8) * 16 + (o.extension_code % 8)>>
        \o writeVector(o.table, LAMBDA e : <<pack(e.subunit_type, 8, e.max_subunit_id)>>)

SubUnitInfoCmd_deserialize(s) ==
    LET t == reads(AVCCommand_deserialize(s), <<"p", "e1", "e2", "e3", "e4">>)
        e == <<t.o.e1, t.o.e2, t.o.e3, t.o.e4>>
    IN  [t EXCEPT !.o =
           ("page" :> (t.o.p \div 16) % 8) @@ ("extension_code" :> t.o.p % 8)
           @@ ("table" :> [i \in 1..eMaxSubunitsPerPage |->
                 [subunit_type |-> e[i] \div 8, max_subunit_id |-> e[i] % 8]])
           @@ ("nrOfValidEntries" :> Len(SelectSeq(e, LAMBDA b : b # 255))) @@ t.o]

PlugSignalFormatCmd_serialize(o) ==
    AVCCommand_serialize(o) \o <<o.plug, pack(o.eoh, 128, 64 * (o.form % 2)) + (o.fmt % 64)>> \o o.fdf

PlugSignalFormatCmd_deserialize(s) ==
    LET t == reads(AVCCommand_deserialize(s), <<"plug", "tmp", "f0", "f1", "f2">>)
    IN  [t EXCEPT !.o = ("eoh" :> t.o.tmp \div 128) @@ ("form" :> (t.o.tmp \div 64) % 2)
                        @@ ("fmt" :> t.o.tmp % 64) @@ ("fdf" :> <<t.o.f0, t.o.f1, t.o.f2>>)
                        @@ t.o]

\* InputPlugSignalFormatCmd repeats OutputPlugSignalFormatCmd with the other opcode.
InputPlugSignalFormatCmd_deserialize(s) == PlugSignalFormatCmd_deserialize(s)

eSF_SerialBusIsochronousAndExternalPlug == 0
eSF_SerialBusAsynchonousPlug == 1
isoPlugs == <<"isoIn", "isoOut", "extIn", "extOut">>

PlugInfoCmd_serialize(o) ==
    AVCCommand_serialize(o) \o <<o.subFunction>> \o
    CASE getSubunitType(o) # eST_Unit -> write(o, <<"dest", "source">>) \o <<255, 255>>
      [] o.subFunction = eSF_SerialBusIsochronousAndExternalPlug -> write(o, isoPlugs)
      [] OTHER -> write(o, <<"asyncIn", "asyncOut">>) \o <<255, 255>>

PlugInfoCmd_deserialize(s) ==
    LET t == read(AVCCommand_deserialize(s), "subFunction")
    IN  CASE getSubunitType(t.o) # eST_Unit -> skip(reads(t, <<"dest", "source">>), 2)
          [] t.o.subFunction = eSF_SerialBusIsochronousAndExternalPlug -> reads(t, isoPlugs)
          [] t.o.subFunction = eSF_SerialBusAsynchonousPlug -> skip(reads(t, <<"asyncIn", "asyncOut">>), 2)
          [] OTHER -> [t EXCEPT !.ok = FALSE]

VendorDependentCmd_serialize(o) == AVCCommand_serialize(o) \o write24(o.companyId)
VendorDependentCmd_deserialize(s) == read24(AVCCommand_deserialize(s), "companyId")

-----------------------------------------------------------------------------
\* Function blocks of a subunit, five per page, the list ended by 0xff.
pageData == <<"fbType", "fbId", "purpose", "inPlugs", "outPlugs">>
NR_OF_PAGE_DATA == 5

ExtendedSubunitInfoCmd_serialize(o) ==
    AVCCommand_serialize(o) \o <<o.page, o.allType>>
        \o writeVector(o.infoPageDatas, LAMBDA e : write(e, pageData))
        \o [i \in 1..(5 * (NR_OF_PAGE_DATA - Len(o.infoPageDatas))) |-> 255]

\* The vector is not cleared first: the entries are pushed behind the ones it holds.
ExtendedSubunitInfoCmd_deserialize(s) ==
    LET h == reads(AVCCommand_deserialize(s), <<"page", "allType">>)
        entry(p) == IF p.done \/ peek(p.s) = 255 THEN [p EXCEPT !.done = TRUE]
                    ELSE [p EXCEPT !.s = readVector(p.s, "infoPageDatas", 1, << >>,
                                                    LAMBDA u : reads(u, pageData))]
    IN  FoldLeft(LAMBDA p, i : entry(p), [s |-> h, done |-> FALSE],
                 [i \in 1..NR_OF_PAGE_DATA |-> i]).s

\* Signal source: an address whose first byte is 0xff is a unit plug, otherwise a subunit plug.
SignalAddress_serialize(a) ==
    IF a.unit THEN <<255, a.plugId>>
    ELSE <<pack(a.subunitType, 8, a.subunitId), a.plugId>>

SignalAddress_deserialize(s) ==
    LET t == reads(s, <<"operand", "plug">>)
    IN  [t EXCEPT !.o =
           IF peek(s) = 255 THEN [unit |-> TRUE, plugId |-> t.o.plug]
           ELSE [unit |-> FALSE, subunitType |-> t.o.operand \div 8,
                 subunitId |-> t.o.operand % 8, plugId |-> t.o.plug]]

SignalSourceCmd_serialize(o) ==
    AVCCommand_serialize(o)
        \o (IF o.commandType = eCT_Status
            THEN <<pack(o.outputStatus, 32, 16 * (o.conv % 2)) + (o.signalStatus % 16)>>
            ELSE <<o.resultStatus % 16>>)
        \o SignalAddress_serialize(o.signalSource) \o SignalAddress_serialize(o.signalDestination)

SignalSourceCmd_deserialize(s) ==
    LET t == read(AVCCommand_deserialize(s), "operand")
        x == t.o.operand
        u == [t EXCEPT !.o =
                IF t.o.commandType = eCT_Status
                THEN ("outputStatus" :> x \div 32) @@ ("conv" :> (x \div 16) % 2)
                     @@ ("signalStatus" :> x % 16) @@ @
                ELSE ("resultStatus" :> x % 16) @@ @]
    IN  IF getSubunitType(t.o) \in {eST_Unit, eST_Audio, eST_Music}
        THEN nested(nested(u, "signalSource", <<>>, SignalAddress_deserialize),
                    "signalDestination", <<>>, SignalAddress_deserialize)
        ELSE [u EXCEPT !.ok = FALSE]

-----------------------------------------------------------------------------
\* Plug addresses.  In the commands the object keeps the class it was built with; the
\* address inside a response is re-created from the mode that was read.
ePAM_Unit == 0
ePAM_Subunit == 1
ePAM_FunctionBlock == 2
PlugAddressData(mode) ==
    CASE mode = ePAM_Unit          -> <<"plugType", "plugId", "reserved">>
      [] mode = ePAM_Subunit       -> <<"plugId", "reserved0", "reserved1">>
      [] mode = ePAM_FunctionBlock -> <<"fbType", "fbId", "plugId">>
      [] OTHER                     -> <<"reserved0", "reserved1", "reserved2">>

PlugAddress_serialize(a) == write(a, <<"dir", "mode">>) \o write(a, PlugAddressData(a.class))
PlugAddress_deserialize_swapped(s) == reads(reads(s, <<"mode", "dir">>), PlugAddressData(s.o.class))
PlugAddress_deserialize(s) == reads(reads(s, <<"dir", "mode">>), PlugAddressData(s.o.class))

SpecificData(mode) ==
    CASE mode = ePAM_Unit          -> <<"plugType", "plugId", "reserved0", "reserved1", "reserved2">>
      [] mode = ePAM_Subunit       -> <<"subunitType", "subunitId", "plugId", "reserved0", "reserved1">>
      [] mode = ePAM_FunctionBlock -> <<"subunitType", "subunitId", "fbType", "fbId", "plugId">>
      [] OTHER                     -> <<"reserved0", "reserved1", "reserved2", "reserved3", "reserved4">>

PlugAddressSpecificData_serialize(a) == write(a, <<"dir", "mode">>) \o write(a, SpecificData(a.mode))
PlugAddressSpecificData_deserialize(s) ==
    LET t == reads(s, <<"dir", "mode">>)
    IN  reads([t EXCEPT !.o = [dir |-> t.o.dir, mode |-> t.o.mode]], SpecificData(t.o.mode))

-----------------------------------------------------------------------------
\* Extended plug info: the info type selects what follows the plug address.
eIT_PlugType == 0
eIT_PlugName == 1
eIT_NoOfChannels == 2
eIT_ChannelPosition == 3
eIT_ChannelName == 4
eIT_PlugInput == 5
eIT_PlugOutput == 6
eIT_ClusterInfo == 7

PlugName_serialize(o) == <<Len(o.name)>> \o o.name
PlugName_deserialize(s) ==
    LET t == read(s, "length")
        u == readString(t, "name", t.o.length)
    IN  [u EXCEPT !.o = [name |-> u.o.name]]

ChannelPosition_serialize(o) ==
    <<o.nrOfClusters>> \o writeVector(o.clusterInfos,
        LAMBDA c : <<c.nrOfChannels>> \o writeVector(c.channelInfos, LAMBDA ch : write(ch, <<"pos", "loc">>)))

ChannelPosition_deserialize(s) ==
    LET t == read([s EXCEPT !.o.clusterInfos = <<>>], "nrOfClusters")
        channel(u) == reads(u, <<"pos", "loc">>)
        cluster(u) == LET v == read(u, "nrOfChannels")
                      IN  readVector(v, "channelInfos", v.o.nrOfChannels, <<>>, channel)
    IN  readVector(t, "clusterInfos", t.o.nrOfClusters, [channelInfos |-> <<>>], cluster)

\* Names of channels and clusters: the length is a byte of its own, '&' (38) becomes '+' (43).
Encoded(name) == [i \in DOMAIN name |-> IF name[i] = 38 THEN 43 ELSE name[i]]
readName(s) ==
    LET t == read(s, "stringLength")
        u == readString(t, "name", t.o.stringLength)
    IN  [u EXCEPT !.o.name = Encoded(@)]
ChannelName_serialize(o) == <<o.streamPosition, o.stringLength>> \o o.name
ChannelName_deserialize(s) == readName(read(s, "streamPosition"))
ClusterInfo_serialize(o) == <<o.clusterIndex, o.portType, o.stringLength>> \o o.name
ClusterInfo_deserialize(s) == readName(reads(s, <<"clusterIndex", "portType">>))

PlugOutput_serialize(o) ==
    <<o.nrOfOutputPlugs>> \o writeVector(o.outputPlugAddresses, PlugAddressSpecificData_serialize)
\* Not cleared first either.
PlugOutput_deserialize(s) ==
    LET t == read(s, "nrOfOutputPlugs")
    IN  readVector(t, "outputPlugAddresses", t.o.nrOfOutputPlugs,
                   [dir |-> 1, mode |-> ePAM_Unit], PlugAddressSpecificData_deserialize)

InfoType_serialize(o) ==
    <<o.infoType>> \o
    CASE o.infoType = eIT_PlugType        -> write(o.info, <<"plugType">>)
      [] o.infoType = eIT_PlugName        -> PlugName_serialize(o.info)
      [] o.infoType = eIT_NoOfChannels    -> write(o.info, <<"nrOfChannels">>)
      [] o.infoType = eIT_ChannelPosition -> ChannelPosition_serialize(o.info)
      [] o.infoType = eIT_ChannelName     -> ChannelName_serialize(o.info)
      [] o.infoType = eIT_PlugInput       -> PlugAddressSpecificData_serialize(o.info)
      [] o.infoType = eIT_PlugOutput      -> PlugOutput_serialize(o.info)
      [] OTHER                            -> ClusterInfo_serialize(o.info)

\* The specific data the constructors of ExtendedPlugInfoInfoType start from.
InfoType_initialize(infoType) ==
    CASE infoType = eIT_PlugType        -> [plugType |-> 255]
      [] infoType = eIT_PlugName        -> [name |-> <<>>]
      [] infoType = eIT_NoOfChannels    -> [nrOfChannels |-> 0]
      [] infoType = eIT_ChannelPosition -> [nrOfClusters |-> 0, clusterInfos |-> <<>>]
      [] infoType = eIT_ChannelName     -> [streamPosition |-> 0, stringLength |-> 255, name |-> <<>>]
      [] infoType = eIT_PlugInput       -> [dir |-> 1, mode |-> ePAM_Unit, plugType |-> 0, plugId |-> 0,
                                            reserved0 |-> 255, reserved1 |-> 255, reserved2 |-> 255]
      [] infoType = eIT_PlugOutput      -> [nrOfOutputPlugs |-> 0, outputPlugAddresses |-> <<>>]
      [] OTHER                          -> [clusterIndex |-> 0, portType |-> 255,
                                            stringLength |-> 255, name |-> <<>>]

InfoType_deserialize(s) ==
    LET t == read(s, "infoType")
        k == t.o.infoType
        R(u) == CASE k = eIT_PlugType        -> read(u, "plugType")
                  [] k = eIT_PlugName        -> PlugName_deserialize(u)
                  [] k = eIT_NoOfChannels    -> read(u, "nrOfChannels")
                  [] k = eIT_ChannelPosition -> ChannelPosition_deserialize(u)
                  [] k = eIT_ChannelName     -> ChannelName_deserialize(u)
                  [] k = eIT_PlugInput       -> PlugAddressSpecificData_deserialize(u)
                  [] k = eIT_PlugOutput      -> PlugOutput_deserialize(u)
                  [] k = eIT_ClusterInfo     -> ClusterInfo_deserialize(u)
    IN  IF k \notin eIT_PlugType..eIT_ClusterInfo THEN [t EXCEPT !.ok = FALSE]
        ELSE nested(t, "info", IF k = s.o.infoType THEN t.o.info ELSE InfoType_initialize(k), R)

ExtendedPlugInfoCmd_serialize(o) ==
    AVCCommand_serialize(o) \o <<o.subFunction>> \o PlugAddress_serialize(o.plugAddress)
                            \o InfoType_serialize(o)
ExtendedPlugInfoCmd_deserialize(s) ==
    LET t == read(AVCCommand_deserialize(s), "subFunction")
    IN  InfoType_deserialize(nested(t, "plugAddress", t.o.plugAddress, PlugAddress_deserialize))

-----------------------------------------------------------------------------
\* Stream formats: only the two hierarchies BeBoB devices answer with are taken apart.
eFHR_AudioMusic == 144
eFHL1_AUDIOMUSIC_AM824 == 0
eFHL1_AUDIOMUSIC_AM824_COMPOUND == 64
eFHL2_AM824_SYNC_STREAM == 64
eRC_DontCare == 1
DontCare == 255
NoStreams == [kind |-> "none"]

Sync_serialize(t) ==
    <<t.reserved0, t.samplingFrequency * 16 + 14 + (IF t.rateControl = eRC_DontCare THEN 1 ELSE 0),
      t.reserved1>>
Sync_deserialize(s) ==
    LET t == reads(s, <<"reserved0", "operand", "reserved1">>)
        x == t.o.operand
    IN  [t EXCEPT !.o = [kind |-> "sync", reserved0 |-> t.o.reserved0, reserved1 |-> t.o.reserved1,
                         samplingFrequency |-> x \div 16, rateControl |-> x % 2]]

Compound_serialize(t) ==
    <<t.samplingFrequency, t.rateControl, t.numberOfStreamFormatInfos>>
        \o writeVector(t.streamFormatInfos, LAMBDA e : write(e, <<"channels", "format">>))
Compound_deserialize(s) ==
    LET t == reads(s, <<"samplingFrequency", "rateControl", "numberOfStreamFormatInfos">>)
    IN  readVector(t, "streamFormatInfos", t.o.numberOfStreamFormatInfos, <<>>,
                   LAMBDA u : reads(u, <<"channels", "format">>))

FormatInformation_serialize(f) ==
    (IF f.root = DontCare THEN <<>>
     ELSE <<f.root>> \o (IF f.level1 = DontCare THEN <<>>
                         ELSE <<f.level1>> \o (IF f.level2 = DontCare THEN <<>> ELSE <<f.level2>>)))
    \o CASE f.streams.kind = "sync"     -> Sync_serialize(f.streams)
         [] f.streams.kind = "compound" -> Compound_serialize(f.streams)
         [] OTHER                       -> <<>>

FormatInformation_deserialize(s) ==
    LET r == read([s EXCEPT !.o.streams = NoStreams], "root")
        l1 == read(r, "level1")
        l2 == read(l1, "level2")
    IN  CASE r.o.root # eFHR_AudioMusic -> r
          [] l1.o.level1 = eFHL1_AUDIOMUSIC_AM824 ->
                IF l2.o.level2 = eFHL2_AM824_SYNC_STREAM
                THEN nested(l2, "streams", <<>>, Sync_deserialize) ELSE l2
          [] l1.o.level1 = eFHL1_AUDIOMUSIC_AM824_COMPOUND ->
                nested(l1, "streams", [kind |-> "compound", streamFormatInfos |-> <<>>],
                       Compound_deserialize)
          [] OTHER -> l1

\* Sub function 0xC1 asks for one entry of the list and names its index.
eSF_FormatInformationCommandList == 193

ExtendedStreamFormatCmd_serialize(o) ==
    AVCCommand_serialize(o) \o <<o.subFunction>> \o PlugAddress_serialize(o.plugAddress) \o <<o.status>>
        \o (IF o.subFunction = eSF_FormatInformationCommandList THEN <<o.index>> ELSE <<>>)
        \o FormatInformation_serialize(o.formatInformation)
ExtendedStreamFormatCmd_deserialize(s) ==
    LET t == read(AVCCommand_deserialize(s), "subFunction")
        u == read(nested(t, "plugAddress", t.o.plugAddress, PlugAddress_deserialize), "status")
        v == IF u.o.subFunction = eSF_FormatInformationCommandList THEN read(u, "index") ELSE u
    IN  nested(v, "formatInformation", v.o.formatInformation, FormatInformation_deserialize)

-----------------------------------------------------------------------------
\* Function blocks of the audio subunit.  Codec blocks, and features other than volume and
\* balance, fail to serialize: the command is never sent.
eFBT_Selector == 128
eFBT_Feature == 129
eFBT_Processing == 130
eFBT_Codec == 131
eCSE_Feature_Volume == 2
eCSE_Feature_LRBalance == 3
eCSE_Processing_EnhancedMixer == 241
eSS_Level == 1

Feature_serialize(f) ==
    write(f, <<"selectorLength", "audioChannelNumber", "controlSelector">>)
        \o (IF f.controlSelector \in {eCSE_Feature_Volume, eCSE_Feature_LRBalance}
            THEN <<f.controlDataLength>> \o write16(f.value) ELSE <<>>)
\* Only the volume and the balance are supported: every other selector makes the command fail.
Feature_deserialize(s) ==
    LET t == reads(s, <<"selectorLength", "audioChannelNumber", "controlSelector">>)
    IN  IF t.o.controlSelector \in {eCSE_Feature_Volume, eCSE_Feature_LRBalance}
        THEN read16(read(t, "controlDataLength"), "value")
        ELSE [t EXCEPT !.ok = FALSE]

selector == <<"selectorLength", "inputFbPlugNumber", "controlSelector">>
processing == <<"selectorLength", "fbInputPlugNumber", "inChannel", "outChannel">>
mixer == <<"controlSelector", "controlDataLength", "mixerSetting">>

\* The level data of the enhanced mixer; its other state is never parsed (the selector the
\* device returns "is currently bogus" and is replaced by eSS_Level).
EnhancedMixer_serialize(m) ==
    <<m.controlSelector, m.statusSelector>> \o write16(2 * Len(m.levelData)) \o writeVector(m.levelData, write16)
EnhancedMixer_deserialize(s) ==
    LET t == read16(reads(s, <<"controlSelector", "statusSelector">>), "controlDataLength")
        u == [t EXCEPT !.o = [kind |-> "enhanced", controlSelector |-> eCSE_Processing_EnhancedMixer,
                              statusSelector |-> eSS_Level, controlDataLength |-> t.o.controlDataLength,
                              levelData |-> <<>>]]
        n == t.o.controlDataLength \div 2
    IN  FoldLeft(LAMBDA a, i : LET b == read16(a, "v")
                               IN  [b EXCEPT !.o = [a.o EXCEPT !.levelData = Append(@, b.o.v)]],
                 u, [i \in 1..n |-> i])

Processing_serialize(p) ==
    write(p, processing) \o (IF p.mixer.kind = "mixer" THEN write(p.mixer, mixer)
                             ELSE EnhancedMixer_serialize(p.mixer))
\* The reader follows what was sent, not the selector in the response, and then drops the rest.
Processing_deserialize(s) ==
    LET t == reads(s, processing)
        u == IF t.o.mixer.kind = "mixer"
             THEN nested(t, "mixer", t.o.mixer, LAMBDA v : skip(reads(v, mixer), 2))
             ELSE nested(t, "mixer", t.o.mixer, EnhancedMixer_deserialize)
    IN  [u EXCEPT !.b = <<>>]

FunctionBlockCmd_serialize(o) ==
    AVCCommand_serialize(o) \o write(o, <<"fbType", "fbId", "controlAttribute">>)
        \o CASE o.fbType = eFBT_Selector   -> write(o.block, selector)
             [] o.fbType = eFBT_Feature    -> Feature_serialize(o.block)
             [] o.fbType = eFBT_Processing -> Processing_serialize(o.block)
             [] OTHER                      -> <<>>

FunctionBlockCmd_serializes(o) ==
    \/ o.fbType \in {eFBT_Selector, eFBT_Processing}
    \/ o.fbType = eFBT_Feature /\ o.block.controlSelector \in {eCSE_Feature_Volume, eCSE_Feature_LRBalance}

FunctionBlockCmd_deserialize(s) ==
    LET t == reads(AVCCommand_deserialize(s), <<"fbType", "fbId", "controlAttribute">>)
        R(u) == CASE t.o.fbType = eFBT_Selector   -> reads(u, selector)
                  [] t.o.fbType = eFBT_Feature    -> Feature_deserialize(u)
                  [] OTHER                        -> Processing_deserialize(u)
    IN  IF t.o.fbType \in {eFBT_Selector, eFBT_Feature, eFBT_Processing}
        THEN nested(t, "block", t.o.block, R) ELSE [t EXCEPT !.ok = FALSE]

-----------------------------------------------------------------------------
\* Descriptor access.
eIndentifier == 0
eInfoBlockByType == 48
eInfoBlockByPosition == 49
eSubunit0x80 == 128

AVCDescriptorSpecifier_serialize(d) ==
    <<d.type>> \o CASE d.type = eInfoBlockByType     -> write16(d.info_block_type) \o <<d.instance>>
                    [] d.type = eInfoBlockByPosition -> <<d.position>>
                    [] OTHER                         -> <<>>

\* The case for a block named by type runs on into the one for a position.
AVCDescriptorSpecifier_deserialize(s) ==
    LET t == read(s, "type")
    IN  CASE t.o.type = eInfoBlockByType ->
                  reads(read16(t, "info_block_type"), <<"instance", "position">>)
          [] t.o.type = eInfoBlockByPosition -> read(t, "position")
          [] OTHER -> t

OpenDescriptorCmd_serialize(o) ==
    AVCCommand_serialize(o) \o AVCDescriptorSpecifier_serialize(o.specifier)
        \o (IF o.commandType = eCT_Status THEN <<o.status, o.reserved>> \o write16(o.locked_node_id)
            ELSE <<o.mode, o.reserved>>)
\* In a control response the status byte is the sub function the device carried out.
OpenDescriptorCmd_deserialize(s) ==
    LET t == AVCCommand_deserialize(s)
        u == reads(nested(t, "specifier", t.o.specifier, AVCDescriptorSpecifier_deserialize),
                   <<"status", "reserved">>)
    IN  IF u.o.commandType = eCT_Status THEN read16(u, "locked_node_id")
        ELSE IF u.o.status \in {0, 1, 3} THEN [u EXCEPT !.o = ("mode" :> u.o.status) @@ u.o]
        ELSE u

eR_Accepted == 9

ReadDescriptorCmd_serialize(o) ==
    AVCCommand_serialize(o) \o AVCDescriptorSpecifier_serialize(o.specifier) \o <<o.status, o.reserved>>
        \o write16(o.data_length) \o write16(o.address)
ReadDescriptorCmd_deserialize(s) ==
    LET t == AVCCommand_deserialize(s)
        u == reads(nested(t, "specifier", t.o.specifier, AVCDescriptorSpecifier_deserialize),
                   <<"status", "reserved">>)
        v == read16s(u, <<"data_length", "address">>)
    IN  IF v.o.ctype # eR_Accepted THEN v
        ELSE IF v.o.data_length = 0 THEN [v EXCEPT !.o = ("data" :> <<>>) @@ v.o]
        ELSE readString(v, "data", v.o.data_length)
=============================================================================
