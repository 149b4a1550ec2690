---------------------------- MODULE MCAvc --------------------------
(* Commands of every class with the answers a device gives to them.        *)
EXTENDS FcpTransaction, AvcDescriptor, AvcPlugs

Header(kind, type, subunit, opcode) ==
    [kind |-> kind, commandType |-> type, ctype |-> type, subunit |-> subunit, opcode |-> opcode]
Unit == 8 * eST_Unit + 7
Audio == 8 * eST_Audio
\* A command and its answer: the same members, but for those the device fills in.
Pair(h, asked0, code, answered) ==
    [ask |-> h @@ asked0, answer |-> ("ctype" :> code) @@ h @@ answered @@ asked0]


entry(t, i) == [subunit_type |-> t, max_subunit_id |-> i]
page(i) == [fbType |-> 129, fbId |-> i, purpose |-> 0, inPlugs |-> 1, outPlugs |-> 1]
address(mode) == [class |-> mode, dir |-> 0, mode |-> mode, plugType |-> 0, plugId |-> 1, reserved |-> 255,
                  reserved0 |-> 255, reserved1 |-> 255, fbType |-> 129, fbId |-> 2]
specific(mode) ==
    [f \in {"dir", "mode"} \cup Range(SpecificData(mode)) |-> IF f = "mode" THEN mode ELSE 1]
InfoPair(k, mode, answered) ==
    Pair(Header("extPlug", eCT_Status, Unit, 2),
         [subFunction |-> 192, plugAddress |-> address(mode), infoType |-> k, info |-> InfoType_initialize(k)],
         eR_Implemented, [info |-> answered])
streams == [kind |-> "compound", samplingFrequency |-> 4, rateControl |-> 0, numberOfStreamFormatInfos |-> 2,
            streamFormatInfos |-> <<[channels |-> 8, format |-> 6], [channels |-> 1, format |-> 13]>>]
syncStream == [kind |-> "sync", reserved0 |-> 255, reserved1 |-> 255, samplingFrequency |-> 4, rateControl |-> 1]
format(r, l1, l2, s) == [root |-> r, level1 |-> l1, level2 |-> l2, streams |-> s]
FormatPair(sub, answered) ==
    Pair(Header("streamFormat", eCT_Status, Unit, 47),
         [subFunction |-> sub, plugAddress |-> address(ePAM_Unit), status |-> 255, index |-> 1,
          formatInformation |-> format(DontCare, DontCare, DontCare, NoStreams)],
         eR_Implemented, [status |-> 0, formatInformation |-> answered])
FunctionPair(type, code, block0, answered) ==
    Pair(Header("function", eCT_Status, Audio, 184),
         [fbType |-> type, fbId |-> 3, controlAttribute |-> 16, block |-> block0], code, [block |-> answered])
volume(v) == [selectorLength |-> 2, audioChannelNumber |-> 1, controlSelector |-> eCSE_Feature_Volume,
              controlDataLength |-> 2, value |-> v]
processingBlock(m) == [selectorLength |-> 4, fbInputPlugNumber |-> 0, inChannel |-> 1, outChannel |-> 2, mixer |-> m]
enhanced(d) == [kind |-> "enhanced", controlSelector |-> eCSE_Processing_EnhancedMixer, statusSelector |-> eSS_Level,
                controlDataLength |-> 2 * Len(d), levelData |-> d]
EfcPair(efc, category, id, get, members, answered) ==
    LET c == [efc |-> efc, category_id |-> category, command_id |-> id, version |-> 1, retval |-> 0,
              get |-> get] @@ members
        h == Header("efc", eCT_Control, Unit, 0)
             @@ [companyId |-> 4660, dummy_1 |-> 0, dummy_2 |-> 0]
    IN  Pair(h, [cmd |-> c], eR_Accepted, [cmd |-> answered @@ c])
spec(t) == [type |-> t, info_block_type |-> 513, instance |-> 1, position |-> 2]

MCCommands == <<
    Pair(Header("unit", eCT_Status, Unit, 48),
         [reserved |-> 255, unit_type |-> 31, unit |-> 7, company_id |-> 0],
         eR_Implemented, [reserved |-> 7, unit_type |-> 20, unit |-> 0, company_id |-> 657930]),
    Pair(Header("subunit", eCT_Status, Unit, 49),
         [page |-> 1, extension_code |-> 7, table |-> [i \in 1..4 |-> entry(31, 7)], nrOfValidEntries |-> 0],
         eR_Implemented, [table |-> <<entry(1, 0), entry(12, 0), entry(31, 7), entry(31, 7)>>, nrOfValidEntries |-> 2]),
    Pair(Header("signalFormat", eCT_Status, Unit, 25),
         [plug |-> 0, eoh |-> 1, form |-> 1, fmt |-> 63, fdf |-> <<255, 255, 255>>],
         eR_Implemented, [eoh |-> 1, form |-> 0, fmt |-> 16, fdf |-> <<2, 255, 255>>]),
    Pair(Header("plugInfo", eCT_Status, Unit, 2),
         [subFunction |-> 0, isoIn |-> 255, isoOut |-> 255, extIn |-> 255, extOut |-> 255],
         eR_Implemented, [isoIn |-> 2, isoOut |-> 2, extIn |-> 1, extOut |-> 3]),
    Pair(Header("extSubunit", eCT_Status, Audio, 49), [page |-> 0, allType |-> 255, infoPageDatas |-> <<>>],
         eR_Implemented, [infoPageDatas |-> <<page(1), page(2)>>]),
    Pair(Header("signalSource", eCT_Status, Unit, 26),
         [outputStatus |-> 7, conv |-> 1, signalStatus |-> 15,
          signalSource |-> [unit |-> FALSE, subunitType |-> 31, subunitId |-> 6, plugId |-> 254],
          signalDestination |-> [unit |-> TRUE, plugId |-> 0]],
         eR_Implemented, [outputStatus |-> 0, conv |-> 0, signalStatus |-> 1,
          signalSource |-> [unit |-> FALSE, subunitType |-> 12, subunitId |-> 0, plugId |-> 2]]),
    InfoPair(eIT_PlugType, ePAM_Unit, [plugType |-> 3]),
    InfoPair(eIT_PlugName, ePAM_Subunit, [name |-> <<65, 66>>]),
    InfoPair(eIT_NoOfChannels, ePAM_FunctionBlock, [nrOfChannels |-> 2]),
    InfoPair(eIT_ChannelPosition, ePAM_Unit, [nrOfClusters |-> 1, clusterInfos |->
        <<[nrOfChannels |-> 2, channelInfos |-> <<[pos |-> 0, loc |-> 1], [pos |-> 1, loc |-> 2]>>]>>]),
    InfoPair(eIT_ChannelName, ePAM_Unit, [streamPosition |-> 0, stringLength |-> 1, name |-> <<76>>]),
    InfoPair(eIT_PlugInput, ePAM_Unit, specific(ePAM_Subunit)),
    InfoPair(eIT_PlugOutput, ePAM_Unit, [nrOfOutputPlugs |-> 2,
        outputPlugAddresses |-> <<specific(ePAM_Unit), specific(ePAM_FunctionBlock)>>]),
    InfoPair(eIT_ClusterInfo, ePAM_Unit, [clusterIndex |-> 0, portType |-> 3, stringLength |-> 2, name |-> <<73, 110>>]),
    FormatPair(192, format(144, 64, DontCare, streams)),
    FormatPair(193, format(144, 0, 64, syncStream)),
    FunctionPair(eFBT_Selector, eR_Implemented, [selectorLength |-> 2, inputFbPlugNumber |-> 255, controlSelector |-> 1],
                 [selectorLength |-> 2, inputFbPlugNumber |-> 1, controlSelector |-> 1]),
    FunctionPair(eFBT_Feature, eR_Implemented, volume(0), volume(32768)),
    FunctionPair(eFBT_Processing, eR_Implemented,
                 processingBlock([kind |-> "mixer", controlSelector |-> 3, controlDataLength |-> 2, mixerSetting |-> 0]),
                 processingBlock([kind |-> "mixer", controlSelector |-> 3, controlDataLength |-> 2, mixerSetting |-> 7])),
    FunctionPair(eFBT_Processing, eR_Implemented, processingBlock(enhanced(<<>>)), processingBlock(enhanced(<<0, 300>>))),
    FunctionPair(eFBT_Codec, eR_Implemented, << >>, << >>),
    Pair(Header("open", eCT_Control, Audio, 8), [specifier |-> spec(eIndentifier), mode |-> 1, status |-> 255, reserved |-> 0],
         eR_Accepted, [status |-> 1]),
    Pair(Header("open", eCT_Status, Audio, 8),
         [specifier |-> spec(eInfoBlockByPosition), mode |-> 1, status |-> 255, reserved |-> 0, locked_node_id |-> 65535],
         eR_Implemented, [status |-> 1, locked_node_id |-> 65472]),
    Pair(Header("read", eCT_Control, Audio, 9),
         [specifier |-> spec(eSubunit0x80), status |-> 255, reserved |-> 255, data_length |-> 2, address |-> 0, data |-> <<>>],
         eR_Accepted, [status |-> 17, data |-> <<1, 2>>]),
    EfcPair("Mixer", 5, 0, TRUE, [channel |-> 1, value |-> 0], [value |-> 7]),
    EfcPair("Mixer", 5, 1, TRUE, [channel |-> 1, value |-> 0], [value |-> 9]),
    EfcPair("Monitor", 8, 0, FALSE, [input |-> 1, output |-> 0, value |-> 5], << >>),
    EfcPair("IOConfig", 9, 4, TRUE, [value |-> 0], [value |-> 2]),
    EfcPair("GetClock", 3, 2, TRUE, << >>, [clock |-> 0, samplerate |-> 44100, index |-> 0]),
    EfcPair("Polled", 0, 1, TRUE, << >>,
            [status |-> 0, spdif |-> 0, adat |-> 0, reserved3 |-> 0, reserved4 |-> 0, out_meters |-> 0,
             in_meters |-> 0, reserved5 |-> 0, reserved6 |-> 0])
    >>

t1 == "client"
t2 == "control"
\* The client fires every command once, or two that share subunit and opcode; the control
\* server then asks for something that shares them as well.
Alone == {<<i>> : i \in DOMAIN MCCommands} \cup {<<7, 4>>, <<12, 13>>, <<18, 19>>, <<25, 26>>, <<15, 16>>}
MCScripts == {(t1 :> <<>>) @@ (t2 :> <<>>)} \cup {(t1 :> s) @@ (t2 :> <<>>) : s \in Alone}
             \cup {(t1 :> s) @@ (t2 :> <<4>>) : s \in {<<4>>, <<7>>}}
             \cup {(t1 :> s) @@ (t2 :> <<25>>) : s \in {<<27>>, <<26>>}}
MCThreads == {t1, t2}

-----------------------------------------------------------------------------
\* Descriptors.  The compound length counts what follows it.
Block(type, primary, members, W(_)) ==
    LET b == members @@ [type |-> type, primary_length |-> primary, compound_length |-> 0]
    IN  [b EXCEPT !.compound_length = Len(W(b)) - 2]
raw(end) == Block(RawText, 0, [text |-> <<65, 66>> \o end], AVCRawTextInfoBlock_serialize)
named(end) == Block(Name, 4, [text |-> <<67, 68>> \o end], AVCNameInfoBlock_serialize)
Zero == <<0>>
None == <<>>
\* The object is to have the text without the zero byte that ends it.
Shown(b) == [b EXCEPT !.name.text = SelectSeq(@, LAMBDA c : c # 0)]
ShownPlug(p) == [Shown(p) EXCEPT !.clusters = [i \in DOMAIN @ |-> Shown(@[i])]]
ShownRouting(r) == [r EXCEPT !.dest = [i \in DOMAIN @ |-> ShownPlug(@[i])],
                             !.source = [i \in DOMAIN @ |-> ShownPlug(@[i])],
                             !.music = [i \in DOMAIN @ |-> Shown(@[i])]]
cluster(name) == Block(Cluster, 3, [stream_format |-> 6, port_type |-> 3, nb_signals |-> 2, name |-> name,
    signals |-> <<[music_plug_id |-> 256, position |-> 0, location |-> 1], [music_plug_id |-> 1, position |-> 1, location |-> 2]>>],
    AVCMusicClusterInfoBlock_serialize)
subunitPlug(id, clusters, name) == Block(SubunitPlug, 8, [plug_id |-> id, signal_format |-> 36863, plug_type |-> 0,
    nb_clusters |-> Len(clusters), nb_channels |-> 2, clusters |-> clusters, name |-> name],
    AVCMusicSubunitPlugInfoBlock_serialize)
musicPlug(id, name) == Block(MusicPlug, 14, [music_plug_type |-> 0, music_plug_id |-> id, routing_support |-> 0, name |-> name]
    @@ [f \in Range(musicPlugEnds) |-> 240], AVCMusicPlugInfoBlock_serialize)
routing(dest, from, music) == Block(RoutingStatus, 4, [nb_dest |-> Len(dest), nb_source |-> Len(from),
    nb_music |-> Len(music), dest |-> dest, source |-> from, music |-> music], AVCMusicRoutingStatusInfoBlock_serialize)
general == Block(GeneralStatus, 6, [transmit |-> 1, receive |-> 2, latency |-> 65793], AVCMusicGeneralStatusInfoBlock_serialize)
status(r) == [general |-> general, routing |-> ShownRouting(r)]
outputPlug == write16(6) \o write16(OutputPlugStatus) \o <<0, 0, 9, 9>>
Music(r, between, ended) ==
    [kind |-> "music", object |-> status(r), ended |-> ended,
     bytes |-> AVCMusicGeneralStatusInfoBlock_serialize(general) \o between \o AVCMusicRoutingStatusInfoBlock_serialize(r)]
configuration == [length |-> 12, id |-> 1, nb_links |-> 1, links |-> <<258>>, nb_functions |-> 0,
    master |-> [length |-> 8, channels |-> 2, config_type |-> 0, predefined |-> 0, name_IDs |-> <<1, 2>>]]
audio(lists, size) == [generation_ID |-> 2, size_of_list_ID |-> size, size_of_object_ID |-> 2, size_of_object_position |-> 2,
    nb_lists |-> lists, dependent_length |-> 18,
    info |-> [length |-> 16, version |-> 16, nb_configurations |-> 1, configurations |-> <<configuration>>]]
AudioId(lists, size) ==
    [kind |-> "audio", object |-> audio(lists, size), ended |-> TRUE,
     bytes |-> AVCAudioIdentifierDescriptor_serialize(audio(lists, size))]
\* Names that end in a zero byte, that run into the length of the next block, whose high byte
\* is zero, and that run into nothing.
MCDescriptors == {
    Music(routing(<<subunitPlug(0, <<cluster(raw(None))>>, named(Zero))>>, <<>>, <<>>), outputPlug, TRUE),
    Music(routing(<<>>, <<subunitPlug(1, <<cluster(NoText), cluster(named(None))>>, NoText)>>,
                  <<musicPlug(256, NoText), musicPlug(1, raw(Zero))>>), <<>>, TRUE),
    Music(routing(<<>>, <<>>, <<musicPlug(7, named(Zero))>>), <<>>, TRUE),
    Music(routing(<<>>, <<>>, <<musicPlug(7, named(None))>>), <<>>, FALSE),
    Music(routing(<<>>, <<>>, <<musicPlug(7, raw(None))>>), <<>>, FALSE),
    AudioId(0, 2), AudioId(1, 0), AudioId(1, 2)}

-----------------------------------------------------------------------------
\* Devices to discover, by their plugs and connections.
Stream(type, clusters, name) == [type |-> type, clusters |-> clusters, formats |-> <<44, 48>>, name |-> name]
Wide == <<[channels |-> 2, format |-> "audio"], [channels |-> 1, format |-> "midi"]>>
Pair2 == <<[channels |-> 2, format |-> "audio"]>>
One1 == <<[channels |-> 1, format |-> "audio"]>>
syncIn == SubunitPlugAddr("music", "in", 1)
syncOut == SubunitPlugAddr("music", "out", 1)
Feature(i) == [type |-> "feature", kind |-> "feature", id |-> i, in |-> 1, out |-> 1]
Selector == [type |-> "selector", kind |-> "selector", id |-> 1, in |-> 2, out |-> 1]
Codec == [type |-> "codec", kind |-> "codec", id |-> 1, in |-> 1, out |-> 1]
Enhanced == [type |-> "processing", kind |-> "enhanced", id |-> 1, in |-> 1, out |-> 1]
Both(a, b) == [in |-> a, out |-> b]
Unit2 == {UnitPlug(at, d, i) : at \in {"pcr", "external"}, d \in {"in", "out"}, i \in 0..1}
Music2 == {SubunitPlugAddr("music", d, i) : d \in {"in", "out"}, i \in 0..1}
Audio1 == {SubunitPlugAddr("audio", d, 0) : d \in {"in", "out"}}
Sort(a) ==
    CASE a.at = "pcr" /\ a.id = 0 -> Stream("IsoStream", Wide, "stream")
      [] a.at = "pcr" -> Stream("Sync", <<>>, "sync")
      [] a.at = "external" /\ a.id = 0 -> Stream("Digital", Pair2, "SPDIF")
      [] a.at = "external" -> Stream("Analog", Pair2, "line")
      [] a.su = "music" /\ a.id = 0 -> Stream("IsoStream", Wide, "stream")
      [] a.su = "music" -> Stream("Sync", <<>>, "sync")
      [] OTHER -> Stream("Analog", One1, "mixer")
Table1(as) == [a \in as |-> Sort(a)]
Streaming == {<<UnitPlug("pcr", "in", 0), SubunitPlugAddr("music", "in", 0)>>,
              <<SubunitPlugAddr("music", "out", 0), UnitPlug("pcr", "out", 0)>>,
              <<UnitPlug("external", "in", 1), SubunitPlugAddr("audio", "in", 0)>>,
              <<SubunitPlugAddr("audio", "out", 0), UnitPlug("external", "out", 1)>>}
Blocks == <<Feature(1), Feature(2), Feature(3), Feature(4), Feature(5), Feature(6), Selector, Enhanced, Codec>>
BlockPlugs == UNION {{BlockPlug(b, "in", i) : i \in 0..(b.in - 1)} \cup {BlockPlug(b, "out", i) : i \in 0..(b.out - 1)} :
                        b \in ToSet(Blocks) \ {Codec}}
\* An interface with a mixer: line in, six volumes in a row, a selector that also takes the
\* enhanced mixer, line out; its sync output follows what the sync input follows.
Mixer ==
    [family |-> "bebob", subunits |-> <<"audio", "camera", "music">>,
     count |-> [pcr |-> Both(2, 2), external |-> Both(2, 2), music |-> Both(2, 2), audio |-> Both(1, 1)],
     blocks |-> Blocks, sync |-> syncIn,
     sources |-> {UnitPlug("pcr", "in", 0), syncOut, UnitPlug("external", "in", 0)},
     mute |-> {UnitPlug("pcr", "in", 0), UnitPlug("external", "out", 1), syncIn, BlockPlug(Feature(6), "out", 0)},
     describe |-> Table1(Unit2 \cup Music2 \cup Audio1 \cup BlockPlugs),
     wires |-> Streaming \cup {<<syncOut, UnitPlug("pcr", "out", 1)>>,
                <<SubunitPlugAddr("audio", "in", 0), BlockPlug(Feature(1), "in", 0)>>,
                <<SubunitPlugAddr("audio", "in", 0), BlockPlug(Enhanced, "in", 0)>>,
                <<BlockPlug(Feature(6), "out", 0), BlockPlug(Selector, "in", 0)>>,
                <<BlockPlug(Enhanced, "out", 0), BlockPlug(Selector, "in", 1)>>,
                <<BlockPlug(Selector, "out", 0), SubunitPlugAddr("audio", "out", 0)>>}
               \cup {<<BlockPlug(Feature(i), "out", 0), BlockPlug(Feature(i + 1), "in", 0)>> : i \in 1..5}]
Plain ==
    [family |-> "avc", subunits |-> <<"music", "audio">>,
     count |-> [pcr |-> Both(2, 2), external |-> Both(2, 2), music |-> Both(2, 2), audio |-> Both(1, 1)],
     blocks |-> <<>>, sync |-> syncIn,
     sources |-> {UnitPlug("pcr", "in", 0), syncOut},
     mute |-> {UnitPlug("pcr", "out", 0), syncIn, SubunitPlugAddr("audio", "in", 0)},
     describe |-> Table1(Unit2 \cup Music2 \cup Audio1),
     wires |-> Streaming \cup {<<UnitPlug("external", "in", 0), UnitPlug("external", "out", 0)>>}]
MCTopologies == [mixer |-> Mixer, plain |-> Plain]

-----------------------------------------------------------------------------
\* The three subjects are checked side by side: a state belongs to one of them.
DescOff == descriptor = << >> /\ open = FALSE /\ loading = "off" /\ descLength = 0 /\ descData = <<>>
           /\ loaded = FALSE /\ parsed = Unparsed /\ descFaults = 0
PlugsOff == hardware = "off" /\ source = "off" /\ rates = <<>> /\ unit = "off" /\ ready = FALSE
            /\ m_last_discovery_config_id = 0 /\ files = << >> /\ answer = "off" /\ outdated = FALSE /\ plugOps = 0
FcpOff == Init /\ script = [t \in Threads |-> <<>>] /\ ~filter
AvcInit == \/ Init /\ DescOff /\ PlugsOff
           \/ FcpOff /\ DescInit /\ PlugsOff
           \/ FcpOff /\ DescOff /\ PlugInit
AvcNext == \/ loading = "off" /\ hardware = "off" /\ Next /\ UNCHANGED <<descVars, plugVars>>
           \/ loading # "off" /\ DescNext /\ UNCHANGED <<vars, plugVars>>
           \/ hardware # "off" /\ PlugNext /\ UNCHANGED <<vars, descVars>>
AvcDone == hardware # "off" /\ plugOps = MaxPlugOps /\ UNCHANGED <<vars, descVars, plugVars>>
AvcSpec == AvcInit /\ [][AvcNext \/ AvcDone]_<<vars, descVars, plugVars>>
=============================================================================
