---------------------------- MODULE AvcDescriptor ----------------------------
(***************************************************************************)
(* AVCDescriptor::load, which opens a descriptor of a subunit, reads it in *)
(* pieces of the size the device likes and closes it again, and the        *)
(* descriptors that are parsed from the result: the status descriptor of   *)
(* the music subunit (a sequence of nested info blocks) and the identifier *)
(* of the audio subunit.  Every call of fire() may fail.                   *)
(***************************************************************************)
EXTENDS EfcCodec

CONSTANTS
    Descriptors,     \* the descriptors a device may have: [kind, object, bytes, ended], known blocks only
    MaxPiece,        \* the most bytes the device returns at a time
    MaxDescFaults    \* bound on failed commands and odd pieces

VARIABLES
    descriptor,      \* the descriptor of the device
    open,            \* the device has it open
    loading,         \* where load() is ("off": never called)
    descLength,      \* m_descriptor_length
    descData,        \* m_data, as far as it was read
    loaded,          \* m_loaded
    parsed,          \* the reader after deserialize
    descFaults

descVars == <<descriptor, open, loading, descLength, descData, loaded, parsed, descFaults>>

-----------------------------------------------------------------------------
\* Info blocks: a length that does not count itself, the type, the length of the primary
\* fields.  Both are members, so that what was read is written again.
AVCInfoBlock_serialize(b) == write16(b.compound_length) \o write16(b.type) \o write16(b.primary_length)
AVCInfoBlock_deserialize(s, supported) ==
    then(read16s(s, <<"compound_length", "type", "primary_length">>),
         LAMBDA t : [t EXCEPT !.ok = @ /\ t.o.type = supported])
peekBlockType(s) == peek16(s, 2)
peekBlockLength(s) == peek16(s, 0)

\* append(txt) copies from a pointer into the descriptor up to the next zero byte, whatever
\* the length of the text: rest is what lies behind the pointer.  Without a zero byte it goes
\* on behind the buffer, where anything may be.
Beyond == 0 - 1
CString(rest) ==
    LET zeros == {i \in DOMAIN rest : rest[i] = 0}
    IN  IF zeros = {} THEN Append(rest, Beyond)
        ELSE SubSeq(rest, 1, (CHOOSE i \in zeros : \A j \in zeros : i <= j) - 1)
readText(s, n) == then(readString(s, "text", n), LAMBDA t : [t EXCEPT !.o = ("text" :> CString(s.b)) @@ @])
RawText == 10
AVCRawTextInfoBlock_serialize(b) == AVCInfoBlock_serialize(b) \o b.text
AVCRawTextInfoBlock_deserialize(s) ==
    then(AVCInfoBlock_deserialize(s, RawText), LAMBDA t :
         readText(t, t.o.compound_length - 4))

Name == 11
AVCNameInfoBlock_serialize(b) ==
    AVCInfoBlock_serialize(b)
        \o (IF b.text = <<>> THEN <<>> ELSE <<0, 0, 0, 0, 0, 0, 0, 0>> \o write16(Len(b.text)) \o b.text)
AVCNameInfoBlock_deserialize(s) ==
    then(read16s(AVCInfoBlock_deserialize(s, Name), <<"dummy", "dummy", "length1", "dummy", "text_length">>),
         LAMBDA t : [readText(t, t.o.text_length) EXCEPT
                        !.o = [compound_length |-> @.compound_length, type |-> Name,
                               primary_length |-> @.primary_length, text |-> @.text]])

\* The optional name behind the primary fields: a raw text, a name, or something else, which
\* is skipped.  left is what the compound length leaves for it.
NoText == [type |-> 0, text |-> <<>>]
Text_serialize(b) == CASE b.type = RawText -> AVCRawTextInfoBlock_serialize(b)
                       [] b.type = Name    -> AVCNameInfoBlock_serialize(b)
                       [] OTHER            -> <<>>
Text_deserialize(s, left) ==
    IF left <= 0 THEN s
    ELSE CASE peekBlockType(s) = RawText -> nested(s, "name", NoText, AVCRawTextInfoBlock_deserialize)
           [] peekBlockType(s) = Name    -> nested(s, "name", NoText, AVCNameInfoBlock_deserialize)
           [] OTHER                      -> skip(s, left)

GeneralStatus == 33024
OutputPlugStatus == 33025
RoutingStatus == 33032
SubunitPlug == 33033
Cluster == 33034
MusicPlug == 33035

AVCMusicGeneralStatusInfoBlock_serialize(b) ==
    AVCInfoBlock_serialize(b) \o <<b.transmit, b.receive>> \o write32(b.latency)
AVCMusicGeneralStatusInfoBlock_deserialize(s) ==
    then(AVCInfoBlock_deserialize(s, GeneralStatus), LAMBDA t :
         IF t.o.primary_length # 6 THEN [t EXCEPT !.ok = FALSE]
         ELSE read32(reads(t, <<"transmit", "receive">>), "latency"))

AVCMusicOutputPlugStatusInfoBlock_deserialize(s) ==
    then(AVCInfoBlock_deserialize(s, OutputPlugStatus), LAMBDA t : skip(t, t.o.compound_length - 4))

AVCMusicClusterInfoBlock_serialize(b) ==
    AVCInfoBlock_serialize(b) \o <<b.stream_format, b.port_type, b.nb_signals>>
        \o writeVector(b.signals, LAMBDA g : write16(g.music_plug_id) \o <<g.position, g.location>>)
        \o Text_serialize(b.name)
AVCMusicClusterInfoBlock_deserialize(s) ==
    then(AVCInfoBlock_deserialize(s, Cluster), LAMBDA h :
    then(reads(h, <<"stream_format", "port_type", "nb_signals">>), LAMBDA t :
    then(readVector(t, "signals", t.o.nb_signals, << >>,
                    LAMBDA g : reads(read16(g, "music_plug_id"), <<"position", "location">>)), LAMBDA u :
         Text_deserialize(u, u.o.compound_length - (4 + Len(h.b) - Len(u.b))))))

AVCMusicSubunitPlugInfoBlock_serialize(b) ==
    AVCInfoBlock_serialize(b) \o <<b.plug_id>> \o write16(b.signal_format) \o <<b.plug_type>>
        \o write16(b.nb_clusters) \o write16(b.nb_channels)
        \o writeVector(b.clusters, AVCMusicClusterInfoBlock_serialize) \o Text_serialize(b.name)
AVCMusicSubunitPlugInfoBlock_deserialize(s) ==
    then(AVCInfoBlock_deserialize(s, SubunitPlug), LAMBDA h :
    IF h.o.primary_length # 8 THEN [h EXCEPT !.ok = FALSE] ELSE
    then(read16s(read(read16(read(h, "plug_id"), "signal_format"), "plug_type"),
                 <<"nb_clusters", "nb_channels">>), LAMBDA t :
    then(readVector(t, "clusters", t.o.nb_clusters, [signals |-> <<>>, name |-> NoText],
                    AVCMusicClusterInfoBlock_deserialize), LAMBDA u :
         Text_deserialize(u, u.o.compound_length - (4 + Len(h.b) - Len(u.b))))))

musicPlugEnds == <<"source_type", "source_id", "source_block", "source_position", "source_location",
                   "dest_type", "dest_id", "dest_block", "dest_position", "dest_location">>
AVCMusicPlugInfoBlock_serialize(b) ==
    AVCInfoBlock_serialize(b) \o <<b.music_plug_type>> \o write16(b.music_plug_id) \o <<b.routing_support>>
        \o write(b, musicPlugEnds) \o Text_serialize(b.name)
AVCMusicPlugInfoBlock_deserialize(s) ==
    then(AVCInfoBlock_deserialize(s, MusicPlug), LAMBDA h :
    IF h.o.primary_length # 14 THEN [h EXCEPT !.ok = FALSE] ELSE
    then(reads(read(read16(read(h, "music_plug_type"), "music_plug_id"), "routing_support"), musicPlugEnds),
         LAMBDA t : Text_deserialize(t, t.o.compound_length - 18)))

AVCMusicRoutingStatusInfoBlock_serialize(b) ==
    AVCInfoBlock_serialize(b) \o <<b.nb_dest, b.nb_source>> \o write16(b.nb_music)
        \o writeVector(b.dest, AVCMusicSubunitPlugInfoBlock_serialize)
        \o writeVector(b.source, AVCMusicSubunitPlugInfoBlock_serialize)
        \o writeVector(b.music, AVCMusicPlugInfoBlock_serialize)
\* The blocks are pushed behind the ones an earlier load left.
SubunitPlugBlocks(s, f, n) ==
    readVector(s, f, n, [clusters |-> <<>>, name |-> NoText], AVCMusicSubunitPlugInfoBlock_deserialize)
AVCMusicRoutingStatusInfoBlock_deserialize(s) ==
    then(AVCInfoBlock_deserialize(s, RoutingStatus), LAMBDA h :
    IF h.o.primary_length # 4 THEN [h EXCEPT !.ok = FALSE] ELSE
    then(read16(reads(h, <<"nb_dest", "nb_source">>), "nb_music"), LAMBDA t :
    then(SubunitPlugBlocks(t, "dest", t.o.nb_dest), LAMBDA u :
    then(SubunitPlugBlocks(u, "source", u.o.nb_source), LAMBDA v :
         readVector(v, "music", v.o.nb_music, [name |-> NoText], AVCMusicPlugInfoBlock_deserialize)))))

getSubunitPlugInfoBlock(routing, direction, id) ==
    SelectSeq(IF direction = "input" THEN routing.dest ELSE routing.source, LAMBDA b : b.plug_id = id)
getMusicPlugInfoBlock(routing, id) == SelectSeq(routing.music, LAMBDA b : b.music_plug_id = id)

AVCMusicStatusDescriptor_serialize(d) ==
    AVCMusicGeneralStatusInfoBlock_serialize(d.general) \o AVCMusicRoutingStatusInfoBlock_serialize(d.routing)

\* One turn of the loop over the info blocks.  An unknown block is skipped by its length,
\* which leaves the two bytes of the length field unread.
MusicBlock(s) ==
    CASE peekBlockType(s) = GeneralStatus ->
            nested(s, "general", s.o.general, AVCMusicGeneralStatusInfoBlock_deserialize)
      [] peekBlockType(s) = OutputPlugStatus ->
            nested(s, "output", << >>, AVCMusicOutputPlugStatusInfoBlock_deserialize)
      [] peekBlockType(s) = RoutingStatus ->
            nested(s, "routing", s.o.routing, AVCMusicRoutingStatusInfoBlock_deserialize)
      [] OTHER -> skip(s, peekBlockLength(s))
max_blocks == 10
AVCMusicStatusDescriptor_deserialize(s) ==
    FoldLeft(LAMBDA t, i : IF t.ok /\ peekBlockType(t) # Unset THEN MusicBlock(t) ELSE t,
             s, [i \in 1..(max_blocks + 2) |-> i])
NewMusicStatus ==
    [general |-> << >>, routing |-> [dest |-> <<>>, source |-> <<>>, music |-> <<>>]]

-----------------------------------------------------------------------------
\* The identifier descriptor of the audio subunit.
AVCAudioClusterInformation_serialize(c) ==
    <<c.length, c.channels, c.config_type, c.predefined>>
        \o (IF c.length > 4 THEN writeVector(c.name_IDs, write16) ELSE <<>>)
AVCAudioClusterInformation_deserialize(s) ==
    LET t == reads(s, <<"length", "channels", "config_type", "predefined">>)
    IN  IF t.o.length > 4 THEN FoldLeft(LAMBDA u, i : LET v == read16(u, "id") IN
                 [v EXCEPT !.o = [u.o EXCEPT !.name_IDs = Append(@, v.o.id)]],
                 [t EXCEPT !.o = ("name_IDs" :> <<>>) @@ @], [i \in 1..t.o.channels |-> i])
        ELSE t
AVCAudioConfigurationDependentInformation_serialize(c) ==
    write16(c.length) \o write16(c.id) \o AVCAudioClusterInformation_serialize(c.master)
        \o <<c.nb_links>> \o writeVector(c.links, write16) \o <<c.nb_functions>>
\* Information about function blocks is not understood: the descriptor is refused.
AVCAudioConfigurationDependentInformation_deserialize(s) ==
    LET t == nested(read16s(s, <<"length", "id">>), "master", [name_IDs |-> <<>>],
                    AVCAudioClusterInformation_deserialize)
        u == read(t, "nb_links")
        v == FoldLeft(LAMBDA a, i : LET b == read16(a, "l") IN
                 [b EXCEPT !.o = [a.o EXCEPT !.links = Append(@, b.o.l)]],
                 [u EXCEPT !.o = ("links" :> <<>>) @@ @], [i \in 1..u.o.nb_links |-> i])
        w == read(v, "nb_functions")
    IN  [w EXCEPT !.ok = @ /\ w.o.nb_functions = 0]
AVCAudioSubunitDependentInformation_serialize(d) ==
    write16(d.length) \o <<d.version, d.nb_configurations>>
        \o writeVector(d.configurations, AVCAudioConfigurationDependentInformation_serialize)
AVCAudioSubunitDependentInformation_deserialize(s) ==
    LET t == reads(read16(s, "length"), <<"version", "nb_configurations">>)
    IN  readVector([t EXCEPT !.o = ("configurations" :> <<>>) @@ @], "configurations",
                   t.o.nb_configurations, << >>, AVCAudioConfigurationDependentInformation_deserialize)

identifierSizes == <<"generation_ID", "size_of_list_ID", "size_of_object_ID", "size_of_object_position">>
AVCAudioIdentifierDescriptor_serialize(d) ==
    write(d, identifierSizes) \o write16(d.nb_lists) \o write16(d.dependent_length)
        \o (IF d.dependent_length = 0 THEN <<>> ELSE AVCAudioSubunitDependentInformation_serialize(d.info))
\* The loop over the bytes of a root object list tests the counter of the lists: it is
\* skipped when the list IDs have no bytes, and never ends otherwise.
RootListsEndless(kind, bytes) ==
    kind = "audio"
    /\ then(read16(reads([o |-> << >>, b |-> bytes, ok |-> TRUE], identifierSizes), "nb_lists"),
            LAMBDA t : t.ok /\ t.o.nb_lists > 0 /\ t.o.size_of_list_ID > 0)
AVCAudioIdentifierDescriptor_deserialize(s) ==
    LET t == read16s(reads(s, identifierSizes), <<"nb_lists", "dependent_length">>)
    IN  IF t.o.dependent_length = 0 THEN t
        ELSE nested(t, "info", << >>, AVCAudioSubunitDependentInformation_deserialize)

-----------------------------------------------------------------------------
Parse(kind, bytes) ==
    IF kind = "music"
    THEN AVCMusicStatusDescriptor_deserialize([o |-> NewMusicStatus, b |-> bytes, ok |-> TRUE])
    ELSE AVCAudioIdentifierDescriptor_deserialize([o |-> << >>, b |-> bytes, ok |-> TRUE])

Unparsed == [o |-> << >>, b |-> <<>>, ok |-> FALSE]
DescInit ==
    /\ descriptor \in Descriptors
    /\ open = FALSE /\ loading = "no" /\ descLength = 0 /\ descData = <<>>
    /\ loaded = FALSE /\ parsed = Unparsed /\ descFaults = 0

DescFault == descFaults < MaxDescFaults /\ descFaults' = descFaults + 1

\* load() on a descriptor that is loaded returns at once; otherwise it is opened for reading.
load ==
    /\ loading = "no"
    /\ \/ loaded /\ UNCHANGED <<open, loading, descFaults>>
       \/ ~loaded /\ open' = TRUE /\ loading' = "length" /\ UNCHANGED descFaults
       \/ ~loaded /\ DescFault /\ open' \in {open, TRUE} /\ UNCHANGED loading
    /\ UNCHANGED <<descriptor, descLength, descData, loaded, parsed>>

\* A failed command ends load() where it is; nothing closes the descriptor.
GiveUp == DescFault /\ loading' = "no" /\ UNCHANGED <<open, descLength, descData>>

\* The first two bytes are the length; then everything behind them is read.
ReadLength ==
    /\ loading = "length"
    /\ \/ /\ descLength' = Len(descriptor.bytes)
          /\ descData' = <<>>
          /\ loading' = IF descriptor.bytes = <<>> THEN "close" ELSE "data"
          /\ UNCHANGED <<open, descFaults>>
       \/ GiveUp
    /\ UNCHANGED <<descriptor, loaded, parsed>>

\* One turn of the reading loop: a piece of the device's choice, which may be longer than
\* what was asked for and is then cut, and whether it says there is more to read.
Address_first == 0
Address == Len(descData)
Truncated(data, left) == SubSeq(data, 1, left)
ReadData ==
    LET left == descLength - Len(descData)
        rest == SubSeq(descriptor.bytes, Address + 1, Len(descriptor.bytes))
        Finish(n) == IF n = left THEN "close" ELSE "data"
    IN
    /\ loading = "data"
    /\ \/ \E n \in 1..MaxPiece :
             /\ n <= left
             /\ descData' = descData \o SubSeq(rest, 1, n)
             /\ loading' = Finish(n) /\ UNCHANGED <<open, descLength, descFaults>>
       \/ DescFault /\ descData' = descData \o Truncated(rest \o <<255, 255>>, left)
          /\ loading' = "close" /\ UNCHANGED <<open, descLength>>
       \/ DescFault /\ UNCHANGED <<descData, loading, open, descLength>>
       \/ GiveUp
    /\ UNCHANGED <<descriptor, loaded, parsed>>

CloseAndParse ==
    /\ loading = "close"
    /\ \/ /\ open' = FALSE /\ RootListsEndless(descriptor.kind, descData)
          /\ loading' = "endless"
          /\ UNCHANGED <<descLength, descData, loaded, parsed, descFaults>>
       \/ /\ open' = FALSE /\ ~RootListsEndless(descriptor.kind, descData)
          /\ loading' = "no"
          /\ parsed' = Parse(descriptor.kind, descData)
          /\ loaded' = parsed'.ok
          /\ UNCHANGED <<descLength, descData, descFaults>>
       \/ GiveUp /\ UNCHANGED <<loaded, parsed>>
    /\ UNCHANGED descriptor

\* The parser pushes one more byte and tests the same counter again.
PushRootList == loading = "endless" /\ UNCHANGED descVars

DescNext == load \/ ReadLength \/ ReadData \/ CloseAndParse \/ PushRootList

-----------------------------------------------------------------------------
DescTypeOK ==
    /\ loading \in {"off", "no", "length", "data", "close", "endless"}
    /\ open \in BOOLEAN /\ loaded \in BOOLEAN
    /\ Len(descData) <= descLength

Agrees(got, want) == \A f \in DOMAIN want : f \in DOMAIN got /\ got[f] = want[f]
\* However the device cuts the descriptor into pieces, and whatever attempt it took, what is
\* loaded is the device's descriptor byte for byte, the descriptor is not left open, and none
\* is refused; every nested info block and optional name of it arrives in the objects when a
\* zero byte ends each of its names.  Where none does (descriptor.ended is FALSE) the length
\* of the text does not stop AVCRawTextInfoBlock and AVCNameInfoBlock, and their text is
\* something else.
LoadedIsDescriptor ==
    /\ loaded => /\ descData = descriptor.bytes
                 /\ Agrees(parsed.o, descriptor.object) <=> descriptor.ended
                 /\ ~open
    /\ parsed # Unparsed => loaded
=============================================================================
