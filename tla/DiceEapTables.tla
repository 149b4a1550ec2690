--------------------------- MODULE DiceEapTables ---------------------------
(***************************************************************************)
(* The routing tables of the DICE devices with the extended application    *)
(* protocol: the named sources and destinations of each model in each rate *)
(* mode, and the routes of its default configuration.  A row names `count` *)
(* ports of a block from `base` on, numbered from `offset`.                *)
(***************************************************************************)
EXTENDS Integers, Sequences, SequencesExt

Row(name, base, count, block, offset) ==
    [name |-> name, base |-> base, count |-> count, block |-> block, offset |-> offset]

\* The blocks of the router, as sources and as destinations.
eRouteSource == [AES |-> 0, ADAT |-> 1, Mixer |-> 2, InS0 |-> 4, InS1 |-> 5, ARM |-> 10, ARX0 |-> 11,
                 ARX1 |-> 12, Muted |-> 15]
eRouteDestination == [AES |-> 0, ADAT |-> 1, Mixer0 |-> 2, Mixer1 |-> 3, InS0 |-> 4, InS1 |-> 5, ARM |-> 10,
                      ATX0 |-> 11, ATX1 |-> 12, Muted |-> 15]

\* A port in a byte; a base beyond 15 runs into the next block.
SrcId(block, n) == (eRouteSource[block] * 16 + n) % 256
DstId(block, n) == (eRouteDestination[block] * 16 + n) % 256

\* Default routes, as pairs <<destination, source>>.
Line(n, s, sb, d, db) == [i \in 1..n |-> <<DstId(d, db + i - 1), SrcId(s, sb + i - 1)>>]
Pair(n, s, d)         == [i \in 1..n |-> <<DstId(d, i - 1), SrcId(s, (i - 1) % 2)>>]
Mute(n, d, db)        == [i \in 1..n |-> <<DstId(d, db + i - 1), SrcId("Muted", 0)>>]
Sink(n, s)            == [i \in 1..n |-> <<DstId("Muted", 0), SrcId(s, i - 1)>>]
MuteSink(n)           == [i \in 1..n |-> <<DstId("Muted", 0), SrcId("Muted", 0)>>]

Modes == {"low", "mid", "high"}
MuteRow == Row("Mute", 0, 1, "Muted", 0)
MixerOut == Row("Mixer/Out", 0, 16, "Mixer", 1)
MixerIn == <<Row("Mixer/In", 0, 16, "Mixer0", 1), Row("Mixer/In", 0, 2, "Mixer1", 17)>>

-----------------------------------------------------------------------------
\* A DICE JR or DICE mini without a driver of its own.
Sources_generic(jr) ==
    (IF jr THEN <<Row("InS1", 0, 8, "InS1", 1)>> ELSE <<>>)
    \o <<Row("AES", 0, 8, "AES", 1), Row("ADAT", 0, 8, "ADAT", 1), Row("MixerOut", 0, 16, "Mixer", 1),
         Row("InS0", 0, 8, "InS0", 1), Row("ARM", 0, 8, "ARM", 1), Row("1394_0", 0, 16, "ARX0", 1),
         Row("1394_1", 0, 16, "ARX1", 1), MuteRow>>
Destinations_generic(jr) ==
    (IF jr THEN <<Row("InS1", 0, 8, "InS1", 1)>> ELSE <<>>)
    \o <<Row("AES", 0, 8, "AES", 1), Row("ADAT", 0, 8, "ADAT", 1), Row("MixerIn", 0, 16, "Mixer0", 1),
         Row("MixerIn", 0, 2, "Mixer1", 17), Row("InS0", 0, 8, "InS0", 1), Row("ARM", 0, 8, "ARM", 1),
         Row("1394_0", 0, 16, "ATX0", 1), Row("1394_1", 0, 16, "ATX1", 1), Row("Mute", 0, 1, "Muted", 1)>>
Default_generic(jr) ==
    (IF jr THEN Line(8, "ARX0", 8, "InS1", 0) ELSE <<>>)
    \o Line(8, "InS0", 0, "ATX0", 0) \o Line(8, "InS1", 0, "ATX0", 8) \o Line(8, "ADAT", 0, "ATX1", 0)
    \o Line(8, "AES", 0, "ATX1", 8) \o Line(8, "ARX0", 0, "InS0", 0) \o Mute(8, "AES", 0) \o Mute(8, "ADAT", 0)
    \o Line(8, "InS0", 0, "Mixer0", 0) \o Line(8, "ADAT", 0, "Mixer0", 8) \o Mute(2, "Mixer0", 16)
    \o Mute(8, "ARM", 0) \o MuteSink(1)

-----------------------------------------------------------------------------
\* Focusrite Saffire PRO 14: the same at the low and mid rates.
Sources_pro14 ==
    <<Row("SPDIF/In", 6, 2, "AES", 1), Row("Mic/Lin/Inst", 0, 2, "InS0", 1), Row("Mic/Lin/In", 2, 2, "InS0", 3),
      MixerOut, Row("1394/In", 0, 12, "ARX0", 1), MuteRow>>
Destinations_pro14 ==
    <<Row("SPDIF/Out", 6, 2, "AES", 1), Row("Line/Out", 0, 4, "InS0", 1)>> \o MixerIn
    \o <<Row("1394/Out", 0, 6, "ATX0", 1), Row("Loop", 6, 2, "ATX0", 1)>>
Default_pro14 ==
    Line(4, "InS1", 0, "ATX0", 0) \o Line(2, "AES", 0, "ATX0", 4) \o Line(4, "ARX0", 0, "InS0", 0)
    \o Mute(2, "AES", 0) \o Mute(2, "ATX0", 6) \o Line(4, "InS1", 0, "Mixer0", 0)
    \o Line(2, "AES", 0, "Mixer0", 4) \o Mute(10, "Mixer0", 6) \o Line(2, "ARX0", 0, "Mixer1", 0) \o Sink(2, "Mixer")

\* Saffire PRO 24; there are no ports at the high rates.
Sources_pro24(mode) ==
    IF mode = "high" THEN <<>>
    ELSE <<Row("SPDIF/In", 6, 2, "AES", 1), Row("ADAT/In", 0, IF mode = "low" THEN 8 ELSE 4, "ADAT", 1),
           Row("Anlg/In", 0, 4, "InS0", 1), MixerOut, Row("1394/In", 0, 8, "ARX0", 1), MuteRow>>
Destinations_pro24(mode) ==
    IF mode = "high" THEN <<>>
    ELSE <<Row("SPDIF/Out", 6, 2, "AES", 1), Row("Line/Out", 0, 6, "InS0", 1)>> \o MixerIn
         \o <<Row("1394/Out", 0, IF mode = "low" THEN 16 ELSE 12, "ATX0", 1)>>
Pro24Inputs(adat) ==
    Line(2, "InS0", 2, "ATX0", 0) \o Line(2, "InS0", 0, "ATX0", 2) \o Line(2, "AES", 6, "ATX0", 4)
    \o Line(adat, "ADAT", 0, "ATX0", 6) \o Pair(6, "ARX0", "InS0") \o Mute(2, "AES", 6) \o Mute(2, "ATX0", adat + 6)
    \o Line(4, "InS0", 0, "Mixer0", 0) \o Line(2, "AES", 6, "Mixer0", 4) \o Line(adat, "ADAT", 0, "Mixer0", 6)
    \o Line(2, "ARX0", 0, "Mixer0", adat + 6)
Default_pro24_low == Pro24Inputs(8) \o Mute(2, "Mixer1", 0) \o Sink(2, "Mixer")
Default_pro24_mid == Pro24Inputs(4) \o Mute(4, "Mixer0", 12) \o Mute(2, "Mixer1", 0) \o Sink(2, "Mixer")

\* Saffire PRO 26.
Sources_pro26(mode) ==
    IF mode = "high" THEN <<>>
    ELSE <<Row("SPDIF/In", 4, 4, "AES", 1),
           IF mode = "low" THEN Row("ADAT/In", 8, 8, "ADAT", 1) ELSE Row("ADAT/In", 0, 4, "ADAT", 1),
           Row("Anlg/In", 0, 6, "InS0", 1), MixerOut, Row("1394/In", 0, 8, "ARX0", 1), MuteRow>>
Destinations_pro26(mode) ==
    IF mode = "high" THEN <<>>
    ELSE <<Row("SPDIF/Out", 6, 2, "AES", 1), Row("Line/Out", 0, 6, "InS0", 1)>> \o MixerIn
         \o <<Row("1394/Out", 0, 10, "ATX0", 1), Row("1394/Out", 0, IF mode = "low" THEN 8 ELSE 4, "ATX1", 11)>>
Pro26Inputs(adat) ==
    Line(6, "InS0", 0, "ATX0", 0) \o Line(2, "AES", 4, "ATX0", 6) \o Line(adat, "ADAT", 0, "ATX1", 0)
    \o Pair(6, "ARX0", "InS0") \o Mute(2, "AES", 6) \o Mute(2, "ATX0", 8) \o Line(6, "InS0", 0, "Mixer0", 0)
    \o Line(2, "AES", 4, "Mixer0", 6) \o Line(adat, "ADAT", 0, "Mixer0", 8)
Default_pro26_low == Pro26Inputs(8) \o Line(2, "ARX0", 0, "Mixer1", 0) \o Sink(2, "Mixer")
\* The muted rows of the mid rates count up from the mute port.
Default_pro26_mid == Pro26Inputs(4) \o Line(4, "Muted", 0, "Mixer0", 12) \o Line(2, "ARX0", 0, "Mixer1", 0)
                     \o Sink(2, "Mixer")

\* Saffire PRO 40 and Saffire 56: an ADAT port can be switched to optical SPDIF.
Sources_pro40(mode, adatspdif) ==
    IF mode = "high" THEN <<>>
    ELSE <<Row("SPDIF/In", 0, 2, "AES", 1),
           IF adatspdif THEN Row("SPDIF/In", 4, 2, "AES", 3)
           ELSE Row("ADAT/In", 0, IF mode = "low" THEN 8 ELSE 4, "ADAT", 1),
           Row("Mic/Lin/Inst", 0, 2, "InS1", 1), Row("Mic/Lin/In", 2, 6, "InS1", 3), MixerOut>>
         \o (IF mode = "low" THEN <<Row("1394/In", 0, 12, "ARX0", 1), Row("1394/In", 0, 8, "ARX1", 13)>>
             ELSE <<Row("1394/In", 0, 16, "ARX0", 1)>>) \o <<MuteRow>>
Destinations_pro40(mode, adatspdif) ==
    IF mode = "high" THEN <<>>
    ELSE <<Row("SPDIF/Out", 0, 2, "AES", 1)>>
         \o (IF adatspdif THEN <<>> ELSE <<Row("ADAT/Out", 0, IF mode = "low" THEN 8 ELSE 4, "ADAT", 1)>>)
         \o <<Row("Line/Out", 0, 2, "InS0", 1), Row("Line/Out", 0, 8, "InS1", 3)>> \o MixerIn
         \o (IF mode = "low"
             THEN <<Row("1394/Out", 0, 10, "ATX0", 1), Row("1394/Out", 0, 8, "ATX1", 11), Row("Loop", 8, 2, "ATX1", 1)>>
             ELSE <<Row("1394/Out", 0, 14, "ATX0", 1), Row("Loop", 14, 2, "ATX0", 1)>>)
Default_pro40_low ==
    Line(8, "InS1", 0, "ATX0", 0) \o Line(2, "AES", 0, "ATX0", 8) \o Line(8, "ADAT", 0, "ATX1", 0)
    \o Line(2, "ARX0", 0, "InS0", 0) \o Pair(8, "ARX0", "InS1") \o Mute(2, "AES", 0) \o Mute(8, "ADAT", 0)
    \o Mute(2, "ATX1", 8) \o Line(8, "InS1", 0, "Mixer0", 0) \o Line(8, "ADAT", 0, "Mixer0", 8)
    \o Line(2, "ARX0", 0, "Mixer1", 0) \o Sink(2, "Mixer")
Default_pro40_mid ==
    Line(8, "InS1", 0, "ATX0", 0) \o Line(2, "AES", 0, "ATX0", 8) \o Line(4, "ADAT", 0, "ATX0", 10)
    \o Line(2, "ARX0", 0, "InS0", 0) \o Pair(8, "ARX0", "InS1") \o Mute(2, "AES", 0) \o Mute(4, "ADAT", 0)
    \o Mute(2, "ATX0", 14) \o Line(8, "InS1", 0, "Mixer0", 0) \o Line(4, "ADAT", 0, "Mixer0", 8)
    \o Mute(4, "Mixer0", 12) \o Line(2, "ARX0", 0, "Mixer1", 0) \o Sink(2, "Mixer")

Sources_56(mode, adatspdif) ==
    IF mode = "high" THEN <<>>
    ELSE LET adat == IF mode = "low" THEN 16 ELSE 8
         IN  <<Row("SPDIF/In", 0, 2, "AES", 1),
               Row("ADAT/In", 0, IF adatspdif THEN adat \div 2 ELSE adat, "ADAT", 1)>>
             \o (IF adatspdif THEN <<Row("SPDIF/In", 4, 2, "AES", 3)>> ELSE <<>>)
             \o <<Row("Mic/Lin/Inst", 0, 2, "InS0", 1), Row("Mic/Lin/In", 2, 6, "InS1", 3), MixerOut,
                  Row("1394/In", 0, 16, "ARX0", 1), Row("1394/In", 0, IF mode = "low" THEN 12 ELSE 4, "ARX1", 17), MuteRow>>
Destinations_56(mode, adatspdif) ==
    IF mode = "high" THEN <<>>
    ELSE <<Row("SPDIF/Out", 0, 2, "AES", 1)>>
         \o (IF adatspdif THEN <<>> ELSE <<Row("ADAT/Out", 0, IF mode = "low" THEN 16 ELSE 4, "ADAT", 1)>>)
         \o <<Row("Line/Out", 0, 2, "InS0", 1), Row("Line/Out", 0, 8, "InS1", 3)>> \o MixerIn
         \o <<Row("1394/Out", 0, 16, "ATX0", 1), Row("1394/Out", 0, IF mode = "low" THEN 10 ELSE 2, "ATX1", 17),
              IF mode = "low" THEN Row("Loop", 10, 2, "ATX1", 27) ELSE Row("Loop", 2, 2, "ATX1", 1)>>
Out56(adat, loop) ==
    Line(2, "ARX0", 0, "InS0", 0) \o Pair(8, "ARX0", "InS1") \o Mute(2, "AES", 0) \o Mute(adat, "ADAT", 0)
    \o Mute(2, "ATX1", loop) \o Line(2, "InS0", 0, "Mixer0", 0) \o Line(6, "InS1", 2, "Mixer0", 2)
    \o Line(8, "ADAT", 0, "Mixer0", 8) \o Line(2, "ARX0", 0, "Mixer1", 0) \o Sink(2, "Mixer")
Default_56_low ==
    Line(2, "InS0", 0, "ATX0", 0) \o Line(6, "InS1", 2, "ATX0", 2) \o Line(2, "AES", 0, "ATX0", 8)
    \o Line(6, "ADAT", 0, "ATX0", 10) \o Line(10, "ADAT", 6, "ATX1", 0) \o Out56(16, 10)
Default_56_mid ==
    Line(2, "InS0", 0, "ATX0", 0) \o Line(6, "InS1", 2, "ATX0", 2) \o Line(2, "AES", 0, "ATX0", 8)
    \o Line(4, "ADAT", 0, "ATX0", 10) \o Line(4, "ADAT", 4, "ATX1", 0) \o Out56(8, 4)

-----------------------------------------------------------------------------
\* M-Audio ProFire 2626.
ProfireAdat == [low |-> 8, mid |-> 4, high |-> 2]
Sources_profire(mode) ==
    <<Row("Mic/Line/In", 0, 8, "InS1", 1), Row("ADAT A/In", 0, ProfireAdat[mode], "ADAT", 1),
      Row("ADAT B/In", IF mode = "low" THEN 9 ELSE ProfireAdat[mode], ProfireAdat[mode], "ADAT", 1),
      Row("SPDIF/In", 14, 2, "AES", 1), MixerOut, Row("1394/In", 0, 16, "ARX0", 1), Row("1394/In", 0, 10, "ARX1", 17), MuteRow>>
Destinations_profire(mode) ==
    <<Row("Line/Out", 0, 8, "InS1", 1), Row("ADAT A/Out", 0, ProfireAdat[mode], "ADAT", 1),
      Row("ADAT B/Out", ProfireAdat[mode], ProfireAdat[mode], "ADAT", 1), Row("SPDIF/Out", 0, 2, "AES", 1)>> \o MixerIn
    \o <<Row("1394/Out", 0, 16, "ATX0", 1), Row("1394/Out", 0, 10, "ATX1", 1), MuteRow>>
ProfireOut ==
    Line(8, "InS1", 0, "Mixer0", 0) \o Line(8, "ADAT", 0, "Mixer0", 8) \o Line(2, "AES", 0, "Mixer1", 0)
    \o Line(8, "ARX0", 0, "InS1", 2) \o Line(8, "ARX0", 8, "ADAT", 0) \o Line(8, "ARX1", 0, "ADAT", 8)
    \o Line(2, "ARX1", 8, "AES", 0) \o Sink(16, "Mixer")
Default_profire_low ==
    Line(8, "InS1", 0, "ATX0", 0) \o Line(8, "ADAT", 0, "ATX0", 8) \o Line(8, "ADAT", 8, "ATX1", 0)
    \o Line(2, "AES", 0, "ATX1", 8) \o ProfireOut
Default_profire_mid ==
    Line(8, "InS1", 0, "ATX0", 0) \o Line(4, "ADAT", 0, "ATX0", 8) \o Line(4, "ADAT", 4, "ATX1", 0)
    \o Line(2, "AES", 0, "ATX1", 8) \o ProfireOut

\* PreSonus FireStudio Mobile, Project and Tube: the same at the low and mid rates.
Sources_mobile ==
    <<Row("SPDIF/In", 2, 2, "AES", 1), Row("Mic/Inst/In", 0, 2, "InS0", 1), Row("Lin/In", 2, 6, "InS0", 3), MixerOut,
      Row("1394/In", 0, 6, "ARX0", 1), MuteRow>>
Destinations_mobile ==
    <<Row("SPDIF/Out", 2, 2, "AES", 1), Row("Line/Out", 0, 4, "InS0", 1)>> \o MixerIn
    \o <<Row("1394/Out", 0, 10, "ATX0", 1)>>
Default_mobile ==
    Line(8, "InS0", 0, "ATX0", 0) \o Line(2, "AES", 2, "ATX0", 8) \o MuteSink(22) \o Line(8, "InS0", 0, "Mixer0", 0)
    \o Line(2, "AES", 2, "Mixer0", 8) \o Line(6, "ARX0", 0, "Mixer0", 10) \o MuteSink(16)
    \o Line(4, "Mixer", 0, "InS0", 0) \o Line(2, "Mixer", 4, "AES", 2) \o MuteSink(12)
Sources_project ==
    <<Row("SPDIF/In", 2, 2, "AES", 1), Row("Mic/Inst/In", 0, 2, "InS0", 1), Row("Mic/Lin/In", 2, 6, "InS0", 3), MixerOut,
      Row("1394/In", 0, 10, "ARX0", 1), MuteRow>>
Destinations_project ==
    <<Row("SPDIF/Out", 2, 2, "AES", 1), Row("Line/Out", 0, 8, "InS0", 1)>> \o MixerIn
    \o <<Row("1394/Out", 0, 10, "ATX0", 1)>>
Default_project ==
    Line(8, "InS0", 0, "ATX0", 0) \o Line(2, "AES", 2, "ATX0", 8) \o MuteSink(22) \o Line(8, "InS0", 0, "Mixer0", 0)
    \o Line(2, "AES", 2, "Mixer0", 8) \o Line(6, "ARX0", 0, "Mixer0", 10) \o Line(2, "ARX0", 6, "Mixer1", 0)
    \o MuteSink(14) \o Line(8, "ARX0", 0, "InS0", 0) \o Line(2, "ARX0", 8, "AES", 2) \o MuteSink(8)
Sources_tube ==
    <<Row("Mic/Lin/In", 0, 8, "InS0", 1), Row("Line/In", 8, 6, "InS0", 9), Row("Tube/In", 14, 2, "InS0", 15), MixerOut,
      Row("1394/In", 0, 8, "ARX0", 1), MuteRow>>
Destinations_tube ==
    <<Row("Line/Out", 0, 6, "InS0", 1), Row("Head/Out", 6, 2, "InS0", 7)>> \o MixerIn
    \o <<Row("1394/Out", 0, 16, "ATX0", 1)>>
Default_tube ==
    Line(16, "InS0", 0, "ATX0", 0) \o MuteSink(16) \o Line(16, "InS0", 0, "Mixer0", 0) \o Line(2, "ARX0", 0, "Mixer1", 0)
    \o MuteSink(14) \o Line(8, "ARX0", 0, "InS0", 0) \o MuteSink(10)

-----------------------------------------------------------------------------
\* Only the generic driver and the ProFire have ports at the high rates.
Known(mode, rows) == IF mode = "high" THEN <<>> ELSE rows
setupSources(dev, mode, adatspdif) ==
    CASE dev = "jr" -> Sources_generic(TRUE)     [] dev = "mini" -> Sources_generic(FALSE)
      [] dev = "pro14" -> Known(mode, Sources_pro14)          [] dev = "pro24" -> Sources_pro24(mode)
      [] dev = "pro26" -> Sources_pro26(mode)    [] dev = "pro40" -> Sources_pro40(mode, adatspdif)
      [] dev = "56" -> Sources_56(mode, adatspdif) [] dev = "profire" -> Sources_profire(mode)
      [] dev = "mobile" -> Known(mode, Sources_mobile)        [] dev = "project" -> Known(mode, Sources_project)
      [] dev = "tube" -> Known(mode, Sources_tube)
setupDestinations(dev, mode, adatspdif) ==
    CASE dev = "jr" -> Destinations_generic(TRUE)   [] dev = "mini" -> Destinations_generic(FALSE)
      [] dev = "pro14" -> Known(mode, Destinations_pro14)        [] dev = "pro24" -> Destinations_pro24(mode)
      [] dev = "pro26" -> Destinations_pro26(mode)  [] dev = "pro40" -> Destinations_pro40(mode, adatspdif)
      [] dev = "56" -> Destinations_56(mode, adatspdif) [] dev = "profire" -> Destinations_profire(mode)
      [] dev = "mobile" -> Known(mode, Destinations_mobile)      [] dev = "project" -> Known(mode, Destinations_project)
      [] dev = "tube" -> Known(mode, Destinations_tube)
DefaultRoutes(dev, mode) ==
    CASE dev = "jr" -> Default_generic(TRUE)    [] dev = "mini" -> Default_generic(FALSE)
      [] mode = "high" -> <<>>
      [] dev = "pro14" -> Default_pro14         [] dev = "mobile" -> Default_mobile
      [] dev = "project" -> Default_project     [] dev = "tube" -> Default_tube
      [] dev = "pro24" -> (IF mode = "low" THEN Default_pro24_low ELSE Default_pro24_mid)
      [] dev = "pro26" -> (IF mode = "low" THEN Default_pro26_low ELSE Default_pro26_mid)
      [] dev = "pro40" -> (IF mode = "low" THEN Default_pro40_low ELSE Default_pro40_mid)
      [] dev = "56" -> (IF mode = "low" THEN Default_56_low ELSE Default_56_mid)
      [] dev = "profire" -> (IF mode = "low" THEN Default_profire_low ELSE Default_profire_mid)
=============================================================================
