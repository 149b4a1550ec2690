------------------------------ MODULE EfcCodec ------------------------------
(***************************************************************************)
(* The Echo Fireworks commands (EFC), which travel inside vendor dependent *)
(* AV/C commands.  An EFC frame is a sequence of 32 bit words in bus byte  *)
(* order: the length, a header of five words and the words of the command. *)
(* All of them carry the same AV/C opcode and subunit, so the AV/C layer   *)
(* cannot tell their answers apart: the category and the command can.      *)
(***************************************************************************)
EXTENDS AvcCodec

CONSTANT EFC_FLASH_SIZE_QUADS, POLLED_MAX_NB_METERS

EFC_HEADER_LENGTH_QUADLETS == 6
eERV_FlashBusy == 12

\* CondSwapToBus32 / CondSwapFromBus32 around a quadlet of the frame.
write32(v) == <<v \div 16777216, (v \div 65536) % 256, (v \div 256) % 256, v % 256>>
writes32(o, fs) == FoldLeft(LAMBDA acc, f : acc \o write32(o[f]), <<>>, fs)
\* A quadlet is read whole when the position is inside the frame at all.
read32(s, f) ==
    LET q == [i \in 1..4 |-> IF i <= Len(s.b) THEN s.b[i] ELSE 0]
    IN  IF s.b = <<>> THEN [s EXCEPT !.ok = FALSE]
        ELSE [o |-> (f :> 16777216 * q[1] + 65536 * q[2] + 256 * q[3] + q[4]) @@ s.o,
              b |-> SubSeq(s.b, 5, Len(s.b)), ok |-> s.ok]
reads32(s, fs) == FoldLeft(read32, s, fs)
readArray32(s, f, n) ==
    FoldLeft(LAMBDA t, i : then(read32(t, "q"),
                                LAMBDA u : [u EXCEPT !.o = (f :> Append(t.o[f], u.o.q)) @@ t.o]),
             [s EXCEPT !.o = (f :> <<>>) @@ @], [i \in 1..n |-> i])

header == <<"version", "seqnum", "category", "command", "retval">>

\* The words a command sends behind the header, and the ones it expects back.
FlashWords(o) ==
    CASE o.efc = "FlashErase"  -> [out |-> <<"address">>, in |-> <<>>]
      [] o.efc = "FlashRead"   -> [out |-> <<"address", "nb_quadlets">>, in |-> <<"address", "nb_quadlets">>]
      [] o.efc = "FlashWrite"  -> [out |-> <<"address", "nb_quadlets">>, in |-> <<>>]
      [] o.efc = "FlashLock"   -> [out |-> <<"lock">>, in |-> <<>>]
      [] o.efc = "FlashStatus" -> [out |-> <<>>, in |-> <<>>]
      [] OTHER                 -> [out |-> <<>>, in |-> <<"address">>]

HardwareCtrlWords(o) ==
    CASE o.efc = "GetClock"    -> [out |-> <<>>, in |-> <<"clock", "samplerate", "index">>]
      [] o.efc = "SetClock"    -> [out |-> <<"clock", "samplerate", "index">>,
                                   in |-> <<"clock", "samplerate", "index">>]
      [] o.efc = "GetFlags"    -> [out |-> <<>>, in |-> <<"flags">>]
      [] o.efc = "ChangeFlags" -> [out |-> <<"setmask", "clearmask">>, in |-> <<>>]
      [] OTHER                 -> [out |-> <<>>, in |-> <<>>]

IOConfigWords(o) == IF o.get THEN [out |-> <<>>, in |-> <<"value">>]
                             ELSE [out |-> <<"value">>, in |-> <<>>]
MixerWords(o) == IF o.get THEN [out |-> <<"channel">>, in |-> <<"channel", "value">>]
                          ELSE [out |-> <<"channel", "value">>, in |-> <<>>]
MonitorWords(o) == IF o.get THEN [out |-> <<"input", "output">>, in |-> <<"input", "output", "value">>]
                            ELSE [out |-> <<"input", "output", "value">>, in |-> <<>>]
PolledWords == [out |-> <<>>, in |-> <<"status", "spdif", "adat", "reserved3", "reserved4",
                                       "out_meters", "in_meters", "reserved5", "reserved6">>]

Flash == {"FlashErase", "FlashRead", "FlashWrite", "FlashLock", "FlashStatus", "FlashSession"}
Words(o) == CASE o.efc \in Flash      -> FlashWords(o)
              [] o.efc = "IOConfig"   -> IOConfigWords(o)
              [] o.efc = "Mixer"      -> MixerWords(o)
              [] o.efc = "Monitor"    -> MonitorWords(o)
              [] o.efc = "Polled"     -> PolledWords
              [] OTHER                -> HardwareCtrlWords(o)

\* The length is set before the header is written; the sequence number is a static counter.
EfcCmd_serialize(o, seqnum) ==
    LET data == IF o.efc = "FlashWrite" THEN o.data ELSE <<>>
        h == [version |-> o.version, seqnum |-> seqnum, category |-> o.category_id,
              command |-> o.command_id, retval |-> o.retval]
    IN  write32(EFC_HEADER_LENGTH_QUADLETS + Len(Words(o).out) + Len(data))
        \o writes32(h, header) \o writes32(o, Words(o).out) \o writeVector(data, write32)

\* The answer must name the version, the category and the command; nothing compares seqnum.
\* The rest is read whether the header was right or not.
EfcCmd_deserialize(s) ==
    then(reads32(read32(s, "length"), header), LAMBDA h :
         [h EXCEPT !.ok = /\ @ /\ h.o.version <= 1
                          /\ h.o.category = h.o.category_id /\ h.o.command = h.o.command_id])

EfcFlashReadCmd_deserialize(s) ==
    then(reads32(EfcCmd_deserialize(s), FlashWords(s.o).in), LAMBDA t :
         IF t.o.nb_quadlets > EFC_FLASH_SIZE_QUADS THEN [t EXCEPT !.ok = FALSE]
         ELSE readArray32(t, "data", t.o.nb_quadlets))

\* Firmware 5 of the AudioFire12 returns meter counts that cannot be: they are taken for none.
Meters(t) == IF t.o.out_meters + t.o.in_meters <= POLLED_MAX_NB_METERS THEN t
             ELSE [t EXCEPT !.o = ("out_meters" :> 0) @@ ("in_meters" :> 0) @@ @]
EfcPolledValuesCmd_deserialize(s) ==
    then(EfcCmd_deserialize(s), LAMBDA h :
         IF ~h.ok THEN h
         ELSE then(reads32(h, PolledWords.in), LAMBDA t :
              IF ~t.ok THEN t
              ELSE then(Meters(t), LAMBDA u :
                        readArray32(u, "meters", u.o.out_meters + u.o.in_meters))))

Efc_deserialize(s) ==
    CASE s.o.efc = "FlashRead" -> EfcFlashReadCmd_deserialize(s)
      [] s.o.efc = "Polled"    -> EfcPolledValuesCmd_deserialize(s)
      [] s.o.efc = "FlashStatus" ->
            then(EfcCmd_deserialize(s),
                 LAMBDA t : [t EXCEPT !.o = ("ready" :> t.o.retval # eERV_FlashBusy) @@ t.o])
      [] OTHER -> reads32(EfcCmd_deserialize(s), Words(s.o).in)

EfcOverAVCCmd_serialize(o, seqnum) ==
    VendorDependentCmd_serialize(o) \o <<o.dummy_1, o.dummy_2>> \o EfcCmd_serialize(o.cmd, seqnum)
EfcOverAVCCmd_deserialize(s) ==
    then(reads(VendorDependentCmd_deserialize(s), <<"dummy_1", "dummy_2">>),
         LAMBDA t : IF ~t.ok THEN t ELSE nested(t, "cmd", t.o.cmd, Efc_deserialize))
=============================================================================
