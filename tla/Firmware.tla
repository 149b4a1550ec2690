------------------------------ MODULE Firmware ------------------------------
(***************************************************************************)
(* What replaces the firmware of a device: the BridgeCo bootloader         *)
(* protocol of the BeBoB devices, the flash commands of the Fireworks      *)
(* devices (a firmware, or a session), and the firmware loader of the DICE *)
(* devices.  A tool runs several times on a device; each of its steps may  *)
(* fail, be refused by the device, or be spoilt by the device without      *)
(* notice, and a run that fails leaves the flash as it is at that moment.  *)
(*                                                                         *)
(* An image is a sequence of pieces, a block, a quadlet or a whole packet  *)
(* of the protocol; a CRC is taken to tell any two contents apart.         *)
(***************************************************************************)
EXTENDS Integers, Sequences, FiniteSets

CONSTANTS
  FwTools,       \* of {"bebob", "fireworks", "session", "dice"}
  Images,        \* the files a run may bring
  Pieces,        \* the pieces of an image
  EraseBlock,    \* cells that a Fireworks device erases together
  MaxEraseTries, \* max_nb_tries of eraseFlashBlocks
  MaxFwRuns,     \* bound: runs of the tool
  MaxFwFaults    \* bound: steps that fail or are spoilt

ASSUME FirmwareAssumption ==
  /\ FwTools \subseteq {"bebob", "fireworks", "session", "dice"}
  /\ {Pieces, EraseBlock} \subseteq Nat \ {0} /\ {MaxEraseTries, MaxFwRuns, MaxFwFaults} \subseteq Nat

VARIABLES
  fw,        \* the run of the tool
  fwFlash,   \* the flash memory of the device, by cell
  fwRam,     \* the upload buffer of a DICE device
  fwBudget   \* runs and faults left

fwVars == <<fw, fwFlash, fwRam, fwBudget>>

Erased == <<"erased", 0>>
Junk == <<"junk", 0>>
Was(c) == <<"was", c>>
FwCells == 1..(2 * Pieces + EraseBlock)
Piece(img, obj, p) == <<img, obj, p>>

\* The cells of an object: the application, then the configuration of a BeBoB device.
CellOf(obj, p) == IF obj = "cne" THEN Pieces + p ELSE fw.base + p
ObjectCells(obj) == {CellOf(obj, p) : p \in 1..Pieces}
Objects == CASE fw.op = "firmware" -> {"app", "cne"} [] fw.op = "cne" -> {"cne"} [] OTHER -> {"app"}

FwIdle == [tool |-> "off", op |-> "none", img |-> "none", base |-> 0, pc |-> "idle", obj |-> "app", i |-> 1,
           ok |-> TRUE, tries |-> 0, left |-> 0, trailer |-> FALSE, prev |-> <<>>, hurt |-> {}, calm |-> TRUE,
           deaf |-> FALSE]

FwInit ==
  /\ \E tool \in FwTools : fw = [FwIdle EXCEPT !.tool = tool]
  /\ fwFlash = [c \in FwCells |-> Was(c)] /\ fwRam = [p \in 1..Pieces |-> Was(p)]
  /\ fwBudget = [runs |-> MaxFwRuns, faults |-> MaxFwFaults]

To(pc) == fw' = [fw EXCEPT !.pc = pc]
Is(tools, pc) == fw.tool \in tools /\ fw.pc = pc
\* A fault; the run is no longer undisturbed.
FwFault == fwBudget.faults > 0 /\ fwBudget' = [fwBudget EXCEPT !.faults = @ - 1]
NoFault == UNCHANGED fwBudget
Disturbed(pc) == fw' = [fw EXCEPT !.pc = pc, !.calm = FALSE]
\* A fault that the tool does not notice, for it drops the result of the call.
Deaf(pc) == fw' = [fw EXCEPT !.pc = pc, !.calm = FALSE, !.deaf = TRUE]
Fails == FwFault /\ Disturbed("failed") /\ UNCHANGED <<fwFlash, fwRam>>
\* Programming clears bits: only an erased cell takes any value.
Programmed(c, v) == IF fwFlash[c] \in {Erased, v} THEN v ELSE Junk

\* The arguments of a run.  The address is that of the file; a trailer of CRC and
\* version follows the payload when the footprint is larger than it.
begin ==
  /\ fw.pc \in {"idle", "success", "failed", "refused"} /\ fwBudget.runs > 0
  /\ fwBudget' = [fwBudget EXCEPT !.runs = @ - 1]
  /\ \E img \in Images, op \in CASE fw.tool = "bebob" -> {"firmware", "cne"} [] OTHER -> {fw.tool},
        base \in IF fw.tool = "fireworks" THEN {0, 1} ELSE {0}, trailer \in IF fw.tool = "fireworks" THEN BOOLEAN ELSE {FALSE} :
       fw' = [FwIdle EXCEPT !.tool = fw.tool, !.op = op, !.img = img, !.base = base, !.pc = "check",
                            !.trailer = trailer, !.obj = IF op = "cne" THEN "cne" ELSE "app"]
  /\ UNCHANGED <<fwFlash, fwRam>>

\* The file is parsed and compared with the device; the DICE loader takes any file.
checkDeviceCompatibility ==
  /\ fw.pc = "check"
  /\ \/ To(CASE fw.tool = "bebob" -> "boot" [] fw.tool = "dice" -> "upload" [] OTHER -> "lock")
     \/ fw.tool # "dice" /\ To("refused")
  /\ NoFault /\ UNCHANGED <<fwFlash, fwRam>>

(***************************************************************************)
(* BeBoB: BootloaderManager.                                               *)
(***************************************************************************)
\* The bus reset of the device that starts its bootloader wakes the waiting thread,
\* if it waits already; otherwise it waits for another one.
startBootloaderCmd ==
  /\ Is({"bebob"}, "boot")
  /\ \/ To("boot_wait") /\ NoFault
     \/ FwFault /\ Disturbed("boot_missed")
     \/ FwFault /\ Disturbed("failed")
  /\ UNCHANGED <<fwFlash, fwRam>>

waitForBusReset ==
  /\ \/ Is({"bebob"}, "boot_wait") /\ NoFault
     \/ Is({"bebob"}, "boot_missed") /\ FwFault
  /\ To("boot_info") /\ UNCHANGED <<fwFlash, fwRam>>

cacheInfoRegisters ==
  /\ Is({"bebob"}, "boot_info")
  /\ \/ To("start") /\ NoFault
     \/ FwFault /\ Disturbed("failed")
  /\ UNCHANGED <<fwFlash, fwRam>>

\* The start of a download erases the object, also when its answer is lost.
download_start ==
  /\ Is({"bebob"}, "start")
  /\ \/ Fails
     \/ /\ fwFlash' = [c \in FwCells |-> IF c \in ObjectCells(fw.obj) THEN Erased ELSE fwFlash[c]]
        /\ UNCHANGED fwRam
        /\ \/ fw' = [fw EXCEPT !.pc = "block", !.i = 1, !.ok = TRUE] /\ NoFault
           \/ FwFault /\ Disturbed("failed")

\* A block: the data, which must arrive; the request and its answer, with a wrong
\* sequence number or an error code, or not at all, after which the end is sent.
Stores(v) == fwFlash' = [fwFlash EXCEPT ![CellOf(fw.obj, fw.i)] = Programmed(CellOf(fw.obj, fw.i), v)]
download_block ==
  /\ Is({"bebob"}, "block") /\ fw.i <= Pieces
  /\ UNCHANGED fwRam
  /\ \/ Fails
     \/ /\ fw' = [fw EXCEPT !.i = @ + 1] /\ NoFault
        /\ Stores(Piece(fw.img, fw.obj, fw.i))
     \/ /\ FwFault /\ fw' = [fw EXCEPT !.i = @ + 1, !.calm = FALSE]
        /\ Stores(Junk)
     \/ /\ FwFault /\ fw' = [fw EXCEPT !.pc = "end", !.ok = FALSE, !.calm = FALSE]
        /\ Stores(Piece(fw.img, fw.obj, fw.i)) \/ UNCHANGED fwFlash

download_blocks_end ==
  /\ Is({"bebob"}, "block") /\ fw.i > Pieces
  /\ To("end") /\ NoFault /\ UNCHANGED <<fwFlash, fwRam>>

\* The answer to the end: the CRC of what the device holds, and whether it takes the
\* object for valid.  Results of sending and reading are ignored: a stale answer is
\* that of the last block, whose error code 0 means invalid here; the fields of an
\* answer that was not read are what the call for the other object left, or nothing.
Content(obj) == [p \in 1..Pieces |-> fwFlash[CellOf(obj, p)]]
ImageOf(obj) == [p \in 1..Pieces |-> Piece(fw.img, obj, p)]
Answer(crc, valid) == [crc |-> crc, valid |-> valid]
Answered == {Answer(Content(fw.obj), v) : v \in BOOLEAN}
Unanswered == {Answer(<<<<"seq", Pieces>>>>, FALSE), Answer(<<>>, FALSE), Answer(fw.prev, TRUE)}

download_end ==
  /\ Is({"bebob"}, "end")
  /\ \E a \in Answered \cup Unanswered :
       /\ IF a \in Answered /\ (a.valid \/ Content(fw.obj) # ImageOf(fw.obj)) THEN NoFault ELSE FwFault
       /\ LET ok == fw.ok /\ a.valid /\ a.crc = ImageOf(fw.obj) IN
          fw' = [fw EXCEPT !.pc = IF ~ok THEN "failed" ELSE IF fw.op = "firmware" /\ fw.obj = "app" THEN "start" ELSE "finish",
                           !.obj = "cne", !.prev = a.crc, !.ok = ok, !.calm = @ /\ fwBudget' = fwBudget]
  /\ UNCHANGED <<fwFlash, fwRam>>

\* initializeConfigToFactorySettingCmd and startApplicationCmd are sent, and no more.
startApplicationCmd ==
  /\ Is({"bebob"}, "finish")
  /\ \/ To("success") /\ NoFault
     \/ FwFault /\ Disturbed("failed")
  /\ UNCHANGED <<fwFlash, fwRam>>

(***************************************************************************)
(* Fireworks: the upload of a firmware, and of a session.                  *)
(***************************************************************************)
Efc == {"fireworks", "session"}
BlockStart(c) == c - ((c - 1) % EraseBlock)

lockFlash ==
  /\ Is(Efc, "lock")
  /\ \/ fw' = [fw EXCEPT !.pc = "erase", !.i = BlockStart(fw.base + 1), !.left = Pieces, !.ok = TRUE, !.tries = 0] /\ NoFault
     \/ FwFault /\ Disturbed("failed")
  /\ UNCHANGED <<fwFlash, fwRam>>

\* One turn of eraseFlashBlocks: erase (an error, or "busy", which counts as done),
\* wait, read back.  A turn that failed is repeated, but success stays false.  Of a read
\* that stalls readFlash says that it is complete (ntries ends at -1, and is compared
\* with 0): what the buffer held before is compared.
Least(a, b) == IF a < b THEN a ELSE b
eraseFlashBlocks ==
  LET n == Least(EraseBlock, fw.left)
      Turn(ok) == IF ok THEN [fw EXCEPT !.tries = 0, !.left = @ - n,
                                        !.i = IF fw.left = n THEN 1 ELSE @ + EraseBlock,
                                        !.pc = IF fw.left = n THEN "write" ELSE "erase"]
                  ELSE [fw EXCEPT !.ok = FALSE, !.tries = @ + 1,
                                  !.pc = IF fw.tries >= MaxEraseTries THEN "failed" ELSE "erase"]
      Emptied == [c \in FwCells |-> IF c \in fw.i..(fw.i + EraseBlock - 1) THEN Erased ELSE fwFlash[c]]
  IN
  /\ Is(Efc, "erase") /\ UNCHANGED fwRam
  /\ \/ fwFlash' = Emptied /\ fw' = Turn(fw.ok) /\ NoFault
     \/ /\ FwFault /\ UNCHANGED fwFlash
        /\ LET empty == \A c \in fw.i..(fw.i + n - 1) : fwFlash[c] = Erased IN
           \E busy \in BOOLEAN, stalled \in BOOLEAN :
             fw' = [Turn(fw.ok /\ busy /\ (empty \/ stalled)) EXCEPT !.calm = FALSE, !.deaf = @ \/ stalled]
     \/ /\ FwFault /\ Disturbed("failed")
        /\ fwFlash' = fwFlash \/ fwFlash' = Emptied

\* The payload, then the trailer when there is one.
writeFlash ==
  LET last == Pieces + IF fw.trailer THEN 1 ELSE 0
      c == fw.base + fw.i
      Next_(hurt, calm) == [fw EXCEPT !.i = @ + 1, !.pc = IF fw.i = last THEN "unlock" ELSE "write",
                                      !.hurt = @ \cup hurt, !.calm = @ /\ calm]
  IN
  /\ Is(Efc, "write") /\ UNCHANGED fwRam
  /\ \/ /\ fwFlash' = [fwFlash EXCEPT ![c] = Programmed(c, Piece(fw.img, "app", fw.i))]
        /\ fw' = Next_({}, TRUE) /\ NoFault
     \/ /\ fwFlash' = [fwFlash EXCEPT ![c] = Junk]
        /\ fw' = Next_({c}, FALSE) /\ FwFault
     \/ Fails

unlockFlash ==
  /\ Is(Efc, "unlock")
  /\ \/ To(IF fw.tool = "session" THEN "success" ELSE "verify") /\ NoFault
     \/ FwFault /\ Disturbed("failed")
  /\ UNCHANGED <<fwFlash, fwRam>>

\* The payload is read back and compared; nothing is compared after a failed read.
\* A read that stalls counts as complete, with what the buffer held before.  A comparison
\* with what was really read makes up for a stalled read of the erase loop.
verify ==
  /\ Is({"fireworks"}, "verify")
  /\ \/ /\ fw' = [fw EXCEPT !.pc = IF Content("app") = ImageOf("app") THEN "success" ELSE "failed", !.deaf = FALSE]
        /\ NoFault
     \/ FwFault /\ \E seen \in {"failed", "success"} : Deaf(seen)
  /\ UNCHANGED <<fwFlash, fwRam>>

(***************************************************************************)
(* DICE: flashDiceFL.                                                      *)
(***************************************************************************)
\* A piece goes to the buffer of the device: its place, its data, the request.  What the
\* device does with it may go wrong; and the results of the register writes are ignored:
\* when one is lost the piece goes to the place of an earlier one, data of an earlier one
\* goes to its place, or nothing happens and the status is that of the request before.
upload ==
  LET More(calm) == [fw EXCEPT !.i = @ + 1, !.pc = IF fw.i = Pieces THEN "stat" ELSE "upload", !.calm = @ /\ calm] IN
  /\ Is({"dice"}, "upload") /\ UNCHANGED fwFlash
  /\ \/ fwRam' = [fwRam EXCEPT ![fw.i] = Piece(fw.img, "app", fw.i)] /\ fw' = More(TRUE) /\ NoFault
     \/ fwRam' = [fwRam EXCEPT ![fw.i] = Junk] /\ fw' = More(FALSE) /\ FwFault
     \/ /\ \E p \in 1..Pieces : \/ fwRam' = [fwRam EXCEPT ![p] = Piece(fw.img, "app", fw.i)]
                               \/ fwRam' = [fwRam EXCEPT ![fw.i] = fwRam[p]]
        /\ fw' = [More(FALSE) EXCEPT !.deaf = TRUE] /\ FwFault
     \/ FwFault /\ Disturbed("failed") /\ UNCHANGED fwRam

\* The checksum is a sum of bytes: it does not see the order of the pieces.  When an
\* access is lost here, what is read as the checksum is the size, an index or a status.
upload_stat_unchecked ==
  /\ Is({"dice"}, "stat")
  /\ \/ To("confirm") /\ NoFault
     \/ FwFault /\ Disturbed("failed")
  /\ UNCHANGED <<fwFlash, fwRam>>

upload_stat ==
  /\ Is({"dice"}, "stat")
  /\ \/ To(IF {fwRam[p] : p \in 1..Pieces} = {Piece(fw.img, "app", p) : p \in 1..Pieces} THEN "confirm" ELSE "failed") /\ NoFault
     \/ FwFault /\ Disturbed("failed")
  /\ UNCHANGED <<fwFlash, fwRam>>

confirm ==
  /\ Is({"dice"}, "confirm")
  /\ To("delete") \/ To("refused")
  /\ NoFault /\ UNCHANGED <<fwFlash, fwRam>>

\* What deleteImgFL returns is ignored.
deleteImgFL ==
  /\ Is({"dice"}, "delete") /\ UNCHANGED fwRam
  /\ \/ /\ fwFlash' = [c \in FwCells |-> IF c \in ObjectCells("app") THEN Erased ELSE fwFlash[c]]
        /\ To("create") /\ NoFault
     \/ FwFault /\ Disturbed("create") /\ UNCHANGED fwFlash

\* The device refuses to create an image that exists.  When the request is lost its status
\* is taken to be that of the deletion; when its parameters are lost, the image is another.
create_image ==
  /\ Is({"dice"}, "create") /\ UNCHANGED fwRam
  /\ \/ /\ \A c \in ObjectCells("app") : fwFlash[c] = Erased
        /\ fwFlash' = [c \in FwCells |-> IF c \in ObjectCells("app") THEN fwRam[c] ELSE fwFlash[c]]
        /\ To("success") /\ NoFault
     \/ /\ \E c \in ObjectCells("app") : fwFlash[c] # Erased
        /\ To("failed") /\ NoFault /\ UNCHANGED fwFlash
     \/ Fails
     \/ /\ FwFault /\ Deaf("success")
        /\ \/ UNCHANGED fwFlash
           \/ /\ \A c \in ObjectCells("app") : fwFlash[c] = Erased
              /\ fwFlash' = [c \in FwCells |-> IF c \in ObjectCells("app") THEN Junk ELSE fwFlash[c]]

FwNext == \/ begin \/ checkDeviceCompatibility
          \/ startBootloaderCmd \/ waitForBusReset \/ cacheInfoRegisters
          \/ download_start \/ download_block \/ download_blocks_end \/ download_end \/ startApplicationCmd
          \/ lockFlash \/ eraseFlashBlocks \/ writeFlash \/ unlockFlash \/ verify
          \/ upload \/ upload_stat \/ confirm \/ deleteImgFL \/ create_image
FwSpec == FwInit /\ [][FwNext]_fwVars

(***************************************************************************)
(* The inductive invariant: what each tool may rely on at each of its      *)
(* steps, for the part of a run that is still in force.                    *)
(***************************************************************************)
Values == {Erased, Junk} \cup {Was(c) : c \in Nat}
          \cup {Piece(img, obj, p) : img \in Images, obj \in {"app", "cne"}, p \in Nat}
Outcomes == {"idle", "success", "failed", "refused"}
PcsOf(tool) ==
  CASE tool = "bebob" -> {"boot", "boot_wait", "boot_missed", "boot_info", "start", "block", "end", "finish"}
    [] tool = "fireworks" -> {"lock", "erase", "write", "unlock", "verify"}
    [] tool = "session" -> {"lock", "erase", "write", "unlock"}
    [] OTHER -> {"upload", "stat", "confirm", "delete", "create"}

FwTypeOK ==
  /\ fw \in [tool : FwTools, op : {"none", "firmware", "cne", "fireworks", "session", "dice"},
             img : Images \cup {"none"}, base : {0, 1}, pc : Outcomes \cup {"check"} \cup UNION {PcsOf(t) : t \in FwTools},
             obj : {"app", "cne"}, i : Nat, ok : BOOLEAN, tries : Nat, left : Nat, trailer : BOOLEAN,
             prev : {<<>>, <<<<"seq", Pieces>>>>} \cup [1..Pieces -> Values], hurt : SUBSET Nat, calm : BOOLEAN,
             deaf : BOOLEAN]
  /\ fwFlash \in [FwCells -> Values] /\ fwRam \in [1..Pieces -> Values]
  /\ fwBudget \in [runs : Nat, faults : Nat]

\* The step belongs to the tool, and the object to the operation.
RunInv ==
  /\ fw.pc \in Outcomes \cup {"check"} \cup PcsOf(fw.tool)
  /\ fw.tool # "fireworks" => fw.base = 0
  /\ fw.pc = "check" => fw.i = 1 /\ ~fw.deaf
  /\ fw.pc # "idle" => /\ fw.img \in Images
                       /\ IF fw.tool = "bebob" THEN fw.op \in {"firmware", "cne"} ELSE fw.op = fw.tool
  /\ fw.op = "cne" => fw.obj = "cne"
  /\ fw.tool # "bebob" => fw.obj = "app"

Whole(obj) == \A p \in 1..Pieces : fwFlash[CellOf(obj, p)] = Piece(fw.img, obj, p)

\* While the second object is sent the first one is in place, and the end answer that
\* is remembered is the one for it.  An undisturbed run has sent all it says it has.
BebobInv ==
  fw.tool = "bebob" =>
    /\ fw.pc \in (PcsOf("bebob") \cup {"check"}) \ {"finish"} =>
         IF fw.op = "firmware" /\ fw.obj = "cne" THEN Whole("app") /\ fw.prev = ImageOf("app") ELSE fw.prev = <<>>
    /\ fw.pc = "block" =>
         /\ fw.i \in 1..(Pieces + 1) /\ fw.ok
         /\ fw.calm => \A p \in 1..Pieces :
              fwFlash[CellOf(fw.obj, p)] = IF p < fw.i THEN Piece(fw.img, fw.obj, p) ELSE Erased
    /\ fw.pc = "end" /\ fw.calm => fw.ok /\ Whole(fw.obj)
    /\ fw.pc \in {"finish", "success"} => \A obj \in Objects : Whole(obj)

\* The erase loop has erased what it has passed, and the write loop has written it,
\* for an image that begins with an erase block, unless a stalled read went unnoticed.
FlashWritten(p) == fwFlash[p] = Piece(fw.img, "app", p) \/ p \in fw.hurt
EfcInv ==
  fw.tool \in Efc =>
    /\ fw.pc \in {"check", "lock", "erase", "write", "unlock", "verify"} /\ fw.calm => fw.hurt = {} /\ ~fw.deaf
    /\ fw.pc = "erase" =>
         /\ fw.left \in 1..Pieces /\ (fw.calm => fw.ok)
         /\ fw.base = 0 => /\ fw.i = Pieces - fw.left + 1
                           /\ ~fw.deaf => \A c \in 1..(fw.i - 1) : fwFlash[c] = Erased
    /\ fw.pc = "write" =>
         /\ fw.i \in 1..(Pieces + IF fw.trailer THEN 1 ELSE 0)
         /\ fw.base = 0 /\ ~fw.deaf => \A p \in 1..Pieces : IF p < fw.i THEN FlashWritten(p) ELSE fwFlash[p] = Erased
    /\ fw.pc \in {"unlock", "verify"} /\ fw.base = 0 /\ ~fw.deaf => \A p \in 1..Pieces : FlashWritten(p)

\* A piece in the buffer of the device is right or visibly wrong, unless a register write
\* was lost in this run; once the checksum has been compared all are right.
DiceInv ==
  fw.tool = "dice" =>
    /\ fw.pc = "upload" => fw.i \in 1..Pieces
    /\ fw.pc \in {"upload", "stat"} =>
         /\ fw.calm => ~fw.deaf
         /\ ~fw.deaf => \A p \in 1..Pieces : (fw.pc = "upload" => p < fw.i) =>
              fwRam[p] \in {Piece(fw.img, "app", p)} \cup (IF fw.calm THEN {} ELSE {Junk})
    /\ fw.pc \in {"confirm", "delete", "create"} /\ ~fw.deaf => \A p \in 1..Pieces : fwRam[p] = Piece(fw.img, "app", p)
    /\ fw.pc = "create" /\ fw.calm => \A p \in 1..Pieces : fwFlash[p] = Erased

(***************************************************************************)
(* Properties.                                                             *)
(***************************************************************************)
\* A run that reports success has left the objects of its file in the flash, whatever
\* failed before in it and however earlier runs ended: the CRC of the end answer of the
\* bootloader (bebob_dl_mgr.cpp:521-540), the comparison after a Fireworks upload
\* (fireworks-downloader.cpp:407-425), the checksum and the status of the DICE loader
\* (dice_firmware_loader.cpp:484-530) would tell.  This is not so after a failure in the
\* same run whose result the code drops, and nothing is claimed of such a run: a lost
\* register write of the DICE loader (dice_firmware_loader.cpp:425-428, 514-516), a read
\* of a Fireworks device that stalls (fireworks_device.cpp:850-852).  A session is not
\* read back: it is right except for cells that the device itself spoilt.
FlashIsImage ==
  fw.pc = "success" /\ ~fw.deaf =>
    \A obj \in Objects, p \in 1..Pieces :
      \/ fw.tool = "session" /\ CellOf(obj, p) \in fw.hurt
      \/ fwFlash[CellOf(obj, p)] = Piece(fw.img, obj, p)

\* A run that nothing disturbs succeeds, whatever an earlier run left behind: a flash
\* half written, erased or locked.  (Not for an image that begins inside an erase
\* block, where eraseFlashBlocks leaves the end of the image unerased.)
RetrySucceeds == fw.pc = "failed" /\ fw.calm => fw.base # 0

\* Both: a reported success is real, and failure is never for good.
UpdateIsWhole == FlashIsImage /\ RetrySucceeds

FwIInv == FwTypeOK /\ RunInv /\ BebobInv /\ EfcInv /\ DiceInv /\ UpdateIsWhole

\* The trailer of a Fireworks image is written too (the footprint is neither erased
\* nor read back: fireworks_firmware.cpp:380-401, fireworks-downloader.cpp:387, 413).
TrailerIsWritten ==
  (fw.pc = "success" /\ fw.trailer) => fwFlash[fw.base + Pieces + 1] = Piece(fw.img, "app", Pieces + 1)
=============================================================================
