----------------------------- MODULE MCControls -----------------------------
(* The controls of the devices: the tree with its D-Bus mirror, one device   *)
(* of each family in turn, and the router and monitor of the DICE devices.   *)
(* A behaviour is about one subject; the others are off.                     *)
EXTENDS ControlTree, DiceEap

CONSTANT ControlSubjects  \* of {"tree", "router", "monitor"}
VARIABLE subject

MCMotuCtrls == <<[name |-> "Mainout", type |-> <<"mix_fader">>], [name |-> "Phones", type |-> <<"phones_src">>],
                 [name |-> "Ana1", type |-> <<"trimgain", "pad">>], [name |-> "Meter", type |-> <<"peakhold", "cliphold">>]>>

MCSources == {<<"1394/In", 2>>, <<"ADAT/In", 7>>}
MCDestinations == {<<"Line/Out", 2>>, <<"1394/Out", 11>>}

TreeOff ==
    /\ family = "off" /\ device = <<>> /\ attached = FALSE /\ nextId = Dev + 1 /\ freed = {} /\ member = <<>>
    /\ prog = <<>> /\ signal = NoSignal /\ mirror = {} /\ listening = {} /\ ctlLock = Free /\ updLock = Free
    /\ server = [pc |-> "start", target |-> Null, count |-> 0]
    /\ running = FALSE /\ sem = 0 /\ run = TRUE /\ updating = FALSE /\ updates = 0 /\ staleCall = FALSE /\ unheld = FALSE
EapOff ==
    /\ model = "off" /\ mode = "low" /\ named = <<>> /\ current = [m \in Modes |-> <<>>] /\ cache = current
    /\ flash = <<>> /\ staged = <<>> /\ app = <<>> /\ messages = 0 /\ want = <<>>
    /\ eapOps = 0 /\ unsure = {} /\ spoiled = {} /\ sent = {<<>>}

ControlsInit ==
    /\ subject \in ControlSubjects
    /\ CASE subject = "tree" -> TreeInit /\ EapOff
         [] subject = "router" -> EapInit /\ TreeOff
         [] subject = "monitor" -> MonitorInit /\ TreeOff
ControlsNext ==
    \/ subject = "tree" /\ TreeNext /\ UNCHANGED <<subject, eapVars>>
    \/ subject = "router" /\ RouterNext /\ UNCHANGED <<subject, treeVars>>
    \/ subject = "monitor" /\ MonitorNext /\ UNCHANGED <<subject, treeVars>>
ControlsSpec == ControlsInit /\ [][ControlsNext]_<<subject, treeVars, eapVars>>
=============================================================================
