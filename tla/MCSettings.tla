----------------------------- MODULE MCSettings -----------------------------
(* What is kept in a device: the controls of the MOTU and the RME devices,   *)
(* and the firmware of the others.  A behaviour is about one subject; the    *)
(* others are off.                                                           *)
EXTENDS MotuDevice, RmeDevice, Firmware

CONSTANT SettingsSubjects  \* of {"motu", "rme", "firmware"}
VARIABLE subject

MCCells == {<<"in", 0, 0>>, <<"in", 0, 1>>, <<"out", 0, 0>>}

MotuOff ==
    /\ motu = [model |-> "off", focus |-> "off"] /\ regs = <<>> /\ motuJobs = <<>> /\ motuWant = <<>> /\ motuSpoiled = {}
    /\ motuPorts = <<>> /\ motuBudget = [ops |-> 0, faults |-> 0]
RmeOff ==
    /\ rme = [model |-> "off", focus |-> "off"] /\ procs = {} /\ soft = Closed /\ pend = <<>> /\ dev = <<>>
    /\ setTo = <<>> /\ stale = {} /\ saved = <<>> /\ rmeOps = 0
FwOff == fw = FwIdle /\ fwFlash = <<>> /\ fwRam = <<>> /\ fwBudget = [runs |-> 0, faults |-> 0]

SettingsInit ==
    /\ subject \in SettingsSubjects
    /\ \/ subject = "motu" /\ MotuInit /\ RmeOff /\ FwOff
       \/ subject = "rme" /\ RmeInit /\ MotuOff /\ FwOff
       \/ subject = "firmware" /\ FwInit /\ MotuOff /\ RmeOff
SettingsNext ==
    \/ subject = "motu" /\ MotuNext /\ UNCHANGED <<subject, rmeVars, fwVars>>
    \/ subject = "rme" /\ RmeNext /\ UNCHANGED <<subject, motuVars, fwVars>>
    \/ subject = "firmware" /\ FwNext /\ UNCHANGED <<subject, motuVars, rmeVars>>
SettingsSpec == SettingsInit /\ [][SettingsNext]_<<subject, motuVars, rmeVars, fwVars>>

(* What a control shows is what it was last set to, whatever the controls  *)
(* that share its register, its byte or its word were set to in between:   *)
(* the mixer, optical modes and clock of the MOTU devices (SettingsApart), *)
(* the settings and faders of the RME ones, the device's registers         *)
(* included (RmeControlsTold, RmeGainIsFader).  The ports of a MOTU stream *)
(* lie apart in the event for every optical mode and rate (PortsApart),    *)
(* and an RME device accepts each rate it offers (RmeOfferedIsAccepted).   *)
ShownIsSet ==
    IF subject = "motu" THEN SettingsApart /\ PortsApart
    ELSE subject = "rme" => RmeControlsTold /\ RmeGainIsFader /\ RmeOfferedIsAccepted
=============================================================================
