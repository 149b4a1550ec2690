--------------------------- MODULE MCDeviceManager ---------------------------
(* The device manager: the list of its devices, and their streams.  In the   *)
(* first subject there are two devices, one with a driver of its own and one *)
(* that only a generic probe recognises, and the client has named both; in   *)
(* the second, devices of different families on a bus with a few channels.   *)
(* A behaviour is about one subject; the other rests in an initial state.    *)
EXTENDS DeviceDiscovery, DeviceStreams

CONSTANT ManagerSubjects  \* of {"discovery", "streams"}
VARIABLE subject

MCTraits == <<[entry |-> "dice", motu |-> FALSE, answers |-> {"music"}],
              [entry |-> "none", motu |-> FALSE, answers |-> {"efc", "music"}]>>
MCStrings == <<1, 2>>

MCFamily == [a |-> "avc", d |-> "dice", m |-> "motu", f |-> "rme400", g |-> "rme800",
             p |-> "digidesign", b |-> "bounce", s |-> "slave"]
MCLists == {<<"d", "a">>, <<"f", "a">>, <<"m", "f">>, <<"g", "p">>, <<"b">>, <<"s">>}

DiscoveryOff == DiscoveryInit /\ ~slaveMode /\ node = [g \in Guids |-> Gone]
StreamsOff == StreamsInit /\ ~snoop /\ list = <<"b">>

ManagerInit ==
    /\ subject \in ManagerSubjects
    /\ \/ subject = "discovery" /\ DiscoveryInit /\ StreamsOff
       \/ subject = "streams" /\ StreamsInit /\ DiscoveryOff
ManagerNext ==
    \/ subject = "discovery" /\ DiscoveryNext /\ UNCHANGED <<subject, streamVars>>
    \/ subject = "streams" /\ StreamsNext /\ UNCHANGED <<subject, discoveryVars>>
ManagerSpec == ManagerInit /\ [][ManagerNext]_<<subject, discoveryVars, streamVars>>
=============================================================================
