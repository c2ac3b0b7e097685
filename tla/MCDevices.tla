------------------------------ MODULE MCDevices -----------------------------
(* The parts of the firmware around the buses and outputs, each on its own: a
   behaviour is one of the part that `part` names, the others stand still. *)
EXTENDS SpiBus, LinearDriver, Parser, Frames

MCPorts == {-1, 0, 3, 5}
MCAD5664Format == <<8, 0, 1>>
MCFormats == {<<8, 0, 1>>, <<16, 1, 0>>}
MCNumbers == {-1, 0, 1, 3}
MCFreqs == {0, 1, 2, 99, 511, 1525, 1526, 1527, 5000, 7000}
MCWords == {0, 1, 255, 256, 4660, 32767, 65535}

VARIABLE part

vars == <<part, busVars, lidVars, parserVars, frameVars>>

Init == /\ part \in {"bus", "driver", "parser", "frames"}
        /\ BusInit /\ LidInit /\ ParserInit /\ FramesInit

Next ==
    /\ UNCHANGED part
    /\ \/ part = "bus" /\ BusNext /\ UNCHANGED <<lidVars, parserVars, frameVars>>
       \/ part = "driver" /\ LidNext /\ UNCHANGED <<busVars, parserVars, frameVars>>
       \/ part = "parser" /\ ParserNext /\ UNCHANGED <<busVars, lidVars, frameVars>>
       \/ part = "frames" /\ FramesNext /\ UNCHANGED <<busVars, lidVars, parserVars>>

Spec == Init /\ [][Next]_vars
=============================================================================
