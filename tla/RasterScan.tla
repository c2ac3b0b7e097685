----------------------------- MODULE RasterScan -----------------------------
(***************************************************************************)
(* What Scanner promises, without how the probe travels: the probe rests   *)
(* at a point; a move changes that point to the one asked for; a scan      *)
(* delivers its lines one by one and, whatever cuts it short, leaves the   *)
(* probe where it found it.                                                *)
(***************************************************************************)
EXTENDS Naturals

CONSTANTS Point, LineCount   \* the points, the possible numbers of lines

VARIABLES
    rest,    \* the point where the probe rests when nothing moves it
    ny,      \* the number of lines asked for
    mode,    \* "idle", "move" or "scan"
    lines    \* lines delivered by the scan

absVars == <<rest, ny, mode, lines>>

Init == rest \in Point /\ ny \in LineCount /\ mode = "idle" /\ lines = 0

Configure == mode = "idle" /\ ny' \in LineCount /\ UNCHANGED <<rest, mode, lines>>

BeginMove ==
    /\ mode = "idle" /\ mode' = "move"
    /\ rest' \in Point
    /\ UNCHANGED <<ny, lines>>
EndMove == mode = "move" /\ mode' = "idle" /\ UNCHANGED <<rest, ny, lines>>

BeginScan ==
    /\ mode = "idle" /\ mode' = "scan"
    /\ lines' = 0
    /\ UNCHANGED <<rest, ny>>
DeliverLine ==
    /\ mode = "scan" /\ lines < ny
    /\ lines' = lines + 1
    /\ UNCHANGED <<rest, ny, mode>>
EndScan ==
    /\ mode = "scan" /\ (lines = ny \/ lines > 0)
    /\ mode' = "idle"
    /\ UNCHANGED <<rest, ny, lines>>

Next == Configure \/ BeginMove \/ EndMove \/ BeginScan \/ DeliverLine \/ EndScan

Safety == Init /\ [][Next]_absVars

\* Moves and scans end.
Spec ==
    /\ Safety
    /\ WF_absVars(EndMove) /\ WF_absVars(DeliverLine \/ EndScan)
=============================================================================
