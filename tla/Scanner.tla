------------------------------ MODULE Scanner -------------------------------
(***************************************************************************)
(* class Scanner: the probe is moved point by point over a raster, one DAC *)
(* step at a time, and one line of samples is sent after the other. Core 0 *)
(* runs all of it without looking at the commands; core 1 raises           *)
(* MICRO_SCAN and STOP_ALL meanwhile, and STOP_ALL is looked at once per   *)
(* line. Positions are uint16_t: they wrap at Modulus (65536 in the code). *)
(*                                                                         *)
(* A sample is abstracted to the point at which it is taken. Of the        *)
(* configuration, path and method are never read and the delays only last. *)
(***************************************************************************)
EXTENDS Integers, Sequences

CONSTANTS Modulus,   \* 2^16 in the code
          Configs,   \* the configurations the host sends
          Targets    \* the points the host sends the probe to

Coordinate == 0..(Modulus - 1)
Point == [x : Coordinate, y : Coordinate]
Config == [nPoints_x : Nat, nPoints_y : Nat, betweenPoints_x : Nat,
           betweenPoints_y : Nat, flag : Nat]

ASSUME ScannerAssumption ==
    /\ Modulus \in Nat \ {0}
    /\ Configs \subseteq Config
    /\ Targets \subseteq Point

VARIABLES
    pc,          \* core 0: where it is; "loop" outside of the scanner
    pos_,        \* the position
    prev_point,  \* where the scan started
    conf_,       \* the configuration
    target,      \* the point move_to is heading for
    inScan,      \* move_to was called by stop_scan
    i, j, k,     \* the loop counters of start_scan
    vector_z,    \* the samples of the line
    other_info,  \* the samples of the second channel
    lines,       \* lines sent by this scan
    MICRO_SCAN, STOP_ALL,
    rx,          \* core 1: "stopAll" between its two assignments
    dac,         \* the outputs A and B of the DAC
    stopAsked,   \* history: a stop was asked for, or left over, in this scan
    overrun      \* history: lines sent with STOP_ALL raised

counters == <<i, j, k>>
buffers == <<vector_z, other_info>>
flags == <<MICRO_SCAN, STOP_ALL, rx, stopAsked>>
scanVars == <<prev_point, counters, buffers, lines, overrun>>
vars == <<pc, pos_, prev_point, conf_, target, inScan, i, j, k, vector_z,
          other_info, lines, MICRO_SCAN, STOP_ALL, rx, dac, stopAsked, overrun>>

Origin == [x |-> 0, y |-> 0]

\* conf_({}): before the first update a scan has no lines.
NoConfig == [nPoints_x |-> 0, nPoints_y |-> 0, betweenPoints_x |-> 0,
             betweenPoints_y |-> 0, flag |-> 0]

Init ==
    /\ pc = "loop" /\ pos_ = Origin /\ prev_point = Origin /\ target = Origin
    /\ conf_ = NoConfig /\ inScan = FALSE
    /\ i = 0 /\ j = 0 /\ k = 0 /\ lines = 0
    /\ vector_z = <<>> /\ other_info = <<>>
    /\ MICRO_SCAN = FALSE /\ STOP_ALL = FALSE /\ rx = "getline"
    /\ dac = Origin /\ stopAsked = FALSE /\ overrun = 0

-----------------------------------------------------------------------------
\* Mutant: the sum is not truncated.
StepNoWrap(c, d) == [pos_ EXCEPT ![c] = @ + d]

\* ++ and -- on a uint16_t coordinate
Step(c, d) == [pos_ EXCEPT ![c] = (@ + d) % Modulus]

\* set_on_cap(1, ++pos_.x) and the like
SetOnCap(c, d) ==
    /\ pos_' = Step(c, d)
    /\ dac' = pos_'

\* move_to(point, ...)
Toward(p, scanning) == pc' = "move" /\ target' = p /\ inScan' = scanning

\* Scanner::update
Update(c) ==
    /\ pc = "loop"
    /\ conf_' = c
    /\ UNCHANGED <<pc, pos_, target, inScan, scanVars, flags, dac>>

\* MOVE_TO
MoveTo(p) ==
    /\ pc = "loop"
    /\ Toward(p, FALSE)
    /\ UNCHANGED <<pos_, conf_, scanVars, flags, dac>>

\* Mutant: the probe jumps.
MoveStepJump ==
    /\ pc = "move" /\ pos_ # target
    /\ pos_' = target /\ dac' = target
    /\ UNCHANGED <<pc, conf_, target, inScan, scanVars, flags>>

\* The four loops of move_to: x first, then y.
MoveStep ==
    /\ pc = "move"
    /\ \/ pos_.x < target.x /\ SetOnCap("x", 1)
       \/ pos_.x > target.x /\ SetOnCap("x", -1)
       \/ pos_.x = target.x /\ pos_.y < target.y /\ SetOnCap("y", 1)
       \/ pos_.x = target.x /\ pos_.y > target.y /\ SetOnCap("y", -1)
    /\ UNCHANGED <<pc, conf_, target, inScan, scanVars, flags>>

\* move_to returns; after stop_scan, MICRO_SCAN = false.
MoveEnd ==
    /\ pc = "move" /\ pos_ = target
    /\ pc' = "loop"
    /\ MICRO_SCAN' = (MICRO_SCAN /\ ~inScan)
    /\ inScan' = FALSE
    /\ UNCHANGED <<pos_, conf_, target, scanVars, STOP_ALL, rx, stopAsked, dac>>

\* start_scan(): the move to pos_ itself does nothing.
StartScan ==
    /\ pc = "loop" /\ MICRO_SCAN
    /\ pc' = "line" /\ prev_point' = pos_ /\ i' = 0 /\ lines' = 0
    /\ stopAsked' = STOP_ALL /\ overrun' = 0
    /\ UNCHANGED <<pos_, conf_, target, inScan, j, k, buffers, MICRO_SCAN,
                   STOP_ALL, rx, dac>>

\* Mutant: the probe is left where the scan ends.
StopScanInPlace ==
    /\ STOP_ALL' = FALSE
    /\ Toward(pos_, TRUE)
    /\ UNCHANGED <<pos_, conf_, scanVars, MICRO_SCAN, rx, stopAsked, dac>>

\* STOP_ALL = false; stop_scan()
StopScan ==
    /\ STOP_ALL' = FALSE
    /\ Toward(prev_point, TRUE)
    /\ UNCHANGED <<pos_, conf_, scanVars, MICRO_SCAN, rx, stopAsked, dac>>

\* The loop over i
NextLine ==
    /\ pc = "line" /\ i < conf_.nPoints_y
    /\ pc' = "point" /\ j' = 0 /\ k' = 0
    /\ UNCHANGED <<pos_, prev_point, conf_, target, inScan, i, buffers, lines,
                   flags, dac, overrun>>

LastLine ==
    /\ pc = "line" /\ i >= conf_.nPoints_y
    /\ StopScan

\* The loop over k: one step forward
Forward ==
    /\ pc = "point" /\ j < conf_.nPoints_x /\ k < conf_.betweenPoints_x
    /\ SetOnCap("x", 1)
    /\ k' = k + 1
    /\ UNCHANGED <<pc, prev_point, conf_, target, inScan, i, j, buffers, lines,
                   flags, overrun>>

\* The point is reached: the ADC is read (twice) and the sample kept.
Sample ==
    /\ pc = "point" /\ j < conf_.nPoints_x /\ k >= conf_.betweenPoints_x
    /\ vector_z' = Append(vector_z, pos_)
    /\ other_info' = IF conf_.flag # 0 THEN Append(other_info, pos_) ELSE other_info
    /\ j' = j + 1 /\ k' = 0
    /\ UNCHANGED <<pc, pos_, prev_point, conf_, target, inScan, i, lines, flags,
                   dac, overrun>>

TurnBack ==
    /\ pc = "point" /\ j >= conf_.nPoints_x
    /\ pc' = "back" /\ j' = 0
    /\ UNCHANGED <<pos_, prev_point, conf_, target, inScan, i, k, buffers, lines,
                   flags, dac, overrun>>

BackSteps == conf_.betweenPoints_x * conf_.nPoints_x

\* "GET back"
Back ==
    /\ pc = "back" /\ j < BackSteps
    /\ SetOnCap("x", -1)
    /\ j' = j + 1
    /\ UNCHANGED <<pc, prev_point, conf_, target, inScan, i, k, buffers, lines,
                   flags, overrun>>

\* Mutant: vector_z is not cleared.
SendKeepsBuffer ==
    /\ pc = "back" /\ j >= BackSteps
    /\ lines' = lines + 1
    /\ overrun' = IF STOP_ALL THEN overrun + 1 ELSE overrun
    /\ other_info' = <<>> /\ UNCHANGED vector_z
    /\ pc' = "check"
    /\ UNCHANGED <<pos_, prev_point, conf_, target, inScan, counters, flags, dac>>

\* "send info" and END_LINE
Send ==
    /\ pc = "back" /\ j >= BackSteps
    /\ lines' = lines + 1
    /\ overrun' = IF STOP_ALL THEN overrun + 1 ELSE overrun
    /\ vector_z' = <<>> /\ other_info' = <<>>
    /\ pc' = "check"
    /\ UNCHANGED <<pos_, prev_point, conf_, target, inScan, counters, flags, dac>>

\* "is need to stop"
CheckStop ==
    /\ pc = "check" /\ STOP_ALL
    /\ StopScan

\* Mutant: the scan may go on with STOP_ALL raised.
CheckGoOnAnyway ==
    /\ pc = "check"
    /\ pc' = "down" /\ j' = 0
    /\ UNCHANGED <<pos_, prev_point, conf_, target, inScan, i, k, buffers, lines,
                   flags, dac, overrun>>

CheckGoOn ==
    /\ pc = "check" /\ ~STOP_ALL
    /\ pc' = "down" /\ j' = 0
    /\ UNCHANGED <<pos_, prev_point, conf_, target, inScan, i, k, buffers, lines,
                   flags, dac, overrun>>

\* "go next line"
Down ==
    /\ pc = "down" /\ j < conf_.betweenPoints_y
    /\ SetOnCap("y", 1)
    /\ j' = j + 1
    /\ UNCHANGED <<pc, prev_point, conf_, target, inScan, i, k, buffers, lines,
                   flags, overrun>>

\* Mutant: every second line is skipped.
DownEndSkips ==
    /\ pc = "down" /\ j >= conf_.betweenPoints_y
    /\ pc' = "line" /\ i' = i + 2
    /\ UNCHANGED <<pos_, prev_point, conf_, target, inScan, j, k, buffers, lines,
                   flags, dac, overrun>>

DownEnd ==
    /\ pc = "down" /\ j >= conf_.betweenPoints_y
    /\ pc' = "line" /\ i' = i + 1
    /\ UNCHANGED <<pos_, prev_point, conf_, target, inScan, j, k, buffers, lines,
                   flags, dac, overrun>>

Scanning ==
    \/ StartScan \/ NextLine \/ LastLine \/ Forward \/ Sample \/ TurnBack
    \/ Back \/ Send \/ CheckStop \/ CheckGoOn \/ Down \/ DownEnd

Moving == MoveStep \/ MoveEnd

-----------------------------------------------------------------------------
(* launchOnCore1 *)

core0 == <<pc, pos_, conf_, target, inScan, scanVars, dac>>

\* case 53
ReceiveScan ==
    /\ rx = "getline"
    /\ MICRO_SCAN' = TRUE
    /\ UNCHANGED <<core0, STOP_ALL, rx, stopAsked>>

\* case 52
ReceiveStop ==
    /\ rx = "getline"
    /\ STOP_ALL' = TRUE /\ stopAsked' = TRUE
    /\ UNCHANGED <<core0, MICRO_SCAN, rx>>

\* case 70: stopAll clears MICRO_SCAN ...
ReceiveStopAll ==
    /\ rx = "getline" /\ rx' = "stopAll"
    /\ MICRO_SCAN' = FALSE
    /\ UNCHANGED <<core0, STOP_ALL, stopAsked>>

\* ... and then raises STOP_ALL.
StopAllEnd ==
    /\ rx = "stopAll" /\ rx' = "getline"
    /\ STOP_ALL' = TRUE /\ stopAsked' = TRUE
    /\ UNCHANGED <<core0, MICRO_SCAN>>

Core1 == ReceiveScan \/ ReceiveStop \/ ReceiveStopAll \/ StopAllEnd

Next ==
    \/ \E c \in Configs : Update(c)
    \/ \E p \in Targets : MoveTo(p)
    \/ Scanning \/ Moving \/ Core1

\* Core 0 goes on with what it has begun.
Fairness == WF_vars(Scanning) /\ WF_vars(Moving)

Spec == Init /\ [][Next]_vars
FairSpec == Spec /\ Fairness

-----------------------------------------------------------------------------
TypeOK ==
    /\ pc \in {"loop", "move", "line", "point", "back", "check", "down"}
    /\ pos_ \in Point /\ prev_point \in Point /\ target \in Point /\ dac \in Point
    /\ conf_ \in Config
    /\ i \in Nat /\ j \in Nat /\ k \in Nat /\ lines \in Nat /\ overrun \in Nat
    /\ vector_z \in Seq(Point) /\ other_info \in Seq(Point)
    /\ MICRO_SCAN \in BOOLEAN /\ STOP_ALL \in BOOLEAN
    /\ inScan \in BOOLEAN /\ stopAsked \in BOOLEAN
    /\ rx \in {"getline", "stopAll"}

\* The q-th point of line i of the raster that starts at prev_point
RasterPoint(q) ==
    [x |-> (prev_point.x + q * conf_.betweenPoints_x) % Modulus,
     y |-> (prev_point.y + i * conf_.betweenPoints_y) % Modulus]

(* The line that start_scan is about to send has exactly nPoints_x samples,
   each taken at its point of the raster, in every line and every scan; so has
   the second channel when the flag asks for one. *)
SampleGrid ==
    pc = "back" =>
        /\ vector_z = [q \in 1..conf_.nPoints_x |-> RasterPoint(q)]
        /\ other_info = IF conf_.flag = 0 THEN <<>> ELSE vector_z

(* A scan that ends without having been asked to stop has sent all its lines. *)
FullScan == pc = "move" /\ inScan /\ ~stopAsked => lines = conf_.nPoints_y

(* After a stop has been asked for the scan sends at most the line it is on. *)
StopBound == overrun <= 1

Fits == /\ prev_point.x + conf_.nPoints_x * conf_.betweenPoints_x < Modulus
        /\ prev_point.y + conf_.nPoints_y * conf_.betweenPoints_y < Modulus

(* The DAC moves by one step at a time: its output never jumps, unless a raster
   that does not fit runs over the edge of the range. *)
NoJump == [][ \A c \in {"x", "y"} :
                 dac[c] - dac'[c] \in {-1, 0, 1} \/ (pc \notin {"loop", "move"} /\ ~Fits) ]_vars

(* Scanner implements RasterScan: the place between the scans is the one place
   a scan does not change. *)
Raster == INSTANCE RasterScan WITH
    LineCount <- {c.nPoints_y : c \in Configs} \cup {0},
    rest <- IF pc = "loop" THEN pos_
            ELSE IF pc = "move" /\ ~inScan THEN target ELSE prev_point,
    ny <- conf_.nPoints_y,
    mode <- IF pc = "loop" THEN "idle"
            ELSE IF pc = "move" /\ ~inScan THEN "move" ELSE "scan"

ImplementsRaster == Raster!Spec
=============================================================================
