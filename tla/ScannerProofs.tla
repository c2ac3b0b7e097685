--------------------------- MODULE ScannerProofs ----------------------------
(***************************************************************************)
(* Scanner for every modulus, every set of configurations and every set of *)
(* targets.                                                                *)
(***************************************************************************)
EXTENDS Scanner, SequenceTheorems, ModularArithmetic

InLine == pc \in {"point", "back", "check", "down"}
InScan == InLine \/ pc = "line"

ConfOK == conf_ \in Configs \cup {NoConfig}

\* The lines sent agree with the loop counter, and do not pass nPoints_y.
LineCounter ==
    /\ InLine => i < conf_.nPoints_y
    /\ pc = "line" => i <= conf_.nPoints_y
    /\ pc \in {"line", "point", "back"} => lines = i
    /\ pc \in {"check", "down"} => lines = i + 1

\* On the way home the scan is complete or was stopped after a line.
GoingHome ==
    pc = "move" /\ inScan =>
        /\ target = prev_point
        /\ lines = conf_.nPoints_y \/ (lines > 0 /\ stopAsked)

\* STOP_ALL is up in a scan only if somebody asked; a line sent with it up is
\* the last.
StopSeen ==
    /\ InScan /\ STOP_ALL => stopAsked
    /\ pc \in {"line", "point", "back", "down"} => overrun = 0
    /\ pc = "check" => overrun = 0 \/ (overrun = 1 /\ STOP_ALL)
    /\ overrun <= 1

IInv == TypeOK /\ ConfOK /\ (inScan => pc = "move") /\ LineCounter /\ GoingHome /\ StopSeen

-----------------------------------------------------------------------------
LEMMA StepInRange ==
  ASSUME TypeOK, NEW c \in {"x", "y"}, NEW d \in {-1, 1}
  PROVE  Step(c, d) \in Point
<1>1. ASSUME NEW n \in Coordinate PROVE (n + d) % Modulus \in Coordinate
  BY ScannerAssumption DEF Coordinate
<1>2. Step(c, d) = [pos_ EXCEPT ![c] = (pos_[c] + d) % Modulus]
  BY DEF Step
<1>3. (pos_.x + d) % Modulus \in Coordinate /\ (pos_.y + d) % Modulus \in Coordinate
  BY <1>1 DEF TypeOK, Point
<1>4. QED
  BY <1>2, <1>3 DEF TypeOK, Point

LEMMA NoConfigOK == NoConfig \in Config
BY DEF NoConfig, Config

LEMMA StopScanTyped == ASSUME TypeOK, StopScan PROVE TypeOK'
<1>1. STOP_ALL' \in BOOLEAN /\ inScan' \in BOOLEAN
  BY DEF StopScan, Toward
<1>2. pc' = "move" /\ target' = prev_point
  BY DEF StopScan, Toward
<1>3. UNCHANGED <<pos_, conf_, scanVars, MICRO_SCAN, rx, stopAsked, dac>>
  BY DEF StopScan
<1>4. QED
  BY <1>1, <1>2, <1>3 DEF TypeOK, scanVars, counters, buffers

LEMMA TypeStep == TypeOK /\ [Next]_vars => TypeOK'
<1> SUFFICES ASSUME TypeOK, [Next]_vars
             PROVE  TypeOK'
  OBVIOUS
<1> USE DEF scanVars, counters, buffers, flags, core0
<1>1. ASSUME NEW c \in Configs, Update(c) PROVE TypeOK'
  BY <1>1, ScannerAssumption DEF TypeOK, Update
<1>2. ASSUME NEW p \in Targets, MoveTo(p) PROVE TypeOK'
  BY <1>2, ScannerAssumption DEF TypeOK, MoveTo, Toward
<1>3. CASE MoveStep
  BY <1>3, StepInRange DEF TypeOK, MoveStep, SetOnCap
<1>4. CASE MoveEnd
  BY <1>4 DEF TypeOK, MoveEnd
<1>5. CASE StartScan
  BY <1>5 DEF TypeOK, StartScan
<1>6. CASE NextLine \/ LastLine
  BY <1>6, StopScanTyped DEF TypeOK, NextLine, LastLine
<1>7. CASE Forward
  BY <1>7, StepInRange DEF TypeOK, Forward, SetOnCap
<1>8. CASE Sample
  BY <1>8 DEF TypeOK, Sample
<1>9. CASE TurnBack
  BY <1>9 DEF TypeOK, TurnBack
<1>10. CASE Back
  BY <1>10, StepInRange DEF TypeOK, Back, SetOnCap
<1>11. CASE Send
  BY <1>11 DEF TypeOK, Send
<1>12. CASE CheckStop \/ CheckGoOn
  BY <1>12, StopScanTyped DEF TypeOK, CheckStop, CheckGoOn
<1>13. CASE Down
  BY <1>13, StepInRange DEF TypeOK, Down, SetOnCap
<1>14. CASE DownEnd
  BY <1>14 DEF TypeOK, DownEnd
<1>15. CASE Core1
  BY <1>15 DEF TypeOK, Core1, ReceiveScan, ReceiveStop, ReceiveStopAll, StopAllEnd
<1>16. CASE UNCHANGED vars
  BY <1>16 DEF TypeOK, vars
<1>17. QED
  BY <1>1, <1>2, <1>3, <1>4, <1>5, <1>6, <1>7, <1>8, <1>9, <1>10, <1>11,
     <1>12, <1>13, <1>14, <1>15, <1>16 DEF Next, Scanning, Moving

LEMMA InitTyped == Init => TypeOK
<1> SUFFICES ASSUME Init PROVE TypeOK
  OBVIOUS
<1>1. Origin \in Point
  BY ScannerAssumption DEF Origin, Point, Coordinate
<1>2. /\ MICRO_SCAN \in BOOLEAN /\ STOP_ALL \in BOOLEAN
      /\ inScan \in BOOLEAN /\ stopAsked \in BOOLEAN
  BY DEF Init
<1>3. /\ pos_ = Origin /\ prev_point = Origin /\ target = Origin /\ dac = Origin
      /\ conf_ = NoConfig /\ pc = "loop" /\ rx = "getline"
      /\ i = 0 /\ j = 0 /\ k = 0 /\ lines = 0 /\ overrun = 0
      /\ vector_z = <<>> /\ other_info = <<>>
  BY DEF Init
<1>4. QED
  BY <1>1, <1>2, <1>3, NoConfigOK DEF TypeOK

\* Positions stay in the range of uint16_t, and everything else in its type.
THEOREM TypeCorrect == Spec => []TypeOK
BY InitTyped, TypeStep, PTL DEF Spec

-----------------------------------------------------------------------------
LEMMA IInvInit == Init => IInv
<1>1. Init => TypeOK /\ ConfOK /\ ~inScan /\ pc = "loop" /\ overrun = 0
  BY InitTyped DEF Init, ConfOK
<1>2. QED
  BY <1>1 DEF IInv, LineCounter, GoingHome, StopSeen, InLine, InScan

LEMMA IInvStep == IInv /\ [Next]_vars => IInv'
<1> SUFFICES ASSUME IInv, [Next]_vars
             PROVE  IInv'
  OBVIOUS
<1>t. TypeOK /\ TypeOK'
  BY TypeStep DEF IInv
<1> USE DEF scanVars, counters, buffers, flags, core0,
            IInv, ConfOK, LineCounter, GoingHome, StopSeen, InLine, InScan
<1>1. ASSUME NEW c \in Configs, Update(c) PROVE IInv'
  BY <1>t, <1>1 DEF TypeOK, Update
<1>2. ASSUME NEW p \in Targets, MoveTo(p) PROVE IInv'
  BY <1>t, <1>2 DEF TypeOK, MoveTo, Toward
<1>3. CASE MoveStep
  BY <1>t, <1>3 DEF MoveStep
<1>4. CASE MoveEnd
  BY <1>t, <1>4 DEF TypeOK, MoveEnd
<1>5. CASE StartScan
  BY <1>t, <1>5 DEF TypeOK, Config, StartScan
<1>6. CASE NextLine
  BY <1>t, <1>6 DEF TypeOK, NextLine
<1>7. CASE LastLine
  BY <1>t, <1>7 DEF TypeOK, Config, LastLine, StopScan, Toward
<1>8. CASE Forward
  BY <1>t, <1>8 DEF TypeOK, Forward
<1>9. CASE Sample
  BY <1>t, <1>9 DEF TypeOK, Sample
<1>10. CASE TurnBack
  BY <1>t, <1>10 DEF TypeOK, TurnBack
<1>11. CASE Back
  BY <1>t, <1>11 DEF TypeOK, Back
<1>12. CASE Send
  BY <1>t, <1>12 DEF TypeOK, Send
<1>13. CASE CheckStop
  BY <1>t, <1>13 DEF TypeOK, CheckStop, StopScan, Toward
<1>14. CASE CheckGoOn
  BY <1>t, <1>14 DEF TypeOK, CheckGoOn
<1>15. CASE Down
  BY <1>t, <1>15 DEF TypeOK, Down
<1>16. CASE DownEnd
  BY <1>t, <1>16 DEF TypeOK, Config, DownEnd
<1>17. CASE Core1
  <2>1. UNCHANGED core0
    BY <1>17, Zenon DEF Core1, ReceiveScan, ReceiveStop, ReceiveStopAll, StopAllEnd
  <2>2. \/ STOP_ALL' = STOP_ALL /\ stopAsked' = stopAsked
        \/ STOP_ALL' = TRUE /\ stopAsked' = TRUE
    BY <1>17, Zenon DEF Core1, ReceiveScan, ReceiveStop, ReceiveStopAll, StopAllEnd
  <2>3. /\ pc' = pc /\ conf_' = conf_ /\ target' = target /\ inScan' = inScan
        /\ prev_point' = prev_point /\ i' = i /\ lines' = lines /\ overrun' = overrun
    BY <2>1
  <2>4. /\ LineCounter' /\ (inScan' => pc' = "move") /\ conf_' \in Configs \cup {NoConfig}
    BY <2>3, Zenon
  <2>5. stopAsked => stopAsked'
    BY <2>2, Zenon
  <2>6. (STOP_ALL' = STOP_ALL /\ stopAsked' = stopAsked) \/ stopAsked'
    BY <2>2, Zenon
  <2>7. GoingHome'
    BY <2>3, <2>5, Zenon
  <2>8. StopSeen'
    <3>1. CASE STOP_ALL' = STOP_ALL /\ stopAsked' = stopAsked
      BY <2>3, <3>1
    <3>2. CASE STOP_ALL' = TRUE /\ stopAsked' = TRUE
      BY <2>3, <3>2
    <3>3. QED
      BY <2>2, <3>1, <3>2, Zenon
  <2>9. QED
    BY <1>t, <2>4, <2>7, <2>8, Zenon
<1>18. CASE UNCHANGED vars
  BY <1>t, <1>18 DEF TypeOK, vars
<1>19. QED
  BY <1>1, <1>2, <1>3, <1>4, <1>5, <1>6, <1>7, <1>8, <1>9, <1>10, <1>11, <1>12,
     <1>13, <1>14, <1>15, <1>16, <1>17, <1>18 DEF Next, Scanning, Moving

LEMMA Inductive == Spec => []IInv
BY IInvInit, IInvStep, PTL DEF Spec

\* A scan nobody asked to stop sends all its lines, whatever the host does to
\* MICRO_SCAN meanwhile.
THEOREM ScanIsFull == Spec => []FullScan
<1>1. IInv => FullScan
  BY DEF IInv, TypeOK, GoingHome, FullScan
<1>2. QED
  BY <1>1, Inductive, PTL

\* STOP_ALL ends the scan at the end of the line it is on.
THEOREM StopIsBounded == Spec => []StopBound
<1>1. IInv => StopBound
  BY DEF IInv, StopSeen, StopBound
<1>2. QED
  BY <1>1, Inductive, PTL

-----------------------------------------------------------------------------
LEMMA RasterInit == Init => Raster!Init
BY InitTyped DEF Init, TypeOK, Raster!Init, NoConfig

LEMMA RasterStep == IInv /\ IInv' /\ [Next]_vars => [Raster!Next]_(Raster!absVars)
<1> SUFFICES ASSUME IInv, IInv', [Next]_vars
             PROVE  [Raster!Next]_(Raster!absVars)
  OBVIOUS
<1> USE DEF scanVars, counters, buffers, flags, core0, Raster!absVars, Raster!Next
<1>1. ASSUME NEW c \in Configs, Update(c) PROVE Raster!Configure
  BY <1>1 DEF Update, Raster!Configure
<1>2. ASSUME NEW p \in Targets, MoveTo(p) PROVE Raster!BeginMove
  BY <1>2, ScannerAssumption DEF MoveTo, Toward, Raster!BeginMove
<1>3. CASE MoveEnd
  <2>1. CASE inScan
    BY <1>3, <2>1 DEF IInv, TypeOK, GoingHome, MoveEnd, Raster!EndScan
  <2>2. CASE ~inScan
    BY <1>3, <2>2 DEF MoveEnd, Raster!EndMove
  <2>3. QED
    BY <2>1, <2>2
<1>4. CASE StartScan
  BY <1>4 DEF StartScan, Raster!BeginScan
<1>5. CASE Send
  BY <1>5 DEF IInv, LineCounter, InLine, Send, Raster!DeliverLine
<1>6. CASE MoveStep
  BY <1>6 DEF MoveStep
<1>7. CASE NextLine \/ TurnBack \/ Sample \/ CheckGoOn \/ DownEnd
  BY <1>7 DEF NextLine, TurnBack, Sample, CheckGoOn, DownEnd
<1>8. CASE Forward \/ Back \/ Down
  BY <1>8 DEF Forward, Back, Down
<1>9. CASE LastLine \/ CheckStop
  BY <1>9 DEF LastLine, CheckStop, StopScan, Toward
<1>10. CASE Core1
  BY <1>10 DEF Core1, ReceiveScan, ReceiveStop, ReceiveStopAll, StopAllEnd
<1>11. CASE UNCHANGED vars
  BY <1>11 DEF vars
<1>12. QED
  BY <1>1, <1>2, <1>3, <1>4, <1>5, <1>6, <1>7, <1>8, <1>9, <1>10, <1>11
     DEF Next, Scanning, Moving

\* The scanner keeps the promise of RasterScan: lines come one at a time and
\* no more than asked for, an early end follows a line, a move ends at the
\* point asked for, and a scan, stopped or not, even one whose raster wraps
\* around the range, leaves the probe where it found it.
THEOREM RefinesRaster == Spec => Raster!Safety
<1>1. QED
  BY RasterInit, RasterStep, Inductive, PTL DEF Spec, Raster!Safety

-----------------------------------------------------------------------------
(* Where the probe is, and what has been sampled. Positions wrap one step at a
   time; the raster is stated in products. *)

Wrap(a, m) == (a + m) % Modulus

\* The probe is dx and dy steps away from where the scan started.
At(dx, dy) == pos_.x = Wrap(prev_point.x, dx) /\ pos_.y = Wrap(prev_point.y, dy)

Empty == vector_z = <<>> /\ other_info = <<>>

\* The first n samples of the line have been taken, each at its point.
Samples(n) ==
    /\ Len(vector_z) = n
    /\ \A q \in 1..n : vector_z[q] = RasterPoint(q)
    /\ other_info = IF conf_.flag = 0 THEN <<>> ELSE vector_z

nx == conf_.nPoints_x
bx == conf_.betweenPoints_x
by == conf_.betweenPoints_y

OnGrid ==
    /\ pc \notin {"point", "back"} => Empty
    /\ pc \in {"line", "check"} => At(0, i * by)
    /\ pc = "point" => /\ At(j * bx + k, i * by) /\ Samples(j)
                       /\ j <= nx /\ k <= bx /\ (j = nx => k = 0)
    /\ pc = "back" => At(bx * nx - j, i * by) /\ Samples(nx) /\ j <= BackSteps
    /\ pc = "down" => At(0, i * by + j) /\ j <= by
    /\ dac = pos_

GInv == IInv /\ OnGrid

LEMMA Walk ==
  ASSUME NEW a \in Int, NEW m \in Int, NEW d \in Int
  PROVE  (Wrap(a, m) + d) % Modulus = Wrap(a, m + d)
<1>1. a + m \in Int /\ (a + m) + d = a + (m + d)
  OBVIOUS
<1>2. (((a + m) % Modulus) + d) % Modulus = ((a + m) + d) % Modulus
  BY <1>1, ModPlus, ScannerAssumption
<1>3. QED
  BY <1>1, <1>2 DEF Wrap

LEMMA WrapZero == ASSUME NEW a \in Coordinate PROVE Wrap(a, 0) = a
<1>1. a + 0 = a /\ a \in 0..(Modulus - 1)
  BY ScannerAssumption DEF Coordinate
<1>2. QED
  BY <1>1, SmallMod, ScannerAssumption DEF Wrap

\* set_on_cap moves the probe by one step along one axis.
LEMMA StepX ==
  ASSUME TypeOK, NEW m \in Int, NEW d \in {-1, 1}, pos_.x = Wrap(prev_point.x, m),
         SetOnCap("x", d)
  PROVE  pos_'.x = Wrap(prev_point.x, m + d) /\ pos_'.y = pos_.y /\ dac' = pos_'
<1>1. pos_ \in Point /\ prev_point.x \in Int
  BY ScannerAssumption DEF TypeOK, Point, Coordinate
<1>2. pos_' = [pos_ EXCEPT !["x"] = (pos_["x"] + d) % Modulus] /\ dac' = pos_'
  BY DEF SetOnCap, Step
<1>3. pos_'.x = (pos_.x + d) % Modulus /\ pos_'.y = pos_.y
  BY <1>1, <1>2 DEF Point
<1>4. d \in Int
  OBVIOUS
<1>5. (Wrap(prev_point.x, m) + d) % Modulus = Wrap(prev_point.x, m + d)
  BY <1>1, <1>4, Walk, Zenon
<1>6. QED
  BY <1>2, <1>3, <1>5

LEMMA StepY ==
  ASSUME TypeOK, NEW m \in Int, NEW d \in {-1, 1}, pos_.y = Wrap(prev_point.y, m),
         SetOnCap("y", d)
  PROVE  pos_'.y = Wrap(prev_point.y, m + d) /\ pos_'.x = pos_.x /\ dac' = pos_'
<1>1. pos_ \in Point /\ prev_point.y \in Int
  BY ScannerAssumption DEF TypeOK, Point, Coordinate
<1>2. pos_' = [pos_ EXCEPT !["y"] = (pos_["y"] + d) % Modulus] /\ dac' = pos_'
  BY DEF SetOnCap, Step
<1>3. pos_'.y = (pos_.y + d) % Modulus /\ pos_'.x = pos_.x
  BY <1>1, <1>2 DEF Point
<1>4. d \in Int
  OBVIOUS
<1>5. (Wrap(prev_point.y, m) + d) % Modulus = Wrap(prev_point.y, m + d)
  BY <1>1, <1>4, Walk, Zenon
<1>6. QED
  BY <1>2, <1>3, <1>5

LEMMA ScanNumbers ==
  ASSUME TypeOK
  PROVE  /\ nx \in Nat /\ bx \in Nat /\ by \in Nat /\ i \in Nat /\ j \in Nat /\ k \in Nat
         /\ i * by \in Nat /\ j * bx \in Nat /\ bx * nx \in Nat
<1>1. nx \in Nat /\ bx \in Nat /\ by \in Nat /\ i \in Nat /\ j \in Nat /\ k \in Nat
  BY DEF TypeOK, Config, nx, bx, by
<1>2. QED
  BY <1>1

LEMMA GridInit == Init => OnGrid
BY DEF Init, OnGrid, Empty

\* The sample is taken at the next point of the raster.
LEMMA SampleStep ==
  ASSUME TypeOK, OnGrid, Sample
  PROVE  OnGrid'
<1>1. /\ At(j * bx + k, i * by) /\ Samples(j) /\ j < nx /\ k = bx /\ pc' = "point"
      /\ UNCHANGED <<pos_, prev_point, conf_, i, dac>>
      /\ j' = j + 1 /\ k' = 0
  <2>1. /\ pc = "point" /\ j < nx /\ k >= bx /\ pc' = pc
        /\ UNCHANGED <<pos_, prev_point, conf_, i, dac>>
        /\ j' = j + 1 /\ k' = 0
    BY Zenon DEF Sample, nx, bx
  <2>2. At(j * bx + k, i * by) /\ Samples(j) /\ k <= bx
    BY <2>1, Zenon DEF OnGrid
  <2>3. k = bx
    BY <2>1, <2>2, ScanNumbers
  <2>4. QED
    BY <2>1, <2>2, <2>3, Zenon
<1>2. j * bx + bx = (j + 1) * bx
  BY ScanNumbers
<1>3. pos_.x = Wrap(prev_point.x, (j + 1) * bx) /\ pos_.y = Wrap(prev_point.y, i * by)
  BY <1>1, <1>2 DEF At
<1>4. pos_ = RasterPoint(j + 1)
  BY <1>3 DEF TypeOK, Point, RasterPoint, Wrap, bx, by
<1>5. /\ vector_z' = Append(vector_z, pos_)
      /\ vector_z \in Seq(Point) /\ pos_ \in Point /\ Len(vector_z) = j
  BY <1>1 DEF Sample, Samples, TypeOK
<1>6. Len(vector_z') = j + 1
  BY <1>5
<1>7. ASSUME NEW q \in 1..(j + 1) PROVE vector_z'[q] = RasterPoint(q)
  <2>1. CASE q = j + 1
    <3>1. vector_z'[j + 1] = pos_
      BY <1>5
    <3>2. QED
      BY <1>4, <2>1, <3>1
  <2>2. CASE q \in 1..j
    <3>1. vector_z'[q] = vector_z[q]
      BY <1>5, <2>2
    <3>2. vector_z[q] = RasterPoint(q)
      BY <1>1, <2>2 DEF Samples
    <3>3. QED
      BY <3>1, <3>2
  <2>3. QED
    BY <2>1, <2>2, ScanNumbers
<1>8. other_info' = IF conf_.flag = 0 THEN <<>> ELSE vector_z'
  BY <1>1, <1>5 DEF Sample, Samples
<1>9. Samples(j)'
  BY <1>1, <1>6, <1>7, <1>8 DEF Samples, RasterPoint
<1>10. At(j * bx + k, i * by)'
  BY <1>1, <1>3, ScanNumbers DEF At, Wrap, bx, by
<1>11. QED
  BY <1>1, <1>9, <1>10, ScanNumbers DEF OnGrid, nx, bx

LEMMA GridStep == GInv /\ [Next]_vars => OnGrid'
<1> SUFFICES ASSUME GInv, [Next]_vars
             PROVE  OnGrid'
  OBVIOUS
<1>t. TypeOK /\ OnGrid
  BY DEF GInv, IInv
<1>n. /\ nx \in Nat /\ bx \in Nat /\ by \in Nat /\ i \in Nat /\ j \in Nat /\ k \in Nat
      /\ i * by \in Nat /\ j * bx \in Nat /\ bx * nx \in Nat
  BY <1>t, ScanNumbers
<1> USE DEF scanVars, counters, buffers, flags, core0
<1>1. ASSUME NEW c \in Configs, Update(c) PROVE OnGrid'
  BY <1>t, <1>1 DEF OnGrid, Update, Empty
<1>2. ASSUME NEW p \in Targets, MoveTo(p) PROVE OnGrid'
  BY <1>t, <1>2 DEF OnGrid, MoveTo, Toward, Empty
<1>3. CASE MoveStep
  BY <1>t, <1>3 DEF OnGrid, MoveStep, SetOnCap, Empty
<1>4. CASE MoveEnd
  BY <1>t, <1>4 DEF OnGrid, MoveEnd, Empty
<1>5. CASE StartScan
  <2>1. pos_.x \in Coordinate /\ pos_.y \in Coordinate /\ 0 * by = 0
    BY <1>t, <1>n DEF TypeOK, Point
  <2>2. At(0, i * by)'
    BY <1>5, <2>1, WrapZero DEF StartScan, At, Wrap, by
  <2>3. QED
    BY <1>t, <1>5, <2>2 DEF OnGrid, StartScan, Empty
<1>6. CASE NextLine
  <2>1. At(j * bx + k, i * by)'
    BY <1>t, <1>n, <1>6 DEF OnGrid, NextLine, At, Wrap, by, bx
  <2>2. Samples(j)'
    BY <1>t, <1>6 DEF OnGrid, NextLine, Empty, Samples
  <2>3. QED
    BY <1>t, <1>n, <1>6, <2>1, <2>2 DEF OnGrid, NextLine, nx, bx
<1>7. CASE LastLine \/ CheckStop
  BY <1>t, <1>7 DEF OnGrid, LastLine, CheckStop, StopScan, Toward, Empty
<1>8. CASE Forward
  <2>1. /\ pos_.x = Wrap(prev_point.x, j * bx + k) /\ SetOnCap("x", 1)
        /\ j * bx + k \in Int
    BY <1>t, <1>n, <1>8 DEF OnGrid, At, Forward
  <2>2. /\ pos_'.x = Wrap(prev_point.x, (j * bx + k) + 1)
        /\ pos_'.y = pos_.y /\ dac' = pos_'
    BY <1>t, <2>1, StepX
  <2>3. /\ pc = "point" /\ k < bx /\ j < nx /\ k' = k + 1
        /\ UNCHANGED <<pc, prev_point, conf_, i, j, vector_z, other_info>>
    BY <1>8 DEF Forward, nx, bx
  <2>4. At(j * bx + k, i * by)'
    <3>1. bx' = bx /\ by' = by /\ j' = j /\ i' = i /\ k' = k + 1
      BY <2>3 DEF bx, by
    <3>2. j' * bx' + k' = (j * bx + k) + 1 /\ i' * by' = i * by
      BY <1>n, <3>1
    <3>3. QED
      BY <1>t, <2>2, <2>3, <3>2 DEF OnGrid, At, Wrap
  <2>5. Samples(j)'
    BY <1>t, <2>3 DEF OnGrid, Samples, RasterPoint
  <2>6. QED
    BY <1>n, <2>2, <2>3, <2>4, <2>5 DEF OnGrid, nx, bx
<1>9. CASE Sample
  BY <1>t, <1>9, SampleStep
<1>10. CASE TurnBack
  <2>1. j = nx /\ k = 0 /\ nx * bx = bx * nx
    BY <1>t, <1>n, <1>10 DEF OnGrid, TurnBack, nx
  <2>2. At(bx * nx - 0, i * by) /\ Samples(nx)
    BY <1>t, <1>n, <1>10, <2>1 DEF OnGrid, TurnBack
  <2>3. QED
    BY <1>t, <1>n, <1>10, <2>2
       DEF OnGrid, TurnBack, At, Wrap, Samples, RasterPoint, nx, bx, by, BackSteps
<1>11. CASE Back
  <2>1. /\ pos_.x = Wrap(prev_point.x, bx * nx - j) /\ SetOnCap("x", -1)
        /\ bx * nx - j \in Int
    BY <1>t, <1>n, <1>11 DEF OnGrid, At, Back
  <2>2. /\ pos_'.x = Wrap(prev_point.x, (bx * nx - j) + (-1))
        /\ pos_'.y = pos_.y /\ dac' = pos_'
    BY <1>t, <2>1, StepX
  <2>3. /\ pc = "back" /\ j < bx * nx /\ j' = j + 1
        /\ UNCHANGED <<pc, prev_point, conf_, i, vector_z, other_info>>
    BY <1>11 DEF Back, BackSteps, nx, bx
  <2>4. At(bx * nx - j, i * by)'
    BY <1>t, <1>n, <2>2, <2>3 DEF OnGrid, At, Wrap, bx, by, nx
  <2>5. Samples(nx)'
    BY <1>t, <2>3 DEF OnGrid, Samples, RasterPoint, nx
  <2>6. QED
    BY <1>n, <2>2, <2>3, <2>4, <2>5 DEF OnGrid, nx, bx, BackSteps
<1>12. CASE Send
  <2>1. j = bx * nx
    BY <1>t, <1>n, <1>12 DEF OnGrid, Send, BackSteps, bx, nx
  <2>2. QED
    BY <1>t, <1>n, <1>12, <2>1 DEF OnGrid, Send, At, Wrap, Empty, by
<1>13. CASE CheckGoOn
  BY <1>t, <1>n, <1>13 DEF OnGrid, CheckGoOn, At, Wrap, Empty, by
<1>14. CASE Down
  <2>1. /\ pos_.y = Wrap(prev_point.y, i * by + j) /\ SetOnCap("y", 1)
        /\ i * by + j \in Int
    BY <1>t, <1>n, <1>14 DEF OnGrid, At, Down
  <2>2. /\ pos_'.y = Wrap(prev_point.y, (i * by + j) + 1)
        /\ pos_'.x = pos_.x /\ dac' = pos_'
    BY <1>t, <2>1, StepY
  <2>3. /\ pc = "down" /\ j < by /\ j' = j + 1
        /\ UNCHANGED <<pc, prev_point, conf_, i, vector_z, other_info>>
    BY <1>14 DEF Down, by
  <2>4. At(0, i * by + j)'
    <3>1. by' = by /\ i' = i /\ j' = j + 1 /\ prev_point' = prev_point
      BY <2>3 DEF by
    <3>2. i' * by' + j' = (i * by + j) + 1
      BY <1>n, <3>1
    <3>3. pos_.x = Wrap(prev_point.x, 0)
      BY <1>t, <2>3, Zenon DEF OnGrid, At
    <3>4. QED
      BY <2>2, <3>1, <3>2, <3>3 DEF At, Wrap
  <2>5. pc' = "down" /\ Empty'
    BY <1>t, <2>3 DEF OnGrid, Empty
  <2>6. j' <= by'
    BY <1>n, <2>3 DEF by
  <2>7. QED
    BY <2>2, <2>4, <2>5, <2>6 DEF OnGrid
<1>15. CASE DownEnd
  <2>1. j = by /\ i * by + by = (i + 1) * by
    BY <1>t, <1>n, <1>15 DEF OnGrid, DownEnd, by
  <2>2. QED
    BY <1>t, <1>n, <1>15, <2>1 DEF OnGrid, DownEnd, At, Wrap, Empty, by
<1>16. CASE Core1
  BY <1>t, <1>16 DEF OnGrid, Core1, ReceiveScan, ReceiveStop, ReceiveStopAll, StopAllEnd,
                     At, Wrap, Empty, Samples, RasterPoint, nx, bx, by, BackSteps
<1>17. CASE UNCHANGED vars
  BY <1>t, <1>17 DEF OnGrid, vars, At, Wrap, Empty, Samples, RasterPoint, nx, bx, by, BackSteps
<1>18. QED
  BY <1>1, <1>2, <1>3, <1>4, <1>5, <1>6, <1>7, <1>8, <1>9, <1>10, <1>11, <1>12,
     <1>13, <1>14, <1>15, <1>16, <1>17 DEF Next, Scanning, Moving

LEMMA GridInductive == Spec => []GInv
<1>1. Init => GInv
  BY IInvInit, GridInit DEF GInv
<1>2. GInv /\ [Next]_vars => GInv'
  BY IInvStep, GridStep DEF GInv
<1>3. QED
  BY <1>1, <1>2, PTL DEF Spec

\* Every line that a scan sends has its samples at the points of the raster, for
\* every configuration, one that wraps around the range included.
THEOREM SamplesOnGrid == Spec => []SampleGrid
<1>1. ASSUME GInv, pc = "back" PROVE SampleGrid
  <2>1. Samples(nx) /\ nx \in Nat /\ vector_z \in Seq(Point)
    BY <1>1, ScanNumbers DEF GInv, IInv, OnGrid, TypeOK
  <2>2. vector_z = [q \in 1..nx |-> RasterPoint(q)]
    BY <2>1, LenProperties DEF Samples
  <2>3. QED
    BY <2>1, <2>2 DEF SampleGrid, Samples, nx
<1>2. GInv => SampleGrid
  BY <1>1 DEF SampleGrid
<1>3. QED
  BY <1>2, GridInductive, PTL

-----------------------------------------------------------------------------
\* What NoJump says of one step
Smooth ==
    \A c \in {"x", "y"} :
        dac[c] - dac'[c] \in {-1, 0, 1} \/ (pc \notin {"loop", "move"} /\ ~Fits)

\* A step that stays in the range changes one output by one.
LEMMA StepInside ==
  ASSUME TypeOK, dac = pos_, NEW c \in {"x", "y"}, NEW d \in {-1, 1},
         pos_[c] + d \in Coordinate, SetOnCap(c, d)
  PROVE  Smooth
<1>1. pos_ \in Point /\ pos_' = [pos_ EXCEPT ![c] = (pos_[c] + d) % Modulus] /\ dac' = pos_'
  BY DEF TypeOK, SetOnCap, Step
<1>2. (pos_[c] + d) % Modulus = pos_[c] + d
  BY SmallMod, ScannerAssumption DEF Coordinate
<1>3. pos_.x \in Int /\ pos_.y \in Int
  BY <1>1, ScannerAssumption DEF Point, Coordinate
<1>4. ASSUME NEW e \in {"x", "y"} PROVE dac[e] - dac'[e] \in {-1, 0, 1}
  <2>1. dac'[e] = IF e = c THEN pos_[e] + d ELSE pos_[e]
    BY <1>1, <1>2 DEF Point
  <2>2. dac[e] = pos_[e] /\ pos_[e] \in Int
    BY <1>3
  <2>3. QED
    BY <2>1, <2>2
<1>5. QED
  BY <1>4 DEF Smooth

LEMMA StillSmooth == ASSUME TypeOK, UNCHANGED dac PROVE Smooth
<1>1. \A c \in {"x", "y"} : dac[c] \in Int
  BY ScannerAssumption DEF TypeOK, Point, Coordinate
<1>2. \A c \in {"x", "y"} : dac[c] - dac'[c] = 0
  BY <1>1
<1>3. QED
  BY <1>2 DEF Smooth

LEMMA WrapInside ==
  ASSUME NEW a \in Int, NEW m \in Int, a + m \in Coordinate
  PROVE  Wrap(a, m) = a + m
BY SmallMod, ScannerAssumption DEF Wrap, Coordinate

\* The products that bound the way of the probe in a raster that fits
LEMMA Products ==
  ASSUME NEW b \in Nat, NEW m \in Nat, NEW n \in Nat, m < n
  PROVE  m * b + b <= n * b /\ b * n = n * b /\ m * b >= 0
<1>1. n * b = m * b + b + (n - m - 1) * b
  OBVIOUS
<1>2. (n - m - 1) * b >= 0 /\ m * b >= 0
  <2>1. n - m - 1 \in Nat
    OBVIOUS
  <2>2. QED
    BY <2>1
<1>3. QED
  BY <1>1, <1>2

LEMMA SmoothStep == GInv /\ [Next]_vars => Smooth
<1> SUFFICES ASSUME GInv, [Next]_vars
             PROVE  Smooth
  OBVIOUS
<1>t. TypeOK /\ OnGrid /\ dac = pos_ /\ LineCounter
  BY DEF GInv, IInv, OnGrid
<1>n. /\ nx \in Nat /\ bx \in Nat /\ by \in Nat /\ i \in Nat /\ j \in Nat /\ k \in Nat
      /\ i * by \in Nat /\ j * bx \in Nat /\ bx * nx \in Nat
  BY <1>t, ScanNumbers
<1>r. /\ pos_.x \in Coordinate /\ pos_.y \in Coordinate
      /\ prev_point.x \in Coordinate /\ prev_point.y \in Coordinate
      /\ target.x \in Coordinate /\ target.y \in Coordinate
  BY <1>t DEF TypeOK, Point
<1>1. CASE MoveStep
  <2>1. CASE pos_.x < target.x /\ SetOnCap("x", 1)
    <3>1. pos_.x + 1 \in Coordinate
      BY <1>r, <2>1, ScannerAssumption DEF Coordinate
    <3>2. QED
      BY <1>t, <2>1, <3>1, StepInside
  <2>2. CASE pos_.x > target.x /\ SetOnCap("x", -1)
    <3>1. pos_.x + (-1) \in Coordinate
      BY <1>r, <2>2, ScannerAssumption DEF Coordinate
    <3>2. QED
      BY <1>t, <2>2, <3>1, StepInside
  <2>3. CASE pos_.y < target.y /\ SetOnCap("y", 1)
    <3>1. pos_.y + 1 \in Coordinate
      BY <1>r, <2>3, ScannerAssumption DEF Coordinate
    <3>2. QED
      BY <1>t, <2>3, <3>1, StepInside
  <2>4. CASE pos_.y > target.y /\ SetOnCap("y", -1)
    <3>1. pos_.y + (-1) \in Coordinate
      BY <1>r, <2>4, ScannerAssumption DEF Coordinate
    <3>2. QED
      BY <1>t, <2>4, <3>1, StepInside
  <2>5. QED
    BY <1>1, <2>1, <2>2, <2>3, <2>4 DEF MoveStep
<1>2. CASE Forward
  <2>1. SUFFICES ASSUME Fits PROVE Smooth
    BY <1>2 DEF Smooth, Forward
  <2>2. prev_point.x + nx * bx < Modulus
    BY <2>1 DEF Fits, nx, bx
  <2>3. j < nx /\ k < bx /\ SetOnCap("x", 1) /\ pos_.x = Wrap(prev_point.x, j * bx + k)
    BY <1>t, <1>2 DEF OnGrid, At, Forward, nx, bx
  <2>4. j * bx + bx <= nx * bx /\ nx * bx \in Nat
    BY <1>n, <2>3, Products
  <2>5. /\ j * bx + k \in Int /\ prev_point.x \in Int
        /\ prev_point.x + (j * bx + k) \in Coordinate
        /\ (prev_point.x + (j * bx + k)) + 1 \in Coordinate
    BY <1>n, <1>r, <2>2, <2>3, <2>4, ScannerAssumption DEF Coordinate
  <2>6. pos_.x + 1 \in Coordinate
    BY <2>3, <2>5, WrapInside
  <2>7. QED
    BY <1>t, <2>3, <2>6, StepInside
<1>3. CASE Back
  <2>1. SUFFICES ASSUME Fits PROVE Smooth
    BY <1>3 DEF Smooth, Back
  <2>2. prev_point.x + nx * bx < Modulus /\ nx * bx = bx * nx
    BY <1>n, <2>1 DEF Fits, nx, bx
  <2>3. j < bx * nx /\ SetOnCap("x", -1) /\ pos_.x = Wrap(prev_point.x, bx * nx - j)
    BY <1>t, <1>3 DEF OnGrid, At, Back, BackSteps, nx, bx
  <2>4. /\ bx * nx - j \in Int /\ prev_point.x \in Int
        /\ prev_point.x + (bx * nx - j) \in Coordinate
        /\ (prev_point.x + (bx * nx - j)) + (-1) \in Coordinate
    BY <1>n, <1>r, <2>2, <2>3, ScannerAssumption DEF Coordinate
  <2>5. pos_.x + (-1) \in Coordinate
    BY <2>3, <2>4, WrapInside
  <2>6. QED
    BY <1>t, <2>3, <2>5, StepInside
<1>4. CASE Down
  <2>1. SUFFICES ASSUME Fits PROVE Smooth
    BY <1>4 DEF Smooth, Down
  <2>2. prev_point.y + conf_.nPoints_y * by < Modulus /\ conf_.nPoints_y \in Nat
    BY <1>t, <2>1 DEF Fits, by, TypeOK, Config
  <2>3. /\ i < conf_.nPoints_y /\ j < by /\ SetOnCap("y", 1)
        /\ pos_.y = Wrap(prev_point.y, i * by + j)
    BY <1>t, <1>4 DEF OnGrid, At, Down, by, LineCounter, InLine
  <2>4. i * by + by <= conf_.nPoints_y * by /\ conf_.nPoints_y * by \in Nat
    BY <1>n, <2>2, <2>3, Products
  <2>5. /\ i * by + j \in Int /\ prev_point.y \in Int
        /\ prev_point.y + (i * by + j) \in Coordinate
        /\ (prev_point.y + (i * by + j)) + 1 \in Coordinate
    BY <1>n, <1>r, <2>2, <2>3, <2>4, ScannerAssumption DEF Coordinate
  <2>6. pos_.y + 1 \in Coordinate
    BY <2>3, <2>5, WrapInside
  <2>7. QED
    BY <1>t, <2>3, <2>6, StepInside
<1>5. CASE UNCHANGED dac
  BY <1>t, <1>5, StillSmooth
<1>6. QED
  BY <1>1, <1>2, <1>3, <1>4, <1>5
     DEF Next, Scanning, Moving, Update, MoveTo, MoveEnd, StartScan, NextLine, LastLine,
         StopScan, Sample, TurnBack, Send, CheckStop, CheckGoOn, DownEnd, Core1, ReceiveScan,
         ReceiveStop, ReceiveStopAll, StopAllEnd, core0, vars

\* The DAC's outputs move one step at a time in every move and in every scan whose
\* raster fits the range.
THEOREM OutputsDoNotJump == Spec => NoJump
<1>1. GInv /\ [Next]_vars => [Smooth]_vars
  BY SmoothStep
<1>2. QED
  BY <1>1, GridInductive, PTL DEF Spec, NoJump, Smooth
=============================================================================
