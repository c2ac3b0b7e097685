--------------------------- MODULE FrequencySweep ---------------------------
(***************************************************************************)
(* Commands 25, 26 and 70: the amplitude-frequency characteristic. Core 0  *)
(* measures one point per pass of its loop, so the state of a sweep lives  *)
(* in globals between the passes: is_already_scanning, scan_index, the     *)
(* static inBuf and the text afc. Core 1 raises AD7606_IS_SCANNING and     *)
(* AD7606_STOP_SCAN, and its stopAll resets the same globals meanwhile.    *)
(*                                                                         *)
(* Every line of the host, a stop too, overwrites the vector with -1       *)
(* before it is acted upon; core 0 copies a sweep's numbers from there one *)
(* by one, and nothing locks them. A point of afc is abstracted to the     *)
(* frequency it was measured at; the channel and the delay change nothing  *)
(* else. Numbers of inBuf are uint16_t and wrap at Modulus.                *)
(***************************************************************************)
EXTENDS Integers, Sequences, SequencesExt

CONSTANTS Modulus,    \* 2^16 in the code
          Sweeps,     \* the sweeps the host asks for
          Commands    \* the commands the host uses besides 25

Word == 0..(Modulus - 1)

\* The elements of vector, and of inBuf in the same order
N == 1
FREQ == 2
STEP == 3
Slots == N..STEP

ASSUME SweepAssumption ==
    /\ Modulus \in Nat \ {0}
    /\ Sweeps \subseteq [Slots -> Word]
    /\ Commands \subseteq {"26", "70"}

VARIABLES
    AD7606_IS_SCANNING, AD7606_STOP_SCAN, is_already_scanning,
    vec,         \* the shared vector
    inBuf,       \* the sweep under way; FREQ is the next frequency
    reading,     \* core 0: the element it copies next
    scan_index,
    index,       \* core 0: the value scan_index++ has read
    afc,         \* the points measured
    pc,          \* core 0
    rx, line,    \* core 1: what it does next, and the line it has read
    writing,     \* core 1: the element it writes next
    asked,       \* history: the sweep of the latest 25
    stopped,     \* history: a stop has come, and no sweep was begun at rest since
    reset,       \* history: stopAll has come since the latest report
    rushed       \* history: a line has come when the host should wait

flags == <<AD7606_IS_SCANNING, AD7606_STOP_SCAN, is_already_scanning>>
points == <<scan_index, index, afc>>
lines == <<line, writing, asked, stopped, rushed>>
vars == <<AD7606_IS_SCANNING, AD7606_STOP_SCAN, is_already_scanning, vec, inBuf, reading,
          scan_index, index, afc, pc, rx, line, writing, asked, stopped, reset, rushed>>

Fill == [s \in Slots |-> -1]
NoSweep == [s \in Slots |-> 0]

Init ==
    /\ AD7606_IS_SCANNING = FALSE /\ AD7606_STOP_SCAN = FALSE
    /\ is_already_scanning = FALSE
    /\ vec = Fill /\ inBuf = NoSweep /\ asked = NoSweep
    /\ scan_index = 0 /\ index = 0 /\ afc = <<>>
    /\ pc = "loop" /\ reading = N
    /\ rx = "getline" /\ writing = N /\ line = [cmd |-> "70", val |-> NoSweep]
    /\ stopped = FALSE /\ reset = FALSE /\ rushed = FALSE

-----------------------------------------------------------------------------
(* MainCore::loop, the block of AD7606_IS_SCANNING *)

\* if (AD7606_IS_SCANNING)
Poll ==
    /\ pc = "loop" /\ AD7606_IS_SCANNING
    /\ pc' = "started"
    /\ UNCHANGED <<flags, vec, inBuf, reading, points, rx, lines, reset>>

\* if (!is_already_scanning)
Started ==
    /\ pc = "started"
    /\ pc' = IF is_already_scanning THEN "index" ELSE "mark"
    /\ UNCHANGED <<flags, vec, inBuf, reading, points, rx, lines, reset>>

\* is_already_scanning = true
Mark ==
    /\ pc = "mark" /\ pc' = "begin"
    /\ is_already_scanning' = TRUE
    /\ UNCHANGED <<AD7606_IS_SCANNING, AD7606_STOP_SCAN, vec, inBuf, reading,
                   points, rx, lines, reset>>

\* inBuf[j] = vector[1 + j], an int32_t cut to 16 bits
Begin ==
    /\ pc = "begin"
    /\ inBuf' = [inBuf EXCEPT ![reading] = vec[reading] % Modulus]
    /\ IF reading = STEP THEN pc' = "loop" /\ reading' = N
                         ELSE reading' = reading + 1 /\ UNCHANGED pc
    /\ UNCHANGED <<flags, vec, points, rx, lines, reset>>

\* scan_index++ reads ...
ReadIndex ==
    /\ pc = "index" /\ pc' = "test"
    /\ index' = scan_index
    /\ UNCHANGED <<flags, vec, inBuf, reading, scan_index, afc, rx, lines, reset>>

\* ... and writes; the point is measured or the sweep is over.
TestIndex ==
    /\ pc = "test"
    /\ scan_index' = (index + 1) % Modulus
    /\ pc' = IF index < inBuf[N] /\ ~AD7606_STOP_SCAN THEN "measure" ELSE "report"
    /\ UNCHANGED <<flags, vec, inBuf, reading, index, afc, rx, lines, reset>>

\* set_freq, getValuesFromAdc, afc += ..., inBuf[1] += inBuf[2]
Measure ==
    /\ pc = "measure" /\ pc' = "loop"
    /\ afc' = Append(afc, inBuf[FREQ])
    /\ inBuf' = [inBuf EXCEPT ![FREQ] = (inBuf[FREQ] + inBuf[STEP]) % Modulus]
    /\ UNCHANGED <<flags, vec, reading, scan_index, index, rx, lines, reset>>

\* A report makes good what a stopAll that has returned left behind.
StillStopping == reset' = (reset /\ rx \in {"lower", "reset", "index", "clear"})

\* Mutant: afc is not cleared.
ReportKeepsAfc ==
    /\ pc = "report" /\ pc' = "lower"
    /\ scan_index' = 0
    /\ is_already_scanning' = FALSE /\ AD7606_STOP_SCAN' = FALSE
    /\ StillStopping
    /\ UNCHANGED <<AD7606_IS_SCANNING, vec, inBuf, reading, index, afc, rx, lines>>

\* Mutant: scan_index is not reset.
ReportKeepsIndex ==
    /\ pc = "report" /\ pc' = "lower"
    /\ afc' = <<>>
    /\ is_already_scanning' = FALSE /\ AD7606_STOP_SCAN' = FALSE
    /\ StillStopping
    /\ UNCHANGED <<AD7606_IS_SCANNING, vec, inBuf, reading, scan_index, index, rx, lines>>

\* afc is sent and cleared, and the globals are reset ...
Report ==
    /\ pc = "report" /\ pc' = "lower"
    /\ afc' = <<>> /\ scan_index' = 0
    /\ is_already_scanning' = FALSE /\ AD7606_STOP_SCAN' = FALSE
    /\ StillStopping
    /\ UNCHANGED <<AD7606_IS_SCANNING, vec, inBuf, reading, index, rx, lines>>

\* Mutant: the flag stays up.
LowerMissing ==
    /\ pc = "lower" /\ pc' = "loop"
    /\ UNCHANGED <<flags, vec, inBuf, reading, points, rx, lines, reset>>

\* ... and AD7606_IS_SCANNING last.
Lower ==
    /\ pc = "lower" /\ pc' = "loop"
    /\ AD7606_IS_SCANNING' = FALSE
    /\ UNCHANGED <<AD7606_STOP_SCAN, is_already_scanning, vec, inBuf, reading, points,
                   rx, lines, reset>>

Core0 ==
    \/ Poll \/ Started \/ Mark \/ Begin \/ ReadIndex \/ TestIndex
    \/ Measure \/ Report \/ Lower

-----------------------------------------------------------------------------
(* launchOnCore1 *)

core0 == <<inBuf, reading, points, pc>>

\* A 25 whose numbers core 0 has not copied yet
Pending ==
    \/ pc \in {"mark", "begin"}
    \/ AD7606_IS_SCANNING /\ ~is_already_scanning /\ pc # "lower"

\* Core 0 has nothing of a sweep in hand.
AtRest == pc = "loop" /\ ~AD7606_IS_SCANNING /\ ~is_already_scanning

(* A host that waits asks for a sweep when none is under way, which also makes
   good what it did before, and sends a stop when the sweep has its numbers. *)
Waited(c) == IF c = "25" THEN ~AD7606_IS_SCANNING ELSE ~Pending

\* A line comes.
GetLine(c, s) ==
    /\ rx = "getline" /\ rx' = "fill"
    /\ line' = [cmd |-> c, val |-> s]
    /\ rushed' = IF c = "25" THEN ~Waited(c) ELSE rushed \/ ~Waited(c)
    /\ stopped' = IF c = "25" THEN stopped /\ ~AtRest ELSE TRUE
    /\ UNCHANGED <<flags, vec, core0, writing, asked, reset>>

HostSends ==
    \/ \E s \in Sweeps : GetLine("25", s)
    \/ \E c \in Commands : GetLine(c, NoSweep)

\* vec[c] = -1; the line of a stop has no more numbers.
FillOne ==
    /\ rx = "fill"
    /\ vec' = [vec EXCEPT ![writing] = -1]
    /\ IF writing = STEP
         THEN /\ rx' = CASE line.cmd = "25" -> "store"
                         [] line.cmd = "26" -> "raise"
                         [] line.cmd = "70" -> "stopAll"
              /\ writing' = N
         ELSE rx' = rx /\ writing' = writing + 1
    /\ UNCHANGED <<flags, core0, line, asked, stopped, reset, rushed>>

\* parseInts
Store ==
    /\ rx = "store"
    /\ vec' = [vec EXCEPT ![writing] = line.val[writing]]
    /\ IF writing = STEP THEN rx' = "raise" /\ writing' = N
                         ELSE rx' = rx /\ writing' = writing + 1
    /\ UNCHANGED <<flags, core0, line, asked, stopped, reset, rushed>>

\* case 25
RaiseSweep ==
    /\ rx = "raise" /\ line.cmd = "25" /\ rx' = "getline"
    /\ AD7606_IS_SCANNING' = TRUE /\ asked' = line.val
    /\ UNCHANGED <<AD7606_STOP_SCAN, is_already_scanning, vec, core0, line, writing,
                   stopped, reset, rushed>>

\* case 26
RaiseStop ==
    /\ rx = "raise" /\ line.cmd = "26" /\ rx' = "getline"
    /\ AD7606_STOP_SCAN' = TRUE
    /\ UNCHANGED <<AD7606_IS_SCANNING, is_already_scanning, vec, core0, lines, reset>>

\* case 70: stopAll raises AD7606_STOP_SCAN ...
StopAll ==
    /\ rx = "stopAll" /\ rx' = "lower"
    /\ AD7606_STOP_SCAN' = TRUE /\ reset' = TRUE
    /\ UNCHANGED <<AD7606_IS_SCANNING, is_already_scanning, vec, core0, lines>>

\* ... lowers AD7606_IS_SCANNING ...
StopAllLower ==
    /\ rx = "lower" /\ rx' = "reset"
    /\ AD7606_IS_SCANNING' = FALSE
    /\ UNCHANGED <<AD7606_STOP_SCAN, is_already_scanning, vec, core0, lines, reset>>

\* ... resets is_already_scanning ...
StopAllReset ==
    /\ rx = "reset" /\ rx' = "index"
    /\ is_already_scanning' = FALSE
    /\ UNCHANGED <<AD7606_IS_SCANNING, AD7606_STOP_SCAN, vec, core0, lines, reset>>

\* ... and scan_index ...
StopAllIndex ==
    /\ rx = "index" /\ rx' = "clear"
    /\ scan_index' = 0
    /\ UNCHANGED <<flags, vec, inBuf, reading, index, afc, pc, lines, reset>>

\* Mutant: afc is not cleared.
StopAllClearMissing ==
    /\ rx = "clear" /\ rx' = "getline"
    /\ UNCHANGED <<flags, vec, core0, lines, reset>>

\* ... and clears afc.
StopAllClear ==
    /\ rx = "clear" /\ rx' = "getline"
    /\ afc' = <<>>
    /\ UNCHANGED <<flags, vec, inBuf, reading, scan_index, index, pc, lines, reset>>

Serve ==
    \/ FillOne \/ Store \/ RaiseSweep \/ RaiseStop
    \/ StopAll \/ StopAllLower \/ StopAllReset \/ StopAllIndex \/ StopAllClear

Next == Core0 \/ HostSends \/ Serve

Fairness == WF_vars(Core0) /\ WF_vars(Serve)

Spec == Init /\ [][Next]_vars
FairSpec == Spec /\ Fairness

-----------------------------------------------------------------------------
TypeOK ==
    /\ AD7606_IS_SCANNING \in BOOLEAN /\ AD7606_STOP_SCAN \in BOOLEAN
    /\ is_already_scanning \in BOOLEAN
    /\ stopped \in BOOLEAN /\ reset \in BOOLEAN /\ rushed \in BOOLEAN
    /\ vec \in [Slots -> Int] /\ inBuf \in [Slots -> Word] /\ asked \in [Slots -> Word]
    /\ line \in [cmd : {"25", "26", "70"}, val : [Slots -> Word]]
    /\ reading \in Slots /\ writing \in Slots
    /\ scan_index \in Word /\ index \in Word /\ afc \in Seq(Word)
    /\ pc \in {"loop", "started", "mark", "begin", "index", "test", "measure",
               "report", "lower"}
    /\ rx \in {"getline", "fill", "store", "raise", "stopAll", "lower", "reset",
               "index", "clear"}

\* The frequencies that a sweep asks for
Asked(s) == [q \in 1..s[N] |-> (s[FREQ] + (q - 1) * s[STEP]) % Modulus]

(* What is sent is the beginning of the sweep that the line of the 25 asked
   for, point by point: nothing of an earlier sweep, nothing twice, nothing left
   out, however AD7606_STOP_SCAN interrupts it. This takes a host that sends a
   stop only when the sweep has its numbers: the line of the stop wipes the
   vector they are copied from. The report after a stopAll is excepted, and only
   that one: it puts the globals in order again. *)
ReportIsPrefix == pc = "report" /\ ~reset /\ ~rushed => IsPrefix(afc, Asked(asked))

(* Points are missing only because AD7606_STOP_SCAN is up. *)
ShortOnlyIfStopped ==
    pc = "report" /\ ~reset /\ ~rushed /\ afc # Asked(asked) => AD7606_STOP_SCAN

(* stopAll resets the sweep under core 0's feet; the point being measured is
   all that can survive it. At rest afc holds at most that one stray point. *)
OneStrayPoint ==
    pc = "loop" /\ ~AD7606_IS_SCANNING /\ rx = "getline" => Len(afc) <= 1

(* A sweep ends: AD7606_IS_SCANNING goes down, with or without a stop. *)
SweepEnds == AD7606_IS_SCANNING ~> ~AD7606_IS_SCANNING

(* A sweep that was asked for at rest, and that no stop followed, has all its n
   points. *)
SweepIsFull == pc = "report" /\ ~stopped /\ ~rushed => afc = Asked(asked)
=============================================================================
