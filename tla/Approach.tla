------------------------------ MODULE Approach ------------------------------
(***************************************************************************)
(* Command 75, approacphm: the probe is brought to the surface in rounds.  *)
(* A round looks at CONVERGENCE, re-reads its parameters from the shared   *)
(* vector if CONVERGENCE_CONFIG_UPDATE (command 76) has ever been raised,  *)
(* reads Z, decides between touch, ok and none, reports, and moves the     *)
(* linear driver NSTEPS steps, backwards if NSTEPS is negative. It ends on *)
(* touch, with CONVERGENCE still up, or when stopAll has lowered it.       *)
(*                                                                         *)
(* Of the vector's elements those are kept that steer a round. Core 1      *)
(* fills and stores them one by one, core 0 copies them one by one, and    *)
(* nothing locks them. Gates are unsigned, so that the -1 of the fill is   *)
(* above every reading; as a number of steps it is one step back. A        *)
(* reading is its value and the channel it comes from.                     *)
(***************************************************************************)
EXTENDS Integers

CONSTANTS MaxZ,      \* bound: readings are 0..MaxZ
          Params,    \* the parameters the host sends
          Commands   \* the commands the host uses besides 75

\* The elements of vector, as both cores go through them
GATE_Z_MAX == 2
GATE_Z_MIN == 3
NSTEPS == 4
Slots == GATE_Z_MAX..NSTEPS

ASSUME ApproachAssumption ==
    /\ MaxZ \in Nat
    /\ Params \subseteq [Slots -> Int]
    /\ Commands \subseteq {"76", "70"}

Fill == [s \in Slots |-> IF s = NSTEPS THEN -1 ELSE MaxZ + 1]
Line(c, p) == [cmd |-> c, val |-> p]

VARIABLES
    pc,           \* core 0
    CONVERGENCE, CONVERGENCE_CONFIG_UPDATE,
    vec,          \* the shared vector
    par,          \* the parameters of the round
    reading,      \* core 0: the element it copies next
    Z,            \* the channel that the latest Z is from
    i, k,         \* readings taken at the gate, and those within it, up to 3
    buf_status,   \* code and Z of the next report
    io3_1,        \* the output that is up while the driver moves
    rx, line,     \* core 1: what it does next, and the line it has read
    writing,      \* core 1: the element it writes next
    late,         \* history: moves begun with CONVERGENCE down
    asked,        \* history: the numbers of the latest 75 or 76 raised
    due,          \* history: the numbers in force when core 0 last looked
    rushed        \* history: a line has come when the host should wait

flags == <<CONVERGENCE, CONVERGENCE_CONFIG_UPDATE>>
core1 == <<flags, vec, rx, line, writing, asked>>
copied == <<par, reading, due, rushed>>
vars == <<pc, CONVERGENCE, CONVERGENCE_CONFIG_UPDATE, vec, par, reading, Z, i, k,
          buf_status, io3_1, rx, line, writing, late, asked, due, rushed>>

none == 30
touch == 2
ok == 3
stopdone == 5

Init ==
    /\ pc = "loop" /\ rx = "getline"
    /\ CONVERGENCE = FALSE /\ CONVERGENCE_CONFIG_UPDATE = FALSE
    /\ vec = Fill /\ par = Fill /\ asked = Fill /\ due = Fill
    /\ line = Line("70", Fill) /\ reading = GATE_Z_MAX /\ writing = GATE_Z_MAX
    /\ rushed = FALSE
    /\ Z = 0 /\ i = 0 /\ k = 0
    /\ buf_status = [code |-> none, Z |-> 0] /\ io3_1 = FALSE /\ late = 0

-----------------------------------------------------------------------------
(* MainCore::loop and approacphm *)

\* Core 0 begins to copy: a line that is under way now may get into it, but a 75,
\* whose own flag comes after its numbers.
Look ==
    /\ due' = asked
    /\ rushed' = (rushed \/ (rx # "getline" /\ line.cmd # "75"))

\* One element of vector, in order
Copy(next) ==
    /\ par' = [par EXCEPT ![reading] = vec[reading]]
    /\ IF reading = NSTEPS THEN pc' = next /\ reading' = GATE_Z_MAX
                           ELSE reading' = reading + 1 /\ UNCHANGED pc
    /\ UNCHANGED <<core1, Z, i, k, buf_status, io3_1, late, due, rushed>>

\* if (CONVERGENCE): the arguments are copied, the rest of the call prepared.
Enter ==
    /\ pc = "loop" /\ CONVERGENCE
    /\ pc' = "enter" /\ Look
    /\ UNCHANGED <<core1, par, reading, Z, i, k, buf_status, io3_1, late>>

EnterCopy == pc = "enter" /\ Copy("first")

\* SIGNAL = ptr[0]; Z = ptr[1]
FirstRead ==
    /\ pc = "first" /\ pc' = "round"
    /\ Z' = 1
    /\ buf_status' = [code |-> none, Z |-> 1]
    /\ UNCHANGED <<core1, copied, i, k, io3_1, late>>

\* Mutant: no break.
RoundStopNoBreak ==
    /\ pc = "round" /\ ~CONVERGENCE
    /\ buf_status' = [code |-> stopdone, Z |-> Z] /\ io3_1' = FALSE
    /\ UNCHANGED <<pc, core1, copied, Z, i, k, late>>

\* if (!CONVERGENCE)
RoundStop ==
    /\ pc = "round" /\ ~CONVERGENCE
    /\ pc' = "done"
    /\ buf_status' = [code |-> stopdone, Z |-> Z] /\ io3_1' = FALSE
    /\ UNCHANGED <<core1, copied, Z, i, k, late>>

\* Mutant: CONVERGENCE is not looked at.
RoundGoAlways ==
    /\ pc = "round" /\ pc' = "update"
    /\ buf_status' = [buf_status EXCEPT !.code = none]
    /\ UNCHANGED <<core1, copied, Z, i, k, io3_1, late>>

RoundGo ==
    /\ pc = "round" /\ CONVERGENCE
    /\ pc' = "update"
    /\ buf_status' = [buf_status EXCEPT !.code = none]
    /\ UNCHANGED <<core1, copied, Z, i, k, io3_1, late>>

\* if (CONVERGENCE_CONFIG_UPDATE)
Update ==
    /\ pc = "update"
    /\ \/ CONVERGENCE_CONFIG_UPDATE /\ pc' = "adopt" /\ Look
       \/ /\ ~CONVERGENCE_CONFIG_UPDATE /\ pc' = "adopted"
          /\ due' = asked /\ UNCHANGED rushed
    /\ UNCHANGED <<core1, par, reading, Z, i, k, buf_status, io3_1, late>>

UpdateCopy == pc = "adopt" /\ Copy("adopted")

\* The set point and the gain are put out; NSTEPS >= 0 is on, else back.
Direct ==
    /\ pc = "adopted"
    /\ pc' = IF par[NSTEPS] >= 0 THEN "read" ELSE "back"
    /\ UNCHANGED <<core1, copied, Z, i, k, buf_status, io3_1, late>>

\* Z = ptr[0]; touch, within the gate, or neither
ReadZ ==
    /\ pc = "read" /\ Z' = 0
    /\ \E v \in 0..MaxZ :
        \/ /\ v <= par[GATE_Z_MIN]
           /\ pc' = "done" /\ buf_status' = [code |-> touch, Z |-> 0]
           /\ UNCHANGED <<i, k>>
        \/ /\ v > par[GATE_Z_MIN] /\ v <= par[GATE_Z_MAX]
           /\ pc' = "gate" /\ i' = 0 /\ k' = 0
           /\ UNCHANGED buf_status
        \/ /\ v > par[GATE_Z_MIN] /\ v > par[GATE_Z_MAX]
           /\ pc' = "report"
           /\ UNCHANGED <<i, k, buf_status>>
    /\ UNCHANGED <<core1, copied, io3_1, late>>

\* Ten more readings
Gate ==
    /\ pc = "gate" /\ i < 10
    /\ i' = i + 1
    /\ \E v \in 0..MaxZ :
        k' = IF v <= par[GATE_Z_MAX] /\ k < 3 THEN k + 1 ELSE k
    /\ UNCHANGED <<pc, core1, copied, Z, buf_status, io3_1, late>>

GateEnd ==
    /\ pc = "gate" /\ i = 10
    /\ pc' = "report"
    /\ buf_status' = IF k >= 3 THEN [code |-> ok, Z |-> 0] ELSE buf_status
    /\ i' = 0 /\ k' = 0
    /\ UNCHANGED <<core1, copied, Z, io3_1, late>>

\* NSTEPS < 0
Back ==
    /\ pc = "back" /\ pc' = "report"
    /\ io3_1' = FALSE
    /\ UNCHANGED <<core1, copied, Z, i, k, buf_status, late>>

\* The line code75 is sent and io3_1.enable().
Report ==
    /\ pc = "report" /\ pc' = "move"
    /\ io3_1' = TRUE
    /\ late' = IF CONVERGENCE THEN late ELSE late + 1
    /\ UNCHANGED <<core1, copied, Z, i, k, buf_status>>

\* Mutant: io3_1 stays up.
MoveKeepsIo ==
    /\ pc = "move" /\ pc' = "round"
    /\ UNCHANGED <<core1, copied, Z, i, k, buf_status, io3_1, late>>

\* linearDriver.activate(99, ..., abs(NSTEPS), NSTEPS > 0); io3_1.disable()
Move ==
    /\ pc = "move" /\ pc' = "round"
    /\ io3_1' = FALSE
    /\ UNCHANGED <<core1, copied, Z, i, k, buf_status, late>>

\* The last line code75 and "end"
Done ==
    /\ pc = "done" /\ pc' = "loop"
    /\ UNCHANGED <<core1, copied, Z, i, k, buf_status, io3_1, late>>

Core0 ==
    \/ Enter \/ EnterCopy \/ FirstRead \/ RoundStop \/ RoundGo
    \/ Update \/ UpdateCopy \/ Direct \/ ReadZ
    \/ Gate \/ GateEnd \/ Back \/ Report \/ Move \/ Done

-----------------------------------------------------------------------------
(* launchOnCore1: the fill, then the numbers, then the flag *)

core0 == <<pc, par, reading, Z, i, k, buf_status, io3_1, late, due>>

(* A host that waits starts an approach when none is on, which also makes good
   what it did before. It sends a 76 in answer to a report, while the driver
   moves; the first 76 it sends at any time once the approach has its arguments,
   and up to then a stop. *)
Waited(c) ==
    CASE c = "75" -> pc = "loop" /\ ~CONVERGENCE
      [] c = "76" -> \/ pc = "move"
                     \/ /\ ~CONVERGENCE_CONFIG_UPDATE /\ CONVERGENCE
                        /\ pc \notin {"loop", "enter"}
      [] c = "70" -> ~CONVERGENCE_CONFIG_UPDATE /\ pc # "enter"

\* Mutant: the flag is raised before the numbers are stored.
GetLineRaises(c, p) ==
    /\ rx = "getline" /\ rx' = "fill"
    /\ line' = Line(c, p)
    /\ rushed' = IF c = "75" THEN ~Waited(c) ELSE rushed \/ ~Waited(c)
    /\ CONVERGENCE' = (CONVERGENCE \/ c = "75")
    /\ CONVERGENCE_CONFIG_UPDATE' = (CONVERGENCE_CONFIG_UPDATE \/ c = "76")
    /\ UNCHANGED <<core0, vec, writing, asked>>

\* A line comes.
GetLine(c, p) ==
    /\ rx = "getline" /\ rx' = "fill"
    /\ line' = Line(c, p)
    /\ rushed' = IF c = "75" THEN ~Waited(c) ELSE rushed \/ ~Waited(c)
    /\ UNCHANGED <<core0, flags, vec, writing, asked>>

HostSends ==
    \/ \E c \in {"75"} \cup (Commands \ {"70"}), p \in Params : GetLine(c, p)
    \/ "70" \in Commands /\ GetLine("70", Fill)

\* vec[c] = -1; the line of a 70 has no more numbers.
FillOne ==
    /\ rx = "fill"
    /\ vec' = [vec EXCEPT ![writing] = Fill[writing]]
    /\ IF writing = NSTEPS
         THEN /\ rx' = IF line.cmd = "70" THEN "stopAll" ELSE "store"
              /\ writing' = GATE_Z_MAX
         ELSE rx' = rx /\ writing' = writing + 1
    /\ UNCHANGED <<core0, flags, line, asked, rushed>>

\* parseInts
Store ==
    /\ rx = "store"
    /\ vec' = [vec EXCEPT ![writing] = line.val[writing]]
    /\ IF writing = NSTEPS THEN rx' = "raise" /\ writing' = GATE_Z_MAX
                           ELSE rx' = rx /\ writing' = writing + 1
    /\ UNCHANGED <<core0, flags, line, asked, rushed>>

\* case 75 and case 76
Raise ==
    /\ rx = "raise" /\ rx' = "getline"
    /\ CONVERGENCE' = (CONVERGENCE \/ line.cmd = "75")
    /\ CONVERGENCE_CONFIG_UPDATE' = (CONVERGENCE_CONFIG_UPDATE \/ line.cmd = "76")
    /\ late' = IF line.cmd = "75" THEN 0 ELSE late
    /\ asked' = line.val
    /\ UNCHANGED <<pc, copied, Z, i, k, buf_status, io3_1, vec, line, writing>>

\* case 70: stopAll leaves CONVERGENCE_CONFIG_UPDATE up.
StopAll ==
    /\ rx = "stopAll" /\ rx' = "getline"
    /\ CONVERGENCE' = FALSE
    /\ UNCHANGED <<core0, CONVERGENCE_CONFIG_UPDATE, vec, line, writing, asked, rushed>>

Core1 == HostSends \/ FillOne \/ Store \/ Raise \/ StopAll

Next == Core0 \/ Core1

Fairness == WF_vars(Core0) /\ WF_vars(FillOne \/ Store \/ Raise \/ StopAll)

Spec == Init /\ [][Next]_vars
FairSpec == Spec /\ Fairness

-----------------------------------------------------------------------------
TypeOK ==
    /\ pc \in {"loop", "enter", "first", "round", "update", "adopt", "adopted", "read",
               "gate", "back", "report", "move", "done"}
    /\ rx \in {"getline", "fill", "store", "raise", "stopAll"}
    /\ CONVERGENCE \in BOOLEAN /\ CONVERGENCE_CONFIG_UPDATE \in BOOLEAN
    /\ rushed \in BOOLEAN
    /\ vec \in [Slots -> Int] /\ par \in [Slots -> Int]
    /\ asked \in [Slots -> Int] /\ due \in [Slots -> Int]
    /\ line \in [cmd : {"75", "76", "70"}, val : [Slots -> Int]]
    /\ reading \in Slots /\ writing \in Slots
    /\ Z \in {0, 1} /\ i \in 0..10 /\ k \in 0..3 /\ k <= i
    /\ buf_status \in [code : {none, touch, ok, stopdone}, Z : {0, 1}]
    /\ io3_1 \in BOOLEAN /\ late \in Nat

(* Once stopAll has lowered CONVERGENCE the driver makes at most the move of
   the round that is under way. *)
StopBound == late <= 1

(* The output io3_1 is up only while the driver moves, whichever way the
   approach ends. *)
Released == io3_1 => pc = "move"

(* A round runs on all the numbers of one line, the latest 75 or 76 when it
   looked: never on a mixture of two lines, nor on the -1 of a fill. This takes a
   host that waits: the flag of the 76 is never lowered, so that after the first
   one every round copies what is in the vector, and only a line that comes and
   is stored while the driver moves does not meet the copying. *)
UpdateIsWhole == ~rushed /\ pc \notin {"loop", "enter", "adopt"} => par = due

(* Once CONVERGENCE is down the approach returns, unless it is raised again. *)
Returns == ~CONVERGENCE /\ pc # "loop" ~> pc = "loop" \/ CONVERGENCE

(* The Z of every report is a reading of channel 0. *)
ReportsZ == pc \in {"report", "done"} => buf_status.Z = 0
=============================================================================
