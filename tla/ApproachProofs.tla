--------------------------- MODULE ApproachProofs ---------------------------
(***************************************************************************)
(* Approach for every range of readings, every set of parameters and every *)
(* set of commands. For the adoption of a line the invariant says where    *)
(* core 1 is in its line and core 0 in its copy, as long as the host       *)
(* waits.                                                                  *)
(***************************************************************************)
EXTENDS Approach, TLAPS

\* A move begun with CONVERGENCE down is the last one of its approach: the next
\* look at the flag ends it, and only a new 75, which forgives it, begins another.
LastMove ==
    /\ late \in {0, 1}
    /\ late = 1 => ~CONVERGENCE /\ pc \in {"move", "round", "done", "loop"}

\* Core 1 raises a flag for numbers that are all in the vector.
Stored ==
    /\ rx = "store" => \A s \in Slots : s < writing => vec[s] = line.val[s]
    /\ rx = "raise" => vec = line.val
    /\ rx \in {"store", "raise"} => line.cmd # "70"
    /\ rx = "stopAll" => line.cmd = "70"

\* The line under way, of a host that waits
UnderWay ==
    /\ rx # "getline" /\ line.cmd = "75" => pc = "loop" /\ ~CONVERGENCE
    /\ rx # "getline" /\ line.cmd = "70" => ~CONVERGENCE_CONFIG_UPDATE
    /\ rx = "getline" /\ (CONVERGENCE \/ CONVERGENCE_CONFIG_UPDATE) => vec = asked

\* What core 0 has copied, of a host that waits
Copied ==
    /\ pc \in {"enter", "adopt"} =>
          /\ rx = "getline" /\ vec = due
          /\ \A s \in Slots : s < reading => par[s] = due[s]
    /\ pc \notin {"loop", "enter", "adopt"} =>
          par = due /\ (~CONVERGENCE_CONFIG_UPDATE => due = asked)
    /\ pc = "enter" /\ ~CONVERGENCE_CONFIG_UPDATE => due = asked

Adoption == ~rushed => UnderWay /\ Copied

\* A copy begins with the first element.
AtFirst == pc \notin {"enter", "adopt"} => reading = GATE_Z_MAX

IInv ==
    /\ TypeOK /\ Released /\ LastMove /\ Stored /\ AtFirst /\ Adoption
    /\ pc = "adopt" => CONVERGENCE_CONFIG_UPDATE

-----------------------------------------------------------------------------
LEMMA SlotsFacts ==
  /\ Slots = 2..4 /\ GATE_Z_MAX = 2 /\ GATE_Z_MIN = 3 /\ NSTEPS = 4
  /\ Fill \in [Slots -> Int]
BY ApproachAssumption DEF Slots, GATE_Z_MAX, GATE_Z_MIN, NSTEPS, Fill

LEMMA InitTyped == Init => TypeOK
<1> SUFFICES ASSUME Init PROVE TypeOK
  OBVIOUS
<1>1. /\ CONVERGENCE \in BOOLEAN /\ CONVERGENCE_CONFIG_UPDATE \in BOOLEAN
      /\ io3_1 \in BOOLEAN /\ rushed \in BOOLEAN
  BY DEF Init
<1>2. line \in [cmd : {"75", "76", "70"}, val : [Slots -> Int]]
  BY SlotsFacts DEF Init, Line
<1>3. QED
  BY <1>1, <1>2, SlotsFacts, ApproachAssumption DEF Init, TypeOK, none

\* What a line that comes, of any kind, is.
LEMMA HostStep ==
  ASSUME HostSends
  PROVE  \E c \in {"75", "76", "70"}, p \in [Slots -> Int] : GetLine(c, p)
BY SlotsFacts, ApproachAssumption DEF HostSends

LEMMA TypeStep == TypeOK /\ [Next]_vars => TypeOK'
<1> SUFFICES ASSUME TypeOK, [Next]_vars
             PROVE  TypeOK'
  OBVIOUS
<1> USE DEF core1, core0, flags, copied
<1>1. CASE Enter \/ Update
  <2>1. rushed' \in BOOLEAN
    BY <1>1 DEF TypeOK, Enter, Update, Look
  <2>2. QED
    BY <1>1, <2>1 DEF TypeOK, Enter, Update, Look
<1>2. CASE EnterCopy \/ UpdateCopy
  <2>1. par' \in [Slots -> Int] /\ reading' \in Slots
    BY <1>2, SlotsFacts DEF TypeOK, EnterCopy, UpdateCopy, Copy
  <2>2. QED
    BY <1>2, <2>1 DEF TypeOK, EnterCopy, UpdateCopy, Copy
<1>3. CASE FirstRead \/ RoundStop \/ RoundGo \/ Direct
  <2>1. CASE FirstRead
    BY <2>1 DEF TypeOK, FirstRead, none
  <2>2. CASE RoundStop
    BY <2>2 DEF TypeOK, RoundStop, stopdone
  <2>3. CASE RoundGo
    BY <2>3 DEF TypeOK, RoundGo, none
  <2>4. CASE Direct
    BY <2>4 DEF TypeOK, Direct
  <2>5. QED
    BY <1>3, <2>1, <2>2, <2>3, <2>4
<1>4. CASE ReadZ
  BY <1>4 DEF TypeOK, ReadZ, touch
<1>5. CASE Gate \/ GateEnd
  BY <1>5 DEF TypeOK, Gate, GateEnd, ok
<1>6. CASE Back \/ Move \/ Done
  <2>0. io3_1' \in BOOLEAN
    BY <1>6 DEF TypeOK, Back, Move, Done
  <2>1. CASE Back
    BY <2>0, <2>1 DEF TypeOK, Back
  <2>2. CASE Move
    BY <2>0, <2>2 DEF TypeOK, Move
  <2>3. CASE Done
    BY <2>0, <2>3 DEF TypeOK, Done
  <2>4. QED
    BY <1>6, <2>1, <2>2, <2>3
<1>7. CASE Report
  BY <1>7 DEF TypeOK, Report
<1>8. CASE HostSends
  <2>1. PICK c \in {"75", "76", "70"}, p \in [Slots -> Int] : GetLine(c, p)
    BY <1>8, HostStep
  <2>2. rushed' \in BOOLEAN /\ line' \in [cmd : {"75", "76", "70"}, val : [Slots -> Int]]
    BY <2>1 DEF TypeOK, GetLine, Waited, Line
  <2>3. QED
    BY <2>1, <2>2 DEF TypeOK, GetLine
<1>9. CASE FillOne \/ Store
  <2>1. vec' \in [Slots -> Int] /\ writing' \in Slots
    BY <1>9, SlotsFacts DEF TypeOK, FillOne, Store
  <2>2. QED
    BY <1>9, <2>1 DEF TypeOK, FillOne, Store
<1>10. CASE Raise
  <2>1. CONVERGENCE' \in BOOLEAN /\ CONVERGENCE_CONFIG_UPDATE' \in BOOLEAN
    BY <1>10 DEF Raise
  <2>2. QED
    BY <1>10, <2>1 DEF TypeOK, Raise
<1>11. CASE StopAll
  <2>1. CONVERGENCE' \in BOOLEAN
    BY <1>11 DEF StopAll
  <2>2. QED
    BY <1>11, <2>1 DEF TypeOK, StopAll
<1>12. CASE UNCHANGED vars
  BY <1>12 DEF TypeOK, vars
<1>13. QED
  BY <1>1, <1>2, <1>3, <1>4, <1>5, <1>6, <1>7, <1>8, <1>9, <1>10, <1>11, <1>12
     DEF Next, Core0, Core1

\* The approach's variables keep their types: the readings at the gate stay
\* within ten and a report has one of the four codes.
THEOREM TypeCorrect == Spec => []TypeOK
BY InitTyped, TypeStep, PTL DEF Spec

-----------------------------------------------------------------------------
LEMMA IInvInit == Init => IInv
<1>1. Init => TypeOK /\ Released
  BY InitTyped DEF Init, Released
<1>2. Init => LastMove /\ Stored /\ AtFirst /\ Adoption /\ pc # "adopt"
  BY DEF Init, LastMove, Stored, AtFirst, Adoption, UnderWay, Copied
<1>3. QED
  BY <1>1, <1>2 DEF IInv

\* The part of the invariant that is not about the copying
Steady ==
    Released /\ LastMove /\ Stored /\ AtFirst /\ (pc = "adopt" => CONVERGENCE_CONFIG_UPDATE)

LEMMA SteadyStep ==
  ASSUME TypeOK, TypeOK', Steady, [Next]_vars
  PROVE  Steady'
<1> USE DEF core1, core0, flags, copied, Steady, Released, LastMove, Stored, AtFirst
<1>1. CASE Enter \/ Update
  BY <1>1 DEF Enter, Update, Look
<1>2. CASE EnterCopy \/ UpdateCopy
  BY <1>2 DEF EnterCopy, UpdateCopy, Copy
<1>3. CASE FirstRead \/ RoundStop \/ RoundGo \/ Direct
  BY <1>3 DEF FirstRead, RoundStop, RoundGo, Direct
<1>4. CASE ReadZ \/ Gate \/ GateEnd
  BY <1>4 DEF ReadZ, Gate, GateEnd
<1>5. CASE Back \/ Move \/ Done
  BY <1>5 DEF Back, Move, Done
<1>6. CASE Report
  BY <1>6 DEF Report
<1>7. CASE HostSends
  <2>1. PICK c \in {"75", "76", "70"}, p \in [Slots -> Int] : GetLine(c, p)
    BY <1>7, HostStep
  <2>2. QED
    BY <2>1 DEF GetLine
<1>8. CASE FillOne
  BY <1>8, SlotsFacts DEF FillOne, TypeOK
<1>9. CASE Store
  <2>1. \A s \in Slots : s <= writing => vec'[s] = line.val[s]
    BY <1>9, SlotsFacts DEF Store, TypeOK
  <2>2. writing = NSTEPS => vec' = line.val
    BY <2>1, SlotsFacts DEF TypeOK
  <2>3. writing # NSTEPS => \A s \in Slots : s < writing' => vec'[s] = line'.val[s]
    BY <1>9, <2>1, SlotsFacts DEF Store, TypeOK
  <2>4. Stored'
    BY <1>9, <2>2, <2>3 DEF Store
  <2>5. QED
    BY <1>9, <2>4 DEF Store
<1>10. CASE Raise
  <2>1. line.cmd # "75" => (CONVERGENCE' <=> CONVERGENCE)
    BY <1>10 DEF Raise
  <2>2. Released' /\ Stored' /\ AtFirst' /\ (pc = "adopt" => CONVERGENCE_CONFIG_UPDATE)'
    BY <1>10 DEF Raise
  <2>3. LastMove'
    BY <1>10, <2>1 DEF Raise
  <2>4. QED
    BY <2>2, <2>3
<1>11. CASE StopAll
  BY <1>11 DEF StopAll
<1>12. CASE UNCHANGED vars
  BY <1>12 DEF vars
<1>13. QED
  BY <1>1, <1>2, <1>3, <1>4, <1>5, <1>6, <1>7, <1>8, <1>9, <1>10, <1>11, <1>12
     DEF Next, Core0, Core1

LEMMA AdoptionStep ==
  ASSUME IInv, TypeOK', [Next]_vars
  PROVE  Adoption'
<1> SUFFICES ASSUME ~rushed' PROVE UnderWay' /\ Copied'
  BY DEF Adoption
<1> USE DEF core1, core0, flags, copied
<1>1. CASE Enter \/ Update
  <2>1. ~rushed
    BY <1>1 DEF Enter, Update, Look
  <2>2. UnderWay /\ Copied
    BY <2>1 DEF IInv, Adoption
  <2>3. CASE Enter
    <3>1. rx = "getline" /\ vec = asked
      BY <2>1, <2>2, <2>3 DEF Enter, Look, UnderWay
    <3>2. UnderWay'
      BY <2>3, <3>1 DEF Enter, UnderWay
    <3>3. Copied'
      BY <2>2, <2>3, <3>1, SlotsFacts DEF Enter, Look, Copied, IInv, AtFirst, TypeOK
    <3>4. QED
      BY <3>2, <3>3
  <2>4. CASE Update
    <3>1. UnderWay'
      BY <2>2, <2>4 DEF Update, UnderWay
    <3>2. CASE CONVERGENCE_CONFIG_UPDATE
      <4>1. rx = "getline" /\ vec = asked /\ pc' = "adopt"
        BY <2>1, <2>2, <2>4, <3>2 DEF Update, Look, UnderWay
      <4>2. QED
        BY <2>4, <3>1, <3>2, <4>1, SlotsFacts DEF Update, Look, Copied, IInv, AtFirst, TypeOK
    <3>3. CASE ~CONVERGENCE_CONFIG_UPDATE
      BY <2>2, <2>4, <3>1, <3>3 DEF Update, Copied
    <3>4. QED
      BY <3>2, <3>3
  <2>5. QED
    BY <1>1, <2>3, <2>4
<1>2. CASE EnterCopy \/ UpdateCopy
  <2>1. ~rushed /\ UnderWay /\ Copied
    BY <1>2 DEF EnterCopy, UpdateCopy, Copy, IInv, Adoption
  <2>2. UnderWay'
    BY <1>2, <2>1 DEF EnterCopy, UpdateCopy, Copy, UnderWay
  <2>3. \A s \in Slots : s <= reading => par'[s] = due[s]
    BY <1>2, <2>1, SlotsFacts DEF EnterCopy, UpdateCopy, Copy, Copied, IInv, TypeOK
  <2>4. reading = NSTEPS => par' = due
    <3>1. par' \in [Slots -> Int] /\ due \in [Slots -> Int]
      BY DEF IInv, TypeOK
    <3>2. QED
      BY <2>3, <3>1, SlotsFacts
  <2>5. reading # NSTEPS => \A s \in Slots : s < reading' => par'[s] = due[s]
    BY <1>2, <2>3, SlotsFacts DEF EnterCopy, UpdateCopy, Copy, IInv, TypeOK
  <2>6. QED
    BY <1>2, <2>1, <2>2, <2>4, <2>5 DEF EnterCopy, UpdateCopy, Copy, Copied, IInv
<1>3. CASE FirstRead \/ RoundStop \/ RoundGo \/ Direct
  BY <1>3 DEF FirstRead, RoundStop, RoundGo, Direct, IInv, Adoption, UnderWay, Copied
<1>4. CASE ReadZ \/ Gate \/ GateEnd
  BY <1>4 DEF ReadZ, Gate, GateEnd, IInv, Adoption, UnderWay, Copied
<1>5. CASE Back \/ Move \/ Done \/ Report
  BY <1>5 DEF Back, Move, Done, Report, IInv, Adoption, UnderWay, Copied
<1>6. CASE HostSends
  <2>1. PICK c \in {"75", "76", "70"}, p \in [Slots -> Int] : GetLine(c, p)
    BY <1>6, HostStep
  <2>2. line'.cmd = c /\ Waited(c) /\ (c = "75" \/ ~rushed)
    BY <2>1 DEF GetLine, Line
  <2>3. CASE c = "75"
    BY <2>1, <2>2, <2>3 DEF GetLine, Waited, UnderWay, Copied
  <2>4. CASE c = "76"
    BY <2>1, <2>2, <2>4 DEF GetLine, Waited, UnderWay, Copied, IInv, Adoption
  <2>5. CASE c = "70"
    BY <2>1, <2>2, <2>5 DEF GetLine, Waited, UnderWay, Copied, IInv, Adoption
  <2>6. QED
    BY <2>3, <2>4, <2>5
<1>7. CASE FillOne \/ Store
  BY <1>7 DEF FillOne, Store, IInv, Adoption, UnderWay, Copied
<1>8. CASE Raise
  BY <1>8 DEF Raise, IInv, TypeOK, Stored, Adoption, UnderWay, Copied
<1>9. CASE StopAll
  BY <1>9 DEF StopAll, IInv, Stored, Adoption, UnderWay, Copied
<1>10. CASE UNCHANGED vars
  BY <1>10 DEF vars, IInv, Adoption, UnderWay, Copied
<1>11. QED
  BY <1>1, <1>2, <1>3, <1>4, <1>5, <1>6, <1>7, <1>8, <1>9, <1>10
     DEF Next, Core0, Core1

LEMMA IInvStep == IInv /\ [Next]_vars => IInv'
<1> SUFFICES ASSUME IInv, [Next]_vars
             PROVE  IInv'
  OBVIOUS
<1>1. TypeOK /\ TypeOK'
  BY TypeStep DEF IInv
<1>2. Steady'
  BY <1>1, SteadyStep DEF IInv, Steady
<1>3. Adoption'
  BY <1>1, AdoptionStep
<1>4. QED
  BY <1>1, <1>2, <1>3 DEF IInv, Steady

LEMMA Inductive == Spec => []IInv
BY IInvInit, IInvStep, PTL DEF Spec

\* After stopAll has lowered CONVERGENCE the linear driver makes at most the one
\* move of the round under way, whatever lines come meanwhile.
THEOREM StopIsBounded == Spec => []StopBound
<1>1. IInv => StopBound
  BY DEF IInv, LastMove, StopBound
<1>2. QED
  BY <1>1, Inductive, PTL

\* io3_1 is up only during a move, however the approach ends.
THEOREM OutputReleased == Spec => []Released
<1>1. IInv => Released
  BY DEF IInv
<1>2. QED
  BY <1>1, Inductive, PTL

\* The numbers that a round runs on are all those of the latest 75 or 76, though
\* both cores go through the vector element by element, for a host that waits.
THEOREM UpdateSeesNumbers == Spec => []UpdateIsWhole
<1>1. IInv => UpdateIsWhole
  BY DEF IInv, Adoption, Copied, UpdateIsWhole
<1>2. QED
  BY <1>1, Inductive, PTL
=============================================================================
