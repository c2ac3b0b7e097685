------------------------ MODULE FrequencySweepProofs ------------------------
(***************************************************************************)
(* FrequencySweep for every modulus, every set of sweeps and every set of  *)
(* commands. The sweep's state is spread over globals that two cores write *)
(* one by one; the inductive invariant says how they hang together in each *)
(* pass of core 0 until a stopAll disturbs them, and that the next report  *)
(* puts them in order again. What they contain is the sweep asked for as   *)
(* long as the host also waits.                                            *)
(***************************************************************************)
EXTENDS FrequencySweep, SequenceTheorems, ModularArithmetic

\* The q-th frequency of a sweep
Frequency(s, q) == (s[FREQ] + (q - 1) * s[STEP]) % Modulus

\* m points of the sweep asked for have been measured, and the next is due.
Progress(m) ==
    /\ m <= asked[N]
    /\ Len(afc) = m
    /\ \A q \in 1..m : afc[q] = Frequency(asked, q)
    /\ inBuf[N] = asked[N] /\ inBuf[STEP] = asked[STEP]
    /\ inBuf[FREQ] = Frequency(asked, m + 1)

\* Nothing has been measured.
Fresh == scan_index = 0 /\ afc = <<>>

\* Where core 0 is in a sweep that no stopAll has disturbed
Control ==
    /\ pc = "mark" => ~is_already_scanning /\ Fresh
    /\ pc = "begin" => is_already_scanning /\ Fresh
    /\ pc = "lower" => ~is_already_scanning /\ Fresh
    /\ pc \in {"loop", "started"} /\ ~is_already_scanning => Fresh
    /\ pc \in {"index", "test", "measure", "report"} => is_already_scanning
    /\ pc \notin {"loop", "lower"} \/ is_already_scanning => AD7606_IS_SCANNING

\* What it holds there, if the host waits too
Content ==
    /\ Pending => rx = "getline" /\ vec = asked
    /\ pc = "begin" => \A s \in Slots : s < reading => inBuf[s] = asked[s]
    /\ pc \in {"loop", "started"} /\ is_already_scanning => Progress(scan_index)
    /\ pc = "index" => Progress(scan_index)
    /\ pc = "test" => Progress(index) /\ scan_index = index
    /\ pc = "measure" => Progress(index) /\ scan_index = index + 1 /\ index < asked[N]
    /\ pc = "report" => Progress(index) /\ (index = asked[N] \/ AD7606_STOP_SCAN)

\* Core 1 raises AD7606_IS_SCANNING for numbers that are all in the vector.
Stored ==
    /\ rx = "store" => line.cmd = "25" /\ \A s \in Slots : s < writing => vec[s] = line.val[s]
    /\ rx = "raise" /\ line.cmd = "25" => vec = line.val

\* At rest, or with the last pass still running after a stopAll
Stray ==
    /\ pc = "lower" => afc = <<>>
    /\ rx \notin {"reset", "index", "clear"} /\ ~AD7606_IS_SCANNING =>
          /\ Len(afc) <= 1
          /\ pc \in {"started", "index", "test", "measure"} => afc = <<>>

IInv ==
    /\ TypeOK
    /\ Stored
    /\ pc # "begin" => reading = N
    /\ rx \in {"lower", "reset", "index", "clear"} => reset
    /\ ~rushed /\ rx # "getline" /\ line.cmd = "25" => ~AD7606_IS_SCANNING
    /\ ~reset => Control
    /\ ~reset /\ ~rushed => Content
    /\ Stray

-----------------------------------------------------------------------------
LEMMA SlotsFacts ==
  /\ Slots = 1..3 /\ N = 1 /\ FREQ = 2 /\ STEP = 3
  /\ Modulus \in Nat /\ Modulus >= 1 /\ 0 \in Word /\ Word \subseteq Nat
BY SweepAssumption DEF Slots, N, FREQ, STEP, Word

LEMMA WordInt == ASSUME NEW a \in Word PROVE a \in Nat /\ a \in Int
BY SweepAssumption DEF Word

LEMMA WordMod == ASSUME NEW a \in Int PROVE a % Modulus \in Word
BY ModInRange, SweepAssumption DEF Word

LEMMA WordIsMod == ASSUME NEW a \in Word PROVE a % Modulus = a
BY SmallMod, SweepAssumption DEF Word

LEMMA SweepParts ==
  ASSUME NEW s \in [Slots -> Word]
  PROVE  s[N] \in Word /\ s[FREQ] \in Word /\ s[STEP] \in Word
         /\ s[N] \in Nat /\ s[FREQ] \in Int /\ s[STEP] \in Int
<1>1. N \in Slots /\ FREQ \in Slots /\ STEP \in Slots
  BY SlotsFacts
<1>2. s[N] \in Word /\ s[FREQ] \in Word /\ s[STEP] \in Word
  BY <1>1
<1>3. QED
  BY <1>2, WordInt

LEMMA FrequencyInRange ==
  ASSUME NEW s \in [Slots -> Word], NEW q \in Nat
  PROVE  Frequency(s, q) \in Word
<1>1. s[FREQ] \in Int /\ s[STEP] \in Int
  BY SweepParts
<1>2. s[FREQ] + (q - 1) * s[STEP] \in Int
  BY <1>1
<1>3. QED
  BY <1>2, WordMod DEF Frequency

LEMMA FirstFrequency ==
  ASSUME NEW s \in [Slots -> Word]
  PROVE  Frequency(s, 1) = s[FREQ]
<1>1. s[FREQ] \in Word /\ s[FREQ] \in Int /\ s[STEP] \in Int
  BY SweepParts
<1>2. s[FREQ] + (1 - 1) * s[STEP] = s[FREQ]
  BY <1>1
<1>3. QED
  BY <1>1, <1>2, WordIsMod DEF Frequency

\* inBuf[1] += inBuf[2], cut to 16 bits every time, is the next frequency.
LEMMA NextFrequency ==
  ASSUME NEW s \in [Slots -> Word], NEW q \in Nat
  PROVE  (Frequency(s, q) + s[STEP]) % Modulus = Frequency(s, q + 1)
<1> DEFINE f == s[FREQ]
           d == s[STEP]
           a == f + (q - 1) * d
<1>1. f \in Int /\ d \in Int
  BY SweepParts
<1>2. a \in Int /\ a + d = f + ((q + 1) - 1) * d
  <2> HIDE DEF f, d
  <2> QED BY <1>1
<1>3. ((a % Modulus) + d) % Modulus = (a + d) % Modulus
  <2> HIDE DEF a, d
  <2> QED BY <1>1, <1>2, ModPlus, SweepAssumption
<1>4. QED
  BY <1>2, <1>3 DEF Frequency

-----------------------------------------------------------------------------
LEMMA InitTyped == Init => TypeOK
<1> SUFFICES ASSUME Init PROVE TypeOK
  OBVIOUS
<1>1. /\ AD7606_IS_SCANNING \in BOOLEAN /\ AD7606_STOP_SCAN \in BOOLEAN
      /\ is_already_scanning \in BOOLEAN
      /\ stopped \in BOOLEAN /\ reset \in BOOLEAN /\ rushed \in BOOLEAN
  BY DEF Init
<1>2. Fill \in [Slots -> Int] /\ NoSweep \in [Slots -> Word]
  BY SlotsFacts DEF Fill, NoSweep
<1>3. line \in [cmd : {"25", "26", "70"}, val : [Slots -> Word]]
  BY <1>2 DEF Init
<1>4. QED
  BY <1>1, <1>2, <1>3, SlotsFacts DEF Init, TypeOK

\* What a line that comes, of any kind, is.
LEMMA HostStep ==
  ASSUME HostSends
  PROVE  \E c \in {"25", "26", "70"}, s \in [Slots -> Word] : GetLine(c, s)
<1>1. NoSweep \in [Slots -> Word]
  BY SlotsFacts DEF NoSweep
<1>2. QED
  BY <1>1, SweepAssumption DEF HostSends

LEMMA Core0Typed ==
  ASSUME TypeOK, Core0
  PROVE  TypeOK'
<1> USE DEF flags, points, lines
<1>1. CASE Poll \/ Started \/ ReadIndex
  BY <1>1 DEF TypeOK, Poll, Started, ReadIndex
<1>2. CASE Mark \/ Lower
  <2>1. is_already_scanning' \in BOOLEAN /\ AD7606_IS_SCANNING' \in BOOLEAN
    BY <1>2 DEF TypeOK, Mark, Lower
  <2>2. QED
    BY <1>2, <2>1 DEF TypeOK, Mark, Lower
<1>3. CASE Begin
  <2>1. vec[reading] \in Int
    BY DEF TypeOK
  <2>2. inBuf' \in [Slots -> Word]
    BY <1>3, <2>1, WordMod DEF Begin, TypeOK
  <2>3. reading' \in Slots
    BY <1>3, SlotsFacts DEF Begin, TypeOK
  <2>4. QED
    BY <1>3, <2>2, <2>3 DEF TypeOK, Begin
<1>4. CASE TestIndex
  <2>1. index + 1 \in Int
    BY SlotsFacts DEF TypeOK
  <2>2. (index + 1) % Modulus \in Word
    BY <2>1, WordMod
  <2>3. QED
    BY <1>4, <2>2 DEF TypeOK, TestIndex
<1>5. CASE Measure
  <2>1. inBuf[FREQ] \in Word /\ inBuf[FREQ] + inBuf[STEP] \in Int
    BY SweepParts DEF TypeOK
  <2>2. (inBuf[FREQ] + inBuf[STEP]) % Modulus \in Word
    BY <2>1, WordMod
  <2>3. inBuf' \in [Slots -> Word]
    BY <1>5, <2>2, SlotsFacts DEF Measure, TypeOK
  <2>4. afc' \in Seq(Word)
    BY <1>5, <2>1 DEF Measure, TypeOK
  <2>5. QED
    BY <1>5, <2>3, <2>4 DEF TypeOK, Measure
<1>6. CASE Report
  <2>1. reset' \in BOOLEAN /\ is_already_scanning' \in BOOLEAN /\ AD7606_STOP_SCAN' \in BOOLEAN
    BY <1>6 DEF Report, StillStopping
  <2>2. QED
    BY <1>6, <2>1, SlotsFacts DEF TypeOK, Report
<1>7. QED
  BY <1>1, <1>2, <1>3, <1>4, <1>5, <1>6 DEF Core0

LEMMA Core1Typed ==
  ASSUME TypeOK, HostSends \/ Serve
  PROVE  TypeOK'
<1> USE DEF flags, points, lines, core0
<1>1. CASE HostSends
  <2>1. PICK c \in {"25", "26", "70"}, s \in [Slots -> Word] : GetLine(c, s)
    BY <1>1, HostStep
  <2>2. rushed' \in BOOLEAN /\ stopped' \in BOOLEAN
    BY <2>1 DEF TypeOK, GetLine, Waited, Pending, AtRest
  <2>3. line' \in [cmd : {"25", "26", "70"}, val : [Slots -> Word]]
    BY <2>1 DEF GetLine
  <2>4. QED
    BY <2>1, <2>2, <2>3 DEF TypeOK, GetLine
<1>2. CASE FillOne
  <2>0. -1 \in Int /\ vec' = [vec EXCEPT ![writing] = -1]
    BY <1>2 DEF FillOne
  <2>1. vec' \in [Slots -> Int]
    BY <2>0 DEF TypeOK
  <2>a. writing' \in Slots
    <3>1. writing = STEP => writing' = N
      BY <1>2, Zenon DEF FillOne
    <3>2. writing # STEP => writing' = writing + 1
      BY <1>2, Zenon DEF FillOne
    <3>3. QED
      BY <3>1, <3>2, SlotsFacts DEF TypeOK
  <2>2. line.cmd \in {"25", "26", "70"}
    BY DEF TypeOK
  <2>3. rx' \in {"fill", "store", "raise", "stopAll"}
    BY <1>2, <2>2 DEF FillOne
  <2>4. QED
    BY <1>2, <2>1, <2>a, <2>3 DEF TypeOK, FillOne
<1>3. CASE Store
  <2>0. line.val[writing] \in Word
    BY DEF TypeOK
  <2>1. line.val[writing] \in Int
    BY <2>0, WordInt
  <2>a. vec' \in [Slots -> Int]
    BY <1>3, <2>1 DEF TypeOK, Store
  <2>2. writing' \in Slots
    BY <1>3, SlotsFacts DEF TypeOK, Store
  <2>3. QED
    BY <1>3, <2>a, <2>2 DEF TypeOK, Store
<1>4. CASE RaiseSweep \/ RaiseStop \/ StopAll
  <2>1. /\ AD7606_IS_SCANNING' \in BOOLEAN /\ AD7606_STOP_SCAN' \in BOOLEAN
        /\ reset' \in BOOLEAN /\ asked' \in [Slots -> Word]
    BY <1>4 DEF TypeOK, RaiseSweep, RaiseStop, StopAll
  <2>2. QED
    BY <1>4, <2>1 DEF TypeOK, RaiseSweep, RaiseStop, StopAll
<1>5. CASE StopAllLower \/ StopAllReset
  <2>1. AD7606_IS_SCANNING' \in BOOLEAN /\ is_already_scanning' \in BOOLEAN
    BY <1>5 DEF TypeOK, StopAllLower, StopAllReset
  <2>2. QED
    BY <1>5, <2>1 DEF TypeOK, StopAllLower, StopAllReset
<1>6. CASE StopAllIndex \/ StopAllClear
  <2>1. 0 \in Word /\ <<>> \in Seq(Word)
    BY SlotsFacts
  <2>2. scan_index' \in Word /\ afc' \in Seq(Word)
    BY <1>6, <2>1 DEF TypeOK, StopAllIndex, StopAllClear
  <2>3. QED
    BY <1>6, <2>2 DEF TypeOK, StopAllIndex, StopAllClear
<1>7. QED
  BY <1>1, <1>2, <1>3, <1>4, <1>5, <1>6 DEF Serve

LEMMA TypeStep == TypeOK /\ [Next]_vars => TypeOK'
<1>1. TypeOK /\ UNCHANGED vars => TypeOK'
  BY DEF TypeOK, vars
<1>2. QED
  BY <1>1, Core0Typed, Core1Typed DEF Next

\* The globals of a sweep stay within uint16_t, and the rest in its type.
THEOREM TypeCorrect == Spec => []TypeOK
BY InitTyped, TypeStep, PTL DEF Spec

-----------------------------------------------------------------------------
LEMMA IInvInit == Init => IInv
<1> SUFFICES ASSUME Init PROVE IInv
  OBVIOUS
<1>1. TypeOK
  BY InitTyped
<1>2. Fresh /\ Len(afc) = 0
  BY DEF Init, Fresh
<1>3. Control /\ Content
  BY <1>2 DEF Init, Control, Content, Pending
<1>4. QED
  BY <1>1, <1>2, <1>3 DEF Init, IInv, Stored, Stray

\* What the two cores do to the stray point
LEMMA StrayStep == TypeOK /\ Stray /\ [Next]_vars => Stray'
<1> SUFFICES ASSUME TypeOK, Stray, [Next]_vars
             PROVE  Stray'
  OBVIOUS
<1> USE DEF Stray, flags, points, lines, core0
<1>1. CASE Poll \/ Started
  BY <1>1 DEF TypeOK, Poll, Started
<1>2. CASE Mark \/ Begin \/ ReadIndex
  BY <1>2 DEF TypeOK, Mark, Begin, ReadIndex
<1>3. CASE TestIndex \/ Lower
  BY <1>3 DEF TypeOK, TestIndex, Lower
<1>4. CASE Measure
  <2>1. afc = <<>> => Len(afc') = 1
    BY <1>4 DEF Measure
  <2>2. QED
    BY <1>4, <2>1 DEF Measure
<1>5. CASE Report \/ StopAllClear
  BY <1>5 DEF Report, StopAllClear
<1>6. CASE HostSends
  <2>1. PICK c \in {"25", "26", "70"}, s \in [Slots -> Word] : GetLine(c, s)
    BY <1>6, HostStep
  <2>2. QED
    BY <2>1 DEF GetLine
<1>7. CASE FillOne
  <2>1. line.cmd \in {"25", "26", "70"}
    BY DEF TypeOK
  <2>2. rx = "fill" /\ rx' \in {"fill", "store", "raise", "stopAll"}
    BY <1>7, <2>1 DEF FillOne
  <2>3. QED
    BY <1>7, <2>2 DEF FillOne
<1>8. CASE Store \/ RaiseSweep \/ RaiseStop
  BY <1>8 DEF Store, RaiseSweep, RaiseStop
<1>9. CASE StopAll \/ StopAllLower \/ StopAllReset \/ StopAllIndex
  BY <1>9 DEF StopAll, StopAllLower, StopAllReset, StopAllIndex
<1>10. CASE UNCHANGED vars
  BY <1>10 DEF vars
<1>11. QED
  BY <1>1, <1>2, <1>3, <1>4, <1>5, <1>6, <1>7, <1>8, <1>9, <1>10 DEF Next, Core0, Serve

\* Core 1 has stored a whole line before it raises its flag, and a stopAll is
\* known from its first write on.
Lines ==
    /\ Stored
    /\ pc # "begin" => reading = N
    /\ rx \in {"lower", "reset", "index", "clear"} => reset
    /\ ~rushed /\ rx # "getline" /\ line.cmd = "25" => ~AD7606_IS_SCANNING

LEMMA LinesStep == TypeOK /\ Lines /\ [Next]_vars => Lines'
<1> SUFFICES ASSUME TypeOK, Lines, [Next]_vars
             PROVE  Lines'
  OBVIOUS
<1> USE DEF Lines, Stored, flags, points, lines, core0
<1>1. CASE Poll \/ Started \/ Mark \/ Begin \/ ReadIndex
  BY <1>1 DEF Poll, Started, Mark, Begin, ReadIndex
<1>2. CASE TestIndex \/ Measure \/ Lower
  BY <1>2 DEF TestIndex, Measure, Lower
<1>3. CASE Report
  BY <1>3 DEF Report, StillStopping
<1>4. CASE HostSends
  <2>1. PICK c \in {"25", "26", "70"}, s \in [Slots -> Word] : GetLine(c, s)
    BY <1>4, HostStep
  <2>2. line'.cmd = c /\ (c = "25" /\ ~rushed' => ~AD7606_IS_SCANNING)
    BY <2>1 DEF GetLine, Waited
  <2>3. QED
    BY <2>1, <2>2 DEF GetLine
<1>5. CASE FillOne
  <2>1. line.cmd \in {"25", "26", "70"}
    BY DEF TypeOK
  <2>2. /\ rx' \in {"fill", "store", "raise", "stopAll"}
        /\ rx' = "store" => line.cmd = "25" /\ writing' = N
        /\ rx' = "raise" => line.cmd = "26"
    BY <1>5, <2>1 DEF FillOne
  <2>3. Stored'
    BY <1>5, <2>2, SlotsFacts DEF FillOne
  <2>4. QED
    BY <1>5, <2>2, <2>3 DEF FillOne
<1>6. CASE Store
  <2>1. \A s \in Slots : s <= writing => vec'[s] = line.val[s]
    BY <1>6, SlotsFacts DEF Store, TypeOK
  <2>2. writing = STEP => vec' = line.val
    BY <1>6, <2>1, SlotsFacts DEF Store, TypeOK
  <2>3. writing # STEP => \A s \in Slots : s < writing' => vec'[s] = line'.val[s]
    BY <1>6, <2>1, SlotsFacts DEF Store, TypeOK
  <2>4. Stored'
    BY <1>6, <2>2, <2>3 DEF Store
  <2>5. QED
    BY <1>6, <2>4 DEF Store
<1>7. CASE RaiseSweep \/ RaiseStop \/ StopAll
  BY <1>7 DEF RaiseSweep, RaiseStop, StopAll
<1>8. CASE StopAllLower \/ StopAllReset \/ StopAllIndex \/ StopAllClear
  BY <1>8 DEF StopAllLower, StopAllReset, StopAllIndex, StopAllClear
<1>9. CASE UNCHANGED vars
  BY <1>9 DEF vars
<1>10. QED
  BY <1>1, <1>2, <1>3, <1>4, <1>5, <1>6, <1>7, <1>8, <1>9 DEF Next, Core0, Serve

\* A stopAll that has begun disturbs until the report after it.
LEMMA Undisturbed ==
  ASSUME TypeOK, Lines, ~reset', [Next]_vars, ~Report
  PROVE  /\ ~reset /\ reset' = reset /\ ~StopAll /\ ~StopAllLower /\ ~StopAllReset
         /\ ~StopAllIndex /\ ~StopAllClear
<1> USE DEF lines
<1>1. CASE Core0
  BY <1>1 DEF Lines, TypeOK, Core0, Poll, Started, Mark, Begin, ReadIndex, TestIndex, Measure, Lower,
              StopAll, StopAllLower, StopAllReset, StopAllIndex, StopAllClear
<1>2. CASE HostSends
  <2>1. PICK c \in {"25", "26", "70"}, s \in [Slots -> Word] : GetLine(c, s)
    BY <1>2, HostStep
  <2>2. QED
    BY <2>1 DEF GetLine, StopAll, StopAllLower, StopAllReset, StopAllIndex, StopAllClear
<1>3. CASE Serve
  BY <1>3 DEF Lines, Serve, FillOne, Store, RaiseSweep, RaiseStop, StopAll, StopAllLower,
              StopAllReset, StopAllIndex, StopAllClear
<1>4. CASE UNCHANGED vars
  BY <1>4 DEF vars, Lines, StopAll, StopAllLower, StopAllReset, StopAllIndex, StopAllClear
<1>5. QED
  BY <1>1, <1>2, <1>3, <1>4 DEF Next

LEMMA ControlStep ==
  ASSUME TypeOK, Lines, ~reset => Control, ~reset', [Next]_vars
  PROVE  Control'
<1> USE DEF Control, Fresh, flags, points, lines, core0
<1>1. CASE Report
  BY <1>1 DEF Report
<1>2. CASE ~Report
  <2>1. ~reset /\ Control
    BY <1>2, Undisturbed
  <2>2. CASE Poll \/ Started
    BY <2>1, <2>2 DEF Poll, Started
  <2>3. CASE Mark \/ Begin
    BY <2>1, <2>3 DEF Mark, Begin
  <2>4. CASE ReadIndex \/ TestIndex
    BY <2>1, <2>4 DEF ReadIndex, TestIndex
  <2>5. CASE Measure \/ Lower
    BY <2>1, <2>5 DEF Measure, Lower
  <2>6. CASE HostSends
    <3>1. PICK c \in {"25", "26", "70"}, s \in [Slots -> Word] : GetLine(c, s)
      BY <2>6, HostStep
    <3>2. QED
      BY <2>1, <3>1 DEF GetLine
  <2>7. CASE FillOne \/ Store \/ RaiseSweep \/ RaiseStop
    BY <2>1, <2>7 DEF FillOne, Store, RaiseSweep, RaiseStop
  <2>8. CASE UNCHANGED vars
    BY <2>1, <2>8 DEF vars
  <2>9. QED
    BY <1>2, Undisturbed, <2>2, <2>3, <2>4, <2>5, <2>6, <2>7, <2>8 DEF Next, Core0, Serve
<1>3. QED
  BY <1>1, <1>2

\* One more point of an undisturbed sweep
LEMMA MeasureProgress ==
  ASSUME TypeOK, Progress(index), index < asked[N], Measure
  PROVE  Progress(index + 1)'
<1>1. /\ index \in Nat /\ asked \in [Slots -> Word] /\ inBuf \in [Slots -> Word]
      /\ asked[N] \in Nat
  BY SlotsFacts, SweepParts DEF TypeOK
<1>2. /\ afc' = Append(afc, inBuf[FREQ]) /\ inBuf[FREQ] = Frequency(asked, index + 1)
      /\ index' = index /\ asked' = asked
  BY DEF Measure, Progress, lines
<1>3. Len(afc') = index + 1
  BY <1>2 DEF TypeOK, Progress
<1>4. ASSUME NEW q \in 1..(index + 1) PROVE afc'[q] = Frequency(asked, q)
  <2>1. CASE q = index + 1
    BY <1>2, <2>1 DEF TypeOK, Progress
  <2>2. CASE q \in 1..index
    BY <1>2, <2>2 DEF TypeOK, Progress
  <2>3. QED
    BY <1>1, <2>1, <2>2
<1>5. /\ inBuf'[N] = asked[N] /\ inBuf'[STEP] = asked[STEP]
      /\ inBuf'[FREQ] = (inBuf[FREQ] + asked[STEP]) % Modulus
  BY <1>1, SlotsFacts DEF Measure, Progress
<1>6. inBuf'[FREQ] = Frequency(asked, (index + 1) + 1)
  <2>1. index + 1 \in Nat
    BY <1>1
  <2>2. (Frequency(asked, index + 1) + asked[STEP]) % Modulus = Frequency(asked, (index + 1) + 1)
    BY <1>1, <2>1, NextFrequency, Zenon
  <2>3. QED
    BY <1>2, <1>5, <2>2
<1>7. QED
  BY <1>1, <1>2, <1>3, <1>4, <1>5, <1>6 DEF Progress, Frequency

\* The copy takes the numbers of the sweep asked for, and starts it.
LEMMA BeginContent ==
  ASSUME TypeOK, Control, Content, Begin
  PROVE  Content'
<1> USE DEF flags, points, lines
<1>1. /\ pc = "begin" /\ rx = "getline" /\ vec = asked /\ Fresh /\ is_already_scanning
      /\ \A s \in Slots : s < reading => inBuf[s] = asked[s]
  BY DEF Begin, Control, Content, Pending
<1>2. asked[reading] % Modulus = asked[reading]
  BY WordIsMod DEF TypeOK
<1>3. \A s \in Slots : s <= reading => inBuf'[s] = asked[s]
  BY <1>1, <1>2, SlotsFacts DEF Begin, TypeOK
<1>4. CASE reading # STEP
  <2>1. \A s \in Slots : s < reading' => inBuf'[s] = asked'[s]
    BY <1>3, <1>4, SlotsFacts DEF Begin, TypeOK
  <2>2. QED
    BY <1>1, <1>4, <2>1 DEF Begin, Content
<1>5. CASE reading = STEP
  <2>1. inBuf'[N] = asked[N] /\ inBuf'[FREQ] = asked[FREQ] /\ inBuf'[STEP] = asked[STEP]
    BY <1>3, <1>5, SlotsFacts
  <2>2. Frequency(asked, 1) = asked[FREQ] /\ asked[N] \in Nat
    BY FirstFrequency, SweepParts DEF TypeOK
  <2>3. scan_index' = 0 /\ afc' = <<>> /\ asked' = asked
    BY <1>1 DEF Begin, Fresh
  <2>4. Progress(scan_index)'
    BY <2>1, <2>2, <2>3 DEF Progress, Frequency
  <2>5. pc' = "loop" /\ is_already_scanning'
    BY <1>1, <1>5 DEF Begin
  <2>6. QED
    BY <2>4, <2>5 DEF Content, Pending
<1>6. QED
  BY <1>4, <1>5

LEMMA ContentCore0 ==
  ASSUME TypeOK, Lines, Control, Content, Core0, ~Report
  PROVE  Content'
<1> USE DEF flags, points, lines
<1>1. CASE Poll
  BY <1>1 DEF Poll, Control, Content, Pending, Progress, Frequency
<1>2. CASE Started
  BY <1>2 DEF Started, Control, Content, Pending, Progress, Frequency
<1>3. CASE Mark
  BY <1>3, SlotsFacts DEF Mark, Lines, Control, Content, Pending
<1>4. CASE Begin
  BY <1>4, BeginContent
<1>5. CASE ReadIndex
  BY <1>5 DEF ReadIndex, Control, Content, Pending, Progress, Frequency
<1>6. CASE TestIndex
  <2>1. inBuf[N] = asked[N] /\ index <= asked[N] /\ index \in Nat /\ asked[N] \in Word
    BY <1>6, SlotsFacts, SweepParts DEF TestIndex, Content, Progress, TypeOK
  <2>2. index < asked[N] => (index + 1) % Modulus = index + 1
    <3>1. index < asked[N] => index + 1 \in Word
      BY <2>1, SlotsFacts DEF Word
    <3>2. QED
      BY <3>1, WordIsMod
  <2>3. Progress(index)'
    BY <1>6 DEF TestIndex, Content, Progress, Frequency
  <2>4. CASE pc' = "measure"
    BY <1>6, <2>1, <2>2, <2>3, <2>4 DEF TestIndex, Content, Pending, Control
  <2>5. CASE pc' = "report"
    <3>1. index = asked[N] \/ AD7606_STOP_SCAN
      <4>1. ~(index < inBuf[N]) \/ AD7606_STOP_SCAN
        BY <1>6, <2>5 DEF TestIndex
      <4>2. asked[N] \in Nat
        BY <2>1, SlotsFacts
      <4>3. ~(index < inBuf[N]) => index = asked[N]
        BY <2>1, <4>2
      <4>4. QED
        BY <4>1, <4>3
    <3>2. QED
      BY <1>6, <2>3, <2>5, <3>1 DEF TestIndex, Content, Pending, Control
  <2>6. QED
    BY <1>6, <2>4, <2>5 DEF TestIndex
<1>7. CASE Measure
  <2>1. Progress(index + 1)'
    BY <1>7, MeasureProgress DEF Measure, Content
  <2>2. scan_index' = index' + 1
    BY <1>7 DEF Measure, Content
  <2>3. QED
    BY <1>7, <2>1, <2>2 DEF Measure, Control, Content, Pending
<1>8. CASE Lower
  BY <1>8 DEF Lower, Control, Content, Pending
<1>9. QED
  BY <1>1, <1>2, <1>3, <1>4, <1>5, <1>6, <1>7, <1>8 DEF Core0

LEMMA ContentCore1 ==
  ASSUME TypeOK, Lines, Control, Content, ~rushed,
         FillOne \/ Store \/ RaiseSweep \/ RaiseStop
  PROVE  Content'
<1> USE DEF flags, points, lines, core0
<1>1. CASE FillOne \/ Store
  <2>1. rx # "getline"
    BY <1>1 DEF FillOne, Store
  <2>2. ~Pending /\ ~Pending'
    BY <1>1, <2>1 DEF FillOne, Store, Content, Pending
  <2>3. QED
    BY <1>1, <2>2 DEF FillOne, Store, Content, Progress, Frequency
<1>2. CASE RaiseSweep
  <2>1. ~AD7606_IS_SCANNING /\ pc \in {"loop", "lower"} /\ ~is_already_scanning
    BY <1>2 DEF RaiseSweep, Lines, Control
  <2>2. vec = line.val
    BY <1>2 DEF RaiseSweep, Lines, Stored
  <2>3. QED
    BY <1>2, <2>1, <2>2 DEF RaiseSweep, Content
<1>3. CASE RaiseStop
  <2>1. ~Pending /\ ~Pending'
    BY <1>3 DEF RaiseStop, Content, Pending
  <2>2. QED
    BY <1>3, <2>1 DEF RaiseStop, Content, Progress, Frequency
<1>4. QED
  BY <1>1, <1>2, <1>3

LEMMA ContentHost ==
  ASSUME TypeOK, Control, ~rushed => Content, HostSends, ~rushed'
  PROVE  Content'
<1> USE DEF flags, points, lines, core0
<1>1. PICK c \in {"25", "26", "70"}, s \in [Slots -> Word] : GetLine(c, s)
  BY HostStep
<1>2. CASE c = "25"
  <2>1. ~AD7606_IS_SCANNING
    BY <1>1, <1>2 DEF GetLine, Waited
  <2>2. QED
    BY <1>1, <2>1 DEF GetLine, Control, Content, Pending
<1>3. CASE c # "25"
  <2>1. ~rushed
    BY <1>1, <1>3 DEF GetLine
  <2>2. ~Pending
    BY <1>1, <1>3 DEF GetLine, Waited
  <2>3. QED
    BY <1>1, <2>1, <2>2 DEF GetLine, Content, Pending, Progress, Frequency
<1>4. QED
  BY <1>2, <1>3

LEMMA ContentStep ==
  ASSUME TypeOK, Lines, ~reset => Control, ~reset /\ ~rushed => Content,
         ~reset', ~rushed', [Next]_vars
  PROVE  Content'
<1>1. CASE Report
  BY <1>1 DEF Report, Content, Pending
<1>2. CASE ~Report
  <2>1. ~reset /\ Control /\ (~rushed => Content)
    BY <1>2, Undisturbed
  <2>2. CASE HostSends
    BY <2>1, <2>2, ContentHost
  <2>3. CASE Core0
    <3>1. ~rushed
      BY <2>3 DEF lines, Core0, Poll, Started, Mark, Begin, ReadIndex, TestIndex, Measure,
                  Report, Lower
    <3>2. QED
      BY <1>2, <2>1, <2>3, <3>1, ContentCore0
  <2>4. CASE FillOne \/ Store \/ RaiseSweep \/ RaiseStop
    <3>1. ~rushed
      BY <2>4 DEF lines, FillOne, Store, RaiseSweep, RaiseStop
    <3>2. QED
      BY <2>1, <2>4, <3>1, ContentCore1
  <2>5. CASE UNCHANGED vars
    BY <2>1, <2>5 DEF vars, Content, Pending, Progress, Frequency
  <2>6. QED
    BY <1>2, Undisturbed, <2>2, <2>3, <2>4, <2>5 DEF Next, Serve
<1>3. QED
  BY <1>1, <1>2

LEMMA IInvStep == IInv /\ [Next]_vars => IInv'
<1> SUFFICES ASSUME IInv, [Next]_vars
             PROVE  IInv'
  OBVIOUS
<1>1. TypeOK /\ TypeOK'
  BY TypeStep DEF IInv
<1>2. Stray'
  BY StrayStep DEF IInv
<1>3. Lines /\ Lines'
  BY LinesStep DEF IInv, Lines
<1>4. (~reset => Control)'
  BY <1>3, ControlStep DEF IInv
<1>5. (~reset /\ ~rushed => Content)'
  BY <1>3, ContentStep DEF IInv
<1>6. QED
  BY <1>1, <1>2, <1>3, <1>4, <1>5 DEF IInv, Lines

LEMMA Inductive == Spec => []IInv
BY IInvInit, IInvStep, PTL DEF Spec

-----------------------------------------------------------------------------
LEMMA AskedIsSeq ==
  ASSUME NEW s \in [Slots -> Word]
  PROVE  /\ Asked(s) \in Seq(Word) /\ Len(Asked(s)) = s[N]
         /\ \A q \in 1..s[N] : Asked(s)[q] = Frequency(s, q)
<1>1. s[N] \in Nat
  BY SweepParts
<1>2. \A q \in 1..s[N] : Frequency(s, q) \in Word
  BY <1>1, FrequencyInRange
<1>3. Asked(s) = [q \in 1..s[N] |-> Frequency(s, q)]
  BY DEF Asked, Frequency
<1>4. QED
  BY <1>1, <1>2, <1>3

\* The points of a report that no stopAll precedes are those asked for, in order.
LEMMA Reported ==
  ASSUME IInv, pc = "report", ~reset, ~rushed
  PROVE  /\ Len(afc) = index /\ index \in 0..asked[N] /\ asked \in [Slots -> Word]
         /\ \A q \in 1..index : afc[q] = Asked(asked)[q]
         /\ index = asked[N] \/ AD7606_STOP_SCAN
<1>1. Progress(index) /\ (index = asked[N] \/ AD7606_STOP_SCAN)
  BY DEF IInv, Content
<1>2. asked \in [Slots -> Word] /\ asked[N] \in Nat /\ index \in Nat
  BY SweepParts, SlotsFacts DEF IInv, TypeOK
<1>3. QED
  BY <1>1, <1>2, AskedIsSeq DEF Progress

\* Though both cores go through the vector element by element and every line wipes
\* it, a report is the beginning of the sweep that was asked for, for a host that
\* waits with a stop until the numbers are read; a stopAll spoils at most the one
\* report after it.
THEOREM ReportsArePrefixes == Spec => []ReportIsPrefix
<1>1. ASSUME IInv, pc = "report", ~reset, ~rushed PROVE IsPrefix(afc, Asked(asked))
  <2> DEFINE sweep == Asked(asked)
  <2>1. /\ afc \in Seq(Word) /\ sweep \in Seq(Word)
        /\ Len(afc) \in Nat /\ Len(afc) <= Len(sweep)
        /\ \A q \in 1..Len(afc) : afc[q] = sweep[q]
    BY <1>1, Reported, AskedIsSeq DEF IInv, TypeOK
  <2> HIDE DEF sweep
  <2>2. SubSeq(afc, 1, Len(afc)) = SubSeq(sweep, 1, Len(afc))
    BY <2>1
  <2>3. QED
    BY <2>1, <2>2 DEF IsPrefix, sweep
<1>2. IInv => ReportIsPrefix
  BY <1>1 DEF ReportIsPrefix
<1>3. QED
  BY <1>2, Inductive, PTL

\* A report that no stopAll precedes lacks points only if AD7606_STOP_SCAN is up.
THEOREM FullUnlessStopped == Spec => []ShortOnlyIfStopped
<1>1. ASSUME IInv, pc = "report", ~reset, ~rushed, index = asked[N]
      PROVE  afc = Asked(asked)
  <2>1. afc \in Seq(Word) /\ asked \in [Slots -> Word] /\ Len(afc) = asked[N]
    BY <1>1, Reported DEF IInv, TypeOK
  <2>2. \A q \in 1..Len(afc) : afc[q] = Asked(asked)[q]
    BY <1>1, Reported
  <2>3. QED
    BY <2>1, <2>2, AskedIsSeq, SeqEqual
<1>2. IInv => ShortOnlyIfStopped
  BY <1>1, Reported DEF ShortOnlyIfStopped
<1>3. QED
  BY <1>2, Inductive, PTL

\* When core 0 is idle, no sweep is asked for and core 1 is between commands, at
\* most the point that a stopAll overtook is left in afc.
THEOREM AtMostOneStray == Spec => []OneStrayPoint
<1>1. IInv => OneStrayPoint
  BY DEF IInv, Stray, OneStrayPoint
<1>2. QED
  BY <1>1, Inductive, PTL
=============================================================================
