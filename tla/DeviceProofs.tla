---------------------------- MODULE DeviceProofs ----------------------------
(***************************************************************************)
(* SpiBus for every wiring of the AD5664 and every number that is taken    *)
(* for a port or a format, LinearDriver for every modulus and every number *)
(* in a command's fields, Parser for every size of the array and every     *)
(* length of a line, and Frames for every value.                           *)
(***************************************************************************)
EXTENDS SpiBus, LinearDriver, Parser, Frames, SequenceTheorems, TLAPS

-----------------------------------------------------------------------------
(* LinearDriver::activate *)

\* The two sleeps of a pulse make up its period, short of a microsecond at most.
LEMMA PulsePeriod ==
  ASSUME NEW f \in Nat \ {0}, NEW p \in Nat
  PROVE  tAbs(f) - (tLow(f, p) + tHigh(f, p)) \in {0, 1}
<1> DEFINE t == tAbs(f)
           x == p * t
<1>1. t \in Int /\ x \in Int
  BY DEF tAbs
<1>2. tLow(f, p) = x \div 1000 /\ tHigh(f, p) = t - ((x + 999) \div 1000)
  BY DEF tLow, tHigh
<1> HIDE DEF t, x
<1>3. (x + 999) \div 1000 - x \div 1000 \in {0, 1}
  BY <1>1
<1>4. t - (x \div 1000 + (t - ((x + 999) \div 1000))) \in {0, 1}
  BY <1>1, <1>3
<1>5. QED
  BY <1>2, <1>4 DEF t

\* The call that is running, or the last one, has two lines, and its pulses.
CallTyped ==
    /\ i \in Nat /\ move.n \in Int
    /\ until \in [on : BOOLEAN, name : Nat, n : Int, dir : Int]
    /\ pc \in {"idle", "fixed", "for", "low"}
    /\ move.fixed # move.moving
    /\ move.by # "none" =>
          /\ move.moving[2] = (IF move.dir = 0 THEN "b" ELSE "a")
          /\ tAbs(move.f) - (move.low + move.high) \in {0, 1}

\* The pulses given so far are no more than asked for.
Pulses ==
    /\ pc = "fixed" => i = 0
    /\ pc = "for" => i = 0 \/ i <= move.n
    /\ pc = "low" => i < move.n

LidInv == CallTyped /\ Pulses /\ DriverLines

LEMMA ActivateInv ==
  ASSUME LidInv, NEW c, NEW f \in Nat \ {0}, NEW p \in Nat, NEW n \in Int, NEW dir,
         NEW by, by # "none", Activate(c, f, p, n, dir, by), lines' = lines, until' = until
  PROVE  LidInv'
<1> DEFINE A == <<AxisOf(c), IF dir # 0 THEN "b" ELSE "a">>
           B == <<AxisOf(c), IF dir # 0 THEN "a" ELSE "b">>
<1>1. /\ pc = "idle" /\ pc' = "fixed" /\ i' = 0
      /\ move' = [fixed |-> A, moving |-> B, n |-> n, by |-> by, dir |-> dir,
                  f |-> f, low |-> tLow(f, p), high |-> tHigh(f, p)]
  BY DEF Activate
<1>2. A # B /\ B[2] = (IF dir = 0 THEN "b" ELSE "a")
  OBVIOUS
<1> HIDE DEF A, B
<1>3. /\ move'.fixed = A /\ move'.moving = B /\ move'.n = n /\ move'.by = by
      /\ move'.dir = dir /\ move'.f = f /\ move'.low = tLow(f, p) /\ move'.high = tHigh(f, p)
  BY <1>1
<1>4. tAbs(move'.f) - (move'.low + move'.high) \in {0, 1}
  BY <1>3, PulsePeriod
<1>5. CallTyped'
  BY <1>1, <1>2, <1>3, <1>4 DEF LidInv, CallTyped
<1>6. Pulses' /\ DriverLines'
  BY <1>1 DEF LidInv, Pulses, DriverLines
<1>7. QED
  BY <1>5, <1>6 DEF LidInv

LEMMA LidStep == LidInv /\ [LidNext]_lidVars => LidInv'
<1> SUFFICES ASSUME LidInv, [LidNext]_lidVars PROVE LidInv'
  OBVIOUS
<1>1. ASSUME NEW c \in {90, 92, 95, 99}, Lid(c) PROVE LidInv'
  <2>1. PICK n \in Numbers, dir \in Numbers, f \in {3, 5000}, p \in {0, 333, 1000} :
           Activate(c, f, p, n % U16, dir % U16, "LID")
    BY <1>1 DEF Lid
  <2>2. n % U16 \in Int
    BY LidAssumption
  <2>3. lines' = lines /\ until' = until
    BY <1>1 DEF Lid
  <2>4. QED
    BY <2>1, <2>2, <2>3, ActivateInv
<1>2. CASE ApproachMove
  <2>1. PICK n \in Numbers :
           Activate(99, 5000, 750, IF n < 0 THEN -n ELSE n, IF n > 0 THEN 1 ELSE 0, "approach")
    BY <1>2 DEF ApproachMove
  <2>2. (IF n < 0 THEN -n ELSE n) \in Int
    BY LidAssumption
  <2>3. lines' = lines /\ until' = until
    BY <1>2 DEF ApproachMove
  <2>4. QED
    BY <2>1, <2>2, <2>3, ActivateInv
<1>3. CASE LidUntilStop
  <2>1. until' \in [on : BOOLEAN, name : Nat, n : Int, dir : Int]
    BY <1>3, LidAssumption DEF LidUntilStop
  <2>2. lines' = lines /\ pc' = pc /\ move' = move /\ i' = i
    BY <1>3 DEF LidUntilStop
  <2>3. QED
    BY <2>1, <2>2 DEF LidInv, CallTyped, Pulses, DriverLines
<1>4. CASE Again
  <2>1. Activate(until.name, 5000, 750, until.n, until.dir, "LID_UNTIL_STOP")
    BY <1>4 DEF Again
  <2>2. lines' = lines /\ until' = until /\ until.n \in Int
    BY <1>4 DEF Again, LidInv, CallTyped
  <2>3. QED
    BY <2>1, <2>2, ActivateInv
<1>5. CASE ReadZ \/ Stop
  <2>1. lines' = lines /\ pc' = pc /\ move' = move /\ i' = i
    BY <1>5 DEF ReadZ, Stop
  <2>2. until' \in [on : BOOLEAN, name : Nat, n : Int, dir : Int]
    BY <1>5 DEF ReadZ, Stop, LidInv, CallTyped
  <2>3. QED
    BY <2>1, <2>2 DEF LidInv, CallTyped, Pulses, DriverLines
<1>6. CASE FixedUp
  <2>1. /\ pc = "fixed" /\ pc' = "for" /\ lines' = lines \cup {move.fixed} /\ move' = move
        /\ i' = i /\ until' = until
    BY <1>6 DEF FixedUp, Enable
  <2>2. QED
    BY <2>1 DEF LidInv, CallTyped, Pulses, DriverLines
<1>7. CASE PulseLow
  <2>1. /\ pc = "for" /\ pc' = "low" /\ lines' = lines \ {move.moving} /\ move' = move
        /\ i' = i /\ until' = until /\ i < move.n
    BY <1>7 DEF PulseLow, Disable
  <2>2. lines' = {move.fixed}
    BY <2>1 DEF LidInv, CallTyped, DriverLines
  <2>3. QED
    BY <2>1, <2>2 DEF LidInv, CallTyped, Pulses, DriverLines
<1>8. CASE PulseHigh
  <2>1. /\ pc = "low" /\ pc' = "for" /\ lines' = lines \cup {move.moving} /\ move' = move
        /\ i' = i + 1 /\ until' = until
    BY <1>8 DEF PulseHigh, Enable
  <2>2. lines' = {move.fixed} \cup {move.moving}
    BY <2>1 DEF LidInv, DriverLines
  <2>3. i' \in Nat /\ i' > 0 /\ i' <= move.n
    BY <2>1 DEF LidInv, CallTyped, Pulses
  <2>4. QED
    BY <2>1, <2>2, <2>3 DEF LidInv, CallTyped, Pulses, DriverLines
<1>9. CASE Finish
  <2>1. /\ pc = "for" /\ pc' = "idle" /\ lines' = lines \ {move.fixed, move.moving}
        /\ move' = move /\ i' = i /\ until' = until /\ i >= move.n
    BY <1>9 DEF Finish, Disable
  <2>2. lines' = {}
    BY <2>1 DEF LidInv, DriverLines
  <2>3. i = IF move.n > 0 THEN move.n ELSE 0
    BY <2>1 DEF LidInv, CallTyped, Pulses
  <2>4. QED
    BY <2>1, <2>2, <2>3 DEF LidInv, CallTyped, Pulses, DriverLines
<1>10. CASE UNCHANGED lidVars
  BY <1>10 DEF lidVars, LidInv, CallTyped, Pulses, DriverLines
<1>11. QED
  BY <1>1, <1>2, <1>3, <1>4, <1>5, <1>6, <1>7, <1>8, <1>9, <1>10 DEF LidNext

\* Both lines of LinearDriver are low whenever no call of activate runs, the held
\* line is up for every pulse, and a burst that is over has given all its pulses
\* on the right line, for every number in the fields of a command.
THEOREM LinesFollowCalls == LidSpec => []DriverLines
<1>1. LidInit => LidInv
  BY DEF LidInit, LidInv, CallTyped, Pulses, DriverLines, NoMove, NotUntil
<1>2. LidInv => DriverLines
  BY DEF LidInv
<1>3. QED
  BY <1>1, <1>2, LidStep, PTL DEF LidSpec

-----------------------------------------------------------------------------
(* RX_core::parse and Parser::parseInts *)

\* Line k reached element e, and no later one did.
Latest(e, k) ==
    /\ k \in DOMAIN got /\ e < Fields(got[k])
    /\ \A m \in k + 1 .. Len(got) : ~(e < Fields(got[m]))

\* What stands in element e of the array.
Element(e) ==
    IF e < Fill
    THEN got # <<>> => vec[e] = IF e < Fields(got[Len(got)]) THEN Len(got) ELSE 0
    ELSE \/ vec[e] = 0 /\ \A k \in DOMAIN got : ~(e < Fields(got[k]))
         \/ Latest(e, vec[e])

ParserInv ==
    /\ got \in Seq(Line)
    /\ DOMAIN vec = 0 .. Length - 1 /\ \A e \in DOMAIN vec : Element(e)
    /\ got # <<>> => vectorSize = Fields(got[Len(got)])
    /\ beyond => \E k \in DOMAIN got : Fields(got[k]) > Length

LEMMA ParserStep == ParserInv /\ [ParserNext]_parserVars => ParserInv'
<1>1. ASSUME ParserInv, UNCHANGED parserVars PROVE ParserInv'
  <2>1. got' = got /\ vec' = vec /\ vectorSize' = vectorSize /\ beyond' = beyond
    BY <1>1 DEF parserVars
  <2>2. ASSUME NEW e PROVE Element(e)' = Element(e)
    BY <2>1 DEF Element, Latest
  <2>3. QED
    BY <1>1, <2>1, <2>2 DEF ParserInv
<1> SUFFICES ASSUME ParserInv, ParserNext PROVE ParserInv'
  BY <1>1
<1>2. PICK line \in Line :
         /\ vec' = [e \in DOMAIN vec |-> IF e < Fields(line) THEN Len(got) + 1
                                         ELSE IF e < Fill THEN 0 ELSE vec[e]]
         /\ vectorSize' = Fields(line)
         /\ got' = Append(got, line)
         /\ beyond' = (beyond \/ Fields(line) > Length)
  BY DEF ParserNext, Parse
<1>3. PICK last : last = Len(got) + 1
  OBVIOUS
<1>4. /\ got \in Seq(Line) /\ got' \in Seq(Line) /\ got' # <<>> /\ Len(got) \in Nat
      /\ Len(got') = last /\ last = Len(got) + 1 /\ DOMAIN got' = 1..last /\ DOMAIN got = 1..Len(got)
      /\ got'[last] = line /\ \A k \in 1..Len(got) : got'[k] = got[k]
  BY <1>2, <1>3 DEF ParserInv
<1>5. DOMAIN vec' = 0 .. Length - 1
  BY <1>2 DEF ParserInv
<1>6. ASSUME NEW e \in DOMAIN vec' PROVE Element(e)'
  <2>1. /\ e \in Nat /\ Element(e)
        /\ vec'[e] = IF e < Fields(line) THEN last ELSE IF e < Fill THEN 0 ELSE vec[e]
    BY <1>2, <1>5, <1>3, ParserAssumption DEF ParserInv
  <2>2. CASE e < Fill
    BY <1>4, <2>1, <2>2 DEF Element
  <2>3. CASE ~(e < Fill) /\ e < Fields(line)
    <3>1. vec'[e] = last
      BY <2>1, <2>3
    <3>2. \A m \in last + 1 .. last : FALSE
      BY <1>4
    <3>3. last \in DOMAIN got'
      BY <1>4
    <3>4. Latest(e, last)'
      BY <1>4, <2>3, <3>2, <3>3 DEF Latest
    <3>5. QED
      BY <2>3, <3>1, <3>4 DEF Element
  <2>4. CASE ~(e < Fill) /\ ~(e < Fields(line))
    <3>1. vec'[e] = vec[e]
      BY <2>1, <2>4
    <3>2. \A k \in DOMAIN got' : k \in 1..Len(got) \/ k = last
      BY <1>4
    <3>3. CASE vec[e] = 0 /\ \A k \in DOMAIN got : ~(e < Fields(got[k]))
      <4>1. \A k \in DOMAIN got' : ~(e < Fields(got'[k]))
        BY <1>4, <2>4, <3>2, <3>3
      <4>2. QED
        BY <2>4, <3>1, <3>3, <4>1 DEF Element
    <3>4. CASE Latest(e, vec[e])
      <4>1. PICK k : k = vec[e]
        OBVIOUS
      <4>2. /\ k \in 1..Len(got) /\ e < Fields(got[k])
            /\ \A m \in k + 1 .. Len(got) : ~(e < Fields(got[m]))
        BY <1>4, <3>4, <4>1 DEF Latest
      <4>3. \A m \in k + 1 .. last : (m \in 1..Len(got) /\ m \in k + 1 .. Len(got)) \/ m = last
        BY <1>4, <4>2
      <4>4. \A m \in k + 1 .. last : ~(e < Fields(got'[m]))
        BY <1>4, <2>4, <4>2, <4>3
      <4>5. k \in DOMAIN got' /\ got'[k] = got[k]
        BY <1>4, <4>2
      <4>6. Latest(e, k)'
        BY <1>4, <4>2, <4>4, <4>5 DEF Latest
      <4>7. QED
        BY <2>4, <3>1, <4>1, <4>6 DEF Element
    <3>5. QED
      BY <2>1, <2>4, <3>3, <3>4 DEF Element
  <2>5. QED
    BY <2>2, <2>3, <2>4
<1>7. vectorSize' = Fields(got'[Len(got')])
  BY <1>2, <1>4
<1>8. beyond' => \E k \in DOMAIN got' : Fields(got'[k]) > Length
  <2>1. last \in DOMAIN got' /\ \A k \in DOMAIN got : k \in DOMAIN got'
    BY <1>4
  <2>2. QED
    BY <1>2, <1>4, <2>1 DEF ParserInv
<1>9. QED
  BY <1>4, <1>5, <1>6, <1>7, <1>8 DEF ParserInv

\* The array holds the numbers of the last line, and behind them nothing of an
\* earlier one but past the elements that RX_core::parse fills, where the last
\* line that was long enough stands, for every size of array and line.
THEOREM ArrayIsLastLine == ParserSpec => []VectorIsLastLine
<1>1. ParserInit => ParserInv
  BY ParserAssumption DEF ParserInit, ParserInv, Element
<1>2. ParserInv => VectorIsLastLine
  <2> SUFFICES ASSUME ParserInv, got # <<>> PROVE VectorIsLastLine
    BY DEF VectorIsLastLine
  <2> DEFINE last == Len(got)
  <2>1. got \in Seq(Line) /\ last \in Nat \ {0} /\ DOMAIN got = 1..last /\ last \in DOMAIN got
    BY DEF ParserInv
  <2>2. ASSUME NEW e \in DOMAIN vec
        PROVE  vec[e] = IF e < Fields(got[last]) THEN last
                        ELSE IF e < Fill \/ \A k \in DOMAIN got : ~(e < Fields(got[k])) THEN 0
                        ELSE CHOOSE k \in DOMAIN got :
                                 /\ e < Fields(got[k])
                                 /\ \A m \in k + 1 .. last : ~(e < Fields(got[m]))
    <3>1. Element(e) /\ e \in Nat
      BY ParserAssumption DEF ParserInv
    <3>2. CASE e < Fill
      BY <3>1, <3>2 DEF Element
    <3>3. CASE ~(e < Fill) /\ vec[e] = 0 /\ \A k \in DOMAIN got : ~(e < Fields(got[k]))
      BY <2>1, <3>3
    <3>4. CASE ~(e < Fill) /\ Latest(e, vec[e])
      <4>1. ASSUME NEW k, Latest(e, k) PROVE k = vec[e]
        <5>1. vec[e] \in 1..last /\ k \in 1..last
          BY <2>1, <3>4, <4>1 DEF Latest
        <5>2. ~(vec[e] \in k + 1 .. last) /\ ~(k \in vec[e] + 1 .. last)
          BY <3>4, <4>1 DEF Latest
        <5>3. QED
          BY <2>1, <5>1, <5>2
      <4>2. (CHOOSE k \in DOMAIN got :
                /\ e < Fields(got[k])
                /\ \A m \in k + 1 .. last : ~(e < Fields(got[m]))) = vec[e]
        <5> DEFINE c == CHOOSE k \in DOMAIN got :
                          /\ e < Fields(got[k])
                          /\ \A m \in k + 1 .. last : ~(e < Fields(got[m]))
        <5>1. \E k \in DOMAIN got : /\ e < Fields(got[k])
                                    /\ \A m \in k + 1 .. last : ~(e < Fields(got[m]))
          BY <3>4 DEF Latest
        <5>2. Latest(e, c)
          BY <5>1, Zenon DEF Latest
        <5>3. QED
          BY <4>1, <5>2
      <4>3. e < Fields(got[last]) => vec[e] = last
        <5>1. last + 1 .. last = {}
          BY <2>1
        <5>2. e < Fields(got[last]) => Latest(e, last)
          BY <2>1, <5>1 DEF Latest
        <5>3. QED
          BY <4>1, <5>2
      <4>4. ~(\A k \in DOMAIN got : ~(e < Fields(got[k])))
        BY <3>4 DEF Latest
      <4>5. QED
        BY <3>4, <4>2, <4>3, <4>4, Zenon
    <3>5. QED
      BY <3>1, <3>2, <3>3, <3>4 DEF Element
  <2>3. /\ vectorSize = Fields(got[last])
        /\ beyond => \E k \in DOMAIN got : Fields(got[k]) > Length
    BY DEF ParserInv
  <2>4. QED
    BY <2>2, <2>3, Zenon DEF VectorIsLastLine, Fields, Divs
<1>3. QED
  BY <1>1, <1>2, ParserStep, PTL DEF ParserSpec

-----------------------------------------------------------------------------
(* The bytes of the SPI devices. *)

\* outPutValue: the DAC8563 reads the sixteen low bits of every number.
THEOREM DacReadsValue ==
  ASSUME NEW c, NEW v \in Nat
  PROVE  Data(outPutValue(c, v)) = v % 65536
<1>1. Data(outPutValue(c, v)) = ((v \div 256) % 256) * 256 + (v % 256)
  BY DEF Data, outPutValue
<1>2. QED
  BY <1>1

\* Fourteen bits behind the flag 0x4000, in two bytes.
Fourteen(w) == w \in Int /\ 0 <= w /\ w <= 16383
IsByte(b) == b \in Int /\ 0 <= b /\ b <= 255

LEMMA FlaggedWord ==
  ASSUME NEW w, Fourteen(w)
  PROVE  /\ ((16384 + w) \div 256) % 64 = w \div 256
         /\ (16384 + w) % 256 = w % 256
         /\ ((16384 + w) \div 256) \div 64 = 1
         /\ (w \div 256) * 256 + (w % 256) = w
         /\ IsByte((16384 + w) \div 256) /\ IsByte((16384 + w) % 256)
<1>0. w \in Int /\ 0 <= w /\ w <= 16383
  BY DEF Fourteen
<1> DEFINE h == w \div 256
           l == w % 256
<1>1. (16384 + w) \div 256 = 64 + h /\ (16384 + w) % 256 = l
  BY <1>0
<1>2. h \in Int /\ 0 <= h /\ h <= 63
  BY <1>0
<1>3. l \in Int /\ 0 <= l /\ l <= 255 /\ h * 256 + l = w
  BY <1>0
<1> HIDE DEF h, l
<1>4. (64 + h) % 64 = h /\ (64 + h) \div 64 = 1
  BY <1>2
<1>5. IsByte(64 + h) /\ IsByte(l)
  BY <1>2, <1>3 DEF IsByte
<1>6. QED
  BY <1>1, <1>3, <1>4, <1>5 DEF h, l

\* The 28 bits of the frequency register of the AD9833.
TuningWord == {n \in Nat : n < 16384 * 16384}

LEMMA Halves ==
  ASSUME NEW n \in TuningWord
  PROVE  /\ Fourteen(n % 16384) /\ Fourteen(n \div 16384)
         /\ (n \div 16384) % 16384 = n \div 16384
         /\ (n % 16384) + 16384 * (n \div 16384) = n
<1>1. n \in Int /\ 0 <= n /\ n < 16384 * 16384
  BY DEF TuningWord
<1>2. Fourteen(n \div 16384)
  BY <1>1 DEF Fourteen
<1>3. Fourteen(n % 16384)
  BY <1>1 DEF Fourteen
<1>4. (n % 16384) + 16384 * (n \div 16384) = n
  BY <1>1
<1>5. ASSUME NEW x, Fourteen(x)
      PROVE  x % 16384 = x
  BY <1>5 DEF Fourteen
<1>6. (n \div 16384) % 16384 = n \div 16384
  BY <1>2, <1>5
<1>7. QED
  BY <1>2, <1>3, <1>4, <1>6

\* set_freq: the AD9833 reads back the tuning word of every frequency whose word
\* fits its 28 bits, and takes the two words for halves of frequency register 0.
THEOREM GeneratorReadsFrequency ==
  ASSUME NEW f \in Nat, nReg(f) \in TuningWord
  PROVE  /\ ReadAD9833(AD9833Bytes(f)) = nReg(f)
         /\ \A k \in {1, 3} : AD9833Bytes(f)[k] \div 64 = 1
         /\ \A k \in 1..6 : IsByte(AD9833Bytes(f)[k])
<1>0. ASSUME NEW n, n = nReg(f), NEW r, r = n % 16384, NEW q, q = n \div 16384
      PROVE  /\ ReadAD9833(AD9833Bytes(f)) = nReg(f)
             /\ \A k \in {1, 3} : AD9833Bytes(f)[k] \div 64 = 1
             /\ \A k \in 1..6 : IsByte(AD9833Bytes(f)[k])
  <2> DEFINE lo == 16384 + r
             hi == 16384 + q
  <2>1. Fourteen(r) /\ Fourteen(q) /\ r + 16384 * q = n /\ q % 16384 = q
    BY <1>0, Halves
  <2>2. AD9833Bytes(f) = <<lo \div 256, lo % 256, hi \div 256, hi % 256, 32, 0>>
    BY <1>0, <2>1 DEF AD9833Bytes
  <2>3. /\ (lo \div 256) % 64 = r \div 256 /\ lo % 256 = r % 256
        /\ (lo \div 256) \div 64 = 1 /\ (r \div 256) * 256 + (r % 256) = r
        /\ IsByte(lo \div 256) /\ IsByte(lo % 256)
    BY <2>1, FlaggedWord
  <2>4. /\ (hi \div 256) % 64 = q \div 256 /\ hi % 256 = q % 256
        /\ (hi \div 256) \div 64 = 1 /\ (q \div 256) * 256 + (q % 256) = q
        /\ IsByte(hi \div 256) /\ IsByte(hi % 256)
    BY <2>1, FlaggedWord
  <2> HIDE DEF lo, hi
  <2>5. ReadAD9833(AD9833Bytes(f)) =
          ((lo \div 256) % 64) * 256 + (lo % 256) + 16384 * (((hi \div 256) % 64) * 256 + (hi % 256))
    BY <2>2 DEF ReadAD9833
  <2>6. ReadAD9833(AD9833Bytes(f)) = n
    BY <2>1, <2>3, <2>4, <2>5
  <2>7. \A k \in {1, 3} : AD9833Bytes(f)[k] \div 64 = 1
    BY <2>2, <2>3, <2>4
  <2>8. IsByte(32) /\ IsByte(0)
    BY DEF IsByte
  <2>9. \A k \in 1..6 : IsByte(AD9833Bytes(f)[k])
    BY <2>2, <2>3, <2>4, <2>8
  <2>10. QED
    BY <1>0, <2>6, <2>7, <2>9
<1>1. QED
  BY <1>0

\* set_freq: the tuning word is the number freq * 2^28 / 25 MHz cut off, so that the
\* frequency set lies at most one step of the generator below the one asked for
\* (2^28 / 25.0e6 = 4194304 / 390625).
THEOREM TuningWithinStep ==
  ASSUME NEW f \in Nat
  PROVE  /\ nReg(f) \in Nat
         /\ nReg(f) * 390625 <= f * 4194304
         /\ f * 4194304 < (nReg(f) + 1) * 390625
<1> DEFINE d == (f * 288054) \div 390625
           m == (f * 288054) % 390625
<1>1. /\ d \in Int /\ m \in Int /\ 0 <= d /\ 0 <= m /\ m < 390625
      /\ 390625 * d + m = f * 288054
  OBVIOUS
<1>2. nReg(f) = f * 10 + d
  BY DEF nReg
<1> HIDE DEF d, m
<1>3. QED
  BY <1>1, <1>2

\* Command, address and data of a frame of the AD56x4.
FirstByte(c, a) == ((c \div 8) % 8) * 8 + (a % 8)
LEMMA MessageReads ==
  ASSUME NEW c, NEW a, NEW d \in Int
  PROVE  /\ Data(writeMessage(c, a, d)) = d
         /\ writeMessage(c, a, d)[1] = FirstByte(c, a)
<1>1. Data(writeMessage(c, a, d)) = (d \div 256) * 256 + (d % 256)
  BY DEF writeMessage, Data
<1>2. (d \div 256) * 256 + (d % 256) = d
  OBVIOUS
<1>3. QED
  BY <1>1, <1>2 DEF writeMessage, FirstByte

\* Command 21: the AD5664 reads every sixteen bit value on the channel meant, and
\* then the update of that channel.
THEOREM ChannelReadsValue ==
  ASSUME NEW ch \in 0..3, NEW v \in Uint16
  PROVE  /\ Data(AD5664Bytes(ch, v)[1]) = v
         /\ AD5664Bytes(ch, v)[1][1] = ch /\ AD5664Bytes(ch, v)[2][1] = 8 + ch
<1>1. /\ AD5664Bytes(ch, v)[1] = writeMessage(0, ch, v)
      /\ AD5664Bytes(ch, v)[2] = writeMessage(8, ch, 0)
  BY DEF AD5664Bytes
<1>2. FirstByte(0, ch) = ch /\ FirstByte(8, ch) = 8 + ch
  BY DEF FirstByte
<1>3. v \in Int /\ 0 \in Int
  BY DEF Uint16
<1>4. /\ Data(writeMessage(0, ch, v)) = v
      /\ writeMessage(0, ch, v)[1] = FirstByte(0, ch)
      /\ writeMessage(8, ch, 0)[1] = FirstByte(8, ch)
  BY <1>3, MessageReads, Zenon
<1>5. QED
  BY <1>1, <1>2, <1>4, Zenon

-----------------------------------------------------------------------------
(* The frames and the discrete outputs. *)

\* The weight of a pin of a port that is high.
High(S, pin, w) == IF pin \in S THEN w ELSE 0
\* What the pins in S show for a port.
Shown(p, S) ==
    CASE p = 1 -> High(S, "io1_0", 1) + High(S, "io1_1", 2)
      [] p = 2 -> High(S, "io2_0", 1) + High(S, "io2_1", 2) + High(S, "io2_2", 4)
      [] OTHER -> High(S, "io3_0", 1) + High(S, "io3_1", 2)

LEMMA OutputsAreShown ==
  OutputsShowLast <=> \A p \in 1..3 : want[p] = Shown(p, pins)
<1> DEFINE V(p, b) == IF b \in DOMAIN PortPins[p] /\ PortPins[p][b] \in pins THEN 2^(b - 1) ELSE 0
<1>1. ASSUME NEW p \in 1..3 PROVE V(p, 1) + V(p, 2) + V(p, 3) = Shown(p, pins)
  <2>1. 2^(1 - 1) = 1 /\ 2^(2 - 1) = 2 /\ 2^(3 - 1) = 4
    OBVIOUS
  <2>2. CASE p = 1
    <3>1. PortPins[p] = <<"io1_0", "io1_1">>
      BY <2>2 DEF PortPins
    <3>2. V(p, 1) = High(pins, "io1_0", 1) /\ V(p, 2) = High(pins, "io1_1", 2) /\ V(p, 3) = 0
      BY <2>1, <3>1 DEF High
    <3>3. QED
      BY <2>2, <3>2 DEF Shown, High
  <2>3. CASE p = 2
    <3>1. PortPins[p] = <<"io2_0", "io2_1", "io2_2">>
      BY <2>3 DEF PortPins
    <3>2. /\ V(p, 1) = High(pins, "io2_0", 1) /\ V(p, 2) = High(pins, "io2_1", 2)
          /\ V(p, 3) = High(pins, "io2_2", 4)
      BY <2>1, <3>1 DEF High
    <3>3. QED
      BY <2>3, <3>2 DEF Shown, High
  <2>4. CASE p = 3
    <3>1. PortPins[p] = <<"io3_0", "io3_1">>
      BY <2>4 DEF PortPins
    <3>2. V(p, 1) = High(pins, "io3_0", 1) /\ V(p, 2) = High(pins, "io3_1", 2) /\ V(p, 3) = 0
      BY <2>1, <3>1 DEF High
    <3>3. QED
      BY <2>4, <3>2 DEF Shown, High
  <2>5. QED
    BY <2>2, <2>3, <2>4
<1>2. OutputsShowLast <=> \A p \in 1..3 : want[p] = V(p, 1) + V(p, 2) + V(p, 3)
  BY DEF OutputsShowLast
<1>3. QED
  BY <1>1, <1>2

PinsInv == want \in [1..3 -> Nat] /\ \A p \in 1..3 : want[p] = Shown(p, pins)

LEMMA PortWritten ==
  ASSUME PinsInv, NEW port_ \in 1..3, NEW value \in 0..9, set_io_value(port_, value)
  PROVE  PinsInv'
<1> DEFINE P == PortPins[port_]
           up == {P[b] : b \in {x \in DOMAIN P : Bit(value, x - 1) = 1}}
           bit0 == value % 2
           bit1 == (value \div 2) % 2
           bit2 == (value \div 4) % 2
<1>1. /\ pins' = (pins \ {P[b] : b \in DOMAIN P}) \cup up
      /\ want' = [want EXCEPT ![port_] = value % 2^Len(P)]
  BY DEF set_io_value
<1>2. Bit(value, 0) = bit0 /\ Bit(value, 1) = bit1 /\ Bit(value, 2) = bit2
  BY DEF Bit
<1>3. /\ bit0 \in {0, 1} /\ bit1 \in {0, 1} /\ bit2 \in {0, 1}
      /\ bit0 + 2 * bit1 = value % 4 /\ bit0 + 2 * bit1 + 4 * bit2 = value % 8
  OBVIOUS
<1> HIDE DEF bit0, bit1, bit2
<1>4. CASE port_ = 1
  <2>1. P = <<"io1_0", "io1_1">> /\ Len(P) = 2 /\ 2^2 = 4
    BY <1>4 DEF PortPins
  <2>2. /\ "io1_0" \in pins' <=> bit0 = 1
        /\ "io1_1" \in pins' <=> bit1 = 1
        /\ \A x \in {"io2_0", "io2_1", "io2_2", "io3_0", "io3_1"} : x \in pins' <=> x \in pins
    <3>1. up = {x \in {"io1_0", "io1_1"} : (x = "io1_0" /\ bit0 = 1) \/ (x = "io1_1" /\ bit1 = 1)}
      BY <1>2, <2>1
    <3>2. {P[b] : b \in DOMAIN P} = {"io1_0", "io1_1"}
      BY <2>1
    <3> HIDE DEF up, P
    <3>3. QED
      BY <1>1, <3>1, <3>2
  <2>3. want' = [want EXCEPT ![1] = value % 4]
    BY <1>1, <1>4, <2>1
  <2>4. Shown(1, pins') = value % 4 /\ Shown(2, pins') = Shown(2, pins) /\ Shown(3, pins') = Shown(3, pins)
    BY <1>3, <2>2 DEF Shown, High
  <2>5. QED
    BY <2>3, <2>4 DEF PinsInv
<1>5. CASE port_ = 2
  <2>1. P = <<"io2_0", "io2_1", "io2_2">> /\ Len(P) = 3 /\ 2^3 = 8
    BY <1>5 DEF PortPins
  <2>2. /\ "io2_0" \in pins' <=> bit0 = 1
        /\ "io2_1" \in pins' <=> bit1 = 1
        /\ "io2_2" \in pins' <=> bit2 = 1
        /\ \A x \in {"io1_0", "io1_1", "io3_0", "io3_1"} : x \in pins' <=> x \in pins
    <3>1. up = {x \in {"io2_0", "io2_1", "io2_2"} : \/ x = "io2_0" /\ bit0 = 1
                                                    \/ x = "io2_1" /\ bit1 = 1
                                                    \/ x = "io2_2" /\ bit2 = 1}
      BY <1>2, <2>1
    <3>2. {P[b] : b \in DOMAIN P} = {"io2_0", "io2_1", "io2_2"}
      BY <2>1
    <3> HIDE DEF up, P
    <3>3. QED
      BY <1>1, <3>1, <3>2
  <2>3. want' = [want EXCEPT ![2] = value % 8]
    BY <1>1, <1>5, <2>1
  <2>4. Shown(2, pins') = value % 8 /\ Shown(1, pins') = Shown(1, pins) /\ Shown(3, pins') = Shown(3, pins)
    BY <1>3, <2>2 DEF Shown, High
  <2>5. QED
    BY <2>3, <2>4 DEF PinsInv
<1>6. CASE port_ = 3
  <2>1. P = <<"io3_0", "io3_1">> /\ Len(P) = 2 /\ 2^2 = 4
    BY <1>6 DEF PortPins
  <2>2. /\ "io3_0" \in pins' <=> bit0 = 1
        /\ "io3_1" \in pins' <=> bit1 = 1
        /\ \A x \in {"io1_0", "io1_1", "io2_0", "io2_1", "io2_2"} : x \in pins' <=> x \in pins
    <3>1. up = {x \in {"io3_0", "io3_1"} : (x = "io3_0" /\ bit0 = 1) \/ (x = "io3_1" /\ bit1 = 1)}
      BY <1>2, <2>1
    <3>2. {P[b] : b \in DOMAIN P} = {"io3_0", "io3_1"}
      BY <2>1
    <3> HIDE DEF up, P
    <3>3. QED
      BY <1>1, <3>1, <3>2
  <2>3. want' = [want EXCEPT ![3] = value % 4]
    BY <1>1, <1>6, <2>1
  <2>4. Shown(3, pins') = value % 4 /\ Shown(1, pins') = Shown(1, pins) /\ Shown(2, pins') = Shown(2, pins)
    BY <1>3, <2>2 DEF Shown, High
  <2>5. QED
    BY <2>3, <2>4 DEF PinsInv
<1>7. QED
  BY <1>4, <1>5, <1>6

LEMMA ThreeBits ==
  ASSUME NEW x \in {0, 1}, NEW y \in {0, 2}, NEW z \in {0, 4}
  PROVE  ((x + y + z) \div 2) % 2 = IF y = 2 THEN 1 ELSE 0
OBVIOUS

LEMMA PinWritten ==
  ASSUME PinsInv, NEW k, NEW level \in 0..2, SetOneIo(k, level)
  PROVE  PinsInv'
<1>1. PICK p \in 1..3 : \E b \in 0..2 :
         /\ b + 1 \in DOMAIN PortPins[p] /\ PortPins[p][b + 1] = io_ports[k]
         /\ want' = [want EXCEPT ![p] = @ - Bit(@, b) * 2^b + (IF level = 1 THEN 2^b ELSE 0)]
  BY DEF SetOneIo
<1>2. PICK b \in 0..2 :
         /\ b + 1 \in DOMAIN PortPins[p] /\ PortPins[p][b + 1] = io_ports[k]
         /\ want' = [want EXCEPT ![p] = @ - Bit(@, b) * 2^b + (IF level = 1 THEN 2^b ELSE 0)]
  BY <1>1
<1> DEFINE x == io_ports[k]
           rest == want[p] - Bit(want[p], b) * 2^b
<1>3. pins' = IF level = 1 THEN pins \cup {x} ELSE pins \ {x}
  BY DEF SetOneIo
<1>4. want' = [want EXCEPT ![p] = rest + (IF level = 1 THEN 2^b ELSE 0)]
  BY <1>2
<1>5. /\ p = 1 /\ b = 0 => x = "io1_0"
      /\ p = 1 /\ b = 1 => x = "io1_1"
      /\ p = 2 /\ b = 0 => x = "io2_0"
      /\ p = 2 /\ b = 1 => x = "io2_1"
      /\ p = 2 /\ b = 2 => x = "io2_2"
      /\ p = 3 /\ b = 0 => x = "io3_0"
      /\ p = 3 /\ b = 1 => x = "io3_1"
      /\ b = 2 => p = 2
  BY <1>2 DEF PortPins
<1>6. want \in [1..3 -> Nat] /\ \A q \in 1..3 : want[q] = Shown(q, pins)
  BY DEF PinsInv
<1>7. /\ b = 0 => Bit(want[p], b) = want[p] % 2 /\ 2^b = 1
      /\ b = 1 => Bit(want[p], b) = (want[p] \div 2) % 2 /\ 2^b = 2
      /\ b = 2 => Bit(want[p], b) = (want[p] \div 4) % 2 /\ 2^b = 4
  <2>1. want[p] \in Nat /\ want[p] \div 1 = want[p]
    BY <1>6
  <2>2. 2^0 = 1 /\ 2^1 = 2 /\ 2^2 = 4
    OBVIOUS
  <2>3. QED
    BY <2>1, <2>2 DEF Bit
<1> HIDE DEF x
<1>8. rest \in Nat /\ Shown(p, pins') = rest + (IF level = 1 THEN 2^b ELSE 0)
  <2>1. CASE p = 1
    <3>1. want[p] = High(pins, "io1_0", 1) + High(pins, "io1_1", 2)
      BY <1>6, <2>1 DEF Shown
    <3>2. Shown(p, pins') = High(pins', "io1_0", 1) + High(pins', "io1_1", 2)
      BY <2>1 DEF Shown
    <3>3. CASE b = 0
      BY <1>3, <1>5, <1>7, <2>1, <3>1, <3>2, <3>3 DEF High
    <3>4. CASE b = 1
      <4>1. (want[p] \div 2) % 2 = IF "io1_1" \in pins THEN 1 ELSE 0
        BY <3>1 DEF High
      <4>2. QED
        BY <1>3, <1>5, <1>7, <2>1, <3>1, <3>2, <3>4, <4>1 DEF High
    <3>5. QED
      BY <1>5, <2>1, <3>3, <3>4
  <2>2. CASE p = 2
    <3>1. want[p] = High(pins, "io2_0", 1) + High(pins, "io2_1", 2) + High(pins, "io2_2", 4)
      BY <1>6, <2>2 DEF Shown
    <3>2. Shown(p, pins') = High(pins', "io2_0", 1) + High(pins', "io2_1", 2) + High(pins', "io2_2", 4)
      BY <2>2 DEF Shown
    <3>3. CASE b = 0
      BY <1>3, <1>5, <1>7, <2>2, <3>1, <3>2, <3>3 DEF High
    <3>4. CASE b = 1
      <4>1. (want[p] \div 2) % 2 = IF "io2_1" \in pins THEN 1 ELSE 0
        BY <3>1, ThreeBits DEF High
      <4>2. QED
        BY <1>3, <1>5, <1>7, <2>2, <3>1, <3>2, <3>4, <4>1 DEF High
    <3>5. CASE b = 2
      BY <1>3, <1>5, <1>7, <2>2, <3>1, <3>2, <3>5 DEF High
    <3>6. QED
      BY <3>3, <3>4, <3>5
  <2>3. CASE p = 3
    <3>1. want[p] = High(pins, "io3_0", 1) + High(pins, "io3_1", 2)
      BY <1>6, <2>3 DEF Shown
    <3>2. Shown(p, pins') = High(pins', "io3_0", 1) + High(pins', "io3_1", 2)
      BY <2>3 DEF Shown
    <3>3. CASE b = 0
      BY <1>3, <1>5, <1>7, <2>3, <3>1, <3>2, <3>3 DEF High
    <3>4. CASE b = 1
      BY <1>3, <1>5, <1>7, <2>3, <3>1, <3>2, <3>4 DEF High
    <3>5. QED
      BY <1>5, <2>3, <3>3, <3>4
  <2>4. QED
    BY <2>1, <2>2, <2>3
<1> HIDE DEF rest
<1>9. ASSUME NEW q \in 1..3, q # p PROVE Shown(q, pins') = Shown(q, pins)
  BY <1>3, <1>5, <1>9 DEF Shown, High
<1>10. 2^b \in Nat
  BY <1>7
<1>11. want' \in [1..3 -> Nat] /\ \A q \in 1..3 : want'[q] = Shown(q, pins')
  BY <1>4, <1>6, <1>8, <1>9, <1>10
<1>12. QED
  BY <1>11 DEF PinsInv

\* The four bits of a mask, with and without the power mode above them.
LEMMA MaskBits ==
  ASSUME NEW x \in {0, 2}, NEW d \in 0..1, NEW c \in 0..1, NEW b \in 0..1, NEW a \in 0..1
  PROVE  LET m == x * 16 + makeChannelMask(d, c, b, a) IN
         Bit(m, 0) = a /\ Bit(m, 1) = b /\ Bit(m, 2) = c /\ Bit(m, 3) = d
<1> DEFINE m == x * 16 + (8 * d + 4 * c + 2 * b + a)
<1>1. 2^0 = 1 /\ 2^1 = 2 /\ 2^2 = 4 /\ 2^3 = 8
  OBVIOUS
<1>2. m \div 1 = m /\ m % 2 = a
  OBVIOUS
<1>3. m \div 2 = x * 8 + 4 * d + 2 * c + b /\ m \div 4 = x * 4 + 2 * d + c /\ m \div 8 = x * 2 + d
  OBVIOUS
<1>4. (x * 8 + 4 * d + 2 * c + b) % 2 = b /\ (x * 4 + 2 * d + c) % 2 = c /\ (x * 2 + d) % 2 = d
  OBVIOUS
<1> HIDE DEF m
<1>5. Bit(m, 0) = a /\ Bit(m, 1) = b /\ Bit(m, 2) = c /\ Bit(m, 3) = d
  BY <1>1, <1>2, <1>3, <1>4 DEF Bit
<1>6. QED
  BY <1>5 DEF m, makeChannelMask

\* Two and three runs of pulses.
TwoRunsOf(t, x, n, y, m) ==
    t \in Seq(Int) /\ Len(t) = n + m /\ \A k \in 1 .. n + m : t[k] = IF k <= n THEN x ELSE y

LEMMA Runs ==
  ASSUME NEW x \in Int, NEW y \in Int, NEW n \in Nat, NEW m \in Nat
  PROVE  TwoRunsOf(Pulse(x, n) \o Pulse(y, m), x, n, y, m)
<1> DEFINE A == Pulse(x, n)
           B == Pulse(y, m)
<1>1. /\ A \in Seq(Int) /\ Len(A) = n /\ \A k \in 1..n : A[k] = x
      /\ B \in Seq(Int) /\ Len(B) = m /\ \A k \in 1..m : B[k] = y
  BY DEF Pulse
<1> HIDE DEF A, B
<1>2. /\ A \o B \in Seq(Int) /\ Len(A \o B) = Len(A) + Len(B)
      /\ \A k \in 1 .. Len(A) + Len(B) : (A \o B)[k] = IF k <= Len(A) THEN A[k] ELSE B[k - Len(A)]
  BY <1>1, ConcatProperties
<1>3. ASSUME NEW k \in 1 .. n + m PROVE (A \o B)[k] = IF k <= n THEN x ELSE y
  <2>1. k \in 1 .. Len(A) + Len(B)
    BY <1>1
  <2>2. (A \o B)[k] = IF k <= Len(A) THEN A[k] ELSE B[k - Len(A)]
    BY <1>2, <2>1
  <2>3. QED
    BY <1>1, <2>2
<1>4. TwoRunsOf(A \o B, x, n, y, m)
  BY <1>1, <1>2, <1>3 DEF TwoRunsOf
<1>5. QED
  BY <1>4 DEF A, B

ThreeRunsOf(t, x, n, y, m, z, l) ==
    \A k \in 1 .. n + m + l : t[k] = IF k <= n THEN x ELSE IF k <= n + m THEN y ELSE z

LEMMA ThreeRuns ==
  ASSUME NEW x \in Int, NEW y \in Int, NEW z \in Int, NEW n \in Nat, NEW m \in Nat, NEW l \in Nat
  PROVE  ThreeRunsOf(Pulse(x, n) \o Pulse(y, m) \o Pulse(z, l), x, n, y, m, z, l)
<1> DEFINE A == Pulse(x, n) \o Pulse(y, m)
           B == Pulse(z, l)
<1>1. TwoRunsOf(A, x, n, y, m)
  BY Runs
<1>2. /\ B \in Seq(Int) /\ Len(B) = l /\ \A k \in 1..l : B[k] = z
  BY DEF Pulse
<1> HIDE DEF A, B
<1>3. A \in Seq(Int) /\ Len(A) = n + m /\ \A k \in 1..n + m : A[k] = IF k <= n THEN x ELSE y
  BY <1>1 DEF TwoRunsOf
<1>4. \A k \in 1 .. Len(A) + Len(B) : (A \o B)[k] = IF k <= Len(A) THEN A[k] ELSE B[k - Len(A)]
  BY <1>2, <1>3, ConcatProperties
<1>5. ASSUME NEW k \in 1 .. n + m + l
      PROVE  (A \o B)[k] = IF k <= n THEN x ELSE IF k <= n + m THEN y ELSE z
  <2>1. k \in 1 .. Len(A) + Len(B)
    BY <1>2, <1>3
  <2>2. (A \o B)[k] = IF k <= Len(A) THEN A[k] ELSE B[k - Len(A)]
    BY <1>4, <2>1
  <2>3. QED
    BY <1>2, <1>3, <2>2
<1>6. QED
  BY <1>5 DEF A, B, ThreeRunsOf

\* The LED tells the colours apart.
LEMMA Colours ==
  /\ ReadLed(activateGreen) = "green" /\ ReadLed(activateRed) = "red"
  /\ ReadLed(activateBlue) = "blue" /\ ReadLed(activateDark) = "dark"
<1> DEFINE Ones(train, from) == \A k \in from .. from + 7 : train[k] > 60
<1>1. \A train : ReadLed(train) = IF Ones(train, 1) THEN "green" ELSE IF Ones(train, 9) THEN "red"
                                  ELSE IF Ones(train, 17) THEN "blue" ELSE "dark"
  BY DEF ReadLed
<1>2. \A k \in 1 .. 24 : activateGreen[k] = IF k <= 8 THEN 85 ELSE 35
  <2>1. TwoRunsOf(activateGreen, 85, 8, 35, 16)
    BY Runs, SMT DEF activateGreen
  <2>2. \A k \in 1 .. 8 + 16 : activateGreen[k] = IF k <= 8 THEN 85 ELSE 35
    BY <2>1, Zenon DEF TwoRunsOf
  <2>3. QED
    BY <2>2
<1>3. \A k \in 1 .. 24 : activateRed[k] = IF k <= 8 THEN 35 ELSE IF k <= 16 THEN 85 ELSE 35
  <2>1. ThreeRunsOf(activateRed, 35, 8, 85, 8, 35, 8)
    BY ThreeRuns, SMT DEF activateRed
  <2>2. \A k \in 1 .. 8 + 8 + 8 :
           activateRed[k] = IF k <= 8 THEN 35 ELSE IF k <= 8 + 8 THEN 85 ELSE 35
    BY <2>1, Zenon DEF ThreeRunsOf
  <2>3. QED
    BY <2>2
<1>4. \A k \in 1 .. 24 : activateBlue[k] = IF k <= 16 THEN 35 ELSE 85
  <2>1. TwoRunsOf(activateBlue, 35, 16, 85, 8)
    BY Runs, SMT DEF activateBlue
  <2>2. \A k \in 1 .. 16 + 8 : activateBlue[k] = IF k <= 16 THEN 35 ELSE 85
    BY <2>1, Zenon DEF TwoRunsOf
  <2>3. QED
    BY <2>2
<1>5. \A k \in 1 .. 24 : activateDark[k] = 35
  BY DEF activateDark, Pulse
<1>6. Ones(activateGreen, 1)
  BY <1>2
<1>7. ~Ones(activateRed, 1) /\ Ones(activateRed, 9)
  <2>1. activateRed[1] = 35
    BY <1>3
  <2>2. QED
    BY <1>3, <2>1
<1>8. ~Ones(activateBlue, 1) /\ ~Ones(activateBlue, 9) /\ Ones(activateBlue, 17)
  <2>1. activateBlue[1] = 35 /\ activateBlue[9] = 35
    BY <1>4
  <2>2. QED
    BY <1>4, <2>1
<1>9. ~Ones(activateDark, 1) /\ ~Ones(activateDark, 9) /\ ~Ones(activateDark, 17)
  <2>1. activateDark[1] = 35 /\ activateDark[9] = 35 /\ activateDark[17] = 35
    BY <1>5
  <2>2. QED
    BY <2>1
<1> HIDE DEF Ones
<1>10. QED
  BY <1>1, <1>6, <1>7, <1>8, <1>9

LEMMA FramesJoined ==
  ASSUME NEW S, NEW s \in Seq(S), NEW r \in Seq(S)
  PROVE  /\ s \o r \in Seq(S) /\ Len(s \o r) = Len(s) + Len(r)
         /\ \A k \in 1 .. Len(s) : (s \o r)[k] = s[k]
         /\ \A k \in 1 .. Len(r) : (s \o r)[Len(s) + k] = r[k]
OBVIOUS

\* Three rounds of four frames, the fourth of each the one meant.
LEMMA BlinkFrames ==
  ASSUME NEW frame
  PROVE  /\ DOMAIN Blink(frame) = 1 .. 12
         /\ \A k \in 1 .. 12 : Blink(frame)[k] = IF k % 4 = 0 THEN frame ELSE activateDark
<1> DEFINE dark == activateDark
           S == {dark, frame}
           R == <<dark, dark, dark, frame>>
           T == R \o R
           U == T \o R
<1>1. Blink(frame) = U
  BY DEF Blink
<1> HIDE DEF dark
<1>2. R \in Seq(S) /\ Len(R) = 4 /\ R[1] = dark /\ R[2] = dark /\ R[3] = dark /\ R[4] = frame
  OBVIOUS
<1> HIDE DEF R, S
<1>3. /\ T \in Seq(S) /\ Len(T) = 4 + 4
      /\ \A k \in 1 .. 4 : T[k] = R[k] /\ T[4 + k] = R[k]
  <2>1. R \in Seq(S)
    BY <1>2
  <2>2. /\ T \in Seq(S) /\ Len(T) = Len(R) + Len(R)
        /\ \A k \in 1 .. Len(R) : T[k] = R[k]
        /\ \A k \in 1 .. Len(R) : T[Len(R) + k] = R[k]
    BY <2>1, FramesJoined
  <2>3. Len(R) = 4
    BY <1>2
  <2> HIDE DEF T
  <2>4. QED
    BY <2>2, <2>3, Zenon
<1> HIDE DEF T
<1>4. /\ U \in Seq(S) /\ Len(U) = 8 + 4
      /\ \A k \in 1 .. 8 : U[k] = T[k]
      /\ \A k \in 1 .. 4 : U[8 + k] = R[k]
  <2>1. T \in Seq(S) /\ R \in Seq(S)
    BY <1>2, <1>3
  <2>2. /\ U \in Seq(S) /\ Len(U) = Len(T) + Len(R)
        /\ \A k \in 1 .. Len(T) : U[k] = T[k]
        /\ \A k \in 1 .. Len(R) : U[Len(T) + k] = R[k]
    BY <2>1, FramesJoined
  <2>3. Len(T) = 8 /\ Len(R) = 4
    BY <1>2, <1>3
  <2> HIDE DEF U
  <2>4. QED
    BY <2>2, <2>3, Zenon
<1> HIDE DEF U
<1>5. DOMAIN U = 1 .. 12
  <2>1. U \in Seq(S) /\ Len(U) = 12
    BY <1>4
  <2>2. QED
    BY <2>1, LenProperties, Zenon
<1>6. ASSUME NEW k \in 1 .. 4 PROVE U[k] = R[k] /\ U[4 + k] = R[k] /\ U[8 + k] = R[k]
  <2>1. k \in 1 .. 8 /\ 4 + k \in 1 .. 8
    OBVIOUS
  <2>2. U[k] = T[k] /\ U[4 + k] = T[4 + k] /\ U[8 + k] = R[k]
    BY <1>4, <2>1, Zenon
  <2>3. QED
    BY <1>3, <2>2, Zenon
<1>7. ASSUME NEW k \in 1 .. 12 PROVE U[k] = IF k % 4 = 0 THEN frame ELSE dark
  <2>1. PICK q \in 1 .. 4 : (k = q \/ k = 4 + q \/ k = 8 + q) /\ (k % 4 = 0 <=> q = 4)
    OBVIOUS
  <2>2. U[k] = R[q]
    BY <1>6, <2>1
  <2>3. R[q] = IF q = 4 THEN frame ELSE dark
    BY <1>2
  <2>4. QED
    BY <2>1, <2>2, <2>3
<1>8. QED
  BY <1>1, <1>5, <1>7 DEF dark

LEMMA Arguments ==
  /\ \A f \in Freqs : f \in Nat /\ f < 25000000
  /\ \A v \in Words : v \in Nat
<1>1. (\A f \in Freqs : f \in Tunable) /\ \A v \in Words : v \in Uint16
  BY FramesAssumption, Zenon
<1>2. \A f \in Tunable : f \in Nat /\ f < 25000000
  BY SMT DEF Tunable
<1>3. \A v \in Uint16 : v \in Nat
  BY SMT DEF Uint16
<1>4. QED
  BY <1>1, <1>2, <1>3, SMT

OutRead == GeneratorReads /\ DacsRead /\ ClassReads /\ LedShows

LEMMA NothingOut == ASSUME out' = Nothing PROVE OutRead'
BY DEF OutRead, Nothing, GeneratorReads, DacsRead, ClassReads, LedShows

LEMMA OutStep ==
  ASSUME SendFreq \/ SendDac \/ SendAd5664 \/ SendAd56x4Class \/ SendGain \/ ShowLed
  PROVE  OutRead'
<1>1. CASE SendFreq
  <2>1. PICK f \in Freqs : out' = [of |-> "AD9833", asked |-> f, bytes |-> AD9833Bytes(f)]
    BY <1>1 DEF SendFreq, Send
  <2>2. out'.of = "AD9833" /\ out'.asked = f /\ out'.bytes = AD9833Bytes(f)
    BY <2>1
  <2>3. f \in Nat
    BY Arguments, SMT
  <2>4. nReg(f) \in TuningWord
    <3>1. nReg(f) \in Nat /\ nReg(f) * 390625 <= f * 4194304
      BY <2>3, TuningWithinStep, SMT
    <3>2. nReg(f) < 16384 * 16384
      <4>1. f < 25000000
        BY Arguments, SMT
      <4>2. QED
        BY <2>3, <3>1, <4>1, SMT
    <3>3. QED
      BY <3>1, <3>2 DEF TuningWord
  <2>5. /\ ReadAD9833(AD9833Bytes(f)) = nReg(f)
        /\ \A k \in {1, 3} : AD9833Bytes(f)[k] \div 64 = 1
        /\ \A k \in 1..6 : AD9833Bytes(f)[k] \in 0..255
    <3>1. /\ ReadAD9833(AD9833Bytes(f)) = nReg(f)
          /\ \A k \in {1, 3} : AD9833Bytes(f)[k] \div 64 = 1
          /\ \A k \in 1..6 : IsByte(AD9833Bytes(f)[k])
      BY <2>3, <2>4, GeneratorReadsFrequency, Zenon
    <3>2. \A b : IsByte(b) => b \in 0..255
      BY DEF IsByte
    <3>3. QED
      BY <3>1, <3>2, Zenon
  <2>6. DOMAIN AD9833Bytes(f) = 1..6
    BY DEF AD9833Bytes
  <2>7. /\ nReg(f) * 390625 <= f * 4194304
        /\ f * 4194304 - nReg(f) * 390625 < 390625
    BY <2>3, TuningWithinStep, SMT
  <2>8. GeneratorReads'
    BY <2>2, <2>5, <2>6, <2>7, SMT DEF GeneratorReads
  <2>9. QED
    BY <2>2, <2>8 DEF OutRead, DacsRead, ClassReads, LedShows
<1>2. CASE SendDac
  <2>1. PICK v \in Words : \E c \in {CMD_SETA_UPDATEA, CMD_SETB_UPDATEB} :
           out' = [of |-> "DAC8563", asked |-> v, bytes |-> outPutValue(c, v)]
    BY <1>2 DEF SendDac, Send
  <2>2. PICK c : out' = [of |-> "DAC8563", asked |-> v, bytes |-> outPutValue(c, v)]
    BY <2>1
  <2>3. out'.of = "DAC8563" /\ out'.asked = v /\ out'.bytes = outPutValue(c, v)
    BY <2>2
  <2>4. v \in Nat
    BY Arguments, SMT
  <2>5. Data(outPutValue(c, v)) = v % 65536
    BY <2>4, DacReadsValue, SMT
  <2>6. QED
    BY <2>3, <2>5 DEF OutRead, GeneratorReads, DacsRead, ClassReads, LedShows
<1>3. CASE SendAd5664
  <2>1. PICK v \in Words : \E ch \in 0..3 :
           out' = [of |-> "AD5664", asked |-> v, channel |-> ch, bytes |-> AD5664Bytes(ch, v)]
    BY <1>3 DEF SendAd5664, Send
  <2>2. PICK ch \in 0..3 :
           out' = [of |-> "AD5664", asked |-> v, channel |-> ch, bytes |-> AD5664Bytes(ch, v)]
    BY <2>1
  <2>3. v \in Uint16
    BY FramesAssumption, Zenon
  <2>4. /\ out'.of = "AD5664" /\ out'.asked = v /\ out'.channel = ch
        /\ out'.bytes = AD5664Bytes(ch, v)
    BY <2>2
  <2>5. /\ Data(AD5664Bytes(ch, v)[1]) = v
        /\ AD5664Bytes(ch, v)[1][1] = ch /\ AD5664Bytes(ch, v)[2][1] = 8 + ch
    BY <2>3, ChannelReadsValue, Zenon
  <2>6. QED
    BY <2>4, <2>5 DEF OutRead, GeneratorReads, DacsRead, ClassReads, LedShows
<1>4. CASE SendAd56x4Class
  <2>1. CASE \E m \in {0, 8, 16, 24}, v \in [1..4 -> {0, 257}] :
                Send([of |-> "channels", asked |-> v, mode |-> m, bytes |-> setChannels(m, v)])
    <3>1. PICK m \in {0, 8, 16, 24}, v \in [1..4 -> {0, 257}] :
             Send([of |-> "channels", asked |-> v, mode |-> m, bytes |-> setChannels(m, v)])
      BY <2>1
    <3>2. out'.of = "channels" /\ out'.asked = v /\ out'.mode = m /\ out'.bytes = setChannels(m, v)
      BY <3>1 DEF Send
    <3>3. CASE m = 8
      <4>1. setChannels(m, v) = <<>>
        BY <3>3 DEF setChannels
      <4>2. QED
        BY <3>2, <3>3, <4>1 DEF OutRead, GeneratorReads, DacsRead, ClassReads, LedShows
    <3>4. CASE m # 8
      <4>1. setChannels(m, v) = [k \in 1..4 |-> writeMessage(m, 4 - k, v[k])]
        BY <3>4 DEF setChannels
      <4>2. ASSUME NEW ch \in 0..3
            PROVE  /\ 4 - ch \in 1..4 /\ setChannels(m, v)[4 - ch][1] = m + ch
                   /\ Data(setChannels(m, v)[4 - ch]) = v[4 - ch]
        <5>1. 4 - ch \in 1..4 /\ 4 - (4 - ch) = ch
          OBVIOUS
        <5>2. setChannels(m, v)[4 - ch] = writeMessage(m, ch, v[4 - ch])
          BY <4>1, <5>1
        <5>3. v[4 - ch] \in Int
          BY <5>1
        <5>4. FirstByte(m, ch) = m + ch
          BY <3>4 DEF FirstByte
        <5>5. /\ Data(writeMessage(m, ch, v[4 - ch])) = v[4 - ch]
              /\ writeMessage(m, ch, v[4 - ch])[1] = FirstByte(m, ch)
          <6>1. ASSUME NEW w \in Int
                PROVE  /\ Data(writeMessage(m, ch, w)) = w
                       /\ writeMessage(m, ch, w)[1] = FirstByte(m, ch)
            BY MessageReads
          <6>2. QED
            BY <5>3, <6>1
        <5>6. QED
          BY <5>1, <5>2, <5>4, <5>5, Zenon
      <4>3. \A ch \in 0..3 : \E k \in 1..4 : /\ out'.bytes[k][1] = out'.mode + ch
                                             /\ Data(out'.bytes[k]) = out'.asked[4 - ch]
        BY <3>2, <4>2
      <4>4. QED
        BY <3>2, <3>4, <4>3 DEF OutRead, GeneratorReads, DacsRead, ClassReads, LedShows
    <3>5. QED
      BY <3>3, <3>4
  <2>2. CASE \E m \in [1..4 -> {16, 32}] :
                Send([of |-> "power", asked |-> m, bytes |-> powerUpDownAll(m)])
    <3>1. PICK m \in [1..4 -> {16, 32}] :
             out' = [of |-> "power", asked |-> m, bytes |-> powerUpDownAll(m)]
      BY <2>2 DEF Send
    <3>2. out'.of = "power" /\ out'.asked = m /\ out'.bytes = powerUpDownAll(m)
      BY <3>1
    <3>3. ASSUME NEW ch \in 0..3 PROVE Data(powerUpDownAll(m)[ch + 1]) = m[ch + 1] + 2^ch
      <4>1. ch + 1 \in 1..4 /\ (ch + 1) - 1 = ch /\ m[ch + 1] \in {16, 32}
        OBVIOUS
      <4>2. powerUpDownAll(m)[ch + 1] = powerUpDown(m[ch + 1], 2^ch)
        BY <4>1 DEF powerUpDownAll
      <4>3. 2^ch \in Int /\ (2^ch) % 16 = 2^ch
        <5>1. 2^0 = 1 /\ 2^1 = 2 /\ 2^2 = 4 /\ 2^3 = 8
          OBVIOUS
        <5>2. ch \in {0, 1, 2, 3}
          OBVIOUS
        <5>3. 2^ch \in {1, 2, 4, 8}
          BY <5>1, <5>2
        <5>4. \A n \in {1, 2, 4, 8} : n \in Int /\ n % 16 = n
          OBVIOUS
        <5>5. QED
          BY <5>3, <5>4
      <4>4. ((m[ch + 1] \div 16) % 4) * 16 = m[ch + 1]
        BY <4>1
      <4>5. powerUpDown(m[ch + 1], 2^ch) = writeMessage(32, 0, m[ch + 1] + 2^ch)
        BY <4>3, <4>4 DEF powerUpDown
      <4>6. m[ch + 1] + 2^ch \in Int
        BY <4>1, <4>3
      <4>7. QED
        BY <4>2, <4>5, <4>6, MessageReads
    <3>4. QED
      BY <3>2, <3>3 DEF OutRead, GeneratorReads, DacsRead, ClassReads, LedShows
  <2>3. CASE \E d, c, b, a \in 0..1 :
          LET mask == makeChannelMask(d, c, b, a) IN
          Send([of |-> "mask", asked |-> {k \in 0..3 : <<a, b, c, d>>[k + 1] = 1},
                bytes |-> <<powerUpDown(32, mask), setInputMode(mask), resetDac(d),
                            useInternalReference(c)>>])
    <3>1. PICK d, c, b, a \in 0..1 :
            LET mask == makeChannelMask(d, c, b, a) IN
            Send([of |-> "mask", asked |-> {k \in 0..3 : <<a, b, c, d>>[k + 1] = 1},
                  bytes |-> <<powerUpDown(32, mask), setInputMode(mask), resetDac(d),
                              useInternalReference(c)>>])
      BY <2>3
    <3> DEFINE mask == makeChannelMask(d, c, b, a)
               asked == {k \in 0..3 : <<a, b, c, d>>[k + 1] = 1}
    <3>a. out' = [of |-> "mask", asked |-> asked,
                  bytes |-> <<powerUpDown(32, mask), setInputMode(mask), resetDac(d),
                              useInternalReference(c)>>]
      BY <3>1, Zenon DEF Send
    <3>2. /\ out'.of = "mask" /\ out'.asked = asked
          /\ out'.bytes[1] = powerUpDown(32, mask) /\ out'.bytes[2] = setInputMode(mask)
      <4> HIDE DEF mask, asked
      <4>1. QED
        BY <3>a
    <3>3. mask \in Int /\ mask % 16 = mask
      BY DEF makeChannelMask
    <3>4. Data(out'.bytes[1]) = 2 * 16 + mask /\ Data(out'.bytes[2]) = 0 * 16 + mask
      <4>1. powerUpDown(32, mask) = writeMessage(32, 0, 2 * 16 + mask)
        BY <3>3 DEF powerUpDown
      <4>2. setInputMode(mask) = writeMessage(48, 0, 0 * 16 + mask)
        BY <3>3 DEF setInputMode
      <4>3. 2 * 16 + mask \in Int /\ 0 * 16 + mask \in Int /\ 32 \in Int /\ 48 \in Int /\ 0 \in Int
        BY <3>3
      <4>4. ASSUME NEW e \in Int
            PROVE  Data(writeMessage(32, 0, e)) = e /\ Data(writeMessage(48, 0, e)) = e
        BY MessageReads
      <4>5. QED
        BY <3>2, <4>1, <4>2, <4>3, <4>4
    <3>5. /\ 0 \in asked <=> a = 1
          /\ 1 \in asked <=> b = 1
          /\ 2 \in asked <=> c = 1
          /\ 3 \in asked <=> d = 1
      OBVIOUS
    <3>6. \A x \in {0, 2} : /\ Bit(x * 16 + mask, 0) = a /\ Bit(x * 16 + mask, 1) = b
                            /\ Bit(x * 16 + mask, 2) = c /\ Bit(x * 16 + mask, 3) = d
      BY MaskBits
    <3> HIDE DEF mask, asked
    <3>7. ASSUME NEW ch \in 0..3, NEW k \in 1..2
          PROVE  Bit(Data(out'.bytes[k]), ch) = 1 <=> ch \in out'.asked
      <4>1. PICK x \in {0, 2} : Data(out'.bytes[k]) = x * 16 + mask
        BY <3>4
      <4>2. ch \in {0, 1, 2, 3}
        OBVIOUS
      <4>3. QED
        BY <3>2, <3>5, <3>6, <4>1, <4>2
    <3>8. QED
      BY <3>2, <3>7 DEF OutRead, GeneratorReads, DacsRead, ClassReads, LedShows
  <2>4. QED
    BY <1>4, <2>1, <2>2, <2>3 DEF SendAd56x4Class
<1>5. CASE ShowLed
  <2>1. PICK c \in {"green", "red", "blue", "dark"} :
           out' = [of |-> "LED", asked |-> c, bytes |->
                   Blink(CASE c = "green" -> activateGreen [] c = "red" -> activateRed
                           [] c = "blue" -> activateBlue [] OTHER -> activateDark)]
    BY <1>5 DEF ShowLed, Send
  <2> DEFINE frame == CASE c = "green" -> activateGreen [] c = "red" -> activateRed
                        [] c = "blue" -> activateBlue [] OTHER -> activateDark
  <2>2. out'.of = "LED" /\ out'.asked = c /\ out'.bytes = Blink(frame)
    BY <2>1
  <2>3. ReadLed(frame) = c
    BY Colours
  <2> HIDE DEF frame
  <2>4. \A k \in DOMAIN Blink(frame) :
           ReadLed(Blink(frame)[k]) = (IF k % 4 = 0 THEN c ELSE "dark")
    BY <2>3, BlinkFrames, Colours
  <2>5. QED
    BY <2>2, <2>4 DEF OutRead, GeneratorReads, DacsRead, ClassReads, LedShows
<1>6. CASE SendGain
  <2>1. out'.of = "AD8400"
    BY <1>6 DEF SendGain, Send
  <2>2. QED
    BY <2>1 DEF OutRead, GeneratorReads, DacsRead, ClassReads, LedShows
<1>7. QED
  BY <1>1, <1>2, <1>3, <1>4, <1>5, <1>6

(* What a device but the AD8400 reads is what it was asked for, for every frequency below the
   clock of the AD9833 and every sixteen bit value, and the pins of the three
   ports show the last numbers written to them, in every order of port writes
   and writes of single pins (set_freq, DAC8563, AD56X4Class, set_io_value, LED). *)
THEOREM FramesReachDevices == FramesSpec => []FramesCarryValue
<1>1. FramesInit => PinsInv /\ OutRead
  <2> SUFFICES ASSUME FramesInit PROVE PinsInv /\ OutRead
    OBVIOUS
  <2>1. pins = {} /\ want = [p \in 1..3 |-> 0] /\ out.of = "none"
    BY DEF FramesInit, Nothing
  <2>2. PinsInv
    BY <2>1 DEF PinsInv, Shown, High
  <2>3. QED
    BY <2>1, <2>2 DEF OutRead, GeneratorReads, DacsRead, ClassReads, LedShows
<1>2. PinsInv /\ OutRead /\ [FramesNext]_frameVars => PinsInv' /\ OutRead'
  <2> SUFFICES ASSUME PinsInv, OutRead, [FramesNext]_frameVars PROVE PinsInv' /\ OutRead'
    OBVIOUS
  <2>1. ASSUME NEW p \in 1..3, NEW value \in 0..9, set_io_value(p, value)
        PROVE  PinsInv' /\ OutRead'
    <3>1. out' = Nothing
      BY <2>1 DEF set_io_value
    <3>2. QED
      BY <2>1, <3>1, PortWritten, NothingOut
  <2>2. ASSUME NEW k \in 1..7, NEW level \in 0..2, SetOneIo(k, level)
        PROVE  PinsInv' /\ OutRead'
    <3>1. out' = Nothing
      BY <2>2 DEF SetOneIo
    <3>2. QED
      BY <2>2, <3>1, PinWritten, NothingOut
  <2>3. CASE SendFreq \/ SendDac \/ SendAd5664 \/ SendAd56x4Class \/ SendGain \/ ShowLed
    <3>1. pins' = pins /\ want' = want
      BY <2>3 DEF SendFreq, SendDac, SendAd5664, SendAd56x4Class, SendGain, ShowLed, Send
    <3>2. PinsInv'
      BY <3>1 DEF PinsInv
    <3>3. QED
      BY <2>3, <3>2, OutStep
  <2>4. CASE UNCHANGED frameVars
    BY <2>4 DEF frameVars, PinsInv, OutRead, GeneratorReads, DacsRead, ClassReads, LedShows
  <2>5. QED
    BY <2>1, <2>2, <2>3, <2>4 DEF FramesNext
<1>3. PinsInv /\ OutRead => FramesCarryValue
  BY OutputsAreShown DEF PinsInv, OutRead, FramesCarryValue
<1>4. QED
  BY <1>1, <1>2, <1>3, PTL DEF FramesSpec

-----------------------------------------------------------------------------
(* The SPI bus. *)

\* The last operation before the k-th with a name in S is the j-th; there is none.
LastBefore(ops, k, S, j) ==
    /\ j \in 1 .. k - 1 /\ ops[j].op \in S
    /\ \A m \in j + 1 .. k - 1 : ops[m].op \notin S
NoneBefore(ops, k, S) == \A m \in 1 .. k - 1 : ops[m].op \notin S

\* The k-th operation, a transfer, finds its chip select, or its format, among the
\* operations before it; nothing else has touched it since.
Selects(ops, k) ==
    \E j \in DOMAIN ops : /\ LastBefore(ops, k, {"select", "acquire"}, j)
                          /\ ops[j].op = "select" /\ ops[j].port % 8 = Wired[ops[k].dev].port
Formats(ops, k) ==
    \E j \in DOMAIN ops : /\ LastBefore(ops, k, {"format", "acquire"}, j)
                          /\ ops[j].op = "format" /\ ops[j].fmt = Wired[ops[k].dev].fmt

Excepted(c, dev) == c = "approach" /\ dev = "DAC8563"

\* A routine that needs nothing from the one before it.
SelfContained(c, ops) ==
    \A k \in DOMAIN ops : ops[k].op = "write" /\ ~Excepted(c, ops[k].dev) =>
        Selects(ops, k) /\ (c = "initialize" \/ Formats(ops, k))

Fmts == AnyFormats \cup {Wired[d].fmt : d \in DOMAIN Wired}
Ops == {Select(p) : p \in Int} \cup {Format(f) : f \in Fmts} \cup {Write(d) : d \in DOMAIN Wired}
           \cup {Dec(level) : level \in BOOLEAN} \cup {Acquire}

\* A routine of a device that is not the AD5664 leaves dec alone.
Plain(ops) == \A k \in DOMAIN ops : ops[k].op # "dec" /\ ops[k] # Write("AD5664")
Sound(c, ops) == ops \in Seq(Ops) /\ SelfContained(c, ops) /\ Plain(ops)

\* What a transfer finds before it does not depend on where its routine stands.
LEMMA Shifted ==
  ASSUME NEW B \in Seq(Ops), NEW C \in Seq(Ops), NEW n \in Nat, NEW h \in DOMAIN B,
         \A e \in 1 .. h : e + n \in DOMAIN C /\ C[e + n] = B[e]
  PROVE  /\ Selects(B, h) => Selects(C, h + n)
         /\ Formats(B, h) => Formats(C, h + n)
<1>1. h \in Nat /\ h > 0 /\ C[h + n] = B[h]
  BY LenProperties
<1>2. ASSUME NEW S, NEW j, LastBefore(B, h, S, j)
      PROVE  LastBefore(C, h + n, S, j + n) /\ C[j + n] = B[j] /\ j + n \in DOMAIN C
  <2>1. j \in 1 .. h - 1 /\ B[j].op \in S /\ \A m \in j + 1 .. h - 1 : B[m].op \notin S
    BY <1>2 DEF LastBefore
  <2>2. j \in 1 .. h /\ j + n \in 1 .. (h + n) - 1
    BY <2>1, <1>1
  <2>3. ASSUME NEW m \in (j + n) + 1 .. (h + n) - 1 PROVE C[m].op \notin S
    <3>1. m - n \in j + 1 .. h - 1 /\ m - n \in 1 .. h /\ (m - n) + n = m
      BY <2>1, <1>1
    <3>2. QED
      BY <3>1, <2>1
  <2>4. QED
    BY <2>1, <2>2, <2>3 DEF LastBefore
<1>3. ASSUME Selects(B, h) PROVE Selects(C, h + n)
  <2>1. PICK j \in DOMAIN B : /\ LastBefore(B, h, {"select", "acquire"}, j)
                              /\ B[j].op = "select" /\ B[j].port % 8 = Wired[B[h].dev].port
    BY <1>3 DEF Selects
  <2>2. QED
    BY <1>1, <1>2, <2>1 DEF Selects
<1>4. ASSUME Formats(B, h) PROVE Formats(C, h + n)
  <2>1. PICK j \in DOMAIN B : /\ LastBefore(B, h, {"format", "acquire"}, j)
                              /\ B[j].op = "format" /\ B[j].fmt = Wired[B[h].dev].fmt
    BY <1>4 DEF Formats
  <2>2. QED
    BY <1>1, <1>2, <2>1 DEF Formats
<1>5. QED
  BY <1>3, <1>4

LEMMA Joined ==
  ASSUME NEW c, NEW A, NEW B, Sound(c, A), Sound(c, B)
  PROVE  Sound(c, A \o B)
<1>0. A \in Seq(Ops) /\ B \in Seq(Ops) /\ SelfContained(c, A) /\ SelfContained(c, B)
  BY DEF Sound
<1> DEFINE C == A \o B
<1>1. /\ C \in Seq(Ops) /\ Len(C) = Len(A) + Len(B)
      /\ \A e \in 1 .. Len(C) : C[e] = IF e <= Len(A) THEN A[e] ELSE B[e - Len(A)]
  BY <1>0, ConcatProperties
<1>2. Len(A) \in Nat /\ Len(B) \in Nat /\ DOMAIN A = 1 .. Len(A) /\ DOMAIN B = 1 .. Len(B)
      /\ DOMAIN C = 1 .. Len(C)
  BY <1>0, <1>1, LenProperties
<1> HIDE DEF C
<1>3. ASSUME NEW k \in DOMAIN C, C[k].op = "write", ~Excepted(c, C[k].dev)
      PROVE  Selects(C, k) /\ (c = "initialize" \/ Formats(C, k))
  <2>1. CASE k <= Len(A)
    <3>1. k \in DOMAIN A /\ \A e \in 1 .. k : e + 0 \in DOMAIN C /\ C[e + 0] = A[e]
      BY <1>1, <1>2, <2>1
    <3>2. (Selects(A, k) => Selects(C, k + 0)) /\ (Formats(A, k) => Formats(C, k + 0))
      BY <1>0, <1>1, <3>1, Shifted
    <3>3. k + 0 = k /\ A[k] = C[k]
      BY <1>1, <1>2, <2>1
    <3>4. QED
      BY <1>0, <1>3, <3>1, <3>2, <3>3 DEF SelfContained
  <2>2. CASE k > Len(A)
    <3> DEFINE h == k - Len(A)
               n == Len(A)
    <3>1. n \in Nat /\ h \in DOMAIN B /\ \A e \in 1 .. h : e + n \in DOMAIN C /\ C[e + n] = B[e]
      <4>1. Len(C) = n + Len(B) /\ n \in Nat /\ h \in 1 .. Len(B)
        BY <1>1, <1>2, <2>2
      <4>2. ASSUME NEW e \in 1 .. h PROVE e + n \in DOMAIN C /\ C[e + n] = B[e]
        <5>1. e + n \in 1 .. Len(C) /\ ~(e + n <= Len(A)) /\ (e + n) - Len(A) = e
          BY <1>2, <4>1
        <5>2. QED
          BY <1>1, <1>2, <5>1
      <4>3. QED
        BY <1>2, <4>1, <4>2
    <3>2. (Selects(B, h) => Selects(C, h + n)) /\ (Formats(B, h) => Formats(C, h + n))
      <4> HIDE DEF n, h
      <4>1. QED
        BY <1>0, <1>1, <3>1, Shifted
    <3>3. h + n = k /\ B[h] = C[k]
      <4>1. C[k] = B[k - Len(A)]
        BY <1>1, <1>2, <2>2
      <4>2. QED
        BY <1>2, <4>1
    <3>4. QED
      BY <1>0, <1>3, <3>1, <3>2, <3>3 DEF SelfContained
  <2>3. QED
    BY <1>2, <2>1, <2>2
<1>4. SelfContained(c, C)
  BY <1>3 DEF SelfContained
<1>5. Plain(C)
  <2>1. ASSUME NEW k \in DOMAIN C PROVE C[k].op # "dec" /\ C[k] # Write("AD5664")
    <3>1. (C[k] = A[k] /\ k \in DOMAIN A) \/ (C[k] = B[k - Len(A)] /\ k - Len(A) \in DOMAIN B)
      <4>1. CASE k <= Len(A)
        BY <1>1, <1>2, <4>1
      <4>2. CASE k > Len(A)
        BY <1>1, <1>2, <4>2
      <4>3. QED
        BY <1>2, <4>1, <4>2
    <3>2. QED
      BY <3>1 DEF Plain, Sound
  <2>2. QED
    BY <2>1 DEF Plain
<1>6. QED
  BY <1>1, <1>4, <1>5 DEF Sound, C

\* One more operation.
LEMMA OneMore ==
  ASSUME NEW S, NEW s \in Seq(S), NEW x \in S
  PROVE  /\ s \o <<x>> \in Seq(S) /\ Len(s \o <<x>>) = Len(s) + 1
         /\ (s \o <<x>>)[Len(s) + 1] = x
         /\ \A e \in 1 .. Len(s) : (s \o <<x>>)[e] = s[e]
<1>1. <<x>> \in Seq(S) /\ Len(<<x>>) = 1 /\ <<x>>[1] = x /\ Len(s) \in Nat
  OBVIOUS
<1>2. /\ s \o <<x>> \in Seq(S)
      /\ Len(s \o <<x>>) = Len(s) + 1
      /\ \A e \in 1 .. Len(s) + 1 : (s \o <<x>>)[e] = IF e <= Len(s) THEN s[e] ELSE <<x>>[e - Len(s)]
  BY <1>1, ConcatProperties
<1>3. QED
  BY <1>1, <1>2

LEMMA TwoOf ==
  ASSUME NEW S, NEW a \in S, NEW b \in S
  PROVE  <<a>> \o <<b>> = <<a, b>>
<1>1. <<a>> \in Seq(S) /\ Len(<<a>>) = 1 /\ <<a>>[1] = a
  OBVIOUS
<1>2. <<a, b>> \in Seq(S) /\ Len(<<a, b>>) = 2 /\ <<a, b>>[1] = a /\ <<a, b>>[2] = b
  OBVIOUS
<1>3. /\ <<a>> \o <<b>> \in Seq(S) /\ Len(<<a>> \o <<b>>) = 2
      /\ (<<a>> \o <<b>>)[2] = b /\ (<<a>> \o <<b>>)[1] = a
  BY <1>1, OneMore
<1>4. \A e \in 1 .. 2 : (<<a>> \o <<b>>)[e] = <<a, b>>[e]
  BY <1>2, <1>3
<1>5. QED
  BY <1>2, <1>3, <1>4, SeqEqual

LEMMA ThreeOf ==
  ASSUME NEW S, NEW a \in S, NEW b \in S, NEW c \in S
  PROVE  <<a>> \o <<b>> \o <<c>> = <<a, b, c>>
<1>1. <<a, b>> \in Seq(S) /\ Len(<<a, b>>) = 2 /\ <<a, b>>[1] = a /\ <<a, b>>[2] = b
  OBVIOUS
<1>2. /\ <<a, b, c>> \in Seq(S) /\ Len(<<a, b, c>>) = 3 /\ <<a, b, c>>[1] = a
      /\ <<a, b, c>>[2] = b /\ <<a, b, c>>[3] = c
  OBVIOUS
<1>3. <<a>> \o <<b>> = <<a, b>>
  BY TwoOf
<1>4. /\ <<a, b>> \o <<c>> \in Seq(S) /\ Len(<<a, b>> \o <<c>>) = 3
      /\ (<<a, b>> \o <<c>>)[3] = c /\ (<<a, b>> \o <<c>>)[1] = a /\ (<<a, b>> \o <<c>>)[2] = b
  BY <1>1, OneMore
<1>5. \A e \in 1 .. 3 : (<<a, b>> \o <<c>>)[e] = <<a, b, c>>[e]
  BY <1>2, <1>4
<1>6. QED
  BY <1>2, <1>3, <1>4, <1>5, SeqEqual

LEMMA NoTransfer ==
  ASSUME NEW c, NEW ops, \A k \in DOMAIN ops : ops[k].op # "write"
  PROVE  SelfContained(c, ops)
BY DEF SelfContained

\* A routine that selects a device and sets its format before it writes to it.
LEMMA SelectFirst ==
  ASSUME NEW c, NEW ops \in Seq(Ops), NEW d \in DOMAIN Wired, Len(ops) >= 2,
         ops[1].op = "select", ops[1].port % 8 = Wired[d].port,
         ops[2].op = "format", ops[2].fmt = Wired[d].fmt,
         \A k \in 3 .. Len(ops) : ops[k].op = "dec" \/ ops[k] = Write(d)
  PROVE  SelfContained(c, ops)
<1>1. DOMAIN ops = 1 .. Len(ops) /\ Len(ops) \in Nat
  BY LenProperties
<1>2. ASSUME NEW k \in DOMAIN ops, ops[k].op = "write" PROVE Selects(ops, k) /\ Formats(ops, k)
  <2>1. k \in 3 .. Len(ops) /\ ops[k] = Write(d)
    BY <1>1, <1>2
  <2>2. ops[k].dev = d
    BY <2>1 DEF Write
  <2>3. \A m \in 3 .. k - 1 : ops[m].op \in {"dec", "write"}
    BY <1>1, <2>1 DEF Write
  <2>4. LastBefore(ops, k, {"select", "acquire"}, 1)
    BY <1>1, <2>1, <2>3 DEF LastBefore
  <2>5. LastBefore(ops, k, {"format", "acquire"}, 2)
    BY <1>1, <2>1, <2>3 DEF LastBefore
  <2>6. QED
    BY <1>1, <2>1, <2>2, <2>4, <2>5 DEF Selects, Formats
<1>3. QED
  BY <1>2 DEF SelfContained

LEMMA OpsTyped ==
  /\ \A p \in Int : Select(p) \in Ops
  /\ \A f \in Fmts : Format(f) \in Ops
  /\ \A d \in DOMAIN Wired : Write(d) \in Ops /\ Wired[d].port \in 0..7 /\ Wired[d].fmt \in Fmts
  /\ Dec(TRUE) \in Ops /\ Dec(FALSE) \in Ops /\ Acquire \in Ops
<1>1. \A d \in DOMAIN Wired : Wired[d].port \in 0..7
  BY BusAssumption DEF Wired
<1>2. QED
  BY <1>1 DEF Ops, Fmts

LEMMA WiredDevices ==
  /\ DOMAIN Wired = SenderCommands
  /\ Wired["AD9833"] = [port |-> 1, fmt |-> <<8, 1, 1>>]
  /\ Wired["AD8400"] = [port |-> 2, fmt |-> <<8, 0, 0>>]
  /\ Wired["DAC8563"] = [port |-> 3, fmt |-> <<8, 0, 1>>]
BY DEF Wired, SenderCommands

\* The routines of a device.
LEMMA SetFreq == ASSUME NEW c PROVE Sound(c, set_freq)
<1> DEFINE d == "AD9833"
           three == [e \in 1..3 |-> Write(d)]
           head == <<Select(1), Format(<<8, 1, 1>>)>>
<1>1. d \in DOMAIN Wired /\ Wired[d].port = 1 /\ Wired[d].fmt = <<8, 1, 1>>
  BY WiredDevices DEF SenderCommands
<1>2. head \in Seq(Ops) /\ Len(head) = 2 /\ head[1] = Select(1) /\ head[2] = Format(<<8, 1, 1>>)
  BY <1>1, OpsTyped
<1>3. three \in Seq(Ops) /\ Len(three) = 3 /\ \A e \in 1..3 : three[e] = Write(d)
  BY <1>1, OpsTyped
<1>4. set_freq = head \o three
  BY DEF set_freq
<1> HIDE DEF head, three, d
<1>5. /\ set_freq \in Seq(Ops) /\ Len(set_freq) = 5
      /\ \A e \in 1 .. 5 : set_freq[e] = IF e <= 2 THEN head[e] ELSE three[e - 2]
  <2>1. /\ head \o three \in Seq(Ops)
        /\ Len(head \o three) = Len(head) + Len(three)
        /\ \A e \in 1 .. Len(head) + Len(three) :
              (head \o three)[e] = IF e <= Len(head) THEN head[e] ELSE three[e - Len(head)]
    BY <1>2, <1>3, ConcatProperties
  <2>2. QED
    BY <1>2, <1>3, <1>4, <2>1
<1>6. \A k \in 3 .. 5 : set_freq[k] = Write(d)
  BY <1>3, <1>5
<1>7. set_freq[1] = Select(1) /\ set_freq[2] = Format(<<8, 1, 1>>)
  BY <1>2, <1>5
<1>8. /\ set_freq[1].op = "select" /\ set_freq[1].port % 8 = Wired[d].port
      /\ set_freq[2].op = "format" /\ set_freq[2].fmt = Wired[d].fmt
  BY <1>1, <1>7 DEF Select, Format
<1>9. SelfContained(c, set_freq)
  <2>1. Len(set_freq) >= 2 /\ \A k \in 3 .. Len(set_freq) : set_freq[k].op = "dec" \/ set_freq[k] = Write(d)
    BY <1>5, <1>6
  <2>2. set_freq \in Seq(Ops) /\ d \in DOMAIN Wired
    BY <1>1, <1>5
  <2>3. QED
    BY <1>8, <2>1, <2>2, SelectFirst
<1>10. \A k \in 1 .. 5 : set_freq[k] \in {Select(1), Format(<<8, 1, 1>>), Write("AD9833")}
  BY <1>6, <1>7 DEF d
<1>11. Plain(set_freq)
  BY <1>5, <1>10, LenProperties DEF Plain, Select, Format, Write
<1>12. QED
  BY <1>5, <1>9, <1>11 DEF Sound

LEMMA SetGain == ASSUME NEW c PROVE Sound(c, set_gain)
<1>1. "AD8400" \in DOMAIN Wired /\ Wired["AD8400"].port = 2 /\ Wired["AD8400"].fmt = <<8, 0, 0>>
  BY WiredDevices DEF SenderCommands
<1>2. /\ set_gain \in Seq(Ops) /\ Len(set_gain) = 3 /\ set_gain[1] = Select(2)
      /\ set_gain[2] = Format(<<8, 0, 0>>) /\ set_gain[3] = Write("AD8400")
  BY <1>1, OpsTyped DEF set_gain
<1>3. Plain(set_gain)
  BY <1>2, LenProperties DEF Plain, Select, Format, Write
<1>4. SelfContained(c, set_gain)
  <2>1. /\ Len(set_gain) >= 2
        /\ set_gain[1].op = "select" /\ set_gain[1].port % 8 = Wired["AD8400"].port
        /\ set_gain[2].op = "format" /\ set_gain[2].fmt = Wired["AD8400"].fmt
    BY <1>1, <1>2 DEF Select, Format
  <2>2. \A k \in 3 .. Len(set_gain) : set_gain[k].op = "dec" \/ set_gain[k] = Write("AD8400")
    BY <1>2
  <2>3. QED
    BY <1>1, <1>2, <2>1, <2>2, SelectFirst, Zenon
<1>5. QED
  BY <1>2, <1>3, <1>4 DEF Sound

LEMMA SetOnCap ==
  ASSUME NEW c, NEW ch \in {1, 2}
  PROVE  Sound(c, set_on_cap(ch))
<1> DEFINE ops == <<Select(3), Format(<<8, 0, 1>>), Write("DAC8563")>>
<1>1. "DAC8563" \in DOMAIN Wired /\ Wired["DAC8563"].port = 3 /\ Wired["DAC8563"].fmt = <<8, 0, 1>>
  BY WiredDevices DEF SenderCommands
<1>2. set_on_cap(ch) = ops
  <2>1. set_on_cap(ch) = <<Select(3)>> \o <<Format(<<8, 0, 1>>)>> \o <<Write("DAC8563")>>
    BY DEF set_on_cap, setSpiProps, writeAB
  <2>2. Select(3) \in Ops /\ Format(<<8, 0, 1>>) \in Ops /\ Write("DAC8563") \in Ops
    BY <1>1, OpsTyped
  <2>3. QED
    BY <2>1, <2>2, ThreeOf
<1>3. /\ ops \in Seq(Ops) /\ Len(ops) = 3 /\ ops[1] = Select(3)
      /\ ops[2] = Format(<<8, 0, 1>>) /\ ops[3] = Write("DAC8563")
  BY <1>1, OpsTyped
<1> HIDE DEF ops
<1>4. SelfContained(c, ops)
  <2>1. /\ Len(ops) >= 2
        /\ ops[1].op = "select" /\ ops[1].port % 8 = Wired["DAC8563"].port
        /\ ops[2].op = "format" /\ ops[2].fmt = Wired["DAC8563"].fmt
    BY <1>1, <1>3 DEF Select, Format
  <2>2. \A k \in 3 .. Len(ops) : ops[k].op = "dec" \/ ops[k] = Write("DAC8563")
    BY <1>3
  <2>3. QED
    BY <1>1, <1>3, <2>1, <2>2, SelectFirst, Zenon
<1>5. Plain(ops)
  BY <1>3, LenProperties DEF Plain, Select, Format, Write
<1>6. QED
  BY <1>2, <1>3, <1>4, <1>5 DEF Sound

LEMMA Initialize == Sound("initialize", initialize(3))
<1> DEFINE ops == <<Select(3), Write("DAC8563"), Select(7)>>
<1>1. "DAC8563" \in DOMAIN Wired /\ Wired["DAC8563"].port = 3
  BY WiredDevices DEF SenderCommands
<1>2. DAC_WR_REG(3) = ops
  <2>1. DAC_WR_REG(3) = <<Select(3)>> \o <<Write("DAC8563")>> \o <<Select(7)>>
    BY DEF DAC_WR_REG, writeAB
  <2>2. Select(3) \in Ops /\ Write("DAC8563") \in Ops /\ Select(7) \in Ops
    BY <1>1, OpsTyped
  <2>3. QED
    BY <2>1, <2>2, ThreeOf
<1>3. /\ ops \in Seq(Ops) /\ Len(ops) = 3 /\ ops[1] = Select(3)
      /\ ops[2] = Write("DAC8563") /\ ops[3] = Select(7)
  BY <1>1, OpsTyped
<1> HIDE DEF ops
<1>4. DOMAIN ops = 1 .. 3
  BY <1>3, LenProperties
<1>5. LastBefore(ops, 2, {"select", "acquire"}, 1)
  BY <1>3 DEF LastBefore, Select
<1>6. Selects(ops, 2)
  BY <1>1, <1>3, <1>4, <1>5 DEF Selects, Select, Write
<1>7. SelfContained("initialize", ops)
  BY <1>3, <1>4, <1>6 DEF SelfContained, Select
<1>8. Plain(ops)
  BY <1>3, LenProperties DEF Plain, Select, Write
<1>9. Sound("initialize", DAC_WR_REG(3))
  BY <1>2, <1>3, <1>7, <1>8 DEF Sound
<1>10. QED
  BY <1>9, Joined DEF initialize

LEMMA SetupSound ==
  ASSUME NEW c, NEW p \in Int, NEW f \in Fmts
  PROVE  Sound(c, Setup([port |-> p, fmt |-> f]))
<1> DEFINE ops == <<Select(p), Format(f)>>
<1>1. Setup([port |-> p, fmt |-> f]) = ops
  BY DEF Setup
<1>2. ops \in Seq(Ops) /\ Len(ops) = 2 /\ ops[1] = Select(p) /\ ops[2] = Format(f)
  BY OpsTyped
<1> HIDE DEF ops
<1>3. \A k \in DOMAIN ops : ops[k].op \notin {"dec", "write"}
  BY <1>2, LenProperties DEF Select, Format
<1>4. Plain(ops)
  BY <1>3 DEF Plain, Write
<1>5. QED
  BY <1>1, <1>2, <1>3, <1>4, NoTransfer DEF Sound

\* The set point writes of the approach are the exception, reads are no transfers
\* of the routine.
LEMMA Exceptions ==
  /\ \A c : Sound(c, <<Acquire>>) /\ Sound(c, <<Acquire, Acquire>>)
  /\ Sound("approach", writeAB)
<1>1. ASSUME NEW c, NEW ops \in {<<Acquire>>, <<Acquire, Acquire>>} PROVE Sound(c, ops)
  <2>1. <<Acquire>> \in Seq(Ops) /\ <<Acquire, Acquire>> \in Seq(Ops)
    BY OpsTyped
  <2>2. \A k \in DOMAIN ops : ops[k] = Acquire
    OBVIOUS
  <2>3. \A k \in DOMAIN ops : ops[k].op = "acquire"
    BY <2>2 DEF Acquire
  <2>4. Plain(ops)
    BY <2>3 DEF Plain, Write
  <2>5. QED
    BY <2>1, <2>3, <2>4, NoTransfer DEF Sound
<1>2. Sound("approach", writeAB)
  <2> DEFINE ops == <<Write("DAC8563")>>
  <2>1. ops \in Seq(Ops)
    BY OpsTyped, WiredDevices DEF SenderCommands
  <2>2. \A k \in DOMAIN ops : ops[k] = Write("DAC8563")
    OBVIOUS
  <2> HIDE DEF ops
  <2>3. \A k \in DOMAIN ops : ops[k].op = "write" /\ ops[k].dev = "DAC8563"
    BY <2>2 DEF Write
  <2>4. SelfContained("approach", ops) /\ Plain(ops)
    BY <2>3 DEF SelfContained, Excepted, Plain, Write
  <2>5. QED
    BY <2>1, <2>4 DEF Sound, writeAB, ops
<1>3. QED
  BY <1>1, <1>2

\* The setup of a sender's own line and its transfer, but for the AD5664.
LEMMA SenderSound ==
  ASSUME NEW c \in SenderCommands \ {"AD5664"}
  PROVE  Sound(c, Setup(Wired[c]) \o Sender(c))
<1>1. c \in DOMAIN Wired /\ Wired[c].port \in 0..7 /\ Wired[c].fmt \in Fmts
  BY WiredDevices, OpsTyped
<1>2. CASE c = "AD7606"
  <2>1. Wired[c] = [port |-> Wired[c].port, fmt |-> Wired[c].fmt]
    BY <1>2 DEF Wired
  <2>2. Sound(c, Setup(Wired[c]))
    BY <1>1, <2>1, SetupSound
  <2>3. Sender(c) = <<Acquire>>
    BY <1>2 DEF Sender
  <2>4. QED
    BY <2>2, <2>3, Exceptions, Joined
<1>3. CASE c # "AD7606"
  <2> DEFINE s == Select(Wired[c].port)
             f == Format(Wired[c].fmt)
             w == Write(c)
             ops == <<s, f>> \o <<w>>
  <2>1. Sender(c) = <<w>>
    BY <1>3 DEF Sender, SenderCommands
  <2>2. Setup(Wired[c]) = <<s, f>>
    BY DEF Setup
  <2>3. s \in Ops /\ f \in Ops /\ w \in Ops
    BY <1>1, OpsTyped
  <2> HIDE DEF s, f, w
  <2>4. <<s, f>> \in Seq(Ops) /\ Len(<<s, f>>) = 2 /\ <<s, f>>[1] = s /\ <<s, f>>[2] = f
    BY <2>3
  <2>5. /\ ops \in Seq(Ops) /\ Len(ops) = 3
        /\ ops[3] = w /\ ops[1] = s /\ ops[2] = f
    BY <2>3, <2>4, OneMore
  <2> HIDE DEF ops
  <2>6. /\ ops[1].op = "select" /\ ops[1].port % 8 = Wired[c].port
        /\ ops[2].op = "format" /\ ops[2].fmt = Wired[c].fmt
    BY <1>1, <2>5 DEF s, f, Select, Format
  <2>7. SelfContained(c, ops)
    <3>1. Len(ops) >= 2 /\ \A k \in 3 .. Len(ops) : ops[k].op = "dec" \/ ops[k] = Write(c)
      BY <2>5 DEF w
    <3>2. QED
      BY <1>1, <2>5, <2>6, <3>1, SelectFirst
  <2>8. Plain(ops)
    <3>1. DOMAIN ops = 1..3
      BY <2>5, LenProperties
    <3>2. w.op = "write" /\ w # Write("AD5664") /\ f.op = "format" /\ s.op = "select"
      BY DEF w, f, s, Write, Format, Select
    <3>3. QED
      BY <2>5, <3>1, <3>2 DEF Plain, Write
  <2>9. QED
    BY <2>1, <2>2, <2>5, <2>7, <2>8 DEF Sound, ops
<1>4. QED
  BY <1>2, <1>3

LEMMA RoutineSound ==
  ASSUME NEW c \in Commands \ {"AD5664"}, NEW line \in Lines(c)
  PROVE  Sound(c, Routine(c, line))
<1>1. CASE c \in SenderCommands
  <2>1. line = Wired[c]
    BY <1>1 DEF Lines
  <2>2. Routine(c, line) = Setup(line) \o Sender(c)
    BY <1>1 DEF Routine, SenderCommands
  <2>3. QED
    BY <1>1, <2>1, <2>2, SenderSound
<1>2. CASE c \notin SenderCommands
  <2>1. line \in [port : AnyPorts, fmt : AnyFormats]
    BY <1>2 DEF Lines
  <2>2. Sound(c, Setup(line))
    <3>1. line = [port |-> line.port, fmt |-> line.fmt] /\ line.port \in Int /\ line.fmt \in Fmts
      BY <2>1, BusAssumption DEF Fmts
    <3>2. QED
      BY <3>1, SetupSound
  <2>3. CASE c = "set_freq"
    BY <2>2, <2>3, SetFreq, Joined DEF Routine
  <2>4. CASE c = "set_gain"
    BY <2>2, <2>4, SetGain, Joined DEF Routine
  <2>5. CASE c = "initialize"
    BY <2>2, <2>5, Initialize, Joined DEF Routine
  <2>6. CASE c = "scan"
    <3>1. Sound(c, set_on_cap(1)) /\ Sound(c, set_on_cap(2)) /\ Sound(c, <<Acquire, Acquire>>)
      BY SetOnCap, Exceptions
    <3>2. Routine(c, line) = set_on_cap(1) \o <<Acquire, Acquire>> \o set_on_cap(1)
                                 \o set_on_cap(2) \o Setup(line)
      BY <2>6 DEF Routine
    <3>3. QED
      BY <2>2, <3>1, <3>2, Joined
  <2>7. CASE c = "sweep"
    BY <2>7, SetFreq, Exceptions, Joined DEF Routine
  <2>8. CASE c = "approach"
    <3>1. Sound(c, writeAB) /\ Sound(c, <<Acquire, Acquire>>)
      BY <2>8, Exceptions
    <3>2. Routine(c, line) = writeAB \o <<Acquire, Acquire>> \o writeAB
                                 \o <<Acquire, Acquire>> \o Setup(line)
      BY <2>8 DEF Routine
    <3>3. QED
      BY <2>2, <3>1, <3>2, Joined
  <2>9. CASE c = "get"
    BY <2>9, Exceptions DEF Routine
  <2>10. QED
    BY <1>2, <2>3, <2>4, <2>5, <2>6, <2>7, <2>8, <2>9 DEF Commands
<1>3. QED
  BY <1>1, <1>2

\* What the next transfers of the routine will find, from the bus as it is.
PortFound(k) ==
    \/ Selects(work, k)
    \/ NoneBefore(work, k, {"select", "acquire"}) /\ port = Wired[work[k].dev].port
FormatFound(k) ==
    \/ Formats(work, k)
    \/ NoneBefore(work, k, {"format", "acquire"}) /\ fmt = Wired[work[k].dev].fmt
WillFind ==
    \A k \in DOMAIN work : work[k].op = "write" /\ ~Excepted(cmd, work[k].dev) =>
        PortFound(k) /\ (cmd = "initialize" \/ FormatFound(k))

\* The eight operations of command 21, and where in them dec is low.
Script == Setup(Wired["AD5664"]) \o Sender("AD5664")
LeftOfScript ==
    /\ Len(work) <= 8
    /\ \A k \in DOMAIN work : work[k] = Script[k + 8 - Len(work)]
    /\ dec = IF Len(work) \in {1, 2, 4, 5} THEN FALSE ELSE TRUE

BusInv ==
    /\ work \in Seq(Ops)
    /\ WillFind
    /\ IF cmd = "AD5664" THEN LeftOfScript ELSE dec = TRUE /\ Plain(work)

LEMMA ScriptIs ==
  /\ Script \in Seq(Ops) /\ Len(Script) = 8
  /\ Script[1] = Select(AD5664Port) /\ Script[2] = Format(AD5664Format)
  /\ Script[3] = Dec(FALSE) /\ Script[4] = Write("AD5664") /\ Script[5] = Dec(TRUE)
  /\ Script[6] = Dec(FALSE) /\ Script[7] = Write("AD5664") /\ Script[8] = Dec(TRUE)
<1> DEFINE s == Select(AD5664Port)
           f == Format(AD5664Format)
           lo == Dec(FALSE)
           w == Write("AD5664")
           hi == Dec(TRUE)
           A == <<s, f>>
           M == <<lo, w, hi>>
<1>1. s \in Ops /\ f \in Ops /\ lo \in Ops /\ w \in Ops /\ hi \in Ops
  <2>1. /\ "AD5664" \in DOMAIN Wired
        /\ Wired["AD5664"].port = AD5664Port /\ Wired["AD5664"].fmt = AD5664Format
    BY DEF Wired
  <2>2. AD5664Format \in Fmts /\ AD5664Port \in Int
    BY <2>1, BusAssumption DEF Fmts
  <2>3. Format(AD5664Format) \in Ops /\ Select(AD5664Port) \in Ops
    BY <2>2, OpsTyped
  <2>4. QED
    BY <2>1, <2>3, OpsTyped
<1>2. Script = A \o (M \o M)
  BY DEF Script, Setup, Wired, Sender, messageOps
<1> HIDE DEF s, f, lo, w, hi
<1>3. A \in Seq(Ops) /\ Len(A) = 2 /\ A[1] = s /\ A[2] = f
  BY <1>1
<1>4. M \in Seq(Ops) /\ Len(M) = 3 /\ M[1] = lo /\ M[2] = w /\ M[3] = hi
  BY <1>1
<1> HIDE DEF A, M
<1> DEFINE N == M \o M
           S == A \o N
<1>5. /\ N \in Seq(Ops) /\ Len(N) = Len(M) + Len(M)
      /\ \A e \in 1 .. Len(M) + Len(M) : N[e] = IF e <= Len(M) THEN M[e] ELSE M[e - Len(M)]
  BY <1>4, ConcatProperties
<1>6. /\ Len(N) = 6 /\ N[1] = lo /\ N[2] = w /\ N[3] = hi
      /\ N[4] = lo /\ N[5] = w /\ N[6] = hi
  BY <1>4, <1>5
<1> HIDE DEF N
<1>7. /\ S \in Seq(Ops) /\ Len(S) = Len(A) + Len(N)
      /\ \A e \in 1 .. Len(A) + Len(N) : S[e] = IF e <= Len(A) THEN A[e] ELSE N[e - Len(A)]
  <2>1. A \in Seq(Ops) /\ N \in Seq(Ops)
    BY <1>3, <1>5
  <2>2. QED
    BY <2>1, ConcatProperties
<1>9. Script = S
  BY <1>2 DEF N
<1> HIDE DEF S
<1>8. /\ Len(S) = 8 /\ S[1] = s /\ S[2] = f /\ S[3] = lo /\ S[4] = w /\ S[5] = hi
      /\ S[6] = lo /\ S[7] = w /\ S[8] = hi
  <2>1. Len(S) = 8 /\ \A e \in 1 .. 8 : S[e] = IF e <= 2 THEN A[e] ELSE N[e - 2]
    BY <1>3, <1>6, <1>7
  <2>2. S[1] = A[1] /\ S[2] = A[2]
    BY <2>1
  <2>3. S[3] = N[1] /\ S[4] = N[2] /\ S[5] = N[3] /\ S[6] = N[4] /\ S[7] = N[5] /\ S[8] = N[6]
    BY <2>1
  <2>4. QED
    BY <1>3, <1>6, <2>1, <2>2, <2>3
<1>10. QED
  BY <1>7, <1>8, <1>9 DEF s, f, lo, w, hi

LEMMA ScriptSound == SelfContained("AD5664", Script)
<1>1. "AD5664" \in DOMAIN Wired /\ AD5664Port % 8 = Wired["AD5664"].port
      /\ AD5664Format = Wired["AD5664"].fmt
  BY BusAssumption DEF Wired
<1>2. \A k \in 3 .. Len(Script) : Script[k].op = "dec" \/ Script[k] = Write("AD5664")
  BY ScriptIs DEF Dec
<1>3. /\ Script[1].op = "select" /\ Script[1].port % 8 = Wired["AD5664"].port
      /\ Script[2].op = "format" /\ Script[2].fmt = Wired["AD5664"].fmt
  BY <1>1, ScriptIs DEF Select, Format
<1>4. Script \in Seq(Ops) /\ Len(Script) >= 2
  BY ScriptIs
<1>5. QED
  BY <1>1, <1>2, <1>3, <1>4, SelectFirst

LEMMA BeginInv == BusInv /\ Begin => BusInv'
<1> SUFFICES ASSUME BusInv, Begin PROVE BusInv'
  OBVIOUS
<1>0. PICK c \in Commands : \E line \in Lines(c) : cmd' = c /\ work' = Routine(c, line)
  BY DEF Begin
<1>1. PICK line \in Lines(c) : cmd' = c /\ work' = Routine(c, line)
  BY <1>0
<1>2. work = <<>> /\ dec' = dec
  BY DEF Begin
<1>3. dec = TRUE
  <2>1. Len(work) = 0 /\ Len(work) \notin {1, 2, 4, 5}
    BY <1>2
  <2>2. QED
    BY <2>1, Zenon DEF BusInv, LeftOfScript
<1>4. ASSUME SelfContained(c, work') PROVE WillFind'
  BY <1>1, <1>4 DEF WillFind, SelfContained, PortFound, FormatFound
<1>5. CASE c = "AD5664"
  <2>1. line = Wired[c] /\ Routine(c, line) = Script
    BY <1>5 DEF Lines, SenderCommands, Routine, Script
  <2>2. LeftOfScript'
    <3>1. work' = Script /\ Len(Script) = 8 /\ DOMAIN Script = 1 .. 8
      BY <1>1, <2>1, ScriptIs, LenProperties
    <3>2. \A k \in DOMAIN Script : Script[k] = Script[k + 8 - Len(Script)]
      BY <3>1
    <3>3. QED
      BY <1>2, <1>3, <3>1, <3>2 DEF LeftOfScript
  <2>3. QED
    BY <1>1, <1>4, <1>5, <2>1, <2>2, ScriptIs, ScriptSound DEF BusInv
<1>6. CASE c # "AD5664"
  <2>1. Sound(c, work')
    BY <1>1, <1>6, RoutineSound
  <2>2. QED
    BY <1>1, <1>2, <1>3, <1>4, <1>6, <2>1 DEF Sound, BusInv
<1>7. QED
  BY <1>5, <1>6

\* The first operation is done.
LEMMA Advance ==
  ASSUME NEW W \in Seq(Ops), W # <<>>
  PROVE  /\ Tail(W) \in Seq(Ops) /\ Len(Tail(W)) = Len(W) - 1
         /\ 1 \in DOMAIN W /\ Head(W) = W[1] /\ W[1] \in Ops
         /\ \A k \in DOMAIN Tail(W) : k \in Nat /\ k > 0 /\ k + 1 \in DOMAIN W /\ Tail(W)[k] = W[k + 1]
<1>1. Len(W) \in Nat /\ Len(W) > 0 /\ DOMAIN W = 1 .. Len(W)
  BY EmptySeq, LenProperties
<1>2. /\ Tail(W) \in Seq(Ops) /\ Len(Tail(W)) = Len(W) - 1
      /\ \A e \in 1 .. Len(Tail(W)) : Tail(W)[e] = W[e + 1]
  BY HeadTailProperties
<1>3. DOMAIN Tail(W) = 1 .. Len(W) - 1
  BY <1>2, LenProperties
<1>4. Head(W) = W[1] /\ W[1] \in Ops
  BY <1>1, HeadTailProperties
<1>5. QED
  BY <1>1, <1>2, <1>3, <1>4

LEMMA AdvanceFinds ==
  ASSUME NEW W \in Seq(Ops), W # <<>>, NEW k \in DOMAIN Tail(W), NEW S
  PROVE  /\ NoneBefore(W, k + 1, S) => W[1].op \notin S /\ NoneBefore(Tail(W), k, S)
         /\ LastBefore(W, k + 1, S, 1) => NoneBefore(Tail(W), k, S)
<1> DEFINE T == Tail(W)
<1>1. /\ k \in Nat /\ k > 0 /\ DOMAIN T = 1 .. Len(T) /\ Len(T) \in Nat
      /\ \A m \in DOMAIN T : T[m] = W[m + 1]
  BY Advance, LenProperties
<1> HIDE DEF T
<1>2. \A m \in 1 .. k : m \in DOMAIN T /\ T[m] = W[m + 1]
  BY <1>1 DEF T
<1>3. ASSUME NoneBefore(W, k + 1, S) PROVE W[1].op \notin S /\ NoneBefore(T, k, S)
  <2>1. \A m \in 1 .. k : W[m].op \notin S
    BY <1>1, <1>3 DEF NoneBefore
  <2>2. ASSUME NEW m \in 1 .. k - 1 PROVE T[m].op \notin S
    BY <1>1, <1>2, <2>1
  <2>3. QED
    BY <1>1, <2>1, <2>2 DEF NoneBefore
<1>4. ASSUME LastBefore(W, k + 1, S, 1) PROVE NoneBefore(T, k, S)
  <2>1. \A m \in 2 .. k : W[m].op \notin S
    BY <1>1, <1>4 DEF LastBefore
  <2>2. ASSUME NEW m \in 1 .. k - 1 PROVE T[m].op \notin S
    BY <1>1, <1>2, <2>1
  <2>3. QED
    BY <2>2 DEF NoneBefore
<1>5. QED
  BY <1>3, <1>4 DEF T

LEMMA AdvanceLast ==
  ASSUME NEW W \in Seq(Ops), W # <<>>, NEW k \in DOMAIN Tail(W), NEW S,
         NEW j \in Nat, j # 1, LastBefore(W, k + 1, S, j)
  PROVE  LastBefore(Tail(W), k, S, j - 1) /\ j - 1 \in DOMAIN Tail(W) /\ Tail(W)[j - 1] = W[j]
<1> DEFINE T == Tail(W)
<1>1. /\ k \in Nat /\ k > 0 /\ DOMAIN T = 1 .. Len(T) /\ Len(T) \in Nat
      /\ \A m \in DOMAIN T : T[m] = W[m + 1]
  BY Advance, LenProperties
<1> HIDE DEF T
<1>2. \A m \in 1 .. k : m \in DOMAIN T /\ T[m] = W[m + 1]
  BY <1>1 DEF T
<1>3. j \in 2 .. k /\ W[j].op \in S /\ \A m \in j + 1 .. k : W[m].op \notin S
  BY <1>1 DEF LastBefore
<1>4. j - 1 \in 1 .. k - 1 /\ j - 1 \in DOMAIN T /\ T[j - 1] = W[j]
  BY <1>1, <1>2, <1>3
<1>5. ASSUME NEW m \in (j - 1) + 1 .. k - 1 PROVE T[m].op \notin S
  <2>1. m \in 1 .. k /\ m + 1 \in j + 1 .. k
    BY <1>1, <1>3
  <2>2. QED
    BY <1>2, <1>3, <2>1
<1>6. LastBefore(T, k, S, j - 1)
  BY <1>3, <1>4, <1>5 DEF LastBefore
<1>7. QED
  BY <1>4, <1>6 DEF T

\* An operation leaves what the later transfers will find, if the bus is what a
\* selection or a format has made of it and otherwise what it was.
LEMMA WillFindStep ==
  ASSUME BusInv, work # <<>>, work' = Tail(work), cmd' = cmd,
         Head(work).op \in {"select", "acquire"} \/ port' = port,
         Head(work).op = "select" => port' = Head(work).port % 8,
         Head(work).op \in {"format", "acquire"} \/ fmt' = fmt,
         Head(work).op = "format" => fmt' = Head(work).fmt
  PROVE  WillFind'
<1>1. work \in Seq(Ops) /\ Head(work) = work[1]
  BY Advance DEF BusInv
<1>2. ASSUME NEW k \in DOMAIN (work'), work'[k].op = "write", ~Excepted(cmd, work'[k].dev)
      PROVE  PortFound(k)' /\ (cmd = "initialize" \/ FormatFound(k)')
  <2>1. k \in Nat /\ k + 1 \in DOMAIN work /\ work'[k] = work[k + 1]
    BY <1>1, <1>2, Advance
  <2>2. PortFound(k + 1) /\ (cmd = "initialize" \/ FormatFound(k + 1))
    BY <1>2, <2>1 DEF BusInv, WillFind
  <2>3. ASSUME NEW j \in DOMAIN work PROVE j \in Nat
    BY <1>1, LenProperties
  <2>4. PortFound(k)'
    <3> DEFINE S == {"select", "acquire"}
    <3>1. CASE Selects(work, k + 1)
      <4>1. PICK j \in DOMAIN work : /\ LastBefore(work, k + 1, S, j)
                                     /\ work[j].op = "select" /\ work[j].port % 8 = Wired[work[k + 1].dev].port
        BY <3>1 DEF Selects
      <4>2. CASE j = 1
        <5>1. NoneBefore(work', k, S)
          BY <1>1, <1>2, <4>1, <4>2, AdvanceFinds
        <5>2. port' = Wired[work'[k].dev].port
          BY <1>1, <2>1, <4>1, <4>2
        <5>3. QED
          BY <5>1, <5>2 DEF PortFound
      <4>3. CASE j # 1
        <5>1. LastBefore(work', k, S, j - 1) /\ j - 1 \in DOMAIN work' /\ work'[j - 1] = work[j]
          <6>1. j \in Nat /\ j # 1 /\ LastBefore(work, k + 1, S, j) /\ k \in DOMAIN Tail(work)
            BY <1>2, <2>3, <4>1, <4>3, Zenon
          <6> HIDE DEF S
          <6>2. /\ LastBefore(Tail(work), k, S, j - 1) /\ j - 1 \in DOMAIN Tail(work)
                /\ Tail(work)[j - 1] = work[j]
            BY <1>1, <6>1, AdvanceLast, Zenon
          <6>3. QED
            BY <6>2
        <5>2. Selects(work', k)
          BY <2>1, <4>1, <5>1 DEF Selects
        <5>3. QED
          BY <5>2 DEF PortFound
      <4>4. QED
        BY <4>2, <4>3
    <3>2. CASE NoneBefore(work, k + 1, S) /\ port = Wired[work[k + 1].dev].port
      <4>1. work[1].op \notin S /\ NoneBefore(work', k, S)
        BY <1>1, <1>2, <3>2, AdvanceFinds
      <4>2. QED
        BY <1>1, <2>1, <3>2, <4>1 DEF PortFound
    <3>3. QED
      BY <2>2, <3>1, <3>2 DEF PortFound
  <2>5. FormatFound(k + 1) => FormatFound(k)'
    <3> DEFINE S == {"format", "acquire"}
    <3>1. CASE Formats(work, k + 1)
      <4>1. PICK j \in DOMAIN work : /\ LastBefore(work, k + 1, S, j)
                                     /\ work[j].op = "format" /\ work[j].fmt = Wired[work[k + 1].dev].fmt
        BY <3>1 DEF Formats
      <4>2. CASE j = 1
        <5>1. NoneBefore(work', k, S)
          BY <1>1, <1>2, <4>1, <4>2, AdvanceFinds
        <5>2. fmt' = Wired[work'[k].dev].fmt
          BY <1>1, <2>1, <4>1, <4>2
        <5>3. QED
          BY <5>1, <5>2 DEF FormatFound
      <4>3. CASE j # 1
        <5>1. LastBefore(work', k, S, j - 1) /\ j - 1 \in DOMAIN work' /\ work'[j - 1] = work[j]
          <6>1. j \in Nat /\ j # 1 /\ LastBefore(work, k + 1, S, j) /\ k \in DOMAIN Tail(work)
            BY <1>2, <2>3, <4>1, <4>3, Zenon
          <6> HIDE DEF S
          <6>2. /\ LastBefore(Tail(work), k, S, j - 1) /\ j - 1 \in DOMAIN Tail(work)
                /\ Tail(work)[j - 1] = work[j]
            BY <1>1, <6>1, AdvanceLast, Zenon
          <6>3. QED
            BY <6>2
        <5>2. Formats(work', k)
          BY <2>1, <4>1, <5>1 DEF Formats
        <5>3. QED
          BY <5>2 DEF FormatFound
      <4>4. QED
        BY <4>2, <4>3
    <3>2. CASE NoneBefore(work, k + 1, S) /\ fmt = Wired[work[k + 1].dev].fmt
      <4>1. work[1].op \notin S /\ NoneBefore(work', k, S)
        BY <1>1, <1>2, <3>2, AdvanceFinds
      <4>2. QED
        BY <1>1, <2>1, <3>2, <4>1 DEF FormatFound
    <3>3. QED
      BY <3>1, <3>2 DEF FormatFound
  <2>6. QED
    BY <2>2, <2>4, <2>5
<1>3. QED
  BY <1>2 DEF WillFind

\* With n operations left of the eight the next one is the (9 - n)-th.
LEMMA FromTheEnd ==
  ASSUME NEW n \in 1 .. 8
  PROVE  /\ 9 - n \in 1 .. 8
         /\ 9 - n \in {1, 2, 4, 7} => n \in {8, 7, 5, 2}
         /\ 9 - n \in {4, 7} => n \in {5, 2}
         /\ 9 - n \in {3, 5, 6, 8} => n \in {6, 4, 3, 1}
         /\ 9 - n \in {3, 6} => n \in {6, 3}
         /\ 9 - n \in {5, 8} => n \in {4, 1}
         /\ n \in {8, 7, 5, 2} =>
               (IF n - 1 \in {1, 2, 4, 5} THEN FALSE ELSE TRUE)
                   = (IF n \in {1, 2, 4, 5} THEN FALSE ELSE TRUE)
OBVIOUS

LEMMA SomeOfEight ==
  ASSUME NEW n \in Int, n >= 1, n <= 8
  PROVE  n \in 1 .. 8
OBVIOUS

\* The next operation of command 21.
Moves == work # <<>> /\ work' = Tail(work)

LEMMA ScriptStep ==
  ASSUME BusInv, cmd = "AD5664", Moves
  PROVE  \E n \in 1 .. 8 : /\ Head(work) = Script[9 - n]
                           /\ dec = IF n \in {1, 2, 4, 5} THEN FALSE ELSE TRUE
                           /\ dec' = (IF n - 1 \in {1, 2, 4, 5} THEN FALSE ELSE TRUE) => LeftOfScript'
<1>1. /\ work \in Seq(Ops) /\ Len(work) <= 8
      /\ dec = IF Len(work) \in {1, 2, 4, 5} THEN FALSE ELSE TRUE
      /\ \A k \in DOMAIN work : work[k] = Script[k + 8 - Len(work)]
  BY DEF BusInv, LeftOfScript
<1>2. /\ Len(work') = Len(work) - 1 /\ 1 \in DOMAIN work /\ Head(work) = work[1]
      /\ \A k \in DOMAIN work' : k \in Nat /\ k + 1 \in DOMAIN work /\ work'[k] = work[k + 1]
  BY <1>1, Advance DEF Moves
<1>3. Len(work) \in Int /\ Len(work) >= 1
  <2>1. DOMAIN work = 1 .. Len(work) /\ Len(work) \in Nat
    BY <1>1, LenProperties
  <2>2. 1 \in 1 .. Len(work)
    BY <1>2, <2>1
  <2>3. QED
    BY <2>1, <2>2
<1>4. PICK n \in 1 .. 8 : n = Len(work)
  BY <1>1, <1>3, SomeOfEight, Zenon
<1>5. Len(work') = n - 1 /\ \A k \in DOMAIN work : work[k] = Script[k + 8 - n]
  BY <1>1, <1>2, <1>4, Zenon
<1>6. Head(work) = Script[9 - n]
  <2>1. Head(work) = Script[1 + 8 - n]
    BY <1>2, <1>5, Zenon
  <2>2. 1 + 8 - n = 9 - n
    OBVIOUS
  <2>3. QED
    BY <2>1, <2>2
<1>7. ASSUME NEW k \in DOMAIN (work') PROVE work'[k] = Script[k + 8 - Len(work')]
  <2>1. k \in Nat /\ work'[k] = Script[(k + 1) + 8 - n]
    BY <1>2, <1>5, Zenon
  <2>2. (k + 1) + 8 - n = k + 8 - (n - 1)
    BY <2>1
  <2>3. QED
    BY <1>5, <2>1, <2>2, Zenon
<1>8. ASSUME dec' = (IF n - 1 \in {1, 2, 4, 5} THEN FALSE ELSE TRUE) PROVE LeftOfScript'
  <2>1. Len(work') <= 8
    BY <1>1, <1>2, <1>3
  <2>2. dec' = (IF Len(work') \in {1, 2, 4, 5} THEN FALSE ELSE TRUE)
    BY <1>5, <1>8
  <2>3. QED
    BY <1>7, <2>1, <2>2, Zenon DEF LeftOfScript
<1>9. dec = IF n \in {1, 2, 4, 5} THEN FALSE ELSE TRUE
  BY <1>1, <1>4, Zenon
<1>10. QED
  BY <1>6, <1>8, <1>9

\* What the operation is tells where in command 21 it stands.
LEMMA WhereInScript ==
  ASSUME NEW k \in 1 .. 8
  PROVE  /\ Script[k].op \in {"select", "format", "write", "dec"}
         /\ Script[k].op \in {"select", "format"} => k \in {1, 2}
         /\ Script[k].op = "write" => k \in {4, 7} /\ Script[k].dev = "AD5664"
         /\ Script[k].op = "dec" => k \in {3, 5, 6, 8} /\ Script[k].level = IF k \in {5, 8} THEN TRUE ELSE FALSE
<1>1. k \in {1, 2, 3, 4, 5, 6, 7, 8}
  OBVIOUS
<1>2. ASSUME k \in {1, 2} PROVE Script[k].op \in {"select", "format"}
  BY <1>2, ScriptIs DEF Select, Format
<1>3. ASSUME k \in {4, 7} PROVE Script[k].op = "write" /\ Script[k].dev = "AD5664"
  BY <1>3, ScriptIs DEF Write
<1>4. ASSUME k \in {3, 6} PROVE Script[k].op = "dec" /\ Script[k].level = FALSE
  BY <1>4, ScriptIs DEF Dec
<1>5. ASSUME k \in {5, 8} PROVE Script[k].op = "dec" /\ Script[k].level = TRUE
  BY <1>5, ScriptIs DEF Dec
<1>6. QED
  BY <1>1, <1>2, <1>3, <1>4, <1>5

\* Outside command 21 an operation does not touch dec.
LEMMA PlainStep ==
  ASSUME BusInv, cmd # "AD5664", work # <<>>, work' = Tail(work)
  PROVE  Head(work).op # "dec" /\ Head(work) # Write("AD5664") /\ Plain(work)' /\ dec = TRUE
<1>1. work \in Seq(Ops) /\ Plain(work) /\ dec = TRUE
  BY DEF BusInv
<1>2. 1 \in DOMAIN work /\ Head(work) = work[1]
      /\ \A k \in DOMAIN work' : k + 1 \in DOMAIN work /\ work'[k] = work[k + 1]
  BY <1>1, Advance
<1>3. QED
  BY <1>1, <1>2 DEF Plain

LEMMA WrittenTo ==
  ASSUME BusInv, work # <<>>, Head(work).op = "write"
  PROVE  /\ Head(work) = Write(Head(work).dev)
         /\ ~Excepted(cmd, Head(work).dev) =>
               /\ port = Wired[Head(work).dev].port
               /\ cmd = "initialize" \/ fmt = Wired[Head(work).dev].fmt
<1>1. 1 \in DOMAIN work /\ Head(work) = work[1] /\ work[1] \in Ops
  BY Advance DEF BusInv
<1>2. \A S, j : ~LastBefore(work, 1, S, j)
  BY DEF LastBefore
<1>3. ~Selects(work, 1) /\ ~Formats(work, 1)
  BY <1>2 DEF Selects, Formats
<1>4. Head(work) = Write(Head(work).dev)
  BY <1>1 DEF Ops, Write, Select, Format, Dec, Acquire
<1>5. QED
  BY <1>1, <1>3, <1>4 DEF BusInv, WillFind, PortFound, FormatFound

LEMMA BusStep == BusInv /\ TransferReachesDevice /\ [BusNext]_busVars => BusInv' /\ TransferReachesDevice'
<1> SUFFICES ASSUME BusInv, TransferReachesDevice, [BusNext]_busVars
             PROVE  BusInv' /\ TransferReachesDevice'
  OBVIOUS
<1>a. ASSUME xfer' = xfer PROVE TransferReachesDevice'
  BY <1>a DEF TransferReachesDevice
<1>b. ASSUME NEW op, Does(op) PROVE work # <<>> /\ Head(work).op = op /\ work' = Tail(work) /\ cmd' = cmd
  BY <1>b DEF Does
<1>c. ASSUME work # <<>>, work' = Tail(work) PROVE work' \in Seq(Ops)
  BY <1>c, Advance DEF BusInv
<1>1. CASE Begin
  BY <1>1, <1>a, BeginInv DEF Begin
<1>2. ASSUME NEW op \in {"select", "format", "write", "acquire"}, Does(op), dec' = dec, WillFind' PROVE BusInv'
  <2>1. /\ work # <<>> /\ Head(work).op = op /\ work' = Tail(work) /\ cmd' = cmd /\ work' \in Seq(Ops)
    BY <1>2, <1>b, <1>c
  <2>2. CASE cmd = "AD5664"
    <3>1. PICK n \in 1 .. 8 : /\ Head(work) = Script[9 - n]
                              /\ dec = IF n \in {1, 2, 4, 5} THEN FALSE ELSE TRUE
                              /\ dec' = (IF n - 1 \in {1, 2, 4, 5} THEN FALSE ELSE TRUE) => LeftOfScript'
      BY <2>1, <2>2, ScriptStep DEF Moves
    <3>2. 9 - n \in {1, 2, 4, 7}
      <4>1. 9 - n \in 1 .. 8 /\ Script[9 - n].op = op
        BY <2>1, <3>1, FromTheEnd
      <4>2. QED
        BY <1>2, <4>1, WhereInScript
    <3>3. n \in {8, 7, 5, 2}
      BY <3>2, FromTheEnd
    <3>4. LeftOfScript'
      BY <1>2, <3>1, <3>3, FromTheEnd
    <3>5. QED
      BY <1>2, <2>1, <2>2, <3>4 DEF BusInv
  <2>3. CASE cmd # "AD5664"
    BY <1>2, <2>1, <2>3, PlainStep DEF BusInv
  <2>4. QED
    BY <2>2, <2>3
<1>3. CASE ActivePort
  <2>1. Does("select") /\ port' = Head(work).port % 8 /\ fmt' = fmt /\ dec' = dec /\ xfer' = xfer
    BY <1>3 DEF ActivePort
  <2>2. WillFind'
    BY <2>1, <1>b, WillFindStep
  <2>3. QED
    BY <2>1, <2>2, <1>2, <1>a
<1>4. CASE SetProperties
  <2>1. Does("format") /\ fmt' = Head(work).fmt /\ port' = port /\ dec' = dec /\ xfer' = xfer
    BY <1>4 DEF SetProperties
  <2>2. WillFind'
    BY <2>1, <1>b, WillFindStep
  <2>3. QED
    BY <2>1, <2>2, <1>2, <1>a
<1>5. CASE SpiWrite
  <2>1. /\ Does("write") /\ fmt' = fmt /\ port' = port /\ dec' = dec
        /\ xfer' = [dev |-> Head(work).dev, by |-> cmd, port |-> port, fmt |-> fmt, dec |-> dec]
    BY <1>5 DEF SpiWrite
  <2>2. WillFind'
    BY <2>1, <1>b, WillFindStep
  <2>3. /\ work # <<>> /\ Head(work).op = "write" /\ work' = Tail(work)
    BY <2>1, <1>b
  <2>4. dec = (Head(work).dev # "AD5664")
    <3>1. CASE cmd = "AD5664"
      <4>1. PICK n \in 1 .. 8 : /\ Head(work) = Script[9 - n]
                                /\ dec = IF n \in {1, 2, 4, 5} THEN FALSE ELSE TRUE
        BY <2>3, <3>1, ScriptStep DEF Moves
      <4>2. 9 - n \in {4, 7} /\ Head(work).dev = "AD5664"
        <5>1. 9 - n \in 1 .. 8 /\ Script[9 - n].op = "write"
          BY <2>3, <4>1, FromTheEnd
        <5>2. QED
          BY <4>1, <5>1, WhereInScript
      <4>3. n \in {5, 2}
        BY <4>2, FromTheEnd
      <4>4. QED
        BY <4>1, <4>2, <4>3
    <3>2. CASE cmd # "AD5664"
      BY <2>3, <3>2, PlainStep, WrittenTo
    <3>3. QED
      BY <3>1, <3>2
  <2>5. TransferReachesDevice'
    BY <2>1, <2>3, <2>4, WrittenTo DEF TransferReachesDevice, Excepted
  <2>6. QED
    BY <2>1, <2>2, <2>5, <1>2
<1>6. CASE SetDec
  <2>1. Does("dec") /\ dec' = Head(work).level /\ port' = port /\ fmt' = fmt /\ xfer' = xfer
    BY <1>6 DEF SetDec
  <2>2. WillFind'
    BY <2>1, <1>b, WillFindStep
  <2>3. work # <<>> /\ Head(work).op = "dec" /\ work' = Tail(work) /\ cmd' = cmd /\ work' \in Seq(Ops)
    BY <2>1, <1>b, <1>c
  <2>4. cmd = "AD5664"
    BY <2>3, PlainStep
  <2>5. PICK n \in 1 .. 8 : /\ Head(work) = Script[9 - n]
                            /\ dec' = (IF n - 1 \in {1, 2, 4, 5} THEN FALSE ELSE TRUE) => LeftOfScript'
    BY <2>3, <2>4, ScriptStep DEF Moves
  <2>6. 9 - n \in {3, 5, 6, 8} /\ dec' = IF 9 - n \in {5, 8} THEN TRUE ELSE FALSE
    <3>1. 9 - n \in 1 .. 8 /\ Script[9 - n].op = "dec"
      BY <2>3, <2>5, FromTheEnd
    <3>2. QED
      BY <2>1, <2>5, <3>1, WhereInScript
  <2>7. n \in {6, 4, 3, 1} /\ dec' = IF n \in {4, 1} THEN TRUE ELSE FALSE
    BY <2>6
  <2>8. LeftOfScript'
    BY <2>5, <2>7
  <2>9. QED
    BY <2>1, <2>2, <2>3, <2>4, <2>8, <1>a DEF BusInv
<1>7. CASE IsrReads
  <2>1. /\ Does("acquire") /\ port' = 0 /\ fmt' = <<16, 1, 0>> /\ dec' = dec
        /\ xfer' = [dev |-> "AD7606", by |-> cmd, port |-> port', fmt |-> fmt', dec |-> dec]
    BY <1>7 DEF IsrReads
  <2>2. WillFind'
    BY <2>1, <1>b, WillFindStep
  <2>3. /\ work # <<>> /\ Head(work).op = "acquire" /\ work' = Tail(work)
    BY <2>1, <1>b
  <2>4. cmd # "AD5664"
    <3>1. SUFFICES ASSUME cmd = "AD5664" PROVE FALSE
      OBVIOUS
    <3>2. PICK n \in 1 .. 8 : Head(work) = Script[9 - n]
      BY <2>3, <3>1, ScriptStep DEF Moves
    <3>3. 9 - n \in 1 .. 8
      BY FromTheEnd
    <3>4. QED
      BY <2>3, <3>2, <3>3, WhereInScript
  <2>5. dec = TRUE
    BY <2>3, <2>4, PlainStep
  <2>6. Wired["AD7606"] = [port |-> 0, fmt |-> <<16, 1, 0>>]
    BY DEF Wired
  <2>7. TransferReachesDevice'
    <3>1. /\ xfer'.dev = "AD7606" /\ xfer'.port = 0 /\ xfer'.fmt = <<16, 1, 0>>
          /\ xfer'.dec = TRUE
      BY <2>1, <2>5
    <3>2. /\ xfer'.port = Wired[xfer'.dev].port /\ xfer'.fmt = Wired[xfer'.dev].fmt
      BY <2>6, <3>1
    <3>3. QED
      BY <3>1, <3>2 DEF TransferReachesDevice
  <2>8. QED
    BY <2>1, <2>2, <2>7, <1>2
<1>8. CASE IsrIgnored
  <2>1. Does("acquire") /\ fmt' = fmt /\ port' = port /\ dec' = dec /\ xfer' = xfer
    BY <1>8 DEF IsrIgnored
  <2>2. WillFind'
    BY <2>1, <1>b, WillFindStep
  <2>3. QED
    BY <2>1, <2>2, <1>2, <1>a
<1>9. CASE UNCHANGED busVars
  BY <1>9 DEF busVars, BusInv, WillFind, PortFound, FormatFound, LeftOfScript, Plain, TransferReachesDevice
<1>10. QED
  BY <1>1, <1>3, <1>4, <1>5, <1>6, <1>7, <1>8, <1>9 DEF BusNext

(* Every transfer finds its own chip select and format and the level of dec that it
   needs, whatever ran before, with the two exceptions that the property names:
   for every wiring of the AD5664 and whatever the numbers of other lines are
   taken for (main_core.cpp, Decoder, Spi, DAC8563, AD56X4Class, comReceiveISR). *)
THEOREM TransfersReachDevices == BusSpec => []TransferReachesDevice
<1>1. BusInit => BusInv /\ TransferReachesDevice
  <2> SUFFICES ASSUME BusInit PROVE BusInv /\ TransferReachesDevice
    OBVIOUS
  <2>1. work = <<>> /\ cmd = "get" /\ dec = TRUE /\ xfer = NoXfer /\ DOMAIN work = {}
    BY DEF BusInit
  <2>2. QED
    BY <2>1 DEF BusInv, WillFind, Plain, TransferReachesDevice
<1>2. QED
  BY <1>1, BusStep, PTL DEF BusSpec
=============================================================================
