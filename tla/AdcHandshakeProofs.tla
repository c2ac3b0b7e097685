------------------------- MODULE AdcHandshakeProofs -------------------------
(***************************************************************************)
(* Safety of the AD7606 handshake for every set of commands the host may   *)
(* use.                                                                    *)
(***************************************************************************)
EXTENDS AdcHandshake, TLAPS

\* Nothing of an earlier conversion is left: none runs, no edge, no handler.
Quiet == adc = "idle" /\ ~edge /\ isr = "off"

\* The stages of an undisturbed conversion: it runs; its edge is latched; the
\* handler reads; the handler has read.
InFlight ==
    \/ adc = "new" /\ ~edge /\ isr = "off" /\ ~isReadyToRead
    \/ adc = "idle" /\ edge /\ isr = "off" /\ ~isReadyToRead /\ result = "new"
    \/ adc = "idle" /\ ~edge /\ isr = "read" /\ result = "new"
    \/ adc = "idle" /\ ~edge /\ isr = "release" /\ spiBuf = "new"

\* What each place of the main thread may rely on while nothing disturbs it.
Served ==
    /\ pc \notin {"wait", "zWait"} => Quiet
    /\ pc \in {"low", "zLow", "high", "zHigh"} => ~isReadyToRead
    /\ pc \in {"high", "zHigh"} => ~conv
    /\ pc = "wait" => InFlight \/ (Quiet /\ isReadyToRead /\ spiBuf = "new")
    /\ pc = "zWait" => \/ InFlight /\ Z_STATE
                       \/ Quiet /\ ~Z_STATE /\ ad7606Value = "new"
    /\ pc = "got" => spiBuf = "new"
    /\ pc = "zMove" => ad7606Value = "new"
    /\ pc \in {"zRequest", "zLow", "zHigh"} => Z_STATE

IInv ==
    /\ TypeOK
    /\ core1 = "stopAll" => disturbed
    /\ Z_STATE => pc \in {"zRequest", "zLow", "zHigh", "zWait"}
    /\ ~disturbed => Served

\* As long as no movement along Z was stopped: the thread is in that loop only
\* with the flag up, so it never gets out of it; elsewhere
\* AD_7606_IS_READY_TO_READ is down, and the handler awake, only while a request
\* is being served.
ZInv ==
    /\ TypeOK
    /\ ~zStopped =>
          /\ pc \in ZLoop => LID_UNTIL_STOP
          /\ ~isReadyToRead \/ isr # "off"
                => pc \in ZLoop \cup {"low", "high", "wait"}

-----------------------------------------------------------------------------
LEMMA TypeStep == TypeOK /\ [Next]_vars => TypeOK'
<1> SUFFICES ASSUME TypeOK, [Next]_vars
             PROVE  TypeOK'
  OBVIOUS
<1> USE DEF Age, adcVars, samples, thread, allButPc
<1>1. CASE GetValues
  BY <1>1 DEF TypeOK, GetValues, At, Request, Unsettled
<1>2. CASE GetValuesPulse
  <2>1. /\ pc' \in {"high", "wait"} /\ conv' \in BOOLEAN
        /\ adc' \in {"new", adc} /\ result' = result
    BY <1>2, Zenon DEF GetValuesPulse, Pulse, At, convDisable, convEnable
  <2>2. UNCHANGED <<isr, core1, isReadyToRead, Z_STATE, LID_UNTIL_STOP, edge,
                    samples, disturbed, zStopped>>
    BY <1>2, Zenon DEF GetValuesPulse, Pulse
  <2>3. QED
    BY <2>1, <2>2 DEF TypeOK
<1>3. CASE GetValuesReturn \/ Elsewhere \/ LidEnter \/ LidCheckXY \/ LidGotZ
  BY <1>3 DEF TypeOK, GetValuesReturn, Elsewhere, LidEnter, LidCheckXY,
              LidGotZ, At
<1>4. CASE ResetAdc
  <2>1. pc' = "loop" /\ adc' = "idle" /\ edge' \in BOOLEAN
    <3>1. pc' = "loop" /\ adc' = "idle" /\ edge' \in {edge, TRUE}
      BY <1>4, Zenon DEF ResetAdc, At
    <3>2. edge \in BOOLEAN
      BY DEF TypeOK
    <3>3. QED
      BY <3>1, <3>2, Zenon
  <2>2. UNCHANGED <<isr, core1, isReadyToRead, Z_STATE, LID_UNTIL_STOP, conv,
                    result, samples, disturbed, zStopped>>
    BY <1>4, Zenon DEF ResetAdc
  <2>3. QED
    BY <2>1, <2>2 DEF TypeOK
<1>5. CASE LidCheckZ
  BY <1>5 DEF TypeOK, LidCheckZ, At, Unsettled
<1>6. CASE LidRequest
  BY <1>6 DEF TypeOK, LidRequest, At, Request
<1>7. CASE LidPulse
  <2>1. /\ pc' \in {"zHigh", "zWait"} /\ conv' \in BOOLEAN
        /\ adc' \in {"new", adc} /\ result' = result
    BY <1>7, Zenon DEF LidPulse, Pulse, At, convDisable, convEnable
  <2>2. UNCHANGED <<isr, core1, isReadyToRead, Z_STATE, LID_UNTIL_STOP, edge,
                    samples, disturbed, zStopped>>
    BY <1>7, Zenon DEF LidPulse, Pulse
  <2>3. QED
    BY <2>1, <2>2 DEF TypeOK
<1>8. CASE ConversionDone
  BY <1>8 DEF TypeOK, ConversionDone
<1>9. CASE IsrEnter
  <2>1. edge' \in BOOLEAN /\ isr' \in {"off", "read", "release"}
    BY <1>9 DEF IsrEnter
  <2>2. UNCHANGED <<thread, core1, isReadyToRead, LID_UNTIL_STOP, adcVars,
                    samples, disturbed, zStopped>>
    BY <1>9 DEF IsrEnter
  <2>3. QED
    BY <2>1, <2>2 DEF TypeOK
<1>10. CASE IsrRead
  BY <1>10 DEF TypeOK, IsrRead
<1>11. CASE IsrRelease
  <2>1. isReadyToRead' \in BOOLEAN /\ Z_STATE' \in BOOLEAN
    BY <1>11 DEF IsrRelease, TypeOK
  <2>2. ad7606Value' \in Age /\ isr' = "off"
    BY <1>11 DEF IsrRelease, TypeOK
  <2>3. UNCHANGED <<pc, conv, core1, LID_UNTIL_STOP, adcVars, edge, spiBuf,
                    disturbed, zStopped>>
    BY <1>11 DEF IsrRelease
  <2>4. QED
    BY <2>1, <2>2, <2>3 DEF TypeOK
<1>12. CASE ReceiveLidUntilStop
  BY <1>12 DEF TypeOK, ReceiveLidUntilStop
<1>13. CASE ReceiveStopAll
  <2>1. /\ LID_UNTIL_STOP' \in BOOLEAN /\ disturbed' \in BOOLEAN
        /\ zStopped' \in BOOLEAN
    BY <1>13 DEF ReceiveStopAll
  <2>2. UNCHANGED <<thread, isr, isReadyToRead, adcVars, edge, samples>>
    BY <1>13 DEF ReceiveStopAll
  <2>3. core1' = "stopAll"
    BY <1>13 DEF ReceiveStopAll
  <2>4. QED
    BY <2>1, <2>2, <2>3 DEF TypeOK
<1>14. CASE StopAllReady
  BY <1>14 DEF TypeOK, StopAllReady
<1>15. CASE UNCHANGED vars
  BY <1>15 DEF TypeOK, vars
<1>16. QED
  BY <1>1, <1>2, <1>3, <1>4, <1>5, <1>6, <1>7, <1>8, <1>9, <1>10, <1>11,
     <1>12, <1>13, <1>14, <1>15 DEF Next, Core0, Isr, Core1

\* The type invariant of the handshake: every flag keeps its type, and every
\* buffer a sample's age, whatever the host sends and whenever it sends it.
THEOREM TypeCorrect == Spec => []TypeOK
<1>1. Init => TypeOK
  BY DEF Init, TypeOK, Age
<1>2. QED
  BY <1>1, TypeStep, PTL DEF Spec

-----------------------------------------------------------------------------
LEMMA IInvStep == IInv /\ [Next]_vars => IInv'
<1> SUFFICES ASSUME IInv, [Next]_vars
             PROVE  IInv'
  OBVIOUS
<1>t. TypeOK /\ TypeOK'
  BY TypeStep DEF IInv
<1> USE DEF adcVars, samples, thread, allButPc, IInv, Served, Quiet, InFlight
<1>1. CASE GetValues
  BY <1>t, <1>1 DEF TypeOK, GetValues, At, Request, Unsettled
<1>2. CASE GetValuesPulse
  BY <1>t, <1>2 DEF TypeOK, GetValuesPulse, Pulse, At, convDisable, convEnable
<1>3. CASE GetValuesReturn \/ Elsewhere
  BY <1>t, <1>3 DEF GetValuesReturn, Elsewhere, At
<1>4. CASE LidEnter \/ LidCheckXY \/ LidGotZ
  BY <1>t, <1>4 DEF LidEnter, LidCheckXY, LidGotZ, At
<1>5. CASE ResetAdc
  BY <1>t, <1>5 DEF ResetAdc, At
<1>6. CASE LidCheckZ
  BY <1>t, <1>6 DEF TypeOK, LidCheckZ, At, Unsettled
<1>7. CASE LidRequest
  BY <1>t, <1>7 DEF TypeOK, LidRequest, At, Request
<1>8. CASE LidPulse
  BY <1>t, <1>8 DEF TypeOK, LidPulse, Pulse, At, convDisable, convEnable
<1>9. CASE ConversionDone
  BY <1>t, <1>9 DEF TypeOK, ConversionDone
<1>10. CASE IsrEnter
  BY <1>t, <1>10 DEF TypeOK, IsrEnter
<1>11. CASE IsrRead
  BY <1>t, <1>11 DEF TypeOK, IsrRead
<1>12. CASE IsrRelease
  BY <1>t, <1>12 DEF TypeOK, IsrRelease
<1>13. CASE ReceiveLidUntilStop
  BY <1>t, <1>13 DEF TypeOK, ReceiveLidUntilStop
<1>14. CASE ReceiveStopAll
  BY <1>t, <1>14 DEF ReceiveStopAll
<1>15. CASE StopAllReady
  BY <1>t, <1>15 DEF TypeOK, StopAllReady
<1>16. CASE UNCHANGED vars
  BY <1>t, <1>16 DEF TypeOK, vars
<1>17. QED
  BY <1>1, <1>2, <1>3, <1>4, <1>5, <1>6, <1>7, <1>8, <1>9, <1>10, <1>11, <1>12,
     <1>13, <1>14, <1>15, <1>16 DEF Next, Core0, Isr, Core1

LEMMA Inductive == Spec => []IInv
<1>1. Init => IInv
  BY DEF Init, IInv, TypeOK, Age, Served, Quiet
<1>2. QED
  BY <1>1, IInvStep, PTL DEF Spec

\* A sample reaches its consumer from the conversion requested for it, unless
\* stopAll interfered: no other interrupt can end the wait of
\* getValuesFromAdc or of moveLinearDriverUntilStop.
THEOREM SampleIsFresh == Spec => []FreshSample
<1>1. IInv => FreshSample
  BY DEF IInv, TypeOK, Age, Served, FreshSample
<1>2. QED
  BY <1>1, Inductive, PTL

\* Without a stop, comReceiveISR touches the decoder and the SPI bus only
\* while the main thread waits for it.
THEOREM HandlerIsAwaited == Spec => []HandlerOnlyWhileAcquiring
<1>1. IInv => HandlerOnlyWhileAcquiring
  BY DEF IInv, TypeOK, Served, Quiet, HandlerOnlyWhileAcquiring, Acquiring
<1>2. QED
  BY <1>1, Inductive, PTL

-----------------------------------------------------------------------------
LEMMA ZInvStep == ZInv /\ [Next]_vars => ZInv'
<1> SUFFICES ASSUME ZInv, [Next]_vars
             PROVE  ZInv'
  OBVIOUS
<1>1. TypeOK /\ TypeOK'
  BY TypeStep DEF ZInv
<1> USE DEF adcVars, samples, thread, allButPc, ZInv, ZLoop
<1>2. CASE Core0
  <2>1. CASE GetValues
    BY <1>1, <2>1 DEF GetValues, At, Request
  <2>2. CASE GetValuesPulse \/ LidPulse
    BY <1>1, <2>2 DEF GetValuesPulse, LidPulse, Pulse, At
  <2>3. CASE GetValuesReturn \/ Elsewhere
    BY <1>1, <2>3 DEF GetValuesReturn, Elsewhere, At
  <2>4. CASE ResetAdc
    BY <1>1, <2>4 DEF ResetAdc, At
  <2>5. CASE LidEnter \/ LidCheckXY \/ LidGotZ
    BY <1>1, <2>5 DEF LidEnter, LidCheckXY, LidGotZ, At
  <2>6. CASE LidCheckZ \/ LidRequest
    BY <1>1, <2>6 DEF LidCheckZ, LidRequest, Request, At
  <2>7. QED
    BY <1>2, <2>1, <2>2, <2>3, <2>4, <2>5, <2>6 DEF Core0
<1>3. CASE ConversionDone
  BY <1>1, <1>3 DEF ConversionDone
<1>4. CASE Isr
  BY <1>1, <1>4 DEF TypeOK, Isr, IsrEnter, IsrRead, IsrRelease
<1>5. CASE Core1
  BY <1>1, <1>5 DEF TypeOK, Core1, ReceiveLidUntilStop, ReceiveStopAll, StopAllReady
<1>6. CASE UNCHANGED vars
  BY <1>1, <1>6 DEF vars
<1>7. QED
  BY <1>2, <1>3, <1>4, <1>5, <1>6 DEF Next

LEMMA ZInductive == Spec => []ZInv
<1>1. Init => ZInv
  BY DEF Init, ZInv, ZLoop, TypeOK, Age
<1>2. QED
  BY <1>1, ZInvStep, PTL DEF Spec

\* Until a movement along Z is stopped, the handler never takes the bus from a
\* transfer or spiBuf from its reader, whatever else stopAll interrupts.
THEOREM BusIsExclusive == Spec => []BusExclusive
<1>1. ZInv => BusExclusive
  BY DEF ZInv, ZLoop, BusExclusive
<1>2. QED
  BY <1>1, ZInductive, PTL

\* Until a movement along Z is stopped, commands 12 and 6 always find
\* AD_7606_IS_READY_TO_READ set.
THEOREM ReadyWhenPolled == Spec => []ReadyInLoop
<1>1. ZInv => ReadyInLoop
  BY DEF ZInv, ZLoop, ReadyInLoop
<1>2. QED
  BY <1>1, ZInductive, PTL
=============================================================================
