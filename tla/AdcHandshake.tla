---------------------------- MODULE AdcHandshake ----------------------------
(***************************************************************************)
(* How the firmware obtains a sample from the AD7606 converter.            *)
(*                                                                         *)
(* Four actors share a handful of unprotected globals:                     *)
(*   - the main thread of core 0 starts a conversion by pulsing CONVST     *)
(*     (get_result_from_adc) and busy-waits, either for                    *)
(*     AD_7606_IS_READY_TO_READ (getValuesFromAdc) or for Z_STATE          *)
(*     (moveLinearDriverUntilStop);                                        *)
(*   - the converter lowers BUSY when the conversion is over;              *)
(*   - that edge interrupts core 0: comReceiveISR reads eight words over   *)
(*     the SPI bus and releases the waiting thread;                        *)
(*   - core 1 receives commands: 80 sets LID_UNTIL_STOP, 70 runs stopAll,  *)
(*     which clears it and then sets AD_7606_IS_READY_TO_READ.             *)
(* The main thread never runs while the handler does; core 1 and the       *)
(* converter run in parallel with both.                                    *)
(*                                                                         *)
(* Samples are abstracted to their age: "new" if the conversion that made  *)
(* them was started by the main thread's latest request, else "old".       *)
(***************************************************************************)
EXTENDS Naturals

CONSTANT Commands   \* the commands the host may send

ASSUME CommandsAssumption == Commands \subseteq {"LID_UNTIL_STOP", "stopAll"}

VARIABLES
    pc,             \* where the main thread of core 0 is
    isr,            \* where comReceiveISR is; "off" when it is not running
    core1,          \* where core 1 is
    isReadyToRead,  \* AD_7606_IS_READY_TO_READ
    Z_STATE,        \* a Z sample is awaited
    LID_UNTIL_STOP, \* the linear driver is to move until it is stopped
    conv,           \* level of the CONVST line
    adc,            \* age of the conversion in progress, "idle" if none is
    result,         \* age of the sample in the converter's registers
    edge,           \* a falling edge of BUSY is latched and not yet handled
    spiBuf,         \* age of the sample in spiBuf
    ad7606Value,    \* age of the sample in ad7606Value
    disturbed,      \* history: a stop, or the end of an earlier conversion,
                    \* may have interfered with the latest request
    zStopped        \* history: stopAll has come during a movement along Z

thread == <<pc, Z_STATE, conv>>
adcVars == <<adc, result>>
samples == <<spiBuf, ad7606Value>>
allButPc == <<isr, core1, isReadyToRead, Z_STATE, LID_UNTIL_STOP, conv,
              adcVars, edge, samples, disturbed, zStopped>>
vars == <<pc, isr, core1, isReadyToRead, Z_STATE, LID_UNTIL_STOP, conv, adc,
          result, edge, spiBuf, ad7606Value, disturbed, zStopped>>

Age == {"old", "new"}

(* MainCore::loop after its first green(): the conversion that the first
   conv.enable() of setDefaultSettings set off ended long ago, and its
   interrupt was ignored. *)
Init ==
    /\ pc = "loop" /\ isr = "off" /\ core1 = "getline"
    /\ isReadyToRead = TRUE /\ Z_STATE = FALSE /\ LID_UNTIL_STOP = FALSE
    /\ conv = TRUE /\ adc = "idle" /\ result = "old" /\ edge = FALSE
    /\ spiBuf = "old" /\ ad7606Value = "old" /\ disturbed = FALSE
    /\ zStopped = FALSE

-----------------------------------------------------------------------------
(* The main thread of core 0 *)

\* The interrupt handler preempts the thread.
At(from, to) == isr = "off" /\ pc = from /\ pc' = to

\* The thread is in the while (LID_UNTIL_STOP) of axis Z.
ZLoop == {"zCheck", "zRequest", "zLow", "zHigh", "zWait", "zMove"}

\* An earlier conversion is not yet over and done with, or stopAll is running.
Unsettled == adc # "idle" \/ edge \/ core1 = "stopAll"

\* Mutant: AD_7606_IS_READY_TO_READ is not cleared.
RequestNotCleared ==
    /\ UNCHANGED isReadyToRead
    /\ adc' = IF adc = "idle" THEN "idle" ELSE "old"
    /\ result' = "old" /\ spiBuf' = "old" /\ ad7606Value' = "old"

(* The first statement of get_result_from_adc. Every sample taken so far
   is old from here on, and so is a conversion still in progress. *)
Request ==
    /\ isReadyToRead' = FALSE
    /\ adc' = IF adc = "idle" THEN "idle" ELSE "old"
    /\ result' = "old" /\ spiBuf' = "old" /\ ad7606Value' = "old"

\* Mutant: CONVST is never lowered.
convDisableMissing == UNCHANGED <<conv, adcVars>>

\* conv.disable()
convDisable ==
    /\ conv' = FALSE
    /\ UNCHANGED adcVars

\* conv.enable(): a rising edge of CONVST starts a conversion unless one is
\* in progress.
convEnable ==
    /\ conv' = TRUE
    /\ adc' = IF ~conv /\ adc = "idle" THEN "new" ELSE adc
    /\ UNCHANGED result

\* getValuesFromAdc, called by a scan, a sweep, an approach or commands 12, 24
GetValues ==
    /\ At("loop", "low")
    /\ Request
    /\ disturbed' = Unsettled
    /\ UNCHANGED <<isr, core1, Z_STATE, LID_UNTIL_STOP, conv, edge, zStopped>>

Pulse(line, from, to) ==
    /\ At(from, to)
    /\ line
    /\ UNCHANGED <<isr, core1, isReadyToRead, Z_STATE, LID_UNTIL_STOP, edge,
                   samples, disturbed, zStopped>>

GetValuesPulse ==
    \/ Pulse(convDisable, "low", "high")
    \/ Pulse(convEnable, "high", "wait")

\* Mutant: the flag is not waited for.
GetValuesReturnNoWait ==
    /\ At("wait", "got")
    /\ UNCHANGED allButPc

\* while (!AD_7606_IS_READY_TO_READ) has ended; the caller has spiBuf.
GetValuesReturn ==
    /\ At("wait", "got")
    /\ isReadyToRead
    /\ UNCHANGED allButPc

\* Steps of the thread that leave all of this state alone: using spiBuf, a
\* transfer to another SPI device, a move of the linear driver.
Elsewhere ==
    /\ \/ At("got", "loop")
       \/ At("loop", "spi")   \/ At("spi", "loop")
       \/ At("zMove", "zCheck")
       \/ At("xyMove", "xyCheck")
    /\ UNCHANGED allButPc

\* moveLinearDriverUntilStop is entered for axis X or Y (90, 95), or Z (99).
LidEnter ==
    /\ LID_UNTIL_STOP
    /\ At("loop", "xyCheck") \/ At("loop", "zCheck")
    /\ UNCHANGED allButPc

\* while (LID_UNTIL_STOP), in the X and Y branch
LidCheckXY ==
    /\ At("xyCheck", IF LID_UNTIL_STOP THEN "xyMove" ELSE "loop")
    /\ UNCHANGED allButPc

\* while (LID_UNTIL_STOP), in the Z branch, and Z_STATE = true
LidCheckZ ==
    /\ At("zCheck", IF LID_UNTIL_STOP THEN "zRequest" ELSE "loop")
    /\ Z_STATE' = (LID_UNTIL_STOP \/ Z_STATE)
    /\ disturbed' = IF LID_UNTIL_STOP THEN Unsettled ELSE disturbed
    /\ UNCHANGED <<isr, core1, isReadyToRead, LID_UNTIL_STOP, conv, adcVars,
                   edge, samples, zStopped>>

LidRequest ==
    /\ At("zRequest", "zLow")
    /\ Request
    /\ UNCHANGED <<isr, core1, Z_STATE, LID_UNTIL_STOP, conv, edge, disturbed, zStopped>>

LidPulse ==
    \/ Pulse(convDisable, "zLow", "zHigh")
    \/ Pulse(convEnable, "zHigh", "zWait")

\* while (Z_STATE) has ended; ad7606Value is printed.
LidGotZ ==
    /\ At("zWait", "zMove")
    /\ ~Z_STATE
    /\ UNCHANGED allButPc

\* Command 11 pulses RESET: a conversion that a stop left unfinished is
\* abandoned. Whether BUSY then shows an edge is up to the converter.
ResetAdc ==
    /\ At("loop", "loop")
    /\ adc # "idle" /\ adc' = "idle"
    /\ edge' \in {edge, TRUE}
    /\ UNCHANGED <<isr, core1, isReadyToRead, Z_STATE, LID_UNTIL_STOP, conv,
                   result, samples, disturbed, zStopped>>

Core0 ==
    \/ GetValues \/ GetValuesPulse \/ GetValuesReturn \/ Elsewhere \/ ResetAdc
    \/ LidEnter \/ LidCheckXY \/ LidCheckZ \/ LidRequest \/ LidPulse \/ LidGotZ

-----------------------------------------------------------------------------
(* The converter: the end of a conversion makes its sample readable and
   lowers BUSY. *)
ConversionDone ==
    /\ adc # "idle"
    /\ result' = adc /\ adc' = "idle" /\ edge' = TRUE
    /\ UNCHANGED <<thread, isr, core1, isReadyToRead, LID_UNTIL_STOP, samples,
                   disturbed, zStopped>>

-----------------------------------------------------------------------------
(* comReceiveISR, on core 0 *)

\* Mutant: no early return when nobody waits.
IsrEnterNoGuard ==
    /\ isr = "off" /\ edge
    /\ edge' = FALSE
    /\ isr' = "read"
    /\ UNCHANGED <<thread, core1, isReadyToRead, LID_UNTIL_STOP, adcVars,
                   samples, disturbed, zStopped>>

\* The edge is acknowledged. An interrupt nobody waits for is ignored.
IsrEnter ==
    /\ isr = "off" /\ edge
    /\ edge' = FALSE
    /\ isr' = IF isReadyToRead THEN "off" ELSE "read"
    /\ UNCHANGED <<thread, core1, isReadyToRead, LID_UNTIL_STOP, adcVars,
                   samples, disturbed, zStopped>>

\* Mutant: what is read is not the finished conversion's result.
IsrReadEarly ==
    /\ isr = "read" /\ isr' = "release"
    /\ spiBuf' = adc
    /\ UNCHANGED <<thread, core1, isReadyToRead, LID_UNTIL_STOP, adcVars, edge,
                   ad7606Value, disturbed, zStopped>>

\* decoder.activePort(0), Spi::setProperties(16, 1, 0), spi_read16_blocking
IsrRead ==
    /\ isr = "read" /\ isr' = "release"
    /\ spiBuf' = result
    /\ UNCHANGED <<thread, core1, isReadyToRead, LID_UNTIL_STOP, adcVars, edge,
                   ad7606Value, disturbed, zStopped>>

\* Mutant: the Z sample is stored and Z_STATE stays set.
IsrReleaseKeepsZ ==
    /\ isr = "release" /\ isr' = "off"
    /\ \/ Z_STATE /\ ad7606Value' = spiBuf /\ UNCHANGED isReadyToRead
       \/ ~Z_STATE /\ isReadyToRead' = TRUE /\ UNCHANGED ad7606Value
    /\ UNCHANGED <<thread, core1, LID_UNTIL_STOP, adcVars, edge, spiBuf,
                   disturbed, zStopped>>

IsrRelease ==
    /\ isr = "release" /\ isr' = "off"
    /\ \/ /\ Z_STATE
          /\ ad7606Value' = spiBuf /\ Z_STATE' = FALSE
          /\ UNCHANGED isReadyToRead
       \/ /\ ~Z_STATE
          /\ isReadyToRead' = TRUE
          /\ UNCHANGED <<ad7606Value, Z_STATE>>
    /\ UNCHANGED <<pc, conv, core1, LID_UNTIL_STOP, adcVars, edge, spiBuf,
                   disturbed, zStopped>>

Isr == IsrEnter \/ IsrRead \/ IsrRelease

-----------------------------------------------------------------------------
(* launchOnCore1 *)

\* case 80
ReceiveLidUntilStop ==
    /\ "LID_UNTIL_STOP" \in Commands
    /\ core1 = "getline"
    /\ LID_UNTIL_STOP' = TRUE
    /\ UNCHANGED <<thread, isr, core1, isReadyToRead, adcVars, edge, samples,
                   disturbed, zStopped>>

\* case 70: stopAll clears LID_UNTIL_STOP ...
ReceiveStopAll ==
    /\ "stopAll" \in Commands
    /\ core1 = "getline" /\ core1' = "stopAll"
    /\ LID_UNTIL_STOP' = FALSE
    /\ disturbed' = TRUE /\ zStopped' = (zStopped \/ pc \in ZLoop)
    /\ UNCHANGED <<thread, isr, isReadyToRead, adcVars, edge, samples>>

\* ... and then sets AD_7606_IS_READY_TO_READ.
StopAllReady ==
    /\ core1 = "stopAll" /\ core1' = "getline"
    /\ isReadyToRead' = TRUE
    /\ UNCHANGED <<thread, isr, LID_UNTIL_STOP, adcVars, edge, samples,
                   disturbed, zStopped>>

Core1 == ReceiveLidUntilStop \/ ReceiveStopAll \/ StopAllReady

-----------------------------------------------------------------------------
Next == Core0 \/ ConversionDone \/ Isr \/ Core1

(* The thread runs whenever the handler does not, a pending interrupt is
   taken, a conversion ends and stopAll runs to its end; what the host sends
   is not assumed. *)
Fairness ==
    /\ WF_vars(Core0)
    /\ WF_vars(ConversionDone)
    /\ WF_vars(Isr)
    /\ WF_vars(StopAllReady)

Spec == Init /\ [][Next]_vars
FairSpec == Spec /\ Fairness

-----------------------------------------------------------------------------
TypeOK ==
    /\ pc \in {"loop", "spi", "low", "high", "wait", "got", "xyCheck",
               "xyMove", "zCheck", "zRequest", "zLow", "zHigh", "zWait", "zMove"}
    /\ isr \in {"off", "read", "release"}
    /\ core1 \in {"getline", "stopAll"}
    /\ isReadyToRead \in BOOLEAN /\ Z_STATE \in BOOLEAN
    /\ LID_UNTIL_STOP \in BOOLEAN /\ conv \in BOOLEAN /\ edge \in BOOLEAN
    /\ adc \in Age \cup {"idle"}
    /\ result \in Age /\ spiBuf \in Age /\ ad7606Value \in Age
    /\ disturbed \in BOOLEAN /\ zStopped \in BOOLEAN

\* The main thread is inside get_result_from_adc or busy-waits after it.
Acquiring == pc \in {"low", "high", "wait", "zLow", "zHigh", "zWait"}

(* A sample handed to its consumer (getValuesFromAdc's caller, or the print
   of ad7606Value) comes from the conversion that was requested for it, unless
   stopAll ran during the request or an earlier stop left a conversion
   unfinished: the interrupt that releases the waiting loop can otherwise not
   be the one of another conversion. *)
FreshSample ==
    /\ pc = "got" => spiBuf = "new" \/ disturbed
    /\ pc = "zMove" => ad7606Value = "new" \/ disturbed

(* comReceiveISR re-programs the decoder and the SPI format. It gets that far
   only while the main thread waits for a sample, unless a stop intervened. *)
HandlerOnlyWhileAcquiring == isr # "off" => Acquiring \/ disturbed

(* comReceiveISR never takes the SPI bus from a transfer of the main thread,
   and never overwrites spiBuf while a caller is using it, however stopAll sets
   AD_7606_IS_READY_TO_READ; only a stop of a movement along Z spoils this. *)
BusExclusive == ~zStopped /\ isr # "off" => pc \notin {"spi", "got"}

(* Whenever the main loop polls its flags a sample can be read: commands 12
   and 6 (continuous sending) are dropped when AD_7606_IS_READY_TO_READ is
   false at that point. The same stop of a movement along Z can leave it so. *)
ReadyInLoop == ~zStopped /\ pc = "loop" => isReadyToRead

(* getValuesFromAdc returns. *)
ReadReturns == pc = "wait" ~> pc = "got"

(* The wait for Z in moveLinearDriverUntilStop ends, unless a stop disturbs
   it. *)
ZReadReturns == pc = "zWait" ~> pc = "zMove" \/ disturbed

(* Once the stop command has come, the linear driver stops: when
   LID_UNTIL_STOP stays false the main thread gets back to its loop. *)
LidStops == <>[](~LID_UNTIL_STOP) => []<>(pc = "loop")
=============================================================================
