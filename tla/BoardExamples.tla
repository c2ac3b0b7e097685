---------------------------- MODULE BoardExamples ---------------------------
(***************************************************************************)
(* The programs of a page about one part of the board each: the button on    *)
(* the chip select of the flash (picoboard/button), the interrupt of a pin   *)
(* (gpio/hello_gpio_irq), the fading and the measured PWM                    *)
(* (pwm/led_fade, pwm/measure_duty_cycle), the encoder of                    *)
(* pio/quadrature_encoder, narrow writes (system/narrow_io_write), the flash *)
(* and its cache (flash/program, flash/nuke, flash/cache_perfctr), timers    *)
(* and alarms (timer/hello_timer, rtc/rtc_alarm, rtc/rtc_alarm_repeat), the  *)
(* echo of pio/uart_rx, the beacon of pico_w/wifi/udp_beacon and the strip   *)
(* of pio/ws2812/ws2812.c.  `demo` is the program, `bd` its state and that   *)
(* of the hardware it uses, which is external.                               *)
(***************************************************************************)
EXTENDS Integers, Sequences, FiniteSets, SequencesExt

CONSTANTS CountMod,     \* the modulus of the encoder's count, 2^32
          Pages,        \* pages of the flash
          SectorPages,  \* pages of a sector, 16
          RxDepth,      \* characters the state machine's FIFO holds, 8
          ConsoleDepth, \* characters the console's FIFO holds, 32
          TextLen,      \* characters of the text, the newline the last of them
          MaxBeacons, MaxWalk   \* bounds: beacons, the strip's t

VARIABLES demo, bd
boardVars == <<demo, bd>>

------------------------------------------------------------------------------
(* picoboard/button.  The chip select floats while the button is sampled: nothing
   may then run from the flash, an interrupt handler least of all. *)
ButtonInit == [pc |-> "call", irqOff |-> FALSE, hiZ |-> FALSE, low |-> FALSE, pressed |-> FALSE,
               seen |-> FALSE, led |-> FALSE, during |-> {FALSE}, crashed |-> FALSE]

(* A mutation: the interrupts stay enabled. *)
StaysEnabled(b) == [b EXCEPT !.pc = "float", !.during = {b.pressed}]
save_and_disable_interrupts(b) ==
    [b EXCEPT !.pc = "float", !.irqOff = TRUE, !.during = {b.pressed}]
(* While the loop of a thousand turns runs, the floating pin takes its level. *)
get_bootsel_button(b) ==
    CASE b.pc = "call"    -> save_and_disable_interrupts(b)
      [] b.pc = "float"   -> [b EXCEPT !.pc = "settle", !.hiZ = TRUE]
      [] b.pc = "settle"  -> [b EXCEPT !.pc = "sample", !.low = b.pressed]
      [] b.pc = "sample"  -> [b EXCEPT !.pc = "restore", !.seen = b.low]
      [] b.pc = "restore" -> [b EXCEPT !.pc = "enable", !.hiZ = FALSE, !.low = FALSE]
      [] b.pc = "enable"  -> [b EXCEPT !.pc = "show", !.irqOff = FALSE]
ButtonShow == bd.pc = "show" /\ bd' = [bd EXCEPT !.pc = "call", !.led = bd.seen]
ButtonToggled ==
    bd' = [bd EXCEPT !.pressed = ~@, !.during = @ \cup {~bd.pressed},
                     !.low = bd.pc = "sample" /\ ~bd.pressed]
FlashInterrupt == ~bd.irqOff /\ bd' = [bd EXCEPT !.crashed = @ \/ bd.hiZ]
ButtonNext ==
    \/ bd.pc # "show" /\ bd' = get_bootsel_button(bd)
    \/ ButtonShow \/ ButtonToggled \/ FlashInterrupt

(* No handler runs from the flash while its chip select floats, and the lamp shows
   a state the button had during the call. *)
ButtonIsSafe ==
    demo = "button" => /\ ~bd.crashed
                       /\ bd.pc = "call" => bd.led \in bd.during /\ ~bd.hiZ /\ ~bd.irqOff

------------------------------------------------------------------------------
(* gpio/hello_gpio_irq.  Edges are latched until the handler takes them, so that
   both kinds may come at once.  A text is the sequence of its words. *)
gpio_irq_str == <<"LEVEL_LOW", "LEVEL_HIGH", "EDGE_FALL", "EDGE_RISE">>
gpio_event_string(events) ==
    LET text[i \in 0..4] ==
            IF i = 0 THEN <<>>
            ELSE IF i \notin events THEN text[i - 1]
            ELSE text[i - 1] \o <<gpio_irq_str[i]>>
                 \o (IF \E k \in events : k > i THEN <<", ">> ELSE <<>>)
    IN  text[4]
GpioInit == [level |-> 0, latched |-> {}, told |-> {}, text |-> <<>>]
PinToggles ==
    bd' = [bd EXCEPT !.level = 1 - @, !.latched = @ \cup {IF bd.level = 1 THEN 3 ELSE 4}]
gpio_irq_callback ==
    /\ bd.latched # {}
    /\ bd' = [bd EXCEPT !.latched = {}, !.told = bd.latched, !.text = gpio_event_string(bd.latched)]

(* A text names the events once each, with a comma between two and none at the end. *)
EventsAreNamed ==
    demo = "gpio" =>
        LET words == {k \in DOMAIN bd.text : k % 2 = 1} IN
        /\ {bd.text[k] : k \in words} = {gpio_irq_str[i] : i \in bd.told}
        /\ Cardinality(words) = Cardinality(bd.told)
        /\ \A k \in DOMAIN bd.text \ words : bd.text[k] = ", "
        /\ bd.told # {} => Len(bd.text) % 2 = 1

------------------------------------------------------------------------------
(* pwm/led_fade: the handler of the wrap. *)
FadeInit == [fade |-> 0, going_up |-> TRUE, level |-> 0, held |-> 0]
on_pwm_wrap ==
    LET f == IF bd.going_up THEN bd.fade + 1 ELSE bd.fade - 1
        over == IF bd.going_up THEN f > 255 ELSE f < 0
        fade == IF over THEN bd.fade ELSE f
    IN  bd' = [fade |-> fade, going_up |-> IF over THEN ~bd.going_up ELSE bd.going_up,
               level |-> fade * fade, held |-> IF over THEN bd.held + 1 ELSE 0]
(* The level fits the 16-bit counter, and the fade rests at an end for one wrap only. *)
FadeTurns == demo = "fade" => bd.level \in 0..65535 /\ bd.held <= 1 /\ (bd.held = 1 => bd.fade \in {0, 255})

(* pwm/measure_duty_cycle: the output is high for `level` of 1001 cycles, the other
   slice counts a hundredth of the high cycles of 10 ms at 125 MHz, beginning
   anywhere in a period. *)
Tenths == <<0, 1, 5, 9, 10>>     \* test_duty_cycles
OutputLevel(i) == (Tenths[i] * 1001) \div 10
HighCycles(level, phase) ==
    LET From(n) == (n \div 1001) * level + (IF n % 1001 < level THEN n % 1001 ELSE level)
    IN  From(1250000 + phase) - From(phase)
measure_duty_cycle(level, phase) == (HighCycles(level, phase) \div 100) % 65536
DutyInit == [i |-> 0, counter |-> 0]
MeasureNext ==
    \E phase \in {0, 99, 250, 500, 899, 1000} :
        /\ bd.i < Len(Tenths)
        /\ bd' = [i |-> bd.i + 1, counter |-> measure_duty_cycle(OutputLevel(bd.i + 1), phase)]
(* A measured duty cycle is within two thousandths of the one put out: the counter
   neither wraps nor keeps anything of the measurement before. *)
DutyIsMeasured ==
    demo = "duty" /\ bd.i > 0 =>
        bd.counter - 1250 * Tenths[bd.i] \in -25..25

------------------------------------------------------------------------------
(* pio/quadrature_encoder: the count wraps, and so may the difference of two.
   `turned` is what the wheel has really done since the last reading. *)
AsSigned(n) == IF n % CountMod >= CountMod \div 2 THEN (n % CountMod) - CountMod ELSE n % CountMod
EncoderInit == [count |-> 0, old_value |-> 0, turned |-> 0, delta |-> 0, made |-> 0]
Turn(d) ==
    /\ bd.turned + d \in -(CountMod \div 2) .. (CountMod \div 2) - 1
    /\ bd' = [bd EXCEPT !.count = (@ + d) % CountMod, !.turned = @ + d]
ReadEncoder ==
    bd' = [bd EXCEPT !.delta = AsSigned(bd.count - bd.old_value), !.old_value = bd.count,
                     !.made = bd.turned, !.turned = 0]
(* A delta is what the wheel has turned since the last reading, over every wrap. *)
DeltaIsTurned == demo = "encoder" => bd.delta = bd.made

(* system/narrow_io_write: a register takes the whole bus, on which a narrow write is
   repeated.  A word is its four bytes, the lowest first. *)
Bus(bytes) == [k \in 1..4 |-> bytes[((k - 1) % Len(bytes)) + 1]]
NarrowWrites ==      \* what main writes, and what it prints that should be there
    <<[value |-> <<239, 190, 173, 222>>, should |-> <<239, 190, 173, 222>>],
      [value |-> <<165>>, should |-> <<165, 165, 165, 165>>],
      [value |-> <<60>>, should |-> <<60, 60, 60, 60>>],
      [value |-> <<13, 240>>, should |-> <<13, 240, 13, 240>>]>>
NarrowInit == [n |-> 0, scratch |-> <<0, 0, 0, 0>>]
NarrowWrite ==
    /\ bd.n < Len(NarrowWrites)
    /\ bd' = [n |-> bd.n + 1, scratch |-> Bus(NarrowWrites[bd.n + 1].value)]
ShouldBe == demo = "narrow" /\ bd.n > 0 => bd.scratch = NarrowWrites[bd.n].should

------------------------------------------------------------------------------
(* flash/program and flash/nuke.  The flash programs ones to zeros: a page that is
   not erased is spoiled by a second image. *)
EraseRange(m, from, n) == [p \in DOMAIN m |-> IF p \in from .. from + n - 1 THEN "ones" ELSE m[p]]
ProgramPage(m, p, data) == [m EXCEPT ![p] = IF @ = "ones" THEN data ELSE "spoiled"]
Target == SectorPages      \* FLASH_TARGET_OFFSET: a sector behind the program
ProgramInit == {[pc |-> "erase", flash |-> m, before |-> m, mismatch |-> FALSE] :
                   m \in [0 .. Pages - 1 -> {"ones", "old"}]}
ProgramFlash ==
    \/ /\ bd.pc = "erase"
       /\ bd' = [bd EXCEPT !.pc = "program", !.flash = EraseRange(@, Target, SectorPages)]
    \/ /\ bd.pc = "program"
       /\ bd' = [bd EXCEPT !.pc = "compare", !.flash = ProgramPage(@, Target, "random")]
    \/ /\ bd.pc = "compare"
       /\ bd' = [bd EXCEPT !.pc = "end", !.mismatch = bd.flash[Target] # "random"]
Nuke ==
    \/ bd.pc = "erase" /\ bd' = [bd EXCEPT !.pc = "program", !.flash = EraseRange(@, 0, Pages)]
    \/ bd.pc = "program" /\ bd' = [bd EXCEPT !.pc = "end", !.flash = ProgramPage(@, 0, "NUKE")]
(* The page written reads back and no other sector is touched; after nuke nothing is
   left but the eyecatcher. *)
FlashIsWritten ==
    /\ demo = "program" =>
           /\ ~bd.mismatch
           /\ \A p \in DOMAIN bd.flash \ (Target .. Target + SectorPages - 1) : bd.flash[p] = bd.before[p]
    /\ demo = "nuke" /\ bd.pc = "end" =>
           bd.flash = [p \in DOMAIN bd.flash |-> IF p = 0 THEN "NUKE" ELSE "ones"]

(* flash/cache_perfctr: an access counts, and hits when the line is there; a write
   throws the line out and is no access. *)
CacheSteps == <<"flush", "clear", "read", "read", "write", "read", "read">>
CacheInit == {[k |-> 0, cached |-> c, acc |-> a, hit |-> a, failed |-> FALSE] :
                 c \in BOOLEAN, a \in 0..2}
CacheChecks(k) ==        \* <<hits, accesses>> that check expects after step k
    CASE k = 3 -> <<0, 1>> [] k = 4 -> <<1, 2>> [] k = 6 -> <<1, 3>> [] k = 7 -> <<2, 4>>
check_hit_miss_invalidate ==
    LET k == bd.k + 1
        op == CacheSteps[k]
        hit == IF op = "clear" THEN 0 ELSE IF op = "read" /\ bd.cached THEN bd.hit + 1 ELSE bd.hit
        acc == IF op = "clear" THEN 0 ELSE IF op = "read" THEN bd.acc + 1 ELSE bd.acc
        cached == CASE op = "read" -> TRUE [] op \in {"flush", "write"} -> FALSE [] OTHER -> bd.cached
    IN  /\ bd.k < Len(CacheSteps) /\ ~bd.failed
        /\ bd' = [k |-> k, cached |-> cached, acc |-> acc, hit |-> hit,
                  failed |-> op = "read" /\ <<hit, acc>> # CacheChecks(k)]
CacheAsExpected == demo = "cache" => ~bd.failed

------------------------------------------------------------------------------
(* timer/hello_timer, in ticks of 250 ms: an alarm after 8, then a timer every 2 for
   12, cancelled, and again with a negative delay.  A callback may take a tick; it
   runs in the interrupt, so main does not get on meanwhile.  -1: nothing to wait for. *)
TimerInit == [pc |-> "alarm", now |-> 0, timer_fired |-> FALSE, alarm |-> 8, wake |-> -1,
              next |-> -1, busy |-> -1, delay |-> 0, start |-> 0, calls |-> <<>>]
Due(x) == x # -1 /\ x <= bd.now
InMain == bd.busy = -1
MainReady == InMain /\ (IF bd.pc = "alarm" THEN bd.timer_fired ELSE Due(bd.wake))
TimePasses ==
    /\ ~MainReady /\ ~Due(bd.alarm) /\ ~(InMain /\ Due(bd.next)) /\ ~Due(bd.busy) /\ bd.pc # "done"
    /\ bd' = [bd EXCEPT !.now = @ + 1]
alarm_callback == Due(bd.alarm) /\ bd' = [bd EXCEPT !.timer_fired = TRUE, !.alarm = -1]
AddTimer(d) == [bd EXCEPT !.pc = "sleep", !.delay = d, !.calls = <<>>, !.start = bd.now,
                          !.next = bd.now + 2, !.wake = bd.now + 12]
CancelTimer == [bd EXCEPT !.pc = "pause", !.next = -1, !.wake = bd.now + 8]
TimerMain ==
    /\ MainReady
    /\ bd' = CASE bd.pc = "alarm" -> AddTimer(2)
               [] bd.pc = "sleep" -> CancelTimer
               [] bd.pc = "pause" -> IF bd.delay = 2 THEN AddTimer(-2)
                                     ELSE [bd EXCEPT !.pc = "done", !.wake = -1]
repeating_timer_callback ==
    /\ InMain /\ Due(bd.next)
    /\ \E long \in 0..1 : bd' = [bd EXCEPT !.calls = Append(@, bd.now), !.busy = bd.now + long]
CallbackReturns ==
    /\ Due(bd.busy)
    /\ bd' = [bd EXCEPT !.busy = -1, !.next = IF bd.delay < 0 THEN @ + 2 ELSE bd.now + 2]
TimerNext == TimePasses \/ alarm_callback \/ TimerMain \/ repeating_timer_callback \/ CallbackReturns

(* With the negative delay the calls keep their grid however long they take, five or
   six of them; with the positive one they may drift, but none comes early or late. *)
CallsKeepTime ==
    demo = "timer" =>
        /\ bd.delay < 0 => /\ \A k \in DOMAIN bd.calls : bd.calls[k] = bd.start + 2 * k
                           /\ bd.pc \in {"pause", "done"} => Len(bd.calls) \in 5..6
        /\ \A k \in DOMAIN bd.calls : bd.calls[k] \in bd.start + 2 * k .. bd.start + 12

(* rtc/rtc_alarm and rtc/rtc_alarm_repeat: the clock runs from 11:20:00; an alarm
   matches the fields that are not -1.  One with a year matches once and is then off. *)
RtcInit(sec, min) == [min |-> 20, sec |-> 0, alarm |-> [min |-> min, sec |-> sec], on |-> TRUE,
                      fired |-> FALSE, at |-> <<>>]
AlarmMatches(min, sec) == bd.alarm.sec = sec /\ bd.alarm.min \in {-1, min}
RtcSecond ==
    LET sec == (bd.sec + 1) % 60
        min == IF sec = 0 THEN bd.min + 1 ELSE bd.min
        rings == bd.on /\ AlarmMatches(min, sec)
    IN  /\ bd.min < 23 /\ ~(demo = "rtc" /\ bd.fired)
        /\ bd' = [bd EXCEPT !.sec = sec, !.min = min, !.fired = @ \/ rings,
                            !.at = IF rings THEN Append(@, <<min, sec>>) ELSE @,
                            !.on = @ /\ ~(rings /\ bd.alarm.min # -1)]
(* The alarm of a time ends the wait at that time; the one of a second rings every minute. *)
AlarmsRing ==
    /\ demo = "rtc" => bd.at = (IF bd.sec >= 5 \/ bd.min > 20 THEN <<<<20, 5>>>> ELSE <<>>)
    /\ demo = "repeat" => bd.at = [k \in 1 .. bd.min - 20 |-> <<20 + k, 0>>]

------------------------------------------------------------------------------
(* pio/uart_rx: the text comes in on one UART and goes out on another of the same
   rate, which may still be busy with the greeting; core 0 is faster than both.  The
   two take turns, a character each.  putchar makes two characters of a newline. *)
UartRxInit == {[turn |-> u, sent |-> 0, rx |-> 0, lost |-> 0, console |-> c, echoed |-> 0] :
                  u \in {"in", "out"}, c \in 0..ConsoleDepth}
Width(k) == IF k = TextLen THEN 2 ELSE 1
CanEcho == bd.rx > 0 /\ bd.console + Width(bd.echoed + 1) <= ConsoleDepth
EchoCharacter ==
    /\ CanEcho
    /\ bd' = [bd EXCEPT !.rx = @ - 1, !.echoed = @ + 1, !.console = @ + Width(bd.echoed + 1)]
CharacterTime ==
    /\ ~CanEcho
    /\ bd' = IF bd.turn = "out" THEN [bd EXCEPT !.turn = "in", !.console = IF @ > 0 THEN @ - 1 ELSE 0]
             ELSE IF bd.sent = TextLen THEN [bd EXCEPT !.turn = "out"]
             ELSE [bd EXCEPT !.turn = "out", !.sent = @ + 1,
                             !.rx = IF @ < RxDepth THEN @ + 1 ELSE @,
                             !.lost = IF bd.rx < RxDepth THEN @ ELSE @ + 1]
(* No character of the text is lost, however full the console was at the start. *)
TextIsEchoed == demo = "uart_rx" => bd.lost = 0 /\ bd.echoed + bd.rx = bd.sent

(* pico_w/wifi/udp_beacon: a number is counted up only when it was sent. *)
BeaconInit == [counter |-> 0, sent |-> <<>>, tries |-> 0]
run_udp_beacon(ok) ==
    /\ bd.tries < MaxBeacons
    /\ bd' = [bd EXCEPT !.tries = @ + 1, !.counter = IF ok THEN @ + 1 ELSE @,
                        !.sent = IF ok THEN Append(@, bd.counter) ELSE @]
(* The beacons that went out are numbered without a gap, whichever failed. *)
BeaconsCount == demo = "beacon" => \A k \in DOMAIN bd.sent : bd.sent[k] = k - 1

(* pio/ws2812/ws2812.c: t walks up and down from zero; pattern_random takes it as an
   unsigned number and draws when it is a multiple of eight. *)
StripInit == [t |-> 0, at |-> 0, drawn |-> TRUE]
AsUint(t) == t % 64              \* 2^32 in the code
pattern_random(t) == AsUint(t) % 8 = 0
StripPass(dir) ==
    /\ bd.t + dir \in -MaxWalk..MaxWalk
    /\ bd' = [t |-> bd.t + dir, at |-> bd.t, drawn |-> pattern_random(bd.t)]
(* The strip is drawn anew at every eighth step, below zero as well. *)
StripIsDrawn == demo = "strip" => (bd.drawn <=> \E k \in -MaxWalk..MaxWalk : bd.at = 8 * k)

------------------------------------------------------------------------------
BoardInit ==
    \/ demo = "button"  /\ bd = ButtonInit
    \/ demo = "gpio"    /\ bd = GpioInit
    \/ demo = "fade"    /\ bd = FadeInit
    \/ demo = "duty"    /\ bd = DutyInit
    \/ demo = "encoder" /\ bd = EncoderInit
    \/ demo = "narrow"  /\ bd = NarrowInit
    \/ demo = "program" /\ bd \in ProgramInit
    \/ demo = "nuke"    /\ bd \in ProgramInit
    \/ demo = "cache"   /\ bd \in CacheInit
    \/ demo = "timer"   /\ bd = TimerInit
    \/ demo = "rtc"     /\ bd = RtcInit(5, 20)
    \/ demo = "repeat"  /\ bd = RtcInit(0, -1)
    \/ demo = "uart_rx" /\ bd \in UartRxInit
    \/ demo = "beacon"  /\ bd = BeaconInit
    \/ demo = "strip"   /\ bd = StripInit

BoardNext ==
    /\ UNCHANGED demo
    /\ \/ demo = "button"  /\ ButtonNext
       \/ demo = "gpio"    /\ (PinToggles \/ gpio_irq_callback)
       \/ demo = "fade"    /\ on_pwm_wrap
       \/ demo = "duty"    /\ MeasureNext
       \/ demo = "encoder" /\ (ReadEncoder \/ \E d \in {-1, 1} : Turn(d))
       \/ demo = "narrow"  /\ NarrowWrite
       \/ demo = "program" /\ ProgramFlash
       \/ demo = "nuke"    /\ Nuke
       \/ demo = "cache"   /\ check_hit_miss_invalidate
       \/ demo = "timer"   /\ TimerNext
       \/ demo \in {"rtc", "repeat"} /\ RtcSecond
       \/ demo = "uart_rx" /\ (EchoCharacter \/ CharacterTime)
       \/ demo = "beacon"  /\ \E ok \in BOOLEAN : run_udp_beacon(ok)
       \/ demo = "strip"   /\ \E dir \in {-1, 1} : StripPass(dir)

(* BoardBehaves: each program does to its part of the board what it is written for. *)
BoardBehaves ==
    /\ ButtonIsSafe /\ EventsAreNamed /\ FadeTurns /\ DutyIsMeasured /\ DeltaIsTurned /\ ShouldBe
    /\ FlashIsWritten /\ CacheAsExpected /\ CallsKeepTime /\ AlarmsRing /\ TextIsEchoed
    /\ BeaconsCount /\ StripIsDrawn
=============================================================================
