----------------------------- MODULE IrqExamples -----------------------------
(***************************************************************************)
(* Programs whose data come from an interrupt or a timer while main runs:    *)
(* the altimeter whose FIFO overflow interrupts (i2c/mpl3115a2_i2c), the     *)
(* real-time clock that ticks while it is set (i2c/pcf8523_i2c), the echo of *)
(* the UART interrupt (uart/uart_advanced) and the audio sink that a timer   *)
(* refills (pico_w/bt/btstack_audio_pico.c).  `job` is the program.          *)
(***************************************************************************)
EXTENDS Integers, Sequences, SequencesExt

CONSTANTS MPL_FIFO_SIZE,        \* samples of the altimeter's FIFO, 32
          PerPass,              \* samples that come during a pass of main: at most one, a
                                \* sample takes 2 s and a pass some 10 ms
          MaxOverflows,
          MaxSeconds,           \* how long the clock is watched
          UartChars,            \* characters that arrive
          Pool, SAMPLES_PER_BUFFER, MaxBuffers    \* 3 buffers of 512 samples

VARIABLES job, at, mpl, rtc, uart, audio

irqVars == <<job, at, mpl, rtc, uart, audio>>

Running(name) == job = name
Only(v) == /\ UNCHANGED job
           /\ v # "mpl" => UNCHANGED mpl
           /\ v # "rtc" => UNCHANGED rtc
           /\ v # "uart" => UNCHANGED uart
           /\ v # "audio" => UNCHANGED audio

Hello == <<"h", "i">>               \* uart_puts' string

IrqInit ==
    /\ job \in {"mpl", "rtc", "uart", "audio"} /\ at = "start"
    /\ mpl = [fifo |-> <<>>, int1 |-> FALSE, next |-> 1, fifo_data |-> <<>>, has_new |-> FALSE,
              i |-> 1, sum |-> <<>>, pass |-> 0, overflows |-> 0, printed |-> 0]
    /\ \E s \in IF job = "rtc" THEN {0, 58, 59} ELSE {0} :    \* a reset leaves the time as it was
         rtc = [time |-> <<s, 59>>, alarm |-> 128, flag |-> FALSE, reg |-> 0, age |-> 0, due |-> FALSE,
                shown |-> <<>>, ringing |-> FALSE]
    /\ uart = [rx |-> <<>>, tx |-> <<>>, line |-> <<>>, sent |-> 0, rxed |-> 0, dropped |-> 0, puts |-> Hello]
    /\ audio = [channels |-> 0, free |-> 0, queue |-> <<>>, played |-> 0, made |-> 0, timer |-> FALSE, active |-> FALSE,
                enabled |-> FALSE, bad |-> FALSE]

-----------------------------------------------------------------------------
(* The altimeter stops on overflow and then pulls INT1 low. *)
Sample ==
    /\ Running("mpl") /\ at # "start" /\ mpl.pass < PerPass /\ ~mpl.int1
    /\ mpl.overflows < MaxOverflows
    /\ LET full == Len(mpl.fifo) = MPL_FIFO_SIZE
       IN  mpl' = [mpl EXCEPT !.fifo = IF full THEN @ ELSE Append(@, mpl.next), !.int1 = full,
                              !.next = IF full THEN @ ELSE @ + 1, !.pass = @ + 1]
    /\ UNCHANGED at /\ Only("mpl")

mpl3115a2_init == /\ Running("mpl") /\ at = "start" /\ at' = "check"
                  /\ mpl' = [mpl EXCEPT !.fifo = <<>>, !.int1 = FALSE] /\ Only("mpl")

mpl3115a2_read_fifo(m) == [m EXCEPT !.fifo_data = m.fifo, !.fifo = <<>>]
mpl3115a2_read_reg(m) == [m EXCEPT !.int1 = FALSE]
(* The interrupt: the FIFO is drained, the status read clears the line, the flag is set. *)
gpio_callback ==
    /\ Running("mpl") /\ at # "start" /\ mpl.int1
    /\ mpl' = [mpl3115a2_read_reg(mpl3115a2_read_fifo(mpl)) EXCEPT !.has_new = TRUE,
                                                                   !.overflows = @ + 1]
    /\ UNCHANGED at /\ Only("mpl")

(* main: a pass of the loop, sample by sample, when there are new data. *)
CheckNewData ==
    /\ Running("mpl") /\ at = "check" /\ at' = IF mpl.has_new THEN "average" ELSE "sleep"
    /\ mpl' = [mpl EXCEPT !.i = 1, !.sum = <<>>] /\ Only("mpl")
AddBatch ==
    /\ Running("mpl") /\ at = "average" /\ mpl.i <= MPL_FIFO_SIZE
    /\ mpl' = [mpl EXCEPT !.sum = IF mpl.i <= Len(mpl.fifo_data) THEN Append(@, mpl.fifo_data[mpl.i])
                                  ELSE Append(@, 0),
                          !.i = @ + 1]
    /\ UNCHANGED at /\ Only("mpl")
PrintAverage ==
    /\ Running("mpl") /\ at = "average" /\ mpl.i > MPL_FIFO_SIZE /\ at' = "sleep"
    /\ mpl' = [mpl EXCEPT !.has_new = FALSE, !.printed = @ + 1] /\ Only("mpl")
PassSleeps == /\ Running("mpl") /\ at = "sleep" /\ at' = "check"
              /\ mpl' = [mpl EXCEPT !.pass = 0] /\ Only("mpl")

(* Every overflow is averaged once, and from its own samples alone. *)
AverageIsOneBatch ==
    /\ mpl.overflows - mpl.printed \in {0, 1}
    /\ at = "average" /\ mpl.sum # <<>> =>
          mpl.sum = [k \in 1 .. Len(mpl.sum) |-> mpl.printed * MPL_FIFO_SIZE + k]

-----------------------------------------------------------------------------
(* The clock: minutes and seconds; a tick may come between any two writes, one a second,
   and setting the time takes less than that. *)
Bcd(n) == (n \div 10) * 16 + (n % 10)
conv_time(raw) == 10 * ((raw \div 16) % 8) + (raw % 16)
Tick ==
    /\ Running("rtc") /\ at # "start" /\ rtc.age < MaxSeconds
    /\ rtc.due \/ at = "loop"
    /\ LET s == (rtc.time[1] + 1) % 60
           m == IF s = 0 THEN (rtc.time[2] + 1) % 60 ELSE rtc.time[2]
       IN  rtc' = [rtc EXCEPT !.time = <<s, m>>, !.age = @ + 1, !.due = FALSE,
                              !.flag = @ \/ (s = 0 /\ Bcd(m) = rtc.alarm)]
    /\ UNCHANGED at /\ Only("rtc")

pcf8520_reset == /\ Running("rtc") /\ at = "start" /\ at' = "set"
                 /\ rtc' = [rtc EXCEPT !.alarm = 128, !.flag = FALSE, !.due = TRUE, !.reg = 3]
                 /\ Only("rtc")

SecondsLast ==
    /\ Running("rtc") /\ at = "set" /\ rtc.reg < 10
    /\ rtc' = [rtc EXCEPT !.time = IF rtc.reg = 8 THEN <<@[1], 0>> ELSE IF rtc.reg = 9 THEN <<0, @[2]>> ELSE @,
                          !.age = IF rtc.reg = 9 THEN 0 ELSE @, !.reg = @ + 1]
    /\ UNCHANGED at /\ Only("rtc")
(* One register per write, the seconds first; the registers above the minutes hold still. *)
pcf820_write_current_time ==
    /\ Running("rtc") /\ at = "set" /\ rtc.reg < 10
    /\ rtc' = [rtc EXCEPT !.time = IF rtc.reg = 3 THEN <<0, @[2]>>
                                   ELSE IF rtc.reg = 4 THEN <<@[1], 0>> ELSE @,
                          !.age = IF rtc.reg = 3 THEN 0 ELSE @, !.reg = @ + 1]
    /\ UNCHANGED at /\ Only("rtc")
(* Minute 1 is enabled, the other alarms stay off. *)
pcf8520_set_alarm ==
    /\ Running("rtc") /\ at = "set" /\ rtc.reg \in 10 .. 13
    /\ rtc' = [rtc EXCEPT !.alarm = IF rtc.reg = 10 THEN 1 ELSE @, !.reg = @ + 1]
    /\ at' = (IF rtc.reg = 13 THEN "loop" ELSE "set") /\ Only("rtc")
(* A read of the seven registers is one burst, which the chip freezes. *)
pcf8520_read_raw ==
    /\ Running("rtc") /\ at = "loop"
    /\ rtc' = [rtc EXCEPT !.shown = <<conv_time(Bcd(rtc.time[1])), conv_time(Bcd(rtc.time[2])), rtc.age>>]
    /\ UNCHANGED at /\ Only("rtc")
pcf8520_check_alarm ==
    /\ Running("rtc") /\ at = "loop" /\ rtc.ringing # rtc.flag
    /\ rtc' = [rtc EXCEPT !.ringing = rtc.flag] /\ UNCHANGED at /\ Only("rtc")

(* The time shown is the time since the seconds were written, a tick in the middle of the
   setting included, and the alarm rings once the first minute is over and not before. *)
ClockIsSet ==
    /\ rtc.shown # <<>> => rtc.shown[2] * 60 + rtc.shown[1] = rtc.shown[3]
    /\ rtc.ringing => rtc.age >= 60
    /\ at = "loop" /\ rtc.age >= 60 => rtc.flag

-----------------------------------------------------------------------------
(* The UART without FIFOs: one character each way.  main waits for room and writes, and the
   interrupt may come in between. *)
Arrive ==
    /\ Running("uart") /\ at # "start" /\ uart.sent < UartChars /\ uart.rx = <<>>
    /\ uart' = [uart EXCEPT !.rx = <<uart.sent + 1>>, !.sent = @ + 1] /\ UNCHANGED at /\ Only("uart")
Leave ==
    /\ Running("uart") /\ uart.tx # <<>>
    /\ uart' = [uart EXCEPT !.tx = <<>>, !.line = Append(@, uart.tx[1])] /\ UNCHANGED at /\ Only("uart")
UartSetup == /\ Running("uart") /\ at = "start" /\ at' = "puts" /\ UNCHANGED uart /\ Only("uart")
(* The handler: a character that cannot be sent back is counted all the same. *)
on_uart_rx ==
    /\ Running("uart") /\ at # "start" /\ uart.rx # <<>>
    /\ LET writable == uart.tx = <<>>
       IN  uart' = [uart EXCEPT !.rx = <<>>, !.rxed = @ + 1,
                                !.tx = IF writable THEN <<<<"echo", uart.rx[1] + 1>>>> ELSE @,
                                !.dropped = IF writable THEN @ ELSE @ + 1]
    /\ UNCHANGED at /\ Only("uart")
PutsWaits == /\ Running("uart") /\ at = "puts" /\ uart.puts # <<>> /\ uart.tx = <<>>
             /\ at' = "put" /\ UNCHANGED uart /\ Only("uart")
(* uart_puts writes although the interrupt may have filled the register: then the character
   that was in it stays, and this one is lost. *)
PutsWrites ==
    /\ Running("uart") /\ at = "put" /\ at' = "puts"
    /\ uart' = [uart EXCEPT !.tx = IF @ = <<>> THEN <<<<"puts", Len(Hello) - Len(uart.puts) + 1>>>> ELSE @,
                            !.puts = Tail(@)]
    /\ Only("uart")

(* Every character received is counted, and echoed with one added, in order, unless the
   transmitter was busy with another. *)
EchoInOrder ==
    LET echoes == SelectSeq(uart.line \o uart.tx, LAMBDA c : c[1] = "echo")
    IN  /\ uart.rxed + Len(uart.rx) = uart.sent
        /\ Len(echoes) + uart.dropped = uart.rxed
        /\ \A k \in DOMAIN echoes : /\ echoes[k][2] \in 2 .. uart.sent + 1
                                    /\ k > 1 => echoes[k - 1][2] < echoes[k][2]

-----------------------------------------------------------------------------
(* The audio sink.  The client's callback fills the buffer: a stereo one, or the front half
   with mono samples. *)
Stereo(n) == [k \in 1 .. 2 * SAMPLES_PER_BUFFER |-> <<n, (k + 1) \div 2>>]
Mono(n) == [k \in 1 .. 2 * SAMPLES_PER_BUFFER |-> IF k <= SAMPLES_PER_BUFFER THEN <<n, k>> ELSE <<0, 0>>]
SecondsCounted(n) == [k \in 1 .. n |-> k]
(* In place, from the last sample to the first. *)
Duplicate(buffer16) ==
    FoldLeft(LAMBDA b, i : [b EXCEPT ![2 * i - 1] = b[i], ![2 * i] = b[i]],
             buffer16, Reverse(SecondsCounted(SAMPLES_PER_BUFFER)))

(* Every free buffer is filled and given to the queue. *)
btstack_audio_pico_sink_fill_buffers(a) ==
    LET n == IF a.made + a.free > MaxBuffers THEN MaxBuffers - a.made ELSE a.free
    IN  [a EXCEPT !.free = @ - n, !.made = @ + n,
                  !.queue = @ \o [k \in 1 .. n |-> IF a.channels = 1 THEN Duplicate(Mono(a.made + k))
                                                    ELSE Stereo(a.made + k)]]

(* btstack_audio_pico_sink_init: the client's channels, a pool of stereo buffers. *)
init_audio ==
    /\ Running("audio") /\ at = "start" /\ at' = "ready"
    /\ \E c \in {1, 2} : audio' = [audio EXCEPT !.channels = c, !.free = Pool]
    /\ Only("audio")

start_stream ==
    /\ Running("audio") /\ at # "start" /\ at' = "run"
    /\ audio' = [btstack_audio_pico_sink_fill_buffers(audio) EXCEPT !.timer = TRUE, !.active = TRUE,
                                                                    !.enabled = TRUE]
    /\ Only("audio")
driver_timer_handler_sink ==
    /\ Running("audio") /\ audio.timer /\ UNCHANGED at
    /\ audio' = btstack_audio_pico_sink_fill_buffers(audio) /\ Only("audio")
stop_stream ==
    /\ Running("audio") /\ audio.active /\ UNCHANGED at     \* close stops only an active stream
    /\ audio' = [audio EXCEPT !.enabled = FALSE, !.timer = FALSE, !.active = FALSE] /\ Only("audio")
(* The I2S transfer takes the next buffer and returns it to the pool. *)
PlayBuffer ==
    /\ Running("audio") /\ audio.enabled /\ audio.queue # <<>> /\ UNCHANGED at
    /\ LET b == Head(audio.queue)
           n == audio.played + 1
       IN  audio' = [audio EXCEPT !.queue = Tail(@), !.free = @ + 1, !.played = n,
                         !.bad = @ \/ \E k \in 1 .. SAMPLES_PER_BUFFER :
                                          b[2 * k - 1] # <<n, k>> \/ b[2 * k] # <<n, k>>]
    /\ Only("audio")

(* What is played is what the client produced, buffer after buffer across stops and starts,
   every sample on both channels; no buffer of the pool is lost or used twice. *)
AudioIsWhole == /\ ~audio.bad
                /\ audio.channels # 0 => audio.free + Len(audio.queue) = Pool
                /\ audio.made = audio.played + Len(audio.queue)

IrqNext ==
    \/ Sample \/ mpl3115a2_init \/ gpio_callback \/ CheckNewData \/ AddBatch \/ PrintAverage
    \/ PassSleeps \/ Tick \/ pcf8520_reset \/ pcf820_write_current_time \/ pcf8520_set_alarm
    \/ pcf8520_read_raw \/ pcf8520_check_alarm \/ Arrive \/ Leave \/ UartSetup \/ on_uart_rx
    \/ PutsWaits \/ PutsWrites \/ init_audio \/ start_stream \/ driver_timer_handler_sink
    \/ stop_stream \/ PlayBuffer

(* What an interrupt hands to main arrives whole, once and in order. *)
IrqDelivers == AverageIsOneBatch /\ ClockIsSet /\ EchoInOrder /\ AudioIsWhole
=============================================================================
