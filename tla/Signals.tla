------------------------------- MODULE Signals -------------------------------
(***************************************************************************)
(* The small programs that turn words into timed signals and back: the       *)
(* infrared link of pio/ir_nec, the one-wire sensor of gpio/dht_sensor, the  *)
(* counter of gpio/hello_7segment, the Morse lamp of picoboard/blinky, the   *)
(* serial input of pio/clocked_input, the main loop of the USB host with its    *)
(* serial bridge, and the console of adc/adc_console.  One behaviour runs    *)
(* one of them.  The wires, the light path, the sensor and the peripherals   *)
(* are external.                                                             *)
(***************************************************************************)
EXTENDS Integers, Sequences, FiniteSets, SequencesExt

CONSTANTS FreePio,       \* the instructions and state machines a PIO has left
          Flips,         \* the bits of a byte that the light path may invert
          Remotes,       \* the pairs other remote controls send
          DhtReadings,   \* what the sensor may measure, with its type
          MorseText,     \* main's string
          BUF_SIZE8,     \* the bytes clocked_input sends
          CdcBuf,        \* the bytes the bridge moves at a time
          Typed,         \* how many characters the console and the device send
          BlinkMs, ClockWrap, MaxLag,   \* the blink interval, the clock's range, the longest stall
          N_SAMPLES, AdcFifo            \* the console's buffer, the converter's FIFO

VARIABLES program, nec, dht, seg, morse, clk, cdcHost, console
signalVars == <<program, nec, dht, seg, morse, clk, cdcHost, console>>

-----------------------------------------------------------------------------
(* pio/ir_nec.  A frame is its four bytes, least significant first. *)
NecStart(free) == [pc |-> "init", instr |-> free[1], sms |-> free[2], res |-> "ok",
                   tx_data |-> 0, rx |-> <<>>, onAir |-> {}, shown |-> <<>>]

(* One program is installed and one state machine claimed for it.  A claim that is *)
(* required panics where no machine is left; what was taken before stays taken.     *)
Claimed(n, len) ==
    IF n.instr < len THEN [n EXCEPT !.res = "-1"]
    ELSE IF n.sms = 0 THEN [n EXCEPT !.instr = @ - len, !.res = "panic"]
    ELSE [n EXCEPT !.instr = @ - len, !.sms = @ - 1]
nec_tx_init(n) == LET burst == Claimed(n, 5) IN IF burst.res = "ok" THEN Claimed(burst, 11) ELSE burst
nec_rx_init(n) == Claimed(n, 9)
(* main calls both before it looks at what either has returned. *)
nec_main_init ==
    /\ nec.pc = "init"
    /\ LET t == nec_tx_init(nec)
           r == IF t.res = "panic" THEN t ELSE nec_rx_init([t EXCEPT !.res = "ok"])
           both == IF t.res = "-1" /\ r.res = "ok" THEN "-1" ELSE r.res
       IN  nec' = [r EXCEPT !.res = both, !.pc = IF both = "ok" THEN "send" ELSE "stopped"]

Inverted(b) == 255 - b
nec_encode_frame(address, data) == <<address, Inverted(address), data, Inverted(data)>>
(* Whether a frame is valid; its address and data are its first and third byte. *)
nec_decode_frame(f) == f[1] = Inverted(f[2]) /\ f[3] = Inverted(f[4])

Flip(b, k) == IF (b \div 2 ^ k) % 2 = 1 THEN b - 2 ^ k ELSE b + 2 ^ k
(* What may come out of the light path for a frame: the frame, nothing, or one wrong bit. *)
Light(f) == {<<>>, <<f>>} \union {<<[f EXCEPT ![n] = Flip(@, k)]>> : n \in 1..4, k \in Flips}

(* A frame is put, the example sleeps 100 ms, the detector gets it or another remote's. *)
NecSend ==
    /\ nec.pc = "send"
    /\ \E pairs \in {{<<0, nec.tx_data>>}} \union {{<<0, nec.tx_data>>, r} : r \in Remotes} :
       \E p \in pairs : \E w \in Light(nec_encode_frame(p[1], p[2])) :
          nec' = [nec EXCEPT !.rx = w, !.onAir = pairs, !.pc = "show"]
(* Everything in the receive FIFO is shown, decoded where it is valid. *)
NecShow ==
    /\ nec.pc = "show"
    /\ IF nec.rx = <<>>
       THEN nec' = [nec EXCEPT !.pc = "send", !.tx_data = (@ + 1) % 256, !.shown = <<>>, !.onAir = {}]
       ELSE LET f == Head(nec.rx)
            IN  nec' = [nec EXCEPT !.rx = Tail(@),
                                   !.shown = IF nec_decode_frame(f) THEN <<f[1], f[3]>> ELSE <<>>]
NecNext == nec_main_init \/ NecSend \/ NecShow

(* ReceivedWasSent: a pair that is shown as received has been sent by this program *)
(* or by another remote, whatever single bit the light path has inverted.         *)
ReceivedWasSent == nec.shown # <<>> => nec.shown \in nec.onAir

-----------------------------------------------------------------------------
(* gpio/dht_sensor.  Readings are in tenths; a DHT11 sends whole numbers. *)
DhtFrame(r) ==
    LET t == IF r.temp < 0 THEN -r.temp ELSE r.temp
        b == IF r.type = 22 THEN <<r.hum \div 256, r.hum % 256,
                                   t \div 256 + (IF r.temp < 0 THEN 128 ELSE 0), t % 256>>
             ELSE <<r.hum \div 10, 0, t \div 10, 0>>
    IN  Append(b, (b[1] + b[2] + b[3] + b[4]) % 256)
DhtBit(r, k) == (DhtFrame(r)[k \div 8 + 1] \div 2 ^ (7 - (k % 8))) % 2

DhtIdle == [pc |-> "start", measured |-> CHOOSE r \in DhtReadings : TRUE, i |-> 0, j |-> 0,
            data |-> <<0, 0, 0, 0, 0>>, misread |-> FALSE, shown |-> <<>>]
DhtStart == /\ dht.pc = "start"
            /\ \E r \in DhtReadings : dht' = [DhtIdle EXCEPT !.pc = "timing", !.measured = r]

(* One level of the line: answer, bit or the idle line after the last bit (i = 84).  The    *)
(* sensor may fall silent, which counts to 255, and one pulse of a reading may be misjudged. *)
DhtTiming ==
    /\ dht.pc = "timing"
    /\ \/ dht' = [dht EXCEPT !.pc = "done"]
       \/ /\ dht.i < 84
          /\ IF dht.i >= 4 /\ dht.i % 2 = 0
             THEN \E wrong \in IF dht.misread THEN {FALSE} ELSE BOOLEAN :
                     LET sent == DhtBit(dht.measured, dht.i \div 2 - 2)
                         bit == IF wrong THEN 1 - sent ELSE sent
                     IN  dht' = [dht EXCEPT !.data[dht.j \div 8 + 1] = 2 * @ + bit, !.j = @ + 1,
                                            !.i = @ + 1, !.misread = @ \/ wrong]
             ELSE dht' = [dht EXCEPT !.i = @ + 1]

DhtAccepts(j, d) == j >= 40 /\ d[5] = (d[1] + d[2] + d[3] + d[4]) % 256
DhtReading(d) ==
    LET h == d[1] * 256 + d[2]
        t == (d[3] % 128) * 256 + d[4]
        celsius == IF t > 1250 THEN d[3] * 10 ELSE t
    IN  <<IF h > 1000 THEN d[1] * 10 ELSE h, IF d[3] >= 128 THEN -celsius ELSE celsius>>
(* A refused reading leaves the caller's variable as it was: it holds nothing. *)
DhtDone ==
    /\ dht.pc = "done"
    /\ dht' = [dht EXCEPT !.pc = "start",
                          !.shown = IF DhtAccepts(dht.j, dht.data) THEN DhtReading(dht.data) ELSE <<>>]
DhtNext == DhtStart \/ DhtTiming \/ DhtDone

(* AcceptedIsMeasured: a reading that is accepted is the one the sensor has measured, *)
(* wherever the sensor fell silent and whichever pulse was misjudged.                *)
AcceptedIsMeasured ==
    dht.pc = "start" /\ dht.shown # <<>> => dht.shown = <<dht.measured.hum, dht.measured.temp>>

-----------------------------------------------------------------------------
(* gpio/hello_7segment.  The mask of the digit is set, and cleared after 250 ms. *)
bits == <<63, 6, 91, 79, 102, 109, 125, 7, 127, 103>>
FIRST_GPIO == 2
Mask(val) == bits[val + 1] * 2 ^ FIRST_GPIO
SegCount(val, pressed) == IF pressed THEN (IF val = 9 THEN 0 ELSE val + 1)
                          ELSE IF val = 0 THEN 9 ELSE val - 1
SegStart == [val |-> 0, lit |-> 0, before |-> 0, pressed |-> FALSE]
SegNext == IF seg.lit = 0
           THEN \E pressed \in BOOLEAN :
                   LET val == SegCount(seg.val, pressed)
                   IN  seg' = [val |-> val, lit |-> Mask(val), before |-> seg.val,
                               pressed |-> pressed]
           ELSE seg' = [seg EXCEPT !.lit = 0]

(* DigitsFollow: the segments that are lit are those of one digit: the one that    *)
(* follows the digit lit before it while the button is pressed, the one before it  *)
(* else, round and round: so the code counts (lines 71-80), while its comments (48,   *)
(* 69-70) and README.adoc:3 have a press count down.                                *)
Steps(by) == \E d \in 0..9 : /\ seg.lit = Mask(d)
                             /\ \A e \in 0..9 \ {d} : Mask(e) # seg.lit
                             /\ (d - seg.before) % 10 = by % 10
DigitsFollow == seg.lit # 0 => Steps(IF seg.pressed THEN 1 ELSE -1)

-----------------------------------------------------------------------------
(* picoboard/blinky.  The lamp is a sequence of levels with their length in dots. *)
(* A pattern is its marks by length: 1 for a dot, 3 for a dash. *)
morse_letters ==
    <<<<1,3>>, <<3,1,1,1>>, <<3,1,3,1>>, <<3,1,1>>, <<1>>, <<1,1,3,1>>, <<3,3,1>>, <<1,1,1,1>>,
      <<1,1>>, <<1,3,3,3>>, <<3,1,3>>, <<1,3,1,1>>, <<3,3>>, <<3,1>>, <<3,3,3>>, <<1,3,3,1>>,
      <<3,3,1,3>>, <<1,3,1>>, <<1,1,1>>, <<3>>, <<1,1,3>>, <<1,1,1,3>>, <<1,3,3>>, <<3,1,1,3>>,
      <<3,1,3,3>>, <<3,3,1,1>>>>
Bright(n) == [on |-> TRUE, dots |-> n]
Dark(n) == [on |-> FALSE, dots |-> n]
put_morse_letter(pattern) ==
    FoldLeft(LAMBDA lamp, mark : lamp \o <<Bright(mark), Dark(1)>>, <<>>, pattern) \o <<Dark(2)>>
LetterOf(ch) == IF ch \in 65..90 THEN ch - 64 ELSE IF ch \in 97..122 THEN ch - 96 ELSE 0
MorseStart == [k |-> 1, lamp |-> <<>>]
put_morse_str ==
    /\ morse.k <= Len(MorseText)
    /\ LET ch == MorseText[morse.k]
           shone == IF LetterOf(ch) > 0 THEN put_morse_letter(morse_letters[LetterOf(ch)])
                    ELSE IF ch = 32 THEN <<Dark(4)>> ELSE <<>>
       IN  morse' = [k |-> morse.k + 1, lamp |-> morse.lamp \o shone]
(* main repeats the string after a second. *)
MorseAgain == morse.k > Len(MorseText) /\ morse' = MorseStart
MorseNext == put_morse_str \/ MorseAgain

(* The reader of a lamp: three dots of darkness end a letter, seven end a word. *)
ReadLamp(lamp) ==
    FoldLeft(LAMBDA r, e :
        IF ~e.on THEN [r EXCEPT !.dark = @ + e.dots]
        ELSE LET gap == IF r.seen = <<>> THEN "word" ELSE IF r.dark >= 7 THEN "word"
                        ELSE IF r.dark >= 3 THEN "letter" ELSE "mark"
             IN  [dark |-> 0, seen |-> Append(r.seen, <<gap, e.dots>>)],
        [dark |-> 0, seen |-> <<>>], lamp).seen
(* What it should see of a text. *)
MarksOf(text) ==
    FoldLeft(LAMBDA r, ch :
        IF LetterOf(ch) = 0 THEN [r EXCEPT !.gap = "word"]
        ELSE LET p == morse_letters[LetterOf(ch)]
             IN  [gap |-> "letter",
                  seen |-> r.seen \o [k \in 1..Len(p) |->
                                        <<IF k = 1 THEN r.gap ELSE "mark", p[k]>>]],
        [gap |-> "word", seen |-> <<>>], text).seen

(* MorseReads: a reader who knows the gaps reads the letters and words of the string *)
(* from the lamp, wherever the program is in it.                                     *)
MorseReads == ReadLamp(morse.lamp) = MarksOf(SubSeq(MorseText, 1, morse.k - 1))

-----------------------------------------------------------------------------
(* pio/clocked_input.  A byte that finds the joined receive FIFO full is lost. *)
JoinedFifo == 8
ClkStart == [out |-> 0, fifo |-> <<>>, in |-> <<>>]
ClkWrite == /\ clk.out < BUF_SIZE8
            /\ clk' = [clk EXCEPT !.out = @ + 1,
                          !.fifo = IF Len(@) < JoinedFifo THEN Append(@, clk.out + 1) ELSE @]
ClkRead == /\ clk.out = BUF_SIZE8 /\ clk.fifo # <<>> /\ Len(clk.in) < BUF_SIZE8
           /\ clk' = [clk EXCEPT !.fifo = Tail(@), !.in = Append(@, Head(clk.fifo))]
ClkNext == ClkWrite \/ ClkRead
(* ClockedInputIsComplete: the bytes read back are the ones sent, and the blocking read *)
(* finds a byte as long as one is due.                                                 *)
ClockedInputIsComplete ==
    /\ clk.in = [k \in 1..Len(clk.in) |-> k]
    /\ clk.out = BUF_SIZE8 /\ Len(clk.in) < BUF_SIZE8 => clk.fifo # <<>>

-----------------------------------------------------------------------------
(* usb/host/host_cdc_msc_hid: tuh_task, host_blinking_task and cdc_app_task in turn.    *)
(* A character is its number; 0 is a NUL, at which board_getchar's result ends a batch. *)
HostStart == [pc |-> "task", now |-> 0, start_ms |-> 0, led |-> FALSE, lag |-> 0,
              keys |-> <<>>, typed |-> 0, mounted |-> FALSE, due |-> <<>>, got |-> <<>>,
              rx |-> <<>>, said |-> 0, printed |-> <<>>]
(* The stack may mount or unmount the device or hand over what it has received; *)
(* time passes and the user types meanwhile.                                   *)
tuh_task ==
    /\ cdcHost.pc = "task"
    /\ \E ms \in 0..BlinkMs + 1 :
          /\ cdcHost.lag + ms <= MaxLag
          /\ LET h == [cdcHost EXCEPT !.pc = "blink", !.now = (@ + ms) % ClockWrap, !.lag = @ + ms]
             IN  \/ cdcHost' = h
                 \/ cdcHost' = [h EXCEPT !.mounted = ~@, !.due = <<>>, !.got = <<>>, !.rx = <<>>]
HostType ==
    /\ cdcHost.pc = "task" /\ cdcHost.typed < Typed
    /\ \E ch \in {0, cdcHost.typed + 1} : cdcHost' = [cdcHost EXCEPT !.typed = @ + 1, !.keys = Append(@, ch)]
(* The device's characters come in a packet; the callback prints up to a buffer of them. *)
HostReceive == /\ cdcHost.pc = "task" /\ cdcHost.mounted /\ cdcHost.said < Typed
               /\ cdcHost' = [cdcHost EXCEPT !.said = @ + 1, !.rx = Append(@, cdcHost.said + 1)]
tuh_cdc_rx_cb ==
    /\ cdcHost.pc = "task" /\ cdcHost.mounted /\ cdcHost.rx # <<>>
    /\ LET n == IF Len(cdcHost.rx) < CdcBuf THEN Len(cdcHost.rx) ELSE CdcBuf
       IN  cdcHost' = [cdcHost EXCEPT !.printed = @ \o SubSeq(cdcHost.rx, 1, n),
                                !.rx = SubSeq(@, n + 1, Len(@))]
host_blinking_task ==
    /\ cdcHost.pc = "blink"
    /\ cdcHost' = IF (cdcHost.now - cdcHost.start_ms) % ClockWrap < BlinkMs
               THEN [cdcHost EXCEPT !.pc = "cdc"]
               ELSE [cdcHost EXCEPT !.pc = "cdc", !.start_ms = (@ + BlinkMs) % ClockWrap,
                                 !.led = ~@, !.lag = @ - BlinkMs]
(* The characters before a NUL, at most a buffer of them; a NUL itself is taken and dropped. *)
get_console_inputs(keys) ==
    LET nuls == {k \in 1..Len(keys) : keys[k] = 0}
        n == CHOOSE m \in 0..Len(keys) :
                /\ m <= CdcBuf /\ \A k \in 1..m : k \notin nuls
                /\ m = CdcBuf \/ m = Len(keys) \/ m + 1 \in nuls
    IN  [batch |-> SubSeq(keys, 1, n),
         rest |-> SubSeq(keys, (IF n < CdcBuf /\ n < Len(keys) THEN n + 2 ELSE n + 1), Len(keys))]
cdc_app_task ==
    /\ cdcHost.pc = "cdc"
    /\ LET in == get_console_inputs(cdcHost.keys)
           plain == SelectSeq(SubSeq(cdcHost.keys, 1, Len(cdcHost.keys) - Len(in.rest)), LAMBDA c : c # 0)
       IN  cdcHost' = [cdcHost EXCEPT !.pc = "task", !.keys = in.rest,
                        !.due = IF cdcHost.mounted THEN @ \o plain ELSE @,
                        !.got = IF cdcHost.mounted THEN @ \o in.batch ELSE @]
HostNext == tuh_task \/ HostType \/ HostReceive \/ tuh_cdc_rx_cb \/ host_blinking_task \/ cdc_app_task

(* BridgeAndBlink: the device gets every character taken from the console while it is  *)
(* mounted, in order and once; what it says is printed in order; and the lamp's clock is *)
(* behind the time by exactly what the loop still has to catch up, over a clock's wrap.   *)
BridgeAndBlink ==
    /\ cdcHost.got = cdcHost.due
    /\ \A k \in 1..Len(cdcHost.printed) - 1 : cdcHost.printed[k] < cdcHost.printed[k + 1]
    /\ (cdcHost.now - cdcHost.start_ms) % ClockWrap = cdcHost.lag

-----------------------------------------------------------------------------
(* adc/adc_console.  A sample is the channel it is of and whether this capture took it. *)
(* Once a capture has enabled the FIFO, a single reading is stored in it as well.       *)
ConsoleStart == [pc |-> "key", ch |-> 0, fifo |-> <<>>, enabled |-> FALSE, buf |-> <<>>,
                 singles |-> 0, late |-> 0, out |-> FALSE, wiggle |-> {}]
Pushed(f, s) == IF Len(f) < AdcFifo THEN Append(f, s) ELSE f
ConsoleKey ==
    /\ console.pc = "key"
    /\ \/ \E c \in 0..7 : c \in {0, 7} /\ console' = [console EXCEPT !.ch = c]
       \/ console' = [console EXCEPT !.singles = IF console.enabled /\ @ < AdcFifo THEN @ + 1 ELSE @,
              !.fifo = IF console.enabled THEN Pushed(@, [ch |-> console.ch, now |-> FALSE]) ELSE @]
       \/ console' = [console EXCEPT !.pc = "capture", !.enabled = TRUE, !.buf = <<>>]
       \/ console' = [console EXCEPT !.pc = "wiggle", !.out = TRUE, !.wiggle = {0}]
(* The free-running converter and the loop that empties its FIFO. *)
AdcConvert == /\ console.pc = "capture"
              /\ console' = [console EXCEPT !.fifo = Pushed(@, [ch |-> console.ch, now |-> TRUE])]
adc_capture ==
    /\ console.pc = "capture" /\ console.fifo # <<>>
    /\ LET buf == Append(console.buf, Head(console.fifo))
           full == Len(buf) = N_SAMPLES
           stopped == [console EXCEPT !.buf = buf, !.pc = "captured", !.fifo = <<>>]
       IN  console' = IF ~full THEN [console EXCEPT !.buf = buf, !.fifo = Tail(@)] ELSE stopped
(* A conversion under way when the converter is stopped may end after the drain. *)
AdcStopped ==
    /\ console.pc = "captured"
    /\ \E late \in {0, 1} :
          console' = [console EXCEPT !.pc = "key", !.singles = 0, !.late = late, !.buf = <<>>,
                         !.fifo = [k \in 1..late |-> [ch |-> console.ch, now |-> FALSE]]]
(* All pins for a turn, then one pin after the other: the shifted int runs out after bit 31. *)
wiggle ==
    /\ console.pc = "wiggle"
    /\ \/ console' = [console EXCEPT !.wiggle = IF @ = 0..31 THEN {0} ELSE IF @ = {31} THEN 0..31
                                                ELSE {k + 1 : k \in @}]
       \/ console' = [console EXCEPT !.pc = "key", !.out = FALSE, !.wiggle = {}]
ConsoleNext == ConsoleKey \/ AdcConvert \/ adc_capture \/ AdcStopped \/ wiggle

(* CaptureIsLive: of a finished capture only the first samples can be older than it, and no *)
(* more than were read singly, or were under way, since the capture before; the rest are of *)
(* the channel selected.  The pins are driven only while they are wiggled.                   *)
CaptureIsLive ==
    /\ console.pc = "captured" =>
          LET old == {k \in 1..N_SAMPLES : ~console.buf[k].now}
          IN  /\ old = 1..Cardinality(old)
              /\ Cardinality(old) <= console.singles + console.late
              /\ \A k \in 1..N_SAMPLES \ old : console.buf[k].ch = console.ch
    /\ console.out <=> console.pc = "wiggle"

-----------------------------------------------------------------------------
SignalPrograms == {"ir_loopback", "dht", "hello_7segment", "blinky", "clocked_input", "host",
                   "adc_console"}
SignalInit ==
    /\ program \in SignalPrograms
    /\ nec \in {NecStart(f) : f \in IF program = "ir_loopback" THEN FreePio ELSE {<<32, 4>>}}
    /\ dht = DhtIdle /\ seg = SegStart /\ morse = MorseStart /\ clk = ClkStart
    /\ cdcHost = HostStart /\ console = ConsoleStart
SignalNext ==
    /\ UNCHANGED program
    /\ \/ program = "ir_loopback" /\ NecNext /\ UNCHANGED <<dht, seg, morse, clk, cdcHost, console>>
       \/ program = "dht" /\ DhtNext /\ UNCHANGED <<nec, seg, morse, clk, cdcHost, console>>
       \/ program = "hello_7segment" /\ SegNext /\ UNCHANGED <<nec, dht, morse, clk, cdcHost, console>>
       \/ program = "blinky" /\ MorseNext /\ UNCHANGED <<nec, dht, seg, clk, cdcHost, console>>
       \/ program = "clocked_input" /\ ClkNext /\ UNCHANGED <<nec, dht, seg, morse, cdcHost, console>>
       \/ program = "host" /\ HostNext /\ UNCHANGED <<nec, dht, seg, morse, clk, console>>
       \/ program = "adc_console" /\ ConsoleNext /\ UNCHANGED <<nec, dht, seg, morse, clk, cdcHost>>
SignalSpec == SignalInit /\ [][SignalNext]_signalVars

==============================================================================
