----------------------------- MODULE DmaExamples -----------------------------
(***************************************************************************)
(* The programs that move data with the DMA: a copy (dma/hello_dma), control *)
(* blocks that reprogram a channel (dma/control_blocks), a channel restarted *)
(* by its interrupt (dma/channel_irq), a sniffed CRC (dma/sniff_crc), an SPI *)
(* loopback (spi/spi_dma), the XIP stream and the SSI as sources             *)
(* (flash/xip_stream, flash/ssi_dma), the ADC FIFO (adc/dma_capture) and the *)
(* pins a state machine samples (pio/logic_analyser).  `ex` is the program   *)
(* that runs.  The channels are the hardware's: a transfer when the request  *)
(* line allows, a chain, a null trigger.  A 32-bit word of the CRC, and a    *)
(* word of the logic analyser, is the set of its bits that are one.          *)
(***************************************************************************)
EXTENDS Integers, Sequences, SequencesExt, FiniteSets, TLC

CONSTANTS DATA_TO_CHECK_LEN, FifoDepth, PWM_REPEAT_COUNT, N_PWM_LEVELS, MaxWords, CAPTURE_DEPTH,
          SHIFT_REG_WIDTH, CAPTURE_PIN_COUNT, CAPTURE_N_SAMPLES

VARIABLES ex, dmaPc, ch, dst, fifo, fifoIn, wireOut,
          sniffer, pwm_level, stream_ctr, ssi, conversions, isr

dmaVars == <<ex, dmaPc, ch, dst, fifo, fifoIn, wireOut, sniffer, pwm_level, stream_ctr, ssi,
             conversions, isr>>

Programs == {"hello", "blocks", "irq", "sniff", "spi", "xip", "ssi", "adc", "logic"}

(* "word" data: each letter stands for itself. *)
src == <<"h", "e", "l", "l", "o">>
word0 == <<"T", "r", " ">>
word1 == <<"o">>
word2 == <<"\n", ".">>
control_blocks == <<Len(word0), "word0", Len(word1), "word1", Len(word2), "word2", 0, "NULL">>
wavetable(i) == (2^i) - 1
txbuf == <<7, 1, 4, 1, 5>>
random_test_data == <<11, 12, 13>>
flashWords == <<<<1, 2, 3, 4>>, <<5, 6, 7, 8>>, <<9, 10, 11, 12>>>>

-----------------------------------------------------------------------------
BitsOf(x, n) == {b \in 0 .. n - 1 : (x \div 2^b) % 2 = 1}
Xored(a, b) == (a \cup b) \ (a \cap b)
Ones == 0 .. 31
(* 0xEDB88320 and its mirror image 0x04C11DB7. *)
Poly == {5, 8, 9, 15, 19, 20, 21, 23, 24, 26, 27, 29, 30, 31}
Mirror(s, n) == {n - 1 - b : b \in s}

ShiftedRight(s) == {b - 1 : b \in s \ {0}}
CrcBit(crc, bit) == Xored(ShiftedRight(crc), IF (0 \in crc) # bit THEN Poly ELSE {})
soft_crc32_block(crc, bytes) ==
    LET after[n \in 0 .. 8 * Len(bytes)] ==
            IF n = 0 THEN crc
            ELSE CrcBit(after[n - 1], ((n - 1) % 8) \in bytes[((n - 1) \div 8) + 1])
    IN  after[8 * Len(bytes)]

(* The first digits of "123456789" and their CRC, least significant byte first. *)
Checked == [i \in 1 .. DATA_TO_CHECK_LEN |-> BitsOf(48 + i, 8)]
CrcBytes(c) == [i \in 1 .. 4 |-> {b - (8 * (i - 1)) : b \in c \cap (8 * (i - 1) .. (8 * i) - 1)}]
Sniffed == Checked \o CrcBytes(soft_crc32_block(Ones, Checked))

(* The sniffer's CRC32R: the mirrored polynomial shifts left over mirrored bytes. *)
SniffByte(acc, byte) ==
    FoldLeft(LAMBDA c, k :
               Xored({b + 1 : b \in c \ {31}},
                     IF (31 \in c) # (k \in byte) THEN Mirror(Poly, 32) ELSE {}),
             acc, <<0, 1, 2, 3, 4, 5, 6, 7>>)

-----------------------------------------------------------------------------
Data == ("src" :> src) @@ ("word0" :> word0) @@ ("word1" :> word1) @@ ("word2" :> word2)
        @@ ("blocks" :> control_blocks) @@ ("txbuf" :> txbuf) @@ ("sniffed" :> Sniffed)
        @@ ("table" :> [i \in 1 .. N_PWM_LEVELS |-> wavetable(i - 1)])

(* dma_channel_get_default_config, and a channel that is not used. *)
Default == [busy |-> FALSE, read |-> "NULL", ri |-> 1, rinc |-> TRUE, write |-> "NULL", wi |-> 1,
            winc |-> FALSE, ring |-> 0, dreq |-> "none", count |-> 0, reload |-> 0,
            chain |-> "none", quiet |-> FALSE, irq |-> FALSE]

FromFifo(n) == [Default EXCEPT !.read = "fifo", !.rinc = FALSE, !.write = "dst", !.winc = TRUE,
                               !.dreq = "rx", !.reload = n]

bits_packed_per_word == SHIFT_REG_WIDTH - (SHIFT_REG_WIDTH % CAPTURE_PIN_COUNT)
buf_size_words == ((CAPTURE_N_SAMPLES * CAPTURE_PIN_COUNT) + bits_packed_per_word - 1)
                     \div bits_packed_per_word

hello_dma == [a |-> [Default EXCEPT !.read = "src", !.write = "dst", !.winc = TRUE,
                                    !.reload = Len(src)], b |-> Default]
control_channels ==
    [a |-> [Default EXCEPT !.read = "blocks", !.write = "al3", !.wi = 0, !.winc = TRUE,
                           !.ring = 2, !.reload = 2],
     b |-> [Default EXCEPT !.write = "fifo", !.dreq = "tx", !.chain = "a", !.quiet = TRUE]]
pwm_channel == [a |-> [Default EXCEPT !.read = "table", !.rinc = FALSE, !.write = "fifo",
                                      !.dreq = "tx", !.reload = PWM_REPEAT_COUNT],
                b |-> Default]
sniff_channel == [a |-> [Default EXCEPT !.read = "sniffed", !.write = "dummy",
                                        !.reload = Len(Sniffed)], b |-> Default]
spi_channels == [a |-> [Default EXCEPT !.read = "txbuf", !.write = "fifo", !.dreq = "tx",
                                       !.reload = Len(txbuf)],
                 b |-> [FromFifo(Len(txbuf)) EXCEPT !.read = "fifoIn", !.dreq = "rxIn"]]
xip_channel == [a |-> FromFifo(Len(random_test_data)), b |-> Default]
ssi_channel == [a |-> FromFifo(Len(flashWords)), b |-> Default]
adc_channel == [a |-> FromFifo(CAPTURE_DEPTH), b |-> Default]
logic_channel == [a |-> FromFifo(buf_size_words), b |-> Default]

Configured ==
    CASE ex = "hello" -> hello_dma [] ex = "blocks" -> control_channels
      [] ex = "irq" -> pwm_channel [] ex = "sniff" -> sniff_channel [] ex = "spi" -> spi_channels
      [] ex = "xip" -> xip_channel [] ex = "ssi" -> ssi_channel [] ex = "adc" -> adc_channel
      [] ex = "logic" -> logic_channel

DmaInit ==
    /\ ex \in Programs /\ dmaPc = "start"
    /\ ch = [a |-> Default, b |-> Default] /\ dst = <<>>
    /\ fifo \in CASE ex = "xip" -> {<<>>, <<0>>} [] ex = "logic" -> {<<>>, <<{}>>} [] OTHER -> {<<>>}
    /\ fifoIn = <<>> /\ wireOut = <<>> /\ sniffer = {} /\ pwm_level = 0
    /\ stream_ctr = 0 /\ ssi = [ndf |-> 0, dma |-> FALSE, frames |-> 0]
    /\ conversions = <<>> /\ isr = [bits |-> {}, n |-> 0]

-----------------------------------------------------------------------------
Triggered(c) == [c EXCEPT !.busy = TRUE, !.count = c.reload]

(* The channels configured, the source started; spi starts both channels at once, the
   interrupt program calls its handler once. *)
StartSource ==
    /\ ch' = [c \in {"a", "b"} |-> IF c = "a" \/ ex = "spi" THEN Triggered(Configured[c])
                                   ELSE Configured[c]]
    /\ sniffer' = Ones
    /\ stream_ctr' = IF ex = "xip" THEN Len(random_test_data) ELSE 0
    /\ ssi' = IF ex = "ssi" THEN [ndf |-> Len(flashWords) - 1, dma |-> TRUE,
                                  frames |-> Len(flashWords)] ELSE ssi
    /\ pwm_level' = IF ex = "irq" THEN 1 % N_PWM_LEVELS ELSE pwm_level
    /\ UNCHANGED <<ex, dst, fifoIn, wireOut, conversions, isr>>

StartUndrained == dmaPc = "start" /\ dmaPc' = "wait" /\ StartSource /\ UNCHANGED fifo
(* main up to its wait; xip drains the FIFO first, logic clears its state machine's. *)
Start == dmaPc = "start" /\ dmaPc' = "wait" /\ StartSource /\ fifo' = <<>>

Requested(c) ==
    CASE ch[c].dreq = "tx" -> Len(fifo) < FifoDepth
      [] ch[c].dreq = "rx" -> fifo # <<>>
      [] ch[c].dreq = "rxIn" -> fifoIn # <<>>
      [] OTHER -> TRUE

ReadBy(c) ==
    CASE ch[c].read = "fifo" -> Head(fifo)
      [] ch[c].read = "fifoIn" -> Head(fifoIn)
      [] OTHER -> Data[ch[c].read][ch[c].ri]

(* The channel after a transfer, and after its last one. *)
Moved(c) ==
    LET m == [ch[c] EXCEPT !.count = @ - 1, !.ri = IF ch[c].rinc THEN @ + 1 ELSE @,
                           !.wi = IF ~ch[c].winc THEN @
                                  ELSE IF ch[c].ring = 0 THEN @ + 1 ELSE (@ + 1) % ch[c].ring]
    IN IF ch[c].count = 1 THEN [m EXCEPT !.busy = FALSE, !.irq = @ \/ ~ch[c].quiet] ELSE m

Chained(f, c) ==
    IF f[c].busy \/ f[c].chain = "none" THEN f
    ELSE [f EXCEPT ![f[c].chain] = Triggered(f[f[c].chain])]

(* ssi_dma asks for a byte swap: the SSI delivers its words big end first. *)
StoredAt(v) == IF ex = "ssi" THEN Reverse(v) ELSE v

Transfer(c) ==
    /\ ch[c].busy /\ ch[c].write # "al3" /\ Requested(c)
    /\ LET v == ReadBy(c)
       IN /\ fifo' = IF ch[c].read = "fifo" THEN Tail(fifo)
                     ELSE IF ch[c].write = "fifo" THEN Append(fifo, v) ELSE fifo
          /\ fifoIn' = IF ch[c].read = "fifoIn" THEN Tail(fifoIn) ELSE fifoIn
          /\ dst' = IF ch[c].write = "dst" THEN Append(dst, StoredAt(v)) ELSE dst
          /\ sniffer' = IF ex = "sniff" THEN SniffByte(sniffer, v) ELSE sniffer
    /\ ch' = Chained([ch EXCEPT ![c] = Moved(c)], c)
    /\ UNCHANGED <<ex, dmaPc, wireOut, pwm_level, stream_ctr, ssi, conversions, isr>>

(* The control channel writes the last two words of the data channel's alias 3: the
   transfer count, then the read address, which triggers unless it is null. *)
LoadControl ==
    /\ ch["a"].busy /\ ch["a"].write = "al3"
    /\ LET v == ReadBy("a")
           loaded == IF ch["a"].wi = 0 THEN [ch["b"] EXCEPT !.reload = v]
                     ELSE IF v = "NULL" THEN [ch["b"] EXCEPT !.irq = @ \/ ch["b"].quiet]
                     ELSE Triggered([ch["b"] EXCEPT !.read = v, !.ri = 1])
       IN ch' = [a |-> Moved("a"), b |-> loaded]
    /\ UNCHANGED <<ex, dmaPc, dst, fifo, fifoIn, wireOut, sniffer, pwm_level, stream_ctr, ssi,
                   conversions, isr>>

-----------------------------------------------------------------------------
(* The other end of the FIFOs. *)
Serialised ==
    /\ ex \in {"blocks", "irq"} /\ fifo # <<>> /\ Len(wireOut) < MaxWords
    /\ wireOut' = Append(wireOut, Head(fifo)) /\ fifo' = Tail(fifo)
    /\ UNCHANGED <<ex, dmaPc, ch, dst, fifoIn, sniffer, pwm_level, stream_ctr, ssi, conversions, isr>>

(* Loopback; the receive channel, once it runs, is served faster than the SPI shifts. *)
SpiShifts ==
    /\ ex = "spi" /\ fifo # <<>> /\ (ch["b"].busy => Len(fifoIn) < FifoDepth)
    /\ fifo' = Tail(fifo)
    /\ fifoIn' = IF Len(fifoIn) < FifoDepth THEN Append(fifoIn, Head(fifo)) ELSE fifoIn
    /\ UNCHANGED <<ex, dmaPc, ch, dst, wireOut, sniffer, pwm_level, stream_ctr, ssi, conversions, isr>>

XipStreams ==
    /\ ex = "xip" /\ stream_ctr > 0 /\ Len(fifo) < FifoDepth
    /\ fifo' = Append(fifo, random_test_data[Len(random_test_data) - stream_ctr + 1])
    /\ stream_ctr' = stream_ctr - 1
    /\ UNCHANGED <<ex, dmaPc, ch, dst, fifoIn, wireOut, sniffer, pwm_level, ssi, conversions, isr>>

SsiReads ==
    /\ ex = "ssi" /\ ssi.frames > 0 /\ Len(fifo) < FifoDepth
    /\ fifo' = Append(fifo, Reverse(flashWords[ssi.ndf + 2 - ssi.frames]))
    /\ ssi' = [ssi EXCEPT !.frames = @ - 1]
    /\ UNCHANGED <<ex, dmaPc, ch, dst, fifoIn, wireOut, sniffer, pwm_level, stream_ctr, conversions, isr>>

(* Free-running conversions until adc_run(false); the DMA is faster than the ADC. *)
AdcConverts ==
    /\ ex = "adc" /\ dmaPc = "wait" /\ Len(fifo) < FifoDepth /\ Len(conversions) < MaxWords
    /\ conversions' = Append(conversions, Len(conversions))
    /\ fifo' = Append(fifo, Len(conversions))
    /\ UNCHANGED <<ex, dmaPc, ch, dst, fifoIn, wireOut, sniffer, pwm_level, stream_ctr, ssi, isr>>

(* `in pins, n` with autopush: the word fills from the top and moves right. *)
PioSamples ==
    /\ ex = "logic" /\ dmaPc = "wait" /\ ch["a"].busy /\ Len(fifo) < FifoDepth
    /\ \E pins \in SUBSET (0 .. CAPTURE_PIN_COUNT - 1) :
        LET bits == {b - CAPTURE_PIN_COUNT : b \in {x \in isr.bits : x >= CAPTURE_PIN_COUNT}}
                      \cup {SHIFT_REG_WIDTH - CAPTURE_PIN_COUNT + q : q \in pins}
            full == isr.n + CAPTURE_PIN_COUNT >= bits_packed_per_word
        IN /\ conversions = <<>> => 0 \in pins       \* the trigger: wait gpio 1 on pin 0
           /\ conversions' = Append(conversions, pins)
           /\ isr' = IF full THEN [bits |-> {}, n |-> 0]
                     ELSE [bits |-> bits, n |-> isr.n + CAPTURE_PIN_COUNT]
           /\ fifo' = IF full THEN Append(fifo, bits) ELSE fifo
    /\ UNCHANGED <<ex, dmaPc, ch, dst, fifoIn, wireOut, sniffer, pwm_level, stream_ctr, ssi>>

-----------------------------------------------------------------------------
(* The interrupt: acknowledge, the next level's entry, trigger. *)
dma_handler ==
    /\ ex = "irq" /\ dmaPc = "wait" /\ ch["a"].irq /\ Len(wireOut) < MaxWords
    /\ ch' = [ch EXCEPT !["a"] = Triggered([@ EXCEPT !.irq = FALSE, !.ri = pwm_level + 1])]
    /\ pwm_level' = (pwm_level + 1) % N_PWM_LEVELS
    /\ UNCHANGED <<ex, dmaPc, dst, fifo, fifoIn, wireOut, sniffer, stream_ctr, ssi, conversions, isr>>

Panics == ex = "spi" /\ ch["a"].busy

(* Past the wait: for the channel, for the receive channel, or for the data channel's
   null trigger; then the source is stopped and put back as the program does. *)
Finish ==
    /\ dmaPc = "wait" /\ ex # "irq"
    /\ CASE ex = "blocks" -> ch["b"].irq [] ex = "spi" -> ~ch["b"].busy [] OTHER -> ~ch["a"].busy
    /\ dmaPc' = IF Panics THEN "panic" ELSE "done"
    /\ ch' = [ch EXCEPT !["b"].irq = FALSE]
    /\ fifo' = IF ex = "adc" THEN <<>> ELSE fifo
    /\ ssi' = IF ex = "ssi" THEN [ssi EXCEPT !.ndf = 0, !.dma = FALSE] ELSE ssi
    /\ UNCHANGED <<ex, dst, fifoIn, wireOut, sniffer, pwm_level, stream_ctr, conversions, isr>>

DmaNext == Start \/ (\E c \in {"a", "b"} : Transfer(c)) \/ LoadControl \/ Serialised \/ SpiShifts
           \/ XipStreams \/ SsiReads \/ AdcConverts \/ PioSamples \/ dma_handler \/ Finish

-----------------------------------------------------------------------------
(* The printed mark of a pin at a sample. *)
print_capture_buf(pin, sample) ==
    LET bit_index == pin + (sample * CAPTURE_PIN_COUNT)
    IN ((bit_index % bits_packed_per_word) + SHIFT_REG_WIDTH - bits_packed_per_word)
          \in dst[(bit_index \div bits_packed_per_word) + 1]

Sent == wireOut \o fifo
(* What a program finds past its wait is what its source held, whole and in order: the
   buffers agree, the UART got every block, the levels follow each other, the sniffed
   CRC of data and CRC is zero and the samples printed are the pins'. *)
DmaDelivers ==
    /\ dmaPc # "panic"
    /\ ex = "irq" => \A i \in DOMAIN Sent :
          Sent[i] = wavetable(((i - 1) \div PWM_REPEAT_COUNT) % N_PWM_LEVELS)
    /\ dmaPc = "done" =>
         CASE ex = "hello" -> dst = src
           [] ex = "blocks" -> Sent = word0 \o word1 \o word2
           [] ex = "sniff" -> Mirror(sniffer, 32) = {}
           [] ex = "spi" -> dst = txbuf
           [] ex = "xip" -> dst = random_test_data
           [] ex = "ssi" -> dst = flashWords /\ fifo = <<>> /\ ssi.ndf = 0
           [] ex = "adc" -> dst = [i \in 1 .. CAPTURE_DEPTH |-> i - 1] /\ fifo = <<>>
           [] ex = "logic" -> \A pin \in 0 .. CAPTURE_PIN_COUNT - 1,
                                 sample \in 0 .. CAPTURE_N_SAMPLES - 1 :
                  print_capture_buf(pin, sample) <=> pin \in conversions[sample + 1]
=============================================================================
