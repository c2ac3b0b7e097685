------------------------------- MODULE Frames -------------------------------
(***************************************************************************)
(* What goes out: the bytes of the SPI devices, the pulse trains of the    *)
(* LED and the levels of the discrete outputs io1..io3. Every routine that *)
(* builds a frame is an operator from its arguments to bytes, pulses or    *)
(* pins. The readings on the other side are the devices' (external).       *)
(***************************************************************************)
EXTENDS Integers, Sequences, FiniteSets

CONSTANTS Freqs, Words   \* bounds: the arguments tried

\* Below the clock of the AD9833, 25 MHz, a frequency has a tuning word of 28 bits;
\* the AD5664 takes an uint16_t.
Tunable == {f \in Nat : f < 25000000}
Uint16  == {n \in Nat : n < 65536}

ASSUME FramesAssumption == Freqs \subseteq Tunable /\ Words \subseteq Uint16

\* freq * 2^28 / 25.0e6, cut to an integer; 2^28 / 25.0e6 = 10 + 288054 / 390625.
nReg(freq) == freq * 10 + (freq * 288054) \div 390625

\* set_freq: two registers of fourteen bits behind the flag 0x4000, and 0x2000.
AD9833Bytes(freq) ==
    LET lo == 16384 + (nReg(freq) % 16384)
        hi == 16384 + ((nReg(freq) \div 16384) % 16384)
    IN  <<lo \div 256, lo % 256, hi \div 256, hi % 256, 32, 0>>

CMD_SETA_UPDATEA == 24
CMD_SETB_UPDATEB == 25

\* Mutant of outPutValue: the low byte is sent first.
OutPutValueSwapped(cmd_byte, input) == <<cmd_byte, input % 256, (input \div 256) % 256>>

\* outPutValue and writeValue; the int of writeA and writeB becomes a uint16_t.
outPutValue(cmd_byte, input) == <<cmd_byte, (input \div 256) % 256, input % 256>>

\* The registers that initialize writes with DAC_WR_REG: reset, power up, the
\* internal reference, gain and LDAC.
DAC8563Init == [k \in 1..5 |->
    LET reg == <<<<40, 1>>, <<32, 3>>, <<56, 1>>, <<2, 0>>, <<48, 3>>>>[k]
    IN  <<reg[1], reg[2] \div 256, reg[2] % 256>>]

\* AD56X4Class::writeMessage: three bits of command, three of address.
writeMessage(command, address, data) ==
    <<((command \div 8) % 8) * 8 + (address % 8), data \div 256, data % 256>>

\* Command 21 writes the input register (command 0), then updates the channel.
AD5664Bytes(channel, value) ==
    <<writeMessage(0, channel, value), writeMessage(8, channel, 0)>>

\* setChannel for the three set modes only, powerUpDown, setInputMode, reset
\* and useInternalReference of the class; a mask has channel D as bit 3.
setChannel(setMode, channel, value) ==
    IF setMode \in {0, 24, 16} THEN <<writeMessage(setMode, channel, value)>> ELSE <<>>
setChannels(setMode, values) ==
    IF setMode \in {0, 24, 16}
    THEN [k \in 1..4 |-> writeMessage(setMode, 4 - k, values[k])] ELSE <<>>
makeChannelMask(d, c, b, a) == 8 * d + 4 * c + 2 * b + a
powerUpDown(powerMode, mask) ==
    writeMessage(32, 0, ((powerMode \div 16) % 4) * 16 + (mask % 16))
powerUpDownAll(modes) == [k \in 1..4 |-> powerUpDown(modes[k], 2^(k - 1))]
setInputMode(mask) == writeMessage(48, 0, mask)
resetDac(full) == writeMessage(40, 0, full)
useInternalReference(yesno) == writeMessage(56, 0, yesno)

\* The LED: a pulse of 85 cycles is a one, of 35 a zero; eight each of green,
\* red and blue.
Pulse(cycles, n) == [k \in 1..n |-> cycles]
activateGreen == Pulse(85, 8) \o Pulse(35, 16)
activateRed   == Pulse(35, 8) \o Pulse(85, 8) \o Pulse(35, 8)
activateBlue  == Pulse(35, 16) \o Pulse(85, 8)
activateDark  == Pulse(35, 24)
\* green(), blue(), red() and dark(): three rounds of three dark frames and one.
Blink(frame) == LET round == <<activateDark, activateDark, activateDark, frame>>
                IN  round \o round \o round

\* The pins of a port, from bit 0 up.
PortPins == << <<"io1_0", "io1_1">>, <<"io2_0", "io2_1", "io2_2">>, <<"io3_0", "io3_1">> >>
\* setDefaultSettings pushes them in this order: index 0 is io1_0.
io_ports == PortPins[1] \o PortPins[2] \o PortPins[3]

\* std::bitset<n>(value): the low bits of value.
Bit(value, b) == (value \div 2^b) % 2

VARIABLES
    pins,   \* the discrete outputs that are high
    want,   \* history: per port the number its pins should show
    out     \* history: the last frames, and what they were asked to carry

frameVars == <<pins, want, out>>

Nothing == [of |-> "none"]

\* The outputs start low; setDefaultSettings lowers io3_1 once more.
FramesInit == pins = {} /\ want = [p \in 1..3 |-> 0] /\ out = Nothing

\* Mutant: the first character of the string is taken for bit 0.
SetIoReversed(port, value) ==
    /\ port \in 1..3
    /\ LET P == PortPins[port]
           up == {P[b] : b \in {x \in DOMAIN P : Bit(value, Len(P) - x) = 1}}
       IN  pins' = (pins \ {P[b] : b \in DOMAIN P}) \cup up
    /\ want' = [want EXCEPT ![port] = value % 2^Len(PortPins[port])]
    /\ out' = Nothing

\* set_io_value: every pin of the port from its bit; other ports untouched.
set_io_value(port, value) ==
    /\ port \in 1..3
    /\ LET P == PortPins[port]
           up == {P[b] : b \in {x \in DOMAIN P : Bit(value, x - 1) = 1}}
       IN  pins' = (pins \ {P[b] : b \in DOMAIN P}) \cup up
    /\ want' = [want EXCEPT ![port] = value % 2^Len(PortPins[port])]
    /\ out' = Nothing

\* Command 61: one pin by its place in io_ports, high for 1 and low otherwise.
SetOneIo(k, level) ==
    /\ pins' = IF level = 1 THEN pins \cup {io_ports[k]} ELSE pins \ {io_ports[k]}
    /\ \E p \in 1..3, b \in 0..2 :
          /\ b + 1 \in DOMAIN PortPins[p] /\ PortPins[p][b + 1] = io_ports[k]
          /\ want' = [want EXCEPT ![p] = @ - Bit(@, b) * 2^b + (IF level = 1 THEN 2^b ELSE 0)]
    /\ out' = Nothing

Send(frame) == out' = frame /\ UNCHANGED <<pins, want>>

SendFreq == \E f \in Freqs : Send([of |-> "AD9833", asked |-> f, bytes |-> AD9833Bytes(f)])
SendDac ==
    \E v \in Words, c \in {CMD_SETA_UPDATEA, CMD_SETB_UPDATEB} :
        Send([of |-> "DAC8563", asked |-> v, bytes |-> outPutValue(c, v)])
SendAd5664 ==
    \E v \in Words, ch \in 0..3 :
        Send([of |-> "AD5664", asked |-> v, channel |-> ch, bytes |-> AD5664Bytes(ch, v)])
\* The rest of the class: four channels at once, power modes and masks.
SendAd56x4Class ==
    \/ \E m \in {0, 8, 16, 24}, v \in [1..4 -> {0, 257}] :
          Send([of |-> "channels", asked |-> v, mode |-> m, bytes |-> setChannels(m, v)])
    \/ \E m \in [1..4 -> {16, 32}] :
          Send([of |-> "power", asked |-> m, bytes |-> powerUpDownAll(m)])
    \/ \E d, c, b, a \in 0..1 :
          LET mask == makeChannelMask(d, c, b, a) IN
          Send([of |-> "mask", asked |-> {k \in 0..3 : <<a, b, c, d>>[k + 1] = 1},
                bytes |-> <<powerUpDown(32, mask), setInputMode(mask), resetDac(d),
                            useInternalReference(c)>>])

\* set_gain: the buffer holds one byte, three go out; the two behind it are whatever
\* the stack holds there.
SendGain ==
    \E gain \in Words, behind \in [1..2 -> {0, 255}] :
        Send([of |-> "AD8400", asked |-> gain, bytes |-> <<gain % 256>> \o behind])

ShowLed ==
    \E c \in {"green", "red", "blue", "dark"} :
        Send([of |-> "LED", asked |-> c, bytes |->
              Blink(CASE c = "green" -> activateGreen [] c = "red" -> activateRed
                      [] c = "blue" -> activateBlue [] OTHER -> activateDark)])

FramesNext ==
    \/ \E port \in 1..3, value \in 0..9 : set_io_value(port, value)
    \/ \E k \in 1..7, level \in 0..2 : SetOneIo(k, level)
    \/ SendFreq \/ SendDac \/ SendAd5664 \/ SendAd56x4Class \/ SendGain \/ ShowLed

FramesSpec == FramesInit /\ [][FramesNext]_frameVars

-----------------------------------------------------------------------------

\* How the devices read a frame (data sheets): external.
ReadAD9833(b) == (b[1] % 64) * 256 + b[2] + 16384 * ((b[3] % 64) * 256 + b[4])
Data(b) == b[2] * 256 + b[3]
ReadLed(train) ==
    LET Ones(from) == \A k \in from .. from + 7 : train[k] > 60 IN
    IF Ones(1) THEN "green" ELSE IF Ones(9) THEN "red" ELSE IF Ones(17) THEN "blue" ELSE "dark"

(* The pins of every port show the last number written to it, with the single
   pins set since: writing one port or one pin leaves the other ports alone. *)
OutputsShowLast ==
    \A p \in 1..3 :
        want[p] = LET P == PortPins[p]
                      V(b) == IF b \in DOMAIN P /\ P[b] \in pins THEN 2^(b - 1) ELSE 0
                  IN  V(1) + V(2) + V(3)

\* set_freq: the frequency to the step of the generator (93 mHz), in two halves.
GeneratorReads ==
    out.of = "AD9833" =>
        LET n == ReadAD9833(out.bytes) IN
        /\ n = nReg(out.asked)
        /\ out.asked < 512 => /\ n * 390625 <= out.asked * 4194304
                              /\ out.asked * 4194304 - n * 390625 < 390625
        /\ \A k \in {1, 3} : out.bytes[k] \div 64 = 1
        /\ \A k \in DOMAIN out.bytes : out.bytes[k] \in 0..255

\* writeA, writeB and command 21: the sixteen bits, on the channel meant.
DacsRead ==
    /\ out.of = "DAC8563" =>
          Data(out.bytes) = out.asked % 65536
    /\ out.of = "AD5664" =>
          /\ Data(out.bytes[1]) = out.asked
          /\ out.bytes[1][1] = out.channel /\ out.bytes[2][1] = 8 + out.channel

\* The class AD56X4: four values, four power modes, and masks of channels.
ClassReads ==
    /\ out.of = "channels" =>
          IF out.mode = 8 THEN out.bytes = <<>>
          ELSE \A ch \in 0..3 : \E k \in 1..4 :
                  /\ out.bytes[k][1] = out.mode + ch
                  /\ Data(out.bytes[k]) = out.asked[4 - ch]
    /\ out.of = "power" =>
          \A ch \in 0..3 : Data(out.bytes[ch + 1]) = out.asked[ch + 1] + 2^ch
    /\ out.of = "mask" =>
          \A ch \in 0..3, k \in 1..2 :
              Bit(Data(out.bytes[k]), ch) = 1 <=> ch \in out.asked

\* green(), blue(), red(), dark(): the colour in the last of each four frames.
LedShows ==
    out.of = "LED" =>
        \A k \in DOMAIN out.bytes :
            ReadLed(out.bytes[k]) = (IF k % 4 = 0 THEN out.asked ELSE "dark")

(* What a device reads is what was asked for, and the discrete outputs show the
   last numbers written to them. The exception is the AD8400 of set_gain, which keeps
   the last ten of the bits it is sent: they are none of the gain's. *)
FramesCarryValue ==
    OutputsShowLast /\ GeneratorReads /\ DacsRead /\ ClassReads /\ LedShows
=============================================================================
