------------------------------- MODULE SpiBus -------------------------------
(***************************************************************************)
(* One SPI bus serves five devices. Three decoder lines pick the chip      *)
(* select, spi_set_format picks word size, polarity and phase, and both    *)
(* stay as the last routine left them: a transfer goes to the device that  *)
(* happens to be selected, in the format that happens to be set.           *)
(*                                                                         *)
(* A routine of core 0 is the sequence of its bus operations; one step     *)
(* performs one of them. A read of the converter is one operation: core 0  *)
(* waits while the interrupt handler selects port 0 and reads, unless a    *)
(* stopAll has ended the wait first, when the handler leaves the bus alone *)
(* (AdcHandshake has the steps of that race). Bytes are left out here, see *)
(* Frames.                                                                 *)
(***************************************************************************)
EXTENDS Integers, Sequences

CONSTANTS AD5664Port, AD5664Format,  \* known to the host alone, which sends them
          AnyPorts, AnyFormats       \* what other numbers are taken for

ASSUME BusAssumption == AD5664Port \in 0..7 /\ AnyPorts \subseteq Int

\* The chip select and the format of each device.
Wired == [AD7606  |-> [port |-> 0, fmt |-> <<16, 1, 0>>],
          AD9833  |-> [port |-> 1, fmt |-> <<8, 1, 1>>],
          AD8400  |-> [port |-> 2, fmt |-> <<8, 0, 0>>],
          DAC8563 |-> [port |-> 3, fmt |-> <<8, 0, 1>>],
          AD5664  |-> [port |-> AD5664Port, fmt |-> AD5664Format]]

Select(p)  == [op |-> "select", port |-> p]
Format(f)  == [op |-> "format", fmt |-> f]
Write(dev) == [op |-> "write", dev |-> dev]
Dec(level) == [op |-> "dec", level |-> level]
Acquire    == [op |-> "acquire"]

\* set_freq: three words of two bytes.
set_freq == <<Select(1), Format(<<8, 1, 1>>)>> \o [i \in 1..3 |-> Write("AD9833")]

\* set_gain, with the default of its second parameter.
set_gain == <<Select(2), Format(<<8, 0, 0>>), Write("AD8400")>>

\* DAC8563::setSpiProps.
setSpiProps == <<Format(<<8, 0, 1>>)>>

\* DAC8563::writeA and writeB: the bytes go out, nothing is selected.
writeAB == <<Write("DAC8563")>>

\* Mutant: the format is left as it is.
SetOnCapNoFormat(channel) ==
    <<Select(3)>> \o (IF channel \in {1, 2} THEN writeAB ELSE <<>>)

\* set_on_cap: a channel other than 1 and 2 only selects.
set_on_cap(channel) ==
    <<Select(3)>> \o setSpiProps \o (IF channel \in {1, 2} THEN writeAB ELSE <<>>)

\* DAC8563::initialize: DAC_WR_REG five times, whose format is not set.
DAC_WR_REG(port) == <<Select(port)>> \o writeAB \o <<Select(7)>>
initialize(port) == DAC_WR_REG(port) \o DAC_WR_REG(port) \o DAC_WR_REG(port)
                        \o DAC_WR_REG(port) \o DAC_WR_REG(port)

\* AD56X4Class::writeMessage: the enable of the decoder goes down around it.
messageOps == <<Dec(FALSE), Write("AD5664"), Dec(TRUE)>>

\* The setup in every pass of the main loop, from the numbers of the last line.
Setup(line) == <<Select(line.port), Format(line.fmt)>>

\* What the sender of a device does after the setup.
Sender(dev) ==
    CASE dev = "AD5664" -> messageOps \o messageOps  \* setChannel, updateChannel
      [] dev = "AD7606" -> <<Acquire>>                   \* commands 12 and 6
      [] OTHER -> <<Write(dev)>>

\* The bus operations of a command; a line without port and format is an
\* arbitrary one for the setup of the same pass.
Routine(c, line) ==
    CASE c = "set_freq"   -> set_freq \o Setup(line)
      [] c = "set_gain"   -> set_gain \o Setup(line)
      [] c = "initialize" -> initialize(3) \o Setup(line)
      [] c = "scan"       -> set_on_cap(1) \o <<Acquire, Acquire>> \o set_on_cap(1)
                                 \o set_on_cap(2) \o Setup(line)
      [] c = "sweep"      -> set_freq \o <<Acquire>>       \* ends in continue
      [] c = "approach"   -> writeAB \o <<Acquire, Acquire>> \o writeAB
                                 \o <<Acquire, Acquire>> \o Setup(line)
      [] c = "get"        -> <<Acquire>>                   \* ends in continue
      [] OTHER            -> Setup(line) \o Sender(c)

\* Commands whose own line carries the port and the format of their device.
SenderCommands == {"DAC8563", "AD5664", "AD9833", "AD8400", "AD7606"}
Commands == SenderCommands
                \cup {"set_freq", "set_gain", "initialize", "scan", "sweep", "approach", "get"}

\* The lines a host sends: those of the senders name their device; the numbers
\* of the others are not ports and formats, but are taken for them.
Lines(c) == IF c \in SenderCommands THEN {Wired[c]}
            ELSE [port : AnyPorts, fmt : AnyFormats]

VARIABLES
    port,   \* the decoder lines portC, portB, portA
    fmt,    \* the format of the SPI peripheral
    dec,    \* the output port dec
    work,   \* core 0: the operations left of the routine it is in
    cmd,    \* core 0: the command it serves
    xfer    \* history: the last transfer, with the bus as it found it

busVars == <<port, fmt, dec, work, cmd, xfer>>

NoXfer == [dev |-> "none"]

\* After the constructors (the DAC8563 sets its format last) and
\* setDefaultSettings, which raises dec.
BusInit ==
    /\ port = 0 /\ fmt = <<8, 0, 1>> /\ dec = TRUE
    /\ work = <<>> /\ cmd = "get" /\ xfer = NoXfer

\* A command is due, or the loop goes round with the numbers of some line.
Begin ==
    /\ work = <<>>
    /\ \E c \in Commands : \E line \in Lines(c) :
          cmd' = c /\ work' = Routine(c, line)
    /\ UNCHANGED <<port, fmt, dec, xfer>>

Does(op) == work # <<>> /\ Head(work).op = op /\ work' = Tail(work) /\ UNCHANGED cmd

\* Decoder::activePort: bit i of the number on line i, three bits of it.
ActivePort ==
    /\ Does("select")
    /\ port' = Head(work).port % 8
    /\ UNCHANGED <<fmt, dec, xfer>>

SetProperties ==
    /\ Does("format")
    /\ fmt' = Head(work).fmt
    /\ UNCHANGED <<port, dec, xfer>>

SpiWrite ==
    /\ Does("write")
    /\ xfer' = [dev |-> Head(work).dev, by |-> cmd, port |-> port, fmt |-> fmt, dec |-> dec]
    /\ UNCHANGED <<port, fmt, dec>>

SetDec ==
    /\ Does("dec")
    /\ dec' = Head(work).level
    /\ UNCHANGED <<port, fmt, xfer>>

\* comReceiveISR reads eight words while core 0 waits.
IsrReads ==
    /\ Does("acquire")
    /\ port' = 0 /\ fmt' = <<16, 1, 0>>
    /\ xfer' = [dev |-> "AD7606", by |-> cmd, port |-> port', fmt |-> fmt', dec |-> dec]
    /\ UNCHANGED dec

\* stopAll has set AD_7606_IS_READY_TO_READ: the handler returns at once.
IsrIgnored ==
    /\ Does("acquire")
    /\ UNCHANGED <<port, fmt, dec, xfer>>

BusNext == Begin \/ ActivePort \/ SetProperties \/ SpiWrite \/ SetDec \/ IsrReads \/ IsrIgnored

BusSpec == BusInit /\ [][BusNext]_busVars

-----------------------------------------------------------------------------

(* Every transfer finds its own chip select, and its own format, whatever ran
   before and whether a stop overtook a read, with two exceptions that the code
   has: the set point writes of the approach select nothing, and initialize
   sets no format. The AD5664, and it alone, is written with dec low. *)
TransferReachesDevice ==
    xfer # NoXfer /\ ~(xfer.by = "approach" /\ xfer.dev = "DAC8563") =>
        /\ xfer.port = Wired[xfer.dev].port
        /\ xfer.by = "initialize" \/ xfer.fmt = Wired[xfer.dev].fmt
        /\ xfer.dec = (xfer.dev # "AD5664")
=============================================================================
