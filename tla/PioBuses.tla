------------------------------- MODULE PioBuses ------------------------------
(***************************************************************************)
(* The serial buses made of a PIO state machine: the I2C library of          *)
(* pio/i2c/pio_i2c.c with the bus scan on top of it (and i2c/bus_scan, the   *)
(* same scan with the I2C block), and the SPI library of pio/spi/pio_spi.c   *)
(* with its loopback test and the flash program.                             *)
(* The processor and the state machine share a TX and an RX FIFO and run     *)
(* side by side.  The state machine programs are external: a FIFO word is    *)
(* an escape, an instruction that sets SCL and SDA, or a byte; a NAK that    *)
(* was not expected raises the flag `irq` and halts it.                      *)
(***************************************************************************)
EXTENDS Integers, Sequences, SequencesExt

CONSTANTS FifoSize,           \* words a FIFO holds, 4
          AddrCount,          \* 7-bit addresses, 128
          Present,            \* the sets of devices a bus may have
          MaxCalls, MaxLen,   \* transfers of the I2C library, bytes of one
          SPI_BUF_SIZE, FLASH_PAGE_SIZE

VARIABLES i2c,     \* the processor in the I2C library
          txf, rxf, sm

i2cVars == <<i2c, txf, rxf, sm>>

Escape(n) == [word |-> "escape", n |-> n]
BusLines(scl, sda) == [word |-> "lines", scl |-> scl, sda |-> sda]
ByteBits(b, final, nak) == [word |-> "byte", b |-> b, final |-> final, nak |-> nak]

pio_i2c_start == <<Escape(1), BusLines(1, 0), BusLines(0, 0)>>
pio_i2c_stop == <<Escape(2), BusLines(0, 0), BusLines(1, 0), BusLines(1, 1)>>

reserved_addr(addr) == (addr \div 8) % 16 \in {0, 15}

(* The state machine is at its entry point with the bus idle; the device on the bus
   acknowledges its address, counts what it sent and keeps what it received. *)
I2cInit ==
    \E devices \in Present, scan \in {"no", "pio", "block"} :
        /\ i2c = [pc |-> "call", scan |-> scan, calls |-> 0, addr |-> -1, op |-> "read", len |-> 0,
                  tx |-> 0, left |-> 0, first |-> TRUE, buf |-> <<>>, put |-> <<>>, err |-> FALSE,
                  found |-> {}]
        /\ txf = <<>> /\ rxf = <<>>
        /\ sm = [exec |-> 0, irq |-> FALSE, stall |-> FALSE, push |-> TRUE, scl |-> 1, sda |-> 1,
                 open |-> FALSE, devices |-> devices, talk |-> "none", sent |-> 0, got |-> <<>>,
                 nak |-> FALSE]

Begin(addr, op, len) ==
    /\ i2c' = [i2c EXCEPT !.pc = "start", !.addr = addr, !.op = op, !.len = len, !.tx = len,
                          !.left = len, !.first = TRUE, !.buf = <<>>, !.put = pio_i2c_start,
                          !.err = FALSE, !.calls = @ + 1]
    /\ sm' = [sm EXCEPT !.sent = 0, !.got = <<>>, !.nak = FALSE]
    /\ UNCHANGED <<txf, rxf>>

(* Any use of the library, at most MaxCalls transfers. *)
PioTransfer ==
    /\ i2c.pc = "call" /\ i2c.scan = "no" /\ i2c.calls < MaxCalls
    /\ \E addr \in {8, 9}, op \in {"read", "write"}, len \in 0 .. MaxLen : Begin(addr, op, len)

(* The scan's loop: reserved addresses are skipped, the others read with length 0. *)
ScanAddress ==
    /\ i2c.pc = "call" /\ i2c.scan = "pio" /\ i2c.addr + 1 < AddrCount
    /\ \/ /\ reserved_addr(i2c.addr + 1)
          /\ i2c' = [i2c EXCEPT !.addr = @ + 1] /\ UNCHANGED <<txf, rxf, sm>>
       \/ ~reserved_addr(i2c.addr + 1) /\ Begin(i2c.addr + 1, "read", 0)
(* The same loop with the I2C block: one byte is read, an error is no device. *)
BlockScanAddress ==
    /\ i2c.pc = "call" /\ i2c.scan = "block" /\ i2c.addr + 1 < AddrCount
    /\ LET addr == i2c.addr + 1
           ret == ~reserved_addr(addr) /\ addr \in sm.devices
       IN  i2c' = [i2c EXCEPT !.addr = addr, !.found = IF ret THEN @ \union {addr} ELSE @]
    /\ UNCHANGED <<txf, rxf, sm>>

(* pio_i2c_put_or_err: waits for room, and falls through once the flag is up. *)
pio_i2c_put_or_err ==
    /\ i2c.put # <<>> /\ (sm.irq \/ Len(txf) < FifoSize)
    /\ txf' = IF sm.irq THEN txf ELSE Append(txf, Head(i2c.put))
    /\ i2c' = [i2c EXCEPT !.put = IF sm.irq THEN <<>> ELSE Tail(@)]
    /\ UNCHANGED <<rxf, sm>>

At(pc) == i2c.pc = pc /\ i2c.put = <<>>

(* Autopush on for a read, whose RX FIFO is emptied of what an earlier one left. *)
pio_i2c_rx_enable ==
    /\ At("start")
    /\ sm' = [sm EXCEPT !.push = i2c.op = "read"]
    /\ rxf' = IF i2c.op = "read" THEN <<>> ELSE rxf
    /\ i2c' = [i2c EXCEPT !.pc = "address"] /\ UNCHANGED txf

(* pio_i2c_put16 of the address: the acknowledge bit is left to the device. *)
PutAddress ==
    /\ At("address") /\ Len(txf) < FifoSize
    /\ txf' = Append(txf, ByteBits(i2c.addr, FALSE, TRUE))
    /\ i2c' = [i2c EXCEPT !.pc = i2c.op] /\ UNCHANGED <<rxf, sm>>

(* A pass of the loop of pio_i2c_write_blocking; the last byte is marked final. *)
pio_i2c_write_blocking ==
    /\ At("write") /\ i2c.left > 0 /\ ~sm.irq /\ Len(txf) < FifoSize
    /\ txf' = Append(txf, ByteBits(i2c.len - i2c.left + 1, i2c.left = 1, TRUE))
    /\ i2c' = [i2c EXCEPT !.left = @ - 1] /\ UNCHANGED <<rxf, sm>>

(* A pass of the loop of pio_i2c_read_blocking: a byte of ones for the clocks if there is
   room, a received byte if there is one; the first is the address. *)
pio_i2c_read_blocking ==
    /\ At("read") /\ (i2c.tx > 0 \/ i2c.left > 0) /\ ~sm.irq
    /\ LET feed == i2c.tx > 0 /\ Len(txf) < FifoSize
           take == rxf # <<>>
       IN  /\ feed \/ take
           /\ txf' = IF feed THEN Append(txf, ByteBits(255, i2c.tx = 1, i2c.tx = 1)) ELSE txf
           /\ rxf' = IF take THEN Tail(rxf) ELSE rxf
           /\ i2c' = [i2c EXCEPT !.tx = IF feed THEN @ - 1 ELSE @,
                                 !.first = @ /\ ~take,
                                 !.left = IF take /\ ~i2c.first THEN @ - 1 ELSE @,
                                 !.buf = IF take /\ ~i2c.first THEN Append(@, Head(rxf)) ELSE @]
    /\ UNCHANGED sm

LoopEnds ==
    /\ At("read") \/ At("write")
    /\ sm.irq \/ (i2c.left = 0 /\ (i2c.op = "read" => i2c.tx = 0))
    /\ i2c' = [i2c EXCEPT !.pc = "stop", !.put = pio_i2c_stop] /\ UNCHANGED <<txf, rxf, sm>>

(* pio_i2c_wait_idle: the sticky stall flag is cleared once the stop is in the FIFO. *)
pio_i2c_wait_idle ==
    /\ At("stop") /\ sm' = [sm EXCEPT !.stall = FALSE]
    /\ i2c' = [i2c EXCEPT !.pc = "idle"] /\ UNCHANGED <<txf, rxf>>

CallReturns(err) == [i2c EXCEPT !.pc = "call", !.err = err,
                           !.found = IF err \/ i2c.scan = "no" THEN @ ELSE @ \union {i2c.addr}]
Idle ==
    /\ At("idle") /\ (sm.stall \/ sm.irq)
    /\ \/ ~sm.irq /\ i2c' = CallReturns(FALSE) /\ UNCHANGED <<txf, rxf, sm>>
       \/ /\ sm.irq                                       \* pio_i2c_resume_after_error
          /\ txf' = <<>> /\ sm' = [sm EXCEPT !.irq = FALSE, !.exec = 0]
          /\ i2c' = [i2c EXCEPT !.pc = "resumed", !.put = pio_i2c_stop] /\ UNCHANGED rxf
AfterError == At("resumed") /\ i2c' = CallReturns(TRUE) /\ UNCHANGED <<txf, rxf, sm>>

-----------------------------------------------------------------------------
(* The state machine: an escape, an instruction of one, a byte, or a stall. *)
SmEscape ==
    /\ ~sm.irq /\ sm.exec = 0 /\ txf # <<>> /\ Head(txf).word = "escape"
    /\ sm' = [sm EXCEPT !.exec = Head(txf).n + 1] /\ txf' = Tail(txf) /\ UNCHANGED <<i2c, rxf>>
SmLines ==
    /\ ~sm.irq /\ sm.exec > 0 /\ txf # <<>>
    /\ LET w == Head(txf)
           edge == sm.scl = 1 /\ w.scl = 1 /\ sm.sda # w.sda     \* a start or a stop
       IN  sm' = [sm EXCEPT !.exec = @ - 1, !.scl = w.scl, !.sda = w.sda,
                            !.open = IF edge THEN w.sda = 0 ELSE @,
                            !.talk = IF edge THEN (IF w.sda = 0 THEN "address" ELSE "none") ELSE @]
    /\ txf' = Tail(txf) /\ UNCHANGED <<i2c, rxf>>
SmByte ==
    /\ ~sm.irq /\ sm.exec = 0 /\ txf # <<>> /\ Head(txf).word = "byte"
    /\ sm.push => Len(rxf) < FifoSize
    /\ \E ack \in BOOLEAN :
          LET w == Head(txf)
              addressed == sm.talk = "address"
              low == ~w.nak \/ ack          \* the master's acknowledge, or the device's
          IN  /\ addressed => ack = (w.b \in sm.devices)
              /\ sm.talk = "read" /\ w.nak => ~ack       \* a reading device leaves the bit
              /\ rxf' = IF ~sm.push THEN rxf
                        ELSE Append(rxf, IF sm.talk = "read" THEN sm.sent + 1 ELSE w.b)
              /\ sm' = [sm EXCEPT !.irq = ~low /\ ~w.final, !.nak = @ \/ (~low /\ ~w.final),
                                  !.sda = IF low THEN 0 ELSE 1, !.scl = 0,
                                  !.talk = IF addressed THEN (IF ack THEN i2c.op ELSE "none") ELSE @,
                                  !.sent = IF sm.talk = "read" THEN @ + 1 ELSE @,
                                  !.got = IF sm.talk = "write" THEN Append(@, w.b) ELSE @]
    /\ txf' = Tail(txf) /\ UNCHANGED i2c
SmStall ==
    /\ ~sm.irq /\ sm.exec = 0 /\ txf = <<>> /\ ~sm.stall
    /\ sm' = [sm EXCEPT !.stall = TRUE] /\ UNCHANGED <<i2c, txf, rxf>>

I2cNext ==
    \/ PioTransfer \/ ScanAddress \/ BlockScanAddress \/ pio_i2c_put_or_err
    \/ pio_i2c_rx_enable \/ PutAddress \/ pio_i2c_write_blocking \/ pio_i2c_read_blocking \/ LoopEnds \/ pio_i2c_wait_idle
    \/ Idle \/ AfterError \/ SmEscape \/ SmLines \/ SmByte \/ SmStall

Count(n) == [i \in 1 .. n |-> i]

(* A transfer that returns 0 moved every byte, in order, and left the bus idle; it returns an
   error exactly when a byte before the last was refused; and the scan finds the devices that
   are there, and no other. *)
I2cTransfers ==
    i2c.pc = "call" =>
        /\ i2c.err = sm.nak
        /\ ~i2c.err => /\ ~sm.open /\ sm.scl = 1 /\ sm.sda = 1 /\ txf = <<>>
                       /\ i2c.op = "read" => i2c.buf = Count(i2c.len)
                       /\ i2c.op = "write" => sm.got = Count(i2c.len)
        /\ i2c.scan # "no" => i2c.found = {a \in sm.devices : a <= i2c.addr /\ ~reserved_addr(a)}

-----------------------------------------------------------------------------
(* The SPI library.  A transfer feeds the TX FIFO and empties the RX FIFO until both counts
   are used up; the state machine shifts a byte out and a byte in. *)
VARIABLES spi,      \* the program: script, transfer
          slave,    \* the flash, or the loopback of the data pin
          outf, inf

spiVars == <<spi, slave, outf, inf>>

AllOnes == {0, 1, 2}                           \* a byte of memory is the set of its ones
PagePattern == [i \in 1 .. FLASH_PAGE_SIZE |-> {b \in AllOnes : (i \div 2 ^ b) % 2 = 1}]
PioErased == [i \in 1 .. FLASH_PAGE_SIZE |-> AllOnes]
Zero == [i \in 1 .. 3 |-> "0"]              \* the three bytes of target_addr, 0

Select(level) == [do |-> "cs", level |-> level]
write8(src) == [do |-> "transfer", src |-> src, keep |-> FALSE]
read8(n) == [do |-> "transfer", src |-> [i \in 1 .. n |-> "0"], keep |-> TRUE]
write8_read8(src) == [do |-> "transfer", src |-> src, keep |-> TRUE]

pio_flash_write_enable == <<Select(0), write8(<<"06">>), Select(1)>>
pio_flash_wait_done == <<Select(0), write8(<<"05">>), read8(1), Select(1), [do |-> "again"]>>
pio_flash_sector_erase ==
    pio_flash_write_enable \o <<Select(0), write8(<<"20">> \o Zero), Select(1)>> \o pio_flash_wait_done
pio_flash_page_program ==
    pio_flash_write_enable \o <<Select(0), write8(<<"02">> \o Zero), write8(PagePattern), Select(1)>>
                       \o pio_flash_wait_done
pio_flash_read == <<Select(0), write8(<<"03">> \o Zero), read8(FLASH_PAGE_SIZE), Select(1)>>

(* main of spi_flash.c; printbuf shows the page after each read. *)
ScanPrinted(want) == <<[do |-> "print", want |-> want]>>
FlashMain == pio_flash_sector_erase \o pio_flash_read \o ScanPrinted(PioErased)
             \o pio_flash_page_program \o pio_flash_read \o ScanPrinted(PagePattern)
             \o pio_flash_sector_erase \o pio_flash_read \o ScanPrinted(PioErased)
(* test of spi_loopback.c, in one of the clock modes. *)
LoopbackTest == LET txbuf == [i \in 1 .. SPI_BUF_SIZE |-> i]
                IN  <<write8_read8(txbuf)>> \o ScanPrinted(txbuf)

(* The four clock modes, one after the other. *)
LoopbackMain == LoopbackTest \o LoopbackTest \o LoopbackTest \o LoopbackTest

Script == IF spi.prog = "flash" THEN FlashMain ELSE LoopbackMain
Going(do) == spi.pc <= Len(Script) /\ Script[spi.pc].do = do
Step(k) ==
    LET n == IF k <= Len(Script) /\ Script[k].do = "transfer" THEN Len(Script[k].src) ELSE 0
        fresh == n > 0 /\ Script[k].keep
    IN  spi' = [spi EXCEPT !.pc = k, !.tx = n, !.rx = n, !.dst = IF fresh THEN <<>> ELSE @]

SpiInit ==
    /\ \E prog \in {"flash", "loopback"} :
         LET n == IF prog = "loopback" THEN SPI_BUF_SIZE ELSE 0
         IN  spi = [prog |-> prog, pc |-> 1, tx |-> n, rx |-> n, dst |-> <<>>]
    /\ outf = <<>> /\ inf = <<>>
    /\ slave = [cs |-> 1, frame |-> <<>>, mem |-> PagePattern, enabled |-> FALSE, busy |-> FALSE, data |-> <<>>]

(* A pass of the loop of a transfer. *)
pio_spi_write8_read8_blocking ==
    /\ Going("transfer")
    /\ LET op == Script[spi.pc]
           feed == spi.tx > 0 /\ Len(outf) < FifoSize
           take == spi.rx > 0 /\ inf # <<>>
       IN  /\ feed \/ take
           /\ outf' = IF feed THEN Append(outf, op.src[Len(op.src) - spi.tx + 1]) ELSE outf
           /\ inf' = IF take THEN Tail(inf) ELSE inf
           /\ spi' = [spi EXCEPT !.tx = IF feed THEN @ - 1 ELSE @,
                                 !.rx = IF take THEN @ - 1 ELSE @,
                                 !.dst = IF take /\ op.keep THEN Append(@, Head(inf)) ELSE @]
    /\ UNCHANGED slave

EndsWhenFed ==
    /\ Going("transfer") /\ spi.tx = 0 /\ Step(spi.pc + 1) /\ UNCHANGED <<slave, outf, inf>>
TransferEnds ==
    /\ Going("transfer") /\ spi.tx = 0 /\ spi.rx = 0
    /\ Step(spi.pc + 1) /\ UNCHANGED <<slave, outf, inf>>

(* The flash acts on a command when it is deselected. *)
ChipSelect ==
    /\ Going("cs") /\ Step(spi.pc + 1) /\ UNCHANGED <<outf, inf>>
    /\ LET f == slave.frame
           started == ~slave.busy /\ Script[spi.pc].level = 1 /\ f # <<>>
           begins == started /\ slave.enabled /\ f[1] \in {"20", "02"}
       IN  slave' = [slave EXCEPT !.cs = Script[spi.pc].level, !.frame = <<>>,
                                  !.enabled = @ \/ (started /\ f[1] = "06"),
                                  !.busy = @ \/ begins,
                                  !.data = IF begins THEN SubSeq(f, 5, Len(f)) ELSE @,
                                  !.mem = IF begins /\ f[1] = "20" THEN PioErased ELSE @]
WaitAgain ==
    /\ Going("again") /\ Step(IF spi.dst = <<{0}>> THEN spi.pc - 4 ELSE spi.pc + 1)
    /\ UNCHANGED <<slave, outf, inf>>
PrintPage == Going("print") /\ Step(spi.pc + 1) /\ UNCHANGED <<slave, outf, inf>>

SpiShift ==
    /\ outf # <<>> /\ Len(inf) < FifoSize
    /\ LET b == Head(outf)
           n == Len(slave.frame)
           reply == IF spi.prog = "loopback" THEN b
                    ELSE IF slave.cs = 1 \/ n = 0 THEN {}
                    ELSE IF slave.frame[1] = "05" THEN {i \in {0} : slave.busy}
                    ELSE IF slave.frame[1] = "03" /\ n \in 4 .. FLASH_PAGE_SIZE + 3
                         THEN slave.mem[n - 3] ELSE {}
       IN  /\ inf' = Append(inf, reply)
           /\ slave' = [slave EXCEPT !.frame = IF slave.cs = 0 THEN Append(@, b) ELSE @]
    /\ outf' = Tail(outf) /\ UNCHANGED spi
FlashReady ==
    /\ slave.busy
    /\ slave' = [slave EXCEPT !.busy = FALSE, !.data = <<>>, !.enabled = FALSE,
                              !.mem = [i \in DOMAIN @ |-> IF i <= Len(slave.data)
                                                          THEN @[i] \intersect slave.data[i] ELSE @[i]]]
    /\ UNCHANGED <<spi, outf, inf>>

SpiNext == \/ pio_spi_write8_read8_blocking \/ TransferEnds \/ ChipSelect \/ WaitAgain
           \/ PrintPage \/ SpiShift \/ FlashReady

(* What the programs print: every page as it was last erased or programmed, and the loopback's
   bytes; a deselected slave has no byte of a transfer still to come. *)
SpiTransfers ==
    /\ Going("print") => spi.dst = Script[spi.pc].want
    /\ Going("cs") => outf = <<>> /\ inf = <<>>

(* The buses made of a state machine carry what the libraries were given. *)
PioBusesCarry == I2cTransfers /\ SpiTransfers
=============================================================================
