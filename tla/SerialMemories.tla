---------------------------- MODULE SerialMemories ---------------------------
(***************************************************************************)
(* Two memories on a serial bus.  i2c/slave_mem_i2c: the Pico is the memory *)
(* (i2c_slave_handler, called from the interrupt for every byte and every   *)
(* end of a transfer) and its own master (run_master).  spi/spi_flash: a    *)
(* NOR flash, external, which ignores commands while it is busy or not      *)
(* write-enabled, erases sectors to ones and programs ones to zeros.        *)
(***************************************************************************)
EXTENDS Integers, Sequences, SequencesExt

CONSTANTS MemSize, MsgStep, MsgLen, Split,   \* the memory, the addresses, the message
          PageSize                           \* bytes of a flash page

-----------------------------------------------------------------------------
VARIABLES context,     \* the slave: mem, mem_address, mem_address_written
          masterPc, mem_address,
          i2cBus,         \* events of the running transfer still to come
          masterGot          \* bytes the master has read in it

slaveVars == <<context, masterPc, mem_address, i2cBus, masterGot>>

msg(a) == [i \in 1 .. MsgLen |-> <<a, i>>]
Receive(b) == [event |-> "RECEIVE", byte |-> b]
ByteRequest == [event |-> "REQUEST"]
SlaveFinish == [event |-> "FINISH"]

SlaveInit ==
    /\ context = [mem |-> [a \in 0 .. MemSize - 1 |-> 0], addr |-> 0, written |-> FALSE]
    /\ masterPc = "write" /\ mem_address = 0 /\ i2cBus = <<>> /\ masterGot = <<>>

(* I2C_SLAVE_FINISH, at a stop or a restart. *)
FinishEvent == context' = [context EXCEPT !.written = FALSE]

i2c_slave_handler ==
    /\ i2cBus # <<>>
    /\ i2cBus' = Tail(i2cBus)
    /\ LET e == Head(i2cBus)
           next == (context.addr + 1) % MemSize
       IN  \/ /\ e.event = "RECEIVE" /\ ~context.written
              /\ context' = [context EXCEPT !.addr = e.byte, !.written = TRUE]
              /\ UNCHANGED masterGot
           \/ /\ e.event = "RECEIVE" /\ context.written
              /\ context' = [context EXCEPT !.mem[context.addr] = e.byte, !.addr = next]
              /\ UNCHANGED masterGot
           \/ /\ e.event = "REQUEST"
              /\ masterGot' = Append(masterGot, context.mem[context.addr])
              /\ context' = [context EXCEPT !.addr = next]
           \/ e.event = "FINISH" /\ FinishEvent /\ UNCHANGED masterGot
    /\ UNCHANGED <<masterPc, mem_address>>

SlaveRequests(n) == [i \in 1 .. n |-> ByteRequest]

(* run_master: write the message, seek, read in two parts, next address. *)
run_master ==
    /\ i2cBus = <<>> /\ masterGot' = <<>>
    /\ \/ /\ masterPc = "write" /\ masterPc' = "seek" /\ UNCHANGED mem_address
          /\ i2cBus' = <<Receive(mem_address)>>
                    \o [i \in 1 .. MsgLen |-> Receive(msg(mem_address)[i])] \o <<SlaveFinish>>
       \/ /\ masterPc = "seek" /\ masterPc' = "read" /\ UNCHANGED mem_address
          /\ i2cBus' = <<Receive(mem_address), SlaveFinish>>
       \/ /\ masterPc = "read" /\ masterPc' = "rest" /\ UNCHANGED mem_address
          /\ i2cBus' = SlaveRequests(Split) \o <<SlaveFinish>>
       \/ /\ masterPc = "rest" /\ masterPc' = "next" /\ UNCHANGED mem_address
          /\ i2cBus' = SlaveRequests(MsgLen - Split) \o <<SlaveFinish>>
       \/ /\ masterPc = "next" /\ masterPc' = "write"
          /\ mem_address' = (mem_address + MsgStep) % MemSize /\ i2cBus' = <<>>
    /\ UNCHANGED context

SlaveNext == i2c_slave_handler \/ run_master

(* The hard_asserts of run_master: both parts read back are the message's. *)
SlaveReads ==
    /\ masterPc = "rest" /\ i2cBus = <<>> => masterGot = SubSeq(msg(mem_address), 1, Split)
    /\ masterPc = "next" /\ i2cBus = <<>> => masterGot = SubSeq(msg(mem_address), Split + 1, MsgLen)

-----------------------------------------------------------------------------
VARIABLES flash,      \* mem, write-enabled, what it is busy with
          flashPc,    \* where main stands in the list of commands
          page_buf

flashVars == <<flash, flashPc, page_buf>>

Bits == {0, 1, 2}                       \* a byte is the set of its ones
Erased == [i \in 1 .. PageSize |-> Bits]
Pattern == [i \in 1 .. PageSize |-> {b \in Bits : (i \div 2 ^ b) % 2 = 1}]

(* erase, read, program, read, erase, read: the commands they send. *)
Commands == << "enable", "erase", "wait", "read", "enable", "program", "wait", "read",
               "enable", "erase", "wait", "read" >>

FlashInit ==
    /\ flash \in [mem : {Erased, Pattern, [i \in 1 .. PageSize |-> {}]},
                  enabled : BOOLEAN, busy : {"no"}]
    /\ flashPc = 1 /\ page_buf = <<>>

FlashAt(command) == flashPc \in DOMAIN Commands /\ Commands[flashPc] = command
FlashSent == flashPc' = flashPc + 1

flash_write_enable ==
    /\ FlashAt("enable") /\ FlashSent
    /\ flash' = IF flash.busy = "no" THEN [flash EXCEPT !.enabled = TRUE] ELSE flash
    /\ UNCHANGED page_buf

flash_sector_erase ==
    /\ FlashAt("erase") /\ FlashSent
    /\ flash' = IF flash.busy = "no" /\ flash.enabled THEN [flash EXCEPT !.busy = "erase"] ELSE flash
    /\ UNCHANGED page_buf

flash_page_program ==
    /\ FlashAt("program") /\ FlashSent
    /\ flash' = IF flash.busy = "no" /\ flash.enabled THEN [flash EXCEPT !.busy = "program"] ELSE flash
    /\ UNCHANGED page_buf

WaitNotAtAll == FlashAt("wait") /\ FlashSent /\ UNCHANGED <<flash, page_buf>>

(* One poll of the status register; the loop ends when the busy bit is clear. *)
flash_wait_done ==
    /\ FlashAt("wait")
    /\ flashPc' = IF flash.busy = "no" THEN flashPc + 1 ELSE flashPc
    /\ UNCHANGED <<flash, page_buf>>

flash_read ==
    /\ FlashAt("read") /\ FlashSent
    /\ page_buf' = IF flash.busy = "no" THEN flash.mem ELSE <<>>
    /\ UNCHANGED flash

(* The chip finishes on its own and drops the write enable. *)
FlashFinishes ==
    /\ flash.busy # "no"
    /\ flash' = [mem |-> IF flash.busy = "erase" THEN Erased
                         ELSE [i \in 1 .. PageSize |-> flash.mem[i] \intersect Pattern[i]],
                 enabled |-> FALSE, busy |-> "no"]
    /\ UNCHANGED <<flashPc, page_buf>>

FlashNext == \/ flash_write_enable \/ flash_sector_erase \/ flash_page_program
             \/ flash_wait_done \/ flash_read \/ FlashFinishes

(* What is printed: ones after an erase, the pattern after the program, whatever
   the flash held before and however long it is busy. *)
FlashReads == /\ flashPc \in {5, 13} => page_buf = Erased
              /\ flashPc = 9 => page_buf = Pattern

(* What was written last is what is read back, in both memories. *)
MemoriesReadBack == SlaveReads /\ FlashReads
=============================================================================
