----------------------------- MODULE CoreExamples ----------------------------
(***************************************************************************)
(* The programs about the two cores and the timers: functions run on core 1  *)
(* for core 0 through queues (multicore/multicore_runner_queue) or through   *)
(* the hardware FIFOs (multicore/multicore_runner), the ping-pong of         *)
(* multicore/hello_multicore, the FIFO interrupts                            *)
(* (multicore/multicore_fifo_irqs), the sampling timer with its queue        *)
(* (timer/periodic_sampler) and the 32-bit alarm (timer/timer_lowlevel).     *)
(* `coreProg` is the program that runs.                                          *)
(***************************************************************************)
EXTENDS Integers, Sequences, SequencesExt

CONSTANTS TEST_NUM, FifoWords,         \* a hardware FIFO holds 8 words
          FIFO_LENGTH, SleepPeriods,   \* the sampler's queue; its sleep, 5 periods
          Polls, Blocking,             \* its two loops, 10 passes each
          TimeBits, DelayUs            \* the timer's 32 bits; the alarm's two seconds

VARIABLES coreProg, pc0, pc1, to1, to0, reg1, printed, rx_val, irqOn,
          timerTicks, napped, alarm_at, alarm_fired, armedAt

coreVars == <<coreProg, pc0, pc1, to1, to0, reg1, printed, rx_val, irqOn, timerTicks, napped, alarm_at,
              alarm_fired, armedAt>>
timing == <<timerTicks, napped, alarm_at, alarm_fired, armedAt>>

FLAG_VALUE == 123
FLAG_VALUE2 == 321
BootWord == 7          \* a word of the launch handshake, which core 1's boot code echoes

Counted(n) == [i \in 1 .. n |-> i]
factorial(n) == FoldLeft(LAMBDA f, i : IF i < 2 THEN f ELSE f * i, 1, Counted(n))
fibonacci(n) ==
    IF n \in {0, 1} THEN n
    ELSE FoldLeft(LAMBDA s, i : IF i < 2 THEN s ELSE <<s[2], s[1] + s[2]>>, <<0, 1>>, Counted(n))[2]
Apply(func, n) == IF func = "factorial" THEN factorial(n) ELSE fibonacci(n)

CoreInit ==
    /\ coreProg \in {"queue", "runner", "hello", "irqs", "sampler", "alarm"}
    /\ pc0 = "launch" /\ pc1 = "boot" /\ to1 = <<>> /\ to0 = <<>> /\ reg1 = <<>>
    /\ printed = <<>> /\ rx_val = <<0, 0>> /\ irqOn = <<FALSE, FALSE>>
    /\ timerTicks = 0 /\ napped = 0 /\ alarm_at = -1 /\ alarm_fired = FALSE /\ armedAt = 0

-----------------------------------------------------------------------------
(* multicore_launch_core1: a word of the handshake and its echo. *)
Launch ==
    /\ pc0 = "launch" /\ coreProg \notin {"sampler", "alarm"} /\ Len(to1) < FifoWords
    /\ to1' = Append(to1, BootWord) /\ pc0' = "echo"
    /\ UNCHANGED <<coreProg, pc1, to0, reg1, printed, rx_val, irqOn, timing>>
Echo ==
    /\ pc1 = "boot" /\ to1 # <<>> /\ to1' = Tail(to1) /\ to0' = Append(to0, Head(to1))
    /\ pc1' = "entry"
    /\ UNCHANGED <<coreProg, pc0, reg1, printed, rx_val, irqOn, timing>>
IrqBeforeLaunch ==
    /\ \/ pc0 = "echo" /\ to0 # <<>> /\ to0' = Tail(to0) /\ pc0' = "main" /\ UNCHANGED irqOn
       \/ pc0 = "echo" /\ irqOn' = [irqOn EXCEPT ![1] = coreProg = "irqs"] /\ UNCHANGED <<pc0, to0>>
    /\ UNCHANGED <<coreProg, pc1, to1, reg1, printed, rx_val, timing>>
(* Core 0 takes the echo, and only then enables its FIFO interrupt. *)
Launched ==
    /\ pc0 = "echo" /\ to0 # <<>> /\ to0' = Tail(to0) /\ pc0' = "main"
    /\ irqOn' = [irqOn EXCEPT ![1] = coreProg = "irqs"]
    /\ UNCHANGED <<coreProg, pc1, to1, reg1, printed, rx_val, timing>>

(* Core 0's calls: factorial, then fibonacci when the first answer has been printed.  A
   queue entry holds function and argument, the FIFO takes them one after the other. *)
Func == IF printed = <<>> THEN "factorial" ELSE "fibonacci"
CallQueue ==
    /\ coreProg = "queue" /\ pc0 = "main" /\ Len(printed) < 2 /\ Len(to1) < 2
    /\ to1' = Append(to1, <<Func, TEST_NUM>>) /\ pc0' = "result"
    /\ UNCHANGED <<coreProg, pc1, to0, reg1, printed, rx_val, irqOn, timing>>
PushFunc ==
    /\ coreProg = "runner" /\ pc0 = "main" /\ Len(printed) < 2 /\ Len(to1) < FifoWords
    /\ to1' = Append(to1, Func) /\ pc0' = "argument"
    /\ UNCHANGED <<coreProg, pc1, to0, reg1, printed, rx_val, irqOn, timing>>
PushArgument ==
    /\ coreProg = "runner" /\ pc0 = "argument" /\ Len(to1) < FifoWords
    /\ to1' = Append(to1, TEST_NUM) /\ pc0' = "result"
    /\ UNCHANGED <<coreProg, pc1, to0, reg1, printed, rx_val, irqOn, timing>>
Result ==
    /\ pc0 = "result" /\ to0 # <<>> /\ to0' = Tail(to0) /\ pc0' = "main"
    /\ printed' = Append(printed, Head(to0))
    /\ UNCHANGED <<coreProg, pc1, to1, reg1, rx_val, irqOn, timing>>

(* Core 1's dispatcher: function, argument, result. *)
TakeCall ==
    /\ coreProg \in {"queue", "runner"} /\ pc1 = "entry" /\ to1 # <<>>
    /\ reg1' = IF coreProg = "queue" THEN Head(to1) ELSE Append(reg1, Head(to1))
    /\ to1' = Tail(to1) /\ pc1' = IF Len(reg1') = 2 THEN "answer" ELSE "entry"
    /\ UNCHANGED <<coreProg, pc0, to0, printed, rx_val, irqOn, timing>>
AnswerCall ==
    /\ pc1 = "answer" /\ Len(to0) < FifoWords
    /\ to0' = Append(to0, Apply(reg1[1], reg1[2])) /\ reg1' = <<>> /\ pc1' = "entry"
    /\ UNCHANGED <<coreProg, pc0, to1, printed, rx_val, irqOn, timing>>

-----------------------------------------------------------------------------
(* hello_multicore: core 1 pushes the flag and waits for it, core 0 returns it. *)
Ping ==
    /\ coreProg = "hello" /\ pc1 = "entry" /\ Len(to0) < FifoWords
    /\ to0' = Append(to0, FLAG_VALUE) /\ pc1' = "pong"
    /\ UNCHANGED <<coreProg, pc0, to1, reg1, printed, rx_val, irqOn, timing>>
Pong ==
    /\ coreProg = "hello" /\ pc1 = "pong" /\ to1 # <<>> /\ to1' = Tail(to1) /\ pc1' = "entry"
    /\ printed' = <<Head(to1)>>
    /\ UNCHANGED <<coreProg, pc0, to0, reg1, rx_val, irqOn, timing>>
HelloPop ==
    /\ coreProg = "hello" /\ pc0 = "main" /\ to0 # <<>> /\ to0' = Tail(to0)
    /\ pc0' = IF Head(to0) = FLAG_VALUE THEN "push" ELSE "main"
    /\ UNCHANGED <<coreProg, pc1, to1, reg1, printed, rx_val, irqOn, timing>>
HelloPush ==
    /\ coreProg = "hello" /\ pc0 = "push" /\ Len(to1) < FifoWords
    /\ to1' = Append(to1, FLAG_VALUE) /\ pc0' = "main"
    /\ UNCHANGED <<coreProg, pc1, to0, reg1, printed, rx_val, irqOn, timing>>

(* The FIFO interrupts.  A handler pops while the FIFO holds words. *)
SendFirst ==
    /\ coreProg = "irqs" /\ pc1 = "entry" /\ Len(to0) < FifoWords
    /\ irqOn' = [irqOn EXCEPT ![2] = TRUE]
    /\ to0' = Append(to0, FLAG_VALUE) /\ pc1' = "loop"
    /\ UNCHANGED <<coreProg, pc0, to1, reg1, printed, rx_val, timing>>
core0_sio_irq ==
    /\ coreProg = "irqs" /\ irqOn[1] /\ to0 # <<>>
    /\ rx_val' = [rx_val EXCEPT ![1] = Last(to0)] /\ to0' = <<>>
    /\ UNCHANGED <<coreProg, pc0, pc1, to1, reg1, printed, irqOn, timing>>
core1_sio_irq ==
    /\ coreProg = "irqs" /\ irqOn[2] /\ to1 # <<>>
    /\ rx_val' = [rx_val EXCEPT ![2] = Last(to1)] /\ to1' = <<>>
    /\ UNCHANGED <<coreProg, pc0, pc1, to0, reg1, printed, irqOn, timing>>
(* Past the first sleep of 10 ms, ages after core 1 has sent and been heard. *)
SendSecond ==
    /\ coreProg = "irqs" /\ pc0 = "main" /\ pc1 = "loop" /\ to0 = <<>>
    /\ to1' = Append(to1, FLAG_VALUE2) /\ pc0' = "sent"
    /\ UNCHANGED <<coreProg, pc1, to0, reg1, printed, rx_val, irqOn, timing>>
(* Past the second sleep. *)
PrintReceived ==
    /\ coreProg = "irqs" /\ pc0 = "sent" /\ to1 = <<>> /\ pc0' = "loop" /\ printed' = rx_val
    /\ UNCHANGED <<coreProg, pc1, to1, to0, reg1, rx_val, irqOn, timing>>

-----------------------------------------------------------------------------
(* periodic_sampler: the callback; a pass over the queue takes less than a period. *)
timer_callback ==
    /\ coreProg = "sampler" /\ pc0 \in {"block", "poll", "nap"}
    /\ pc0 = "nap" => napped < SleepPeriods
    /\ pc0 \in {"block", "poll"} => Len(to0) <= SleepPeriods
    /\ timerTicks' = timerTicks + 1 /\ napped' = IF pc0 = "nap" THEN napped + 1 ELSE 0
    /\ to0' = IF Len(to0) < FIFO_LENGTH THEN Append(to0, 100 * timerTicks') ELSE to0
    /\ UNCHANGED <<coreProg, pc0, pc1, to1, reg1, printed, rx_val, irqOn, alarm_at, alarm_fired, armedAt>>
StartSampler ==
    /\ coreProg = "sampler" /\ pc0 = "launch" /\ pc0' = "block" /\ reg1' = <<0>>
    /\ UNCHANGED <<coreProg, pc1, to1, to0, printed, rx_val, irqOn, timing>>
RemoveBlocking ==
    /\ pc0 = "block" /\ to0 # <<>> /\ to0' = Tail(to0) /\ printed' = Append(printed, Head(to0))
    /\ IF reg1[1] + 1 = Blocking THEN pc0' = "poll" /\ reg1' = <<0>>
       ELSE pc0' = pc0 /\ reg1' = <<reg1[1] + 1>>
    /\ UNCHANGED <<coreProg, pc1, to1, rx_val, irqOn, timing>>
(* One pass: as many as the level said, then the sleep. *)
PollQueue ==
    /\ pc0 = "poll" /\ printed' = printed \o to0 /\ to0' = <<>> /\ pc0' = "nap" /\ napped' = 0
    /\ UNCHANGED <<coreProg, pc1, to1, reg1, rx_val, irqOn, timerTicks, alarm_at, alarm_fired, armedAt>>
Woken ==
    /\ pc0 = "nap" /\ napped = SleepPeriods
    /\ IF reg1[1] + 1 = Polls THEN pc0' = "cancelled" ELSE pc0' = "poll"
    /\ reg1' = <<reg1[1] + 1>>
    /\ UNCHANGED <<coreProg, pc1, to1, to0, printed, rx_val, irqOn, timing>>
DrainRemaining ==
    /\ pc0 = "cancelled" /\ printed' = printed \o to0 /\ to0' = <<>> /\ pc0' = "exit"
    /\ UNCHANGED <<coreProg, pc1, to1, reg1, rx_val, irqOn, timing>>

-----------------------------------------------------------------------------
(* timer_lowlevel: the alarm compares the low bits of the time only. *)
Low(x) == x % 2^TimeBits
alarm_in_us(now) == Low(now + DelayUs)
ArmAlarm ==
    /\ coreProg = "alarm" /\ pc0 = "launch" /\ pc0' = "armed"
    /\ alarm_fired' = FALSE /\ alarm_at' = alarm_in_us(Low(timerTicks)) /\ armedAt' = timerTicks
    /\ UNCHANGED <<coreProg, pc1, to1, to0, reg1, printed, rx_val, irqOn, timerTicks, napped>>
AlarmTick ==
    /\ coreProg = "alarm" /\ pc0 = "armed" /\ ~alarm_fired /\ timerTicks < 3 * 2^TimeBits
    /\ timerTicks' = timerTicks + 1 /\ alarm_fired' = (alarm_at = Low(timerTicks'))
    /\ UNCHANGED <<coreProg, pc0, pc1, to1, to0, reg1, printed, rx_val, irqOn, napped, alarm_at, armedAt>>
AlarmSeen ==
    /\ coreProg = "alarm" /\ pc0 = "armed" /\ alarm_fired /\ pc0' = "launch" /\ printed' = <<timerTicks - armedAt>>
    /\ UNCHANGED <<coreProg, pc1, to1, to0, reg1, rx_val, irqOn, timing>>

CoreNext ==
    \/ Launch \/ Echo \/ Launched \/ CallQueue \/ PushFunc \/ PushArgument \/ Result \/ TakeCall
    \/ AnswerCall \/ Ping \/ Pong \/ HelloPop \/ HelloPush \/ SendFirst \/ core0_sio_irq
    \/ core1_sio_irq \/ SendSecond \/ PrintReceived \/ timer_callback \/ StartSampler
    \/ RemoveBlocking \/ PollQueue \/ Woken \/ DrainRemaining \/ ArmAlarm \/ AlarmTick \/ AlarmSeen

(* Nothing is lost, doubled or taken for something else between the cores and from the
   callbacks: the calls' answers in their order, the flag, the latest word at each end
   and never a word of the launch, every sample in turn, and a delay of DelayUs across
   the wrap of the timer. *)
fact[n \in 0 .. TEST_NUM] == IF n = 0 THEN 1 ELSE n * fact[n - 1]
fib[n \in 0 .. TEST_NUM] == IF n < 2 THEN n ELSE fib[n - 1] + fib[n - 2]
NothingLost ==
    CASE coreProg \in {"queue", "runner"} -> IsPrefix(printed, <<fact[TEST_NUM], fib[TEST_NUM]>>)
      [] coreProg = "hello" -> printed \in {<<>>, <<FLAG_VALUE>>}
      [] coreProg = "irqs" -> /\ pc0 = "echo" => to0 # <<>> \/ (pc1 = "boot" /\ to1 # <<>>)
                              /\ rx_val[1] \in {0, FLAG_VALUE} /\ rx_val[2] \in {0, FLAG_VALUE2}
                              /\ pc0 = "loop" => printed = <<FLAG_VALUE, FLAG_VALUE2>>
      [] coreProg = "sampler" -> printed \o to0 = [i \in 1 .. timerTicks |-> 100 * i]
      [] coreProg = "alarm" -> /\ printed \in {<<>>, <<DelayUs>>}
                               /\ pc0 = "armed" => timerTicks - armedAt <= DelayUs
=============================================================================
