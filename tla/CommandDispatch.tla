-------------------------- MODULE CommandDispatch ---------------------------
(***************************************************************************)
(* How a command travels from the host's line to the code that serves it.  *)
(*                                                                         *)
(* Core 1 (RX_core::launchOnCore1) reads a line, overwrites the shared     *)
(* array `vector` with -1, stores the numbers of the line one by one and   *)
(* raises the flag of the command. Core 0 (MainCore::loop) polls the flags *)
(* in the order of its if statements and reads the arguments from `vector` *)
(* when it gets there. Nothing locks the array or the flags.               *)
(*                                                                         *)
(* The numbers are abstracted to where they come from: a slot holds the    *)
(* serial number of the line that stored it, or 0 for the -1 of the fill.  *)
(* Fifteen elements become four slots: 0 is vector[0], 1 is vector[1..4],  *)
(* 2 is vector[5..9] and 3 is vector[10], which the fill does not reach.   *)
(* The bodies of the long-running handlers have modules of their own.      *)
(***************************************************************************)
EXTENDS Naturals, Sequences, FiniteSets

CONSTANTS
    Commands,   \* the commands the host uses
    MaxLines    \* bound: lines the host sends

Slots == 0..3

(* The stations of MainCore::loop, in program order: the flag polled, the
   slots read, when the flag is cleared, and whether `continue` follows. The
   station without a flag is the port and format setup of every pass. The
   stations of CONFIG_UPDATE and MICRO_SCAN are the block behind line 44. *)
Station(flag, reads, clear, continue) ==
    [flag |-> flag, reads |-> reads, clear |-> clear, continue |-> continue]

Stations == <<
    Station("CONVERGENCE",           {1, 2}, "never", FALSE),
    Station("LID_UNTIL_STOP",        {1, 2}, "never", FALSE),
    Station("MOVE_TO",               {1},    "first", TRUE),
    Station("CONFIG_UPDATE",         {1, 2}, "first", TRUE),
    Station("MICRO_SCAN",            {},     "last",  FALSE),
    Station("SET_IO_VALUE",          {1},    "twice", FALSE),
    Station("SET_ONE_IO_VALUE",      {1},    "first", FALSE),
    Station("LID",                   {0, 1}, "first", TRUE),
    Station("AD7606_IS_SCANNING",    {1, 2}, "last",  TRUE),
    Station("AD9833_SET_FREQ",       {1},    "first", FALSE),
    Station("AD8400_SET_GAIN",       {1},    "first", FALSE),
    Station("AD7606_GET_VALUE",      {1},    "first", TRUE),
    Station("DAC8563_INIT",          {1},    "first", FALSE),
    Station("SPI setup",             {1},    "never", FALSE),
    Station("DAC8563_SET_VOLTAGE",   {2},    "first", FALSE),
    Station("AD5664",                {2},    "first", FALSE),
    Station("AD9833_SENDER",         {2, 3}, "first", FALSE),
    Station("AD8400_SENDER",         {2},    "first", FALSE),
    Station("AD7606_ENABLE_DISABLE", {2},    "first", FALSE),
    Station("AD7606_RESET",          {},     "first", FALSE),
    Station("AD7606_READ",           {},     "first", FALSE) >>

Polled == {Stations[i].flag : i \in DOMAIN Stations} \ {"SPI setup"}

Flag == Polled \cup {"AD7606_STOP_SCAN", "STOP_ALL",
                     "CONVERGENCE_CONFIG_UPDATE", "AD7606_READ_FOREVER"}

\* The flags that open the block in which they are polled
Block == {"CONFIG_UPDATE", "MICRO_SCAN"}

\* Handlers that transfer with the port and the format of the setup station.
Senders == {"DAC8563_SET_VOLTAGE", "AD5664", "AD9833_SENDER", "AD8400_SENDER"}

\* Commands that stop something: a host sends them at any time.
Stops == {"AD7606_STOP_SCAN", "STOP_ALL", "stopAll"}

ASSUME CommandsAssumption ==
    /\ Commands \subseteq (Flag \ {"AD7606_READ_FOREVER"})
                          \cup {"command50", "stopAll", "unknown"}
    /\ MaxLines \in Nat \ {0}

\* The flags that the switch of launchOnCore1 raises for a command, in order.
Raises(c) ==
    CASE c = "command50" -> <<"MICRO_SCAN", "CONFIG_UPDATE">>
      [] c \in {"stopAll", "unknown"} -> <<>>
      [] OTHER -> <<c>>

\* The slots a line for a command fills: a sender's line has the port and the
\* format too.
Filled(c) ==
    LET top == {i \in DOMAIN Stations :
                  \E k \in DOMAIN Raises(c) : Stations[i].flag = Raises(c)[k]}
    IN  {s \in Slots : s = 0 \/ \E i \in top : \E r \in Stations[i].reads : s <= r}

\* Mutant: the sweep is forgotten.
StopOrderNoSweep == <<
    "AD9833_SENDER", "AD8400_SENDER", "AD7606_ENABLE_DISABLE", "AD7606_RESET",
    "AD7606_READ", "AD7606_READ_FOREVER", "AD7606_STOP_SCAN", "MICRO_SCAN",
    "CONVERGENCE", "CONFIG_UPDATE", "MOVE_TO", "STOP_ALL", "LID_UNTIL_STOP" >>

\* The order in which stopAll writes the flags: it raises AD7606_STOP_SCAN and
\* STOP_ALL and clears the others.
StopOrder == <<
    "AD9833_SENDER", "AD8400_SENDER", "AD7606_ENABLE_DISABLE", "AD7606_RESET",
    "AD7606_READ", "AD7606_READ_FOREVER", "AD7606_STOP_SCAN",
    "AD9833_SET_FREQ", "AD8400_SET_GAIN", "AD7606_GET_VALUE", "AD5664",
    "MICRO_SCAN", "CONVERGENCE", "CONFIG_UPDATE", "MOVE_TO", "STOP_ALL",
    "SET_IO_VALUE", "SET_ONE_IO_VALUE", "LID", "DAC8563_SET_VOLTAGE",
    "DAC8563_INIT", "LID_UNTIL_STOP", "AD7606_IS_SCANNING" >>

VARIABLES
    sent,     \* the lines of the host so far
    rx,       \* core 1: what it does next
    step,     \* core 1: slots, or flags, it has done of it
    vector,   \* the shared array
    flags,    \* the flags that are raised
    at,       \* core 0: the station it is at
    phase,    \* core 0: what it does there
    args,     \* core 0: the slots read so far for this station
    spi,      \* the slot that the last port and format setup read
    sweep,    \* the frequency sweep: is_already_scanning, and its one point
    conf,     \* the slots the scanner's configuration was updated from
    late,     \* history: flags raised since the last setup
    owed,     \* history: flags raised for a command not yet being served
    rushed    \* history: the host has sent a line without waiting

core1 == <<sent, rx, step, vector, rushed>>
core0 == <<at, phase, args, spi, conf, late>>
vars == <<sent, rx, step, vector, flags, at, phase, args, spi, sweep, conf, late, owed,
          rushed>>

NoArgs == [s \in {} |-> 0]

Init ==
    /\ sent = <<>> /\ rx = "getline" /\ step = 0
    /\ vector = [s \in Slots |-> 0]
    /\ flags = {} /\ owed = {} /\ late = {}
    /\ at = 1 /\ phase = "poll" /\ args = NoArgs
    /\ spi = 0 /\ sweep = "off" /\ conf = NoArgs /\ rushed = FALSE

-----------------------------------------------------------------------------
(* RX_core::launchOnCore1 *)

Line == Len(sent)
Command == sent[Line]

\* Core 0 polls, and nothing is left to be served.
AllServed == flags \subseteq {"AD7606_STOP_SCAN", "STOP_ALL"} /\ phase \in {"poll", "block"}

\* A host that waits sends a command when everything is served, and a stop when
\* the arguments have been read.
Waited(c) == AllServed \/ (c \in Stops /\ owed = {} /\ phase # "read")

\* getline returns a line.
GetLine(c) ==
    /\ rx = "getline" /\ Line < MaxLines
    /\ rushed' = (rushed \/ ~Waited(c))
    /\ sent' = Append(sent, c)
    /\ rx' = "fill" /\ step' = 0
    /\ UNCHANGED <<vector, flags, core0, sweep, owed>>

\* One more line, of a host that never stops sending. Only the latest serial
\* number is kept, used again: for the properties that do not look at them.
NextLine(c) ==
    /\ rx = "getline" /\ Line = MaxLines
    /\ rushed' = (rushed \/ ~Waited(c))
    /\ sent' = [sent EXCEPT ![Line] = c]
    /\ rx' = "fill" /\ step' = 0
    /\ UNCHANGED <<vector, flags, core0, sweep, owed>>

\* vec[c] = -1 for c < 10
Fill ==
    /\ rx = "fill"
    /\ vector' = [vector EXCEPT ![step] = 0]
    /\ IF step < 2 THEN rx' = "fill" /\ step' = step + 1
                   ELSE rx' = "store" /\ step' = 0
    /\ UNCHANGED <<sent, rushed, flags, core0, sweep, owed>>

\* Mutant: the last number of the line is dropped.
StoreShort ==
    /\ rx = "store"
    /\ vector' = [vector EXCEPT ![step] = Line]
    /\ IF step + 2 \in Filled(Command)
         THEN rx' = "store" /\ step' = step + 1
         ELSE /\ rx' = CASE Command = "stopAll" -> "stopAll"
                         [] Command = "unknown" -> "activateError"
                         [] OTHER -> "raise"
              /\ step' = 0
    /\ UNCHANGED <<sent, rushed, flags, core0, sweep, owed>>

\* Parser::parseInts stores the numbers of the line in order.
Store ==
    /\ rx = "store"
    /\ vector' = [vector EXCEPT ![step] = Line]
    /\ IF step + 1 \in Filled(Command)
         THEN rx' = "store" /\ step' = step + 1
         ELSE /\ rx' = CASE Command = "stopAll" -> "stopAll"
                         [] Command = "unknown" -> "activateError"
                         [] OTHER -> "raise"
              /\ step' = 0
    /\ UNCHANGED <<sent, rushed, flags, core0, sweep, owed>>

\* switch (vector[0])
Raise ==
    /\ rx = "raise"
    /\ LET f == Raises(Command)[step + 1]
       IN  /\ flags' = flags \cup {f} /\ late' = late \cup {f}
           /\ owed' = owed \cup ({f} \cap Polled)
    /\ IF step + 1 < Len(Raises(Command))
         THEN rx' = "raise" /\ step' = step + 1
         ELSE rx' = "getline" /\ step' = 0
    /\ UNCHANGED <<sent, rushed, vector, at, phase, args, spi, conf, sweep>>

\* stopAll writes one flag after the other, and resets the sweep at the end.
StopAll ==
    /\ rx = "stopAll"
    /\ IF step < Len(StopOrder)
         THEN /\ LET f == StopOrder[step + 1]
                 IN  /\ flags' = IF f \in Stops THEN flags \cup {f} ELSE flags \ {f}
                     /\ owed' = owed \ {f}
              /\ rx' = rx /\ step' = step + 1
              /\ UNCHANGED sweep
         ELSE /\ sweep' = "off"
              /\ rx' = "getline" /\ step' = 0
              /\ UNCHANGED <<flags, owed>>
    /\ UNCHANGED <<sent, rushed, vector, core0>>

Core1 == (\E c \in Commands : GetLine(c)) \/ Fill \/ Store \/ Raise \/ StopAll

-----------------------------------------------------------------------------
(* MainCore::loop *)

st == Stations[at]

\* Mutant: the last station is not the end of the pass.
LeaveNoWrap ==
    /\ phase' = "poll" /\ args' = NoArgs
    /\ at' = IF st.continue THEN 1 ELSE at + 1

\* `continue`, or on to the next if statement
Leave ==
    /\ phase' = "poll" /\ args' = NoArgs
    /\ at' = IF st.continue \/ at = Len(Stations) THEN 1 ELSE at + 1

\* if (MICRO_SCAN || CONFIG_UPDATE): into the block of two stations, or past it
EnterBlock ==
    /\ phase = "poll" /\ st.flag = "CONFIG_UPDATE"
    /\ \/ Block \cap flags # {} /\ phase' = "block" /\ UNCHANGED at
       \/ Block \cap flags = {} /\ at' = at + 2 /\ UNCHANGED phase
    /\ UNCHANGED <<core1, flags, args, spi, late, conf, sweep, owed>>

\* Core 0 is at the poll of the station's own flag.
Polling == phase = IF st.flag = "CONFIG_UPDATE" THEN "block" ELSE "poll"

\* if (FLAG) with the flag down
PollDown ==
    /\ Polling /\ st.flag # "SPI setup"
    /\ st.flag \notin flags
    /\ st.flag = "AD7606_READ" => "AD7606_READ_FOREVER" \notin flags
    /\ at' = IF at = Len(Stations) THEN 1 ELSE at + 1
    /\ phase' = "poll"
    /\ UNCHANGED <<core1, flags, args, spi, late, conf, sweep, owed>>

\* if (FLAG) with the flag up
PollUp ==
    /\ Polling
    /\ \/ st.flag \in flags
       \/ st.flag = "AD7606_READ" /\ "AD7606_READ_FOREVER" \in flags
    /\ phase' = IF st.flag = "AD7606_IS_SCANNING" THEN "sweep"
                ELSE IF st.clear \in {"first", "twice"} THEN "clear"
                ELSE "read"
    /\ UNCHANGED <<core1, flags, at, args, spi, late, conf, sweep, owed>>

\* if (!is_already_scanning): a sweep reads its arguments in its first pass and
\* measures in the others.
SweepTest ==
    /\ phase = "sweep"
    /\ \/ sweep = "off" /\ phase' = "mark" /\ UNCHANGED owed
       \/ sweep # "off" /\ phase' = "point" /\ owed' = owed \ {st.flag}
    /\ UNCHANGED <<core1, flags, at, args, spi, late, conf, sweep>>

\* is_already_scanning = true
SweepMark ==
    /\ phase = "mark" /\ phase' = "read"
    /\ sweep' = "started"
    /\ UNCHANGED <<core1, flags, at, args, spi, late, conf, owed>>

\* Mutant: the port and the format are loaded once.
SetupOnce ==
    /\ phase = "poll" /\ st.flag = "SPI setup"
    /\ spi' = IF spi = 0 THEN vector[1] ELSE spi
    /\ at' = at + 1
    /\ late' = {}
    /\ UNCHANGED <<core1, flags, phase, args, conf, sweep, owed>>

\* decoder.activePort(vector[1]); Spi::setProperties(vector[2..4])
Setup ==
    /\ phase = "poll" /\ st.flag = "SPI setup"
    /\ spi' = vector[1]
    /\ at' = at + 1
    /\ late' = {}
    /\ UNCHANGED <<core1, flags, phase, args, conf, sweep, owed>>

\* FLAG = false, the first statement of most handlers
Clear ==
    /\ phase = "clear" /\ phase' = "read"
    /\ flags' = flags \ {st.flag}
    /\ UNCHANGED <<core1, at, args, spi, late, conf, sweep, owed>>

\* The arguments are read in order; the command is served from the first on.
Read ==
    /\ phase = "read"
    /\ owed' = owed \ {st.flag}
    /\ LET left == st.reads \ DOMAIN args
       IN  \/ /\ left # {}
              /\ \E s \in left :
                   /\ \A r \in left : s <= r
                   /\ args' = [r \in DOMAIN args \cup {s} |->
                                IF r = s THEN vector[s] ELSE args[r]]
              /\ UNCHANGED phase
           \/ left = {} /\ phase' = "run" /\ UNCHANGED args
    /\ UNCHANGED <<core1, flags, at, spi, late, conf, sweep>>

\* Mutant: the flag is cleared (again) when the work is done.
RunPlainClears ==
    /\ phase = "run"
    /\ st.flag \notin {"CONVERGENCE", "LID_UNTIL_STOP", "CONFIG_UPDATE",
                       "MICRO_SCAN", "SET_IO_VALUE", "AD7606_ENABLE_DISABLE"}
    /\ flags' = flags \ {st.flag}
    /\ Leave
    /\ UNCHANGED <<core1, spi, late, conf, sweep, owed>>

\* A handler that leaves flags and configuration alone.
RunPlain ==
    /\ phase = "run"
    /\ st.flag \notin {"CONVERGENCE", "LID_UNTIL_STOP", "CONFIG_UPDATE",
                       "MICRO_SCAN", "SET_IO_VALUE", "AD7606_ENABLE_DISABLE"}
    /\ Leave
    /\ UNCHANGED <<core1, flags, spi, late, conf, sweep, owed>>

\* approacphm: every round calls set_io_value, which clears SET_IO_VALUE; it
\* ends on touch or when CONVERGENCE is down.
RunConvergence ==
    /\ phase = "run" /\ st.flag = "CONVERGENCE"
    /\ \/ /\ "CONVERGENCE" \in flags
          /\ flags' = flags \ {"SET_IO_VALUE"}
          /\ UNCHANGED <<phase, at, args>> \/ Leave
       \/ "CONVERGENCE" \notin flags /\ Leave /\ UNCHANGED flags
    /\ UNCHANGED <<core1, spi, late, conf, sweep, owed>>

\* moveLinearDriverUntilStop
RunLidUntilStop ==
    /\ phase = "run" /\ st.flag = "LID_UNTIL_STOP"
    /\ \/ "LID_UNTIL_STOP" \notin flags /\ Leave
       \/ "LID_UNTIL_STOP" \in flags /\ UNCHANGED <<phase, at, args>>
    /\ UNCHANGED <<core1, flags, spi, late, conf, sweep, owed>>

\* Mutant: only the first update is kept.
RunConfigUpdateOnce ==
    /\ phase = "run" /\ st.flag = "CONFIG_UPDATE"
    /\ conf' = IF conf = NoArgs THEN args ELSE conf
    /\ Leave
    /\ UNCHANGED <<core1, flags, spi, late, sweep, owed>>

\* Scanner::update
RunConfigUpdate ==
    /\ phase = "run" /\ st.flag = "CONFIG_UPDATE"
    /\ conf' = args
    /\ Leave
    /\ UNCHANGED <<core1, flags, spi, late, sweep, owed>>

\* Scanner::start_scan ends: STOP_ALL = false ...
RunScan ==
    /\ phase = "run" /\ st.flag = "MICRO_SCAN"
    /\ flags' = flags \ {"STOP_ALL"}
    /\ phase' = "last"
    /\ UNCHANGED <<core1, at, args, spi, late, conf, sweep, owed>>

\* ... and, after the way back, MICRO_SCAN = false. A sweep likewise.
ClearLast ==
    /\ phase = "last"
    /\ flags' = flags \ {st.flag}
    /\ Leave
    /\ UNCHANGED <<core1, spi, late, conf, sweep, owed>>

\* set_io_value clears the flag again.
RunSetIo ==
    /\ phase = "run" /\ st.flag = "SET_IO_VALUE"
    /\ flags' = flags \ {"SET_IO_VALUE"}
    /\ Leave
    /\ UNCHANGED <<core1, spi, late, conf, sweep, owed>>

\* vector[5] is 0, 1 or something else.
RunEnableDisable ==
    /\ phase = "run" /\ st.flag = "AD7606_ENABLE_DISABLE"
    /\ flags' \in {flags \cup {"AD7606_READ_FOREVER"},
                   flags \ {"AD7606_READ_FOREVER"}, flags}
    /\ Leave
    /\ UNCHANGED <<core1, spi, late, conf, sweep, owed>>

\* Mutant: AD7606_IS_SCANNING is not cleared at the end.
SweepPassNoEnd ==
    /\ phase = "point"
    /\ \/ /\ sweep # "measured" /\ "AD7606_STOP_SCAN" \notin flags
          /\ sweep' = IF sweep = "started" THEN "measured" ELSE sweep
          /\ Leave /\ UNCHANGED flags
       \/ /\ sweep = "measured" \/ "AD7606_STOP_SCAN" \in flags
          /\ sweep' = "off" /\ flags' = flags \ {"AD7606_STOP_SCAN"}
          /\ Leave
    /\ UNCHANGED <<core1, spi, late, conf, owed>>

\* A later pass of a sweep: its point, or its end.
SweepPass ==
    /\ phase = "point"
    /\ \/ /\ sweep # "measured" /\ "AD7606_STOP_SCAN" \notin flags
          /\ sweep' = IF sweep = "started" THEN "measured" ELSE sweep
          /\ Leave /\ UNCHANGED flags
       \/ /\ sweep = "measured" \/ "AD7606_STOP_SCAN" \in flags
          /\ sweep' = "off" /\ flags' = flags \ {"AD7606_STOP_SCAN"}
          /\ phase' = "last" /\ UNCHANGED <<at, args>>
    /\ UNCHANGED <<core1, spi, late, conf, owed>>

Core0 ==
    \/ EnterBlock \/ PollDown \/ PollUp \/ SweepTest \/ SweepMark \/ Setup \/ Clear \/ Read
    \/ RunPlain \/ RunConvergence \/ RunLidUntilStop \/ RunConfigUpdate
    \/ RunScan \/ ClearLast \/ RunSetIo \/ RunEnableDisable \/ SweepPass

Next == Core0 \/ Core1

BusyNext == Next \/ \E c \in Commands : NextLine(c)

\* Both cores run; whether a line comes is up to the host.
Fairness ==
    /\ WF_vars(Core0)
    /\ WF_vars(Fill \/ Store \/ Raise \/ StopAll)

Spec == Init /\ [][Next]_vars
BusySpec == Init /\ [][BusyNext]_vars /\ Fairness

-----------------------------------------------------------------------------
Serial == 0..MaxLines

TypeOK ==
    /\ sent \in Seq(Commands) /\ Line <= MaxLines
    /\ rx \in {"getline", "fill", "store", "raise", "stopAll", "activateError"}
    /\ step \in 0..Len(StopOrder)
    /\ vector \in [Slots -> Serial]
    /\ rushed \in BOOLEAN
    /\ flags \subseteq Flag /\ late \subseteq Flag /\ owed \subseteq Polled
    /\ at \in DOMAIN Stations
    /\ phase \in {"poll", "block", "sweep", "mark", "clear", "read", "run", "point", "last"}
    /\ DOMAIN args \subseteq st.reads /\ \A s \in DOMAIN args : args[s] \in Serial
    /\ spi \in Serial /\ sweep \in {"off", "started", "measured"}
    /\ DOMAIN conf \in {{}, {1, 2}} /\ \A s \in DOMAIN conf : conf[s] \in Serial

\* Line n is for the flag f.
IsFor(n, f) == n \in 1..Line /\ \E k \in DOMAIN Raises(sent[n]) : Raises(sent[n])[k] = f

\* stopAll has lowered the flag of the sweep that core 0 is at.
Overtaken == st.flag = "AD7606_IS_SCANNING" /\ st.flag \notin flags

(* A handler runs on the arguments of one line, and that line is one for this
   handler: no mixture of two lines, no -1 of the fill, no other command's
   numbers, as long as the host waits. Excepted are CONVERGENCE, which a touch
   leaves up: the loop enters the approach again, on whatever is there then; and
   a sweep that stopAll ended between the tests of lines 88 and 91. *)
ArgsOwn ==
    ~rushed /\ phase = "run" /\ args # NoArgs /\ st.flag # "CONVERGENCE" /\ ~Overtaken =>
        \E n \in 1..Line : IsFor(n, st.flag) /\ \A s \in DOMAIN args : args[s] = n

(* A transfer goes out with the port and the format of the sender's own line,
   except when its flag was raised after this pass had loaded them: the setup
   of line 144 comes before the polls. For a host that waits. *)
SenderSetup ==
    ~rushed /\ phase = "run" /\ st.flag \in Senders => spi = args[2] \/ st.flag \in late

\* The flags that their handlers clear before anything else.
ClearedFirst == {Stations[i].flag : i \in {x \in DOMAIN Stations : Stations[x].clear = "first"}}

(* A command that is not yet being served still has its flag, or its handler is
   about to read the arguments: a handler that clears its flag first never
   swallows a command that came after it read its arguments, however fast the
   host sends. *)
NoLostCommand ==
    \A f \in owed \cap ClearedFirst :
        f \in flags \/ (phase = "read" /\ st.flag = f /\ args = NoArgs)

(* Once stopAll has returned nothing is left to be started until the host sends
   another line: stopAll lowers every flag that the loop polls, and core 0 raises
   none of them again. *)
StopHolds ==
    rx = "getline" /\ Line > 0 /\ Command = "stopAll" => flags \cap Polled = {}

(* A scan runs with the configuration of the latest line that asked for an
   update, as long as the host waits. *)
ScanUsesItsConfig ==
    ~rushed /\ phase = "run" /\ st.flag = "MICRO_SCAN" =>
        \A n \in 1..Line : IsFor(n, "CONFIG_UPDATE") => conf # NoArgs /\ conf[1] >= n

\* The commands whose handlers jump back over the station of f
Starvers(f) ==
    {Stations[i].flag : i \in {x \in DOMAIN Stations :
        Stations[x].continue /\ \E j \in DOMAIN Stations : x < j /\ Stations[j].flag = f}}

(* Every raised flag goes down again, though the host never stops sending: a
   command waits for ever only if the host keeps asking, again and again, for
   one whose handler ends in `continue` further up. *)
Served ==
    \A f \in Polled \cap Commands :
        \/ []<>(f \notin flags)
        \/ \E g \in Starvers(f) \cap Commands : []<>(g \in flags) /\ []<>(g \notin flags)
=============================================================================
