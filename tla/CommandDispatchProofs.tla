------------------------ MODULE CommandDispatchProofs -----------------------
(***************************************************************************)
(* CommandDispatch for every set of commands and every number of lines.    *)
(***************************************************************************)
EXTENDS CommandDispatch, SequenceTheorems, TLAPS

-----------------------------------------------------------------------------
(* What the table of stations says. *)

LEMMA StationTable ==
  /\ DOMAIN Stations = 1..21 /\ Len(Stations) = 21
  /\ Stations[1] = Station("CONVERGENCE", {1, 2}, "never", FALSE)
  /\ Stations[2] = Station("LID_UNTIL_STOP", {1, 2}, "never", FALSE)
  /\ Stations[3] = Station("MOVE_TO", {1}, "first", TRUE)
  /\ Stations[4] = Station("CONFIG_UPDATE", {1, 2}, "first", TRUE)
  /\ Stations[5] = Station("MICRO_SCAN", {}, "last", FALSE)
  /\ Stations[6] = Station("SET_IO_VALUE", {1}, "twice", FALSE)
  /\ Stations[7] = Station("SET_ONE_IO_VALUE", {1}, "first", FALSE)
  /\ Stations[8] = Station("LID", {0, 1}, "first", TRUE)
  /\ Stations[9] = Station("AD7606_IS_SCANNING", {1, 2}, "last", TRUE)
  /\ Stations[10] = Station("AD9833_SET_FREQ", {1}, "first", FALSE)
  /\ Stations[11] = Station("AD8400_SET_GAIN", {1}, "first", FALSE)
  /\ Stations[12] = Station("AD7606_GET_VALUE", {1}, "first", TRUE)
  /\ Stations[13] = Station("DAC8563_INIT", {1}, "first", FALSE)
  /\ Stations[14] = Station("SPI setup", {1}, "never", FALSE)
  /\ Stations[15] = Station("DAC8563_SET_VOLTAGE", {2}, "first", FALSE)
  /\ Stations[16] = Station("AD5664", {2}, "first", FALSE)
  /\ Stations[17] = Station("AD9833_SENDER", {2, 3}, "first", FALSE)
  /\ Stations[18] = Station("AD8400_SENDER", {2}, "first", FALSE)
  /\ Stations[19] = Station("AD7606_ENABLE_DISABLE", {2}, "first", FALSE)
  /\ Stations[20] = Station("AD7606_RESET", {}, "first", FALSE)
  /\ Stations[21] = Station("AD7606_READ", {}, "first", FALSE)
<1>1. DOMAIN Stations = 1..21 /\ Len(Stations) = 21
  BY DEF Stations
<1>2. /\ Stations[1] = Station("CONVERGENCE", {1, 2}, "never", FALSE)
      /\ Stations[2] = Station("LID_UNTIL_STOP", {1, 2}, "never", FALSE)
      /\ Stations[3] = Station("MOVE_TO", {1}, "first", TRUE)
      /\ Stations[4] = Station("CONFIG_UPDATE", {1, 2}, "first", TRUE)
      /\ Stations[5] = Station("MICRO_SCAN", {}, "last", FALSE)
      /\ Stations[6] = Station("SET_IO_VALUE", {1}, "twice", FALSE)
      /\ Stations[7] = Station("SET_ONE_IO_VALUE", {1}, "first", FALSE)
  BY DEF Stations
<1>3. /\ Stations[8] = Station("LID", {0, 1}, "first", TRUE)
      /\ Stations[9] = Station("AD7606_IS_SCANNING", {1, 2}, "last", TRUE)
      /\ Stations[10] = Station("AD9833_SET_FREQ", {1}, "first", FALSE)
      /\ Stations[11] = Station("AD8400_SET_GAIN", {1}, "first", FALSE)
      /\ Stations[12] = Station("AD7606_GET_VALUE", {1}, "first", TRUE)
      /\ Stations[13] = Station("DAC8563_INIT", {1}, "first", FALSE)
      /\ Stations[14] = Station("SPI setup", {1}, "never", FALSE)
  BY DEF Stations
<1>4. /\ Stations[15] = Station("DAC8563_SET_VOLTAGE", {2}, "first", FALSE)
      /\ Stations[16] = Station("AD5664", {2}, "first", FALSE)
      /\ Stations[17] = Station("AD9833_SENDER", {2, 3}, "first", FALSE)
      /\ Stations[18] = Station("AD8400_SENDER", {2}, "first", FALSE)
      /\ Stations[19] = Station("AD7606_ENABLE_DISABLE", {2}, "first", FALSE)
      /\ Stations[20] = Station("AD7606_RESET", {}, "first", FALSE)
      /\ Stations[21] = Station("AD7606_READ", {}, "first", FALSE)
  BY DEF Stations
<1>5. QED
  BY <1>1, <1>2, <1>3, <1>4

\* The stations that read no arguments
Bare == {"MICRO_SCAN", "AD7606_RESET", "AD7606_READ"}

\* The flags that stopAll lowers and core 0 does not raise
Lowered == {"CONVERGENCE", "LID_UNTIL_STOP", "MOVE_TO", "CONFIG_UPDATE", "MICRO_SCAN",
            "SET_IO_VALUE", "SET_ONE_IO_VALUE", "LID", "AD7606_IS_SCANNING",
            "AD9833_SET_FREQ", "AD8400_SET_GAIN", "AD7606_GET_VALUE", "DAC8563_INIT",
            "DAC8563_SET_VOLTAGE", "AD5664", "AD9833_SENDER", "AD8400_SENDER",
            "AD7606_ENABLE_DISABLE", "AD7606_RESET", "AD7606_READ"}

\* What holds of the n-th station s
Shape(n, s) ==
    /\ s.reads \subseteq Slots
    /\ s.flag \in Bare => s.reads = {}
    /\ s.clear \in {"first", "twice", "last", "never"}
    /\ s.clear = "last" <=> s.flag \in {"MICRO_SCAN", "AD7606_IS_SCANNING"}
    /\ s.clear = "twice" <=> s.flag = "SET_IO_VALUE"
    /\ s.clear = "never" <=> s.flag \in {"CONVERGENCE", "LID_UNTIL_STOP", "SPI setup"}
    /\ s.flag = "SPI setup" <=> n = 14
    /\ s.flag \in Senders => n > 14 /\ 2 \in s.reads
    /\ s.flag = "CONFIG_UPDATE" => n = 4 /\ s.reads = {1, 2}
    /\ s.flag \in Lowered \cup {"SPI setup"}

LEMMA StationShapes == \A n \in DOMAIN Stations : Shape(n, Stations[n])
<1> USE DEF Shape, Station, Slots, Bare, Senders, Lowered
<1>1. Shape(1, Station("CONVERGENCE", {1, 2}, "never", FALSE)) OBVIOUS
<1>2. Shape(2, Station("LID_UNTIL_STOP", {1, 2}, "never", FALSE)) OBVIOUS
<1>3. Shape(3, Station("MOVE_TO", {1}, "first", TRUE)) OBVIOUS
<1>4. Shape(4, Station("CONFIG_UPDATE", {1, 2}, "first", TRUE)) OBVIOUS
<1>5. Shape(5, Station("MICRO_SCAN", {}, "last", FALSE)) OBVIOUS
<1>6. Shape(6, Station("SET_IO_VALUE", {1}, "twice", FALSE)) OBVIOUS
<1>7. Shape(7, Station("SET_ONE_IO_VALUE", {1}, "first", FALSE)) OBVIOUS
<1>8. Shape(8, Station("LID", {0, 1}, "first", TRUE)) OBVIOUS
<1>9. Shape(9, Station("AD7606_IS_SCANNING", {1, 2}, "last", TRUE)) OBVIOUS
<1>10. Shape(10, Station("AD9833_SET_FREQ", {1}, "first", FALSE)) OBVIOUS
<1>11. Shape(11, Station("AD8400_SET_GAIN", {1}, "first", FALSE)) OBVIOUS
<1>12. Shape(12, Station("AD7606_GET_VALUE", {1}, "first", TRUE)) OBVIOUS
<1>13. Shape(13, Station("DAC8563_INIT", {1}, "first", FALSE)) OBVIOUS
<1>14. Shape(14, Station("SPI setup", {1}, "never", FALSE)) OBVIOUS
<1>15. Shape(15, Station("DAC8563_SET_VOLTAGE", {2}, "first", FALSE)) OBVIOUS
<1>16. Shape(16, Station("AD5664", {2}, "first", FALSE)) OBVIOUS
<1>17. Shape(17, Station("AD9833_SENDER", {2, 3}, "first", FALSE)) OBVIOUS
<1>18. Shape(18, Station("AD8400_SENDER", {2}, "first", FALSE)) OBVIOUS
<1>19. Shape(19, Station("AD7606_ENABLE_DISABLE", {2}, "first", FALSE)) OBVIOUS
<1>20. Shape(20, Station("AD7606_RESET", {}, "first", FALSE)) OBVIOUS
<1>21. Shape(21, Station("AD7606_READ", {}, "first", FALSE)) OBVIOUS
<1> HIDE DEF Shape, Station
<1>31. Shape(1, Stations[1]) BY <1>1, StationTable, Zenon
<1>32. Shape(2, Stations[2]) BY <1>2, StationTable, Zenon
<1>33. Shape(3, Stations[3]) BY <1>3, StationTable, Zenon
<1>34. Shape(4, Stations[4]) BY <1>4, StationTable, Zenon
<1>35. Shape(5, Stations[5]) BY <1>5, StationTable, Zenon
<1>36. Shape(6, Stations[6]) BY <1>6, StationTable, Zenon
<1>37. Shape(7, Stations[7]) BY <1>7, StationTable, Zenon
<1>38. Shape(8, Stations[8]) BY <1>8, StationTable, Zenon
<1>39. Shape(9, Stations[9]) BY <1>9, StationTable, Zenon
<1>40. Shape(10, Stations[10]) BY <1>10, StationTable, Zenon
<1>41. Shape(11, Stations[11]) BY <1>11, StationTable, Zenon
<1>42. Shape(12, Stations[12]) BY <1>12, StationTable, Zenon
<1>43. Shape(13, Stations[13]) BY <1>13, StationTable, Zenon
<1>44. Shape(14, Stations[14]) BY <1>14, StationTable, Zenon
<1>45. Shape(15, Stations[15]) BY <1>15, StationTable, Zenon
<1>46. Shape(16, Stations[16]) BY <1>16, StationTable, Zenon
<1>47. Shape(17, Stations[17]) BY <1>17, StationTable, Zenon
<1>48. Shape(18, Stations[18]) BY <1>18, StationTable, Zenon
<1>49. Shape(19, Stations[19]) BY <1>19, StationTable, Zenon
<1>50. Shape(20, Stations[20]) BY <1>20, StationTable, Zenon
<1>51. Shape(21, Stations[21]) BY <1>21, StationTable, Zenon
<1>22. ASSUME NEW n \in 1..21 PROVE Shape(n, Stations[n])
  BY <1>31, <1>32, <1>33, <1>34, <1>35, <1>36, <1>37, <1>38, <1>39, <1>40, <1>41,
     <1>42, <1>43, <1>44, <1>45, <1>46, <1>47, <1>48, <1>49, <1>50, <1>51
<1>23. QED
  BY <1>22, StationTable, Zenon

LEMMA PolledFlags ==
  /\ Polled \subseteq Lowered
  /\ {"CONFIG_UPDATE", "MICRO_SCAN", "LID_UNTIL_STOP", "AD7606_IS_SCANNING"} \subseteq Polled
<1>1. ASSUME NEW f \in Polled PROVE f \in Lowered
  BY StationShapes DEF Polled, Shape
<1>2. /\ Stations[2].flag = "LID_UNTIL_STOP" /\ Stations[4].flag = "CONFIG_UPDATE"
      /\ Stations[5].flag = "MICRO_SCAN" /\ Stations[9].flag = "AD7606_IS_SCANNING"
  <2>1. /\ Stations[2] = Station("LID_UNTIL_STOP", {1, 2}, "never", FALSE)
        /\ Stations[4] = Station("CONFIG_UPDATE", {1, 2}, "first", TRUE)
        /\ Stations[5] = Station("MICRO_SCAN", {}, "last", FALSE)
        /\ Stations[9] = Station("AD7606_IS_SCANNING", {1, 2}, "last", TRUE)
    BY StationTable, Zenon
  <2>2. QED
    BY <2>1 DEF Station
<1>3. DOMAIN Stations = 1..21
  BY StationTable, Zenon
<1>4. /\ 2 \in DOMAIN Stations /\ 4 \in DOMAIN Stations
      /\ 5 \in DOMAIN Stations /\ 9 \in DOMAIN Stations
  BY <1>3
<1>5. ASSUME NEW n \in DOMAIN Stations, Stations[n].flag # "SPI setup"
      PROVE  Stations[n].flag \in Polled
  BY <1>5 DEF Polled
<1>6. /\ "LID_UNTIL_STOP" \in Polled /\ "CONFIG_UPDATE" \in Polled
      /\ "MICRO_SCAN" \in Polled /\ "AD7606_IS_SCANNING" \in Polled
  BY <1>2, <1>4, <1>5
<1>7. QED
  BY <1>1, <1>6

LEMMA StopOrderLength == Len(StopOrder) = 23
BY DEF StopOrder

\* stopAll gets to every one of them.
LEMMA StopOrderFacts ==
  /\ \A f \in Lowered : \E t \in 1..23 : StopOrder[t] = f
  /\ \A t \in 1..23 : StopOrder[t] \in Lowered \cup {"AD7606_READ_FOREVER"} \cup Stops
  /\ \A t \in 1..23 : StopOrder[t] # "stopAll"
<1>1. /\ StopOrder[1] = "AD9833_SENDER" /\ StopOrder[2] = "AD8400_SENDER"
      /\ StopOrder[3] = "AD7606_ENABLE_DISABLE" /\ StopOrder[4] = "AD7606_RESET"
      /\ StopOrder[5] = "AD7606_READ" /\ StopOrder[8] = "AD9833_SET_FREQ"
      /\ StopOrder[9] = "AD8400_SET_GAIN" /\ StopOrder[10] = "AD7606_GET_VALUE"
      /\ StopOrder[11] = "AD5664" /\ StopOrder[12] = "MICRO_SCAN"
      /\ StopOrder[13] = "CONVERGENCE" /\ StopOrder[14] = "CONFIG_UPDATE"
      /\ StopOrder[15] = "MOVE_TO" /\ StopOrder[17] = "SET_IO_VALUE"
      /\ StopOrder[18] = "SET_ONE_IO_VALUE" /\ StopOrder[19] = "LID"
      /\ StopOrder[20] = "DAC8563_SET_VOLTAGE" /\ StopOrder[21] = "DAC8563_INIT"
      /\ StopOrder[22] = "LID_UNTIL_STOP" /\ StopOrder[23] = "AD7606_IS_SCANNING"
  BY DEF StopOrder
<1>2. ASSUME NEW f \in Lowered PROVE \E t \in 1..23 : StopOrder[t] = f
  BY <1>1 DEF Lowered
<1>3. /\ StopOrder[6] = "AD7606_READ_FOREVER"
      /\ StopOrder[7] = "AD7606_STOP_SCAN" /\ StopOrder[16] = "STOP_ALL"
  BY DEF StopOrder
<1>4. ASSUME NEW t \in 1..23
      PROVE  /\ StopOrder[t] \in Lowered \cup {"AD7606_READ_FOREVER"} \cup Stops
             /\ StopOrder[t] # "stopAll"
  <2>1. t \in {1, 2, 3, 4, 5, 6, 7, 8, 9, 10, 11, 12, 13, 14, 15, 16, 17, 18, 19,
               20, 21, 22, 23}
    OBVIOUS
  <2>2. QED
    BY <2>1, <1>1, <1>3 DEF Lowered, Stops
<1>5. QED
  BY <1>2, <1>4

-----------------------------------------------------------------------------
(* The inductive invariant. *)

\* The handlers that read arguments, the approach excepted.
WithArgs == Polled \ (Bare \cup {"CONVERGENCE"})

\* The numbers of the last line are in the array.
Stored == \A s \in Filled(Command) : vector[s] = Line

\* Where core 1 is in its line, and what a stopAll has lowered so far.
Core1Inv ==
    /\ rx # "getline" => Line > 0
    /\ rx = "fill" => step \in 0..2
    /\ rx = "store" => /\ step \in Filled(Command)
                      /\ \A s \in Slots : s < step => vector[s] = Line
    /\ rx = "raise" => /\ Command \notin {"stopAll", "unknown"}
                      /\ step < Len(Raises(Command)) /\ Stored
    /\ rx = "stopAll" => /\ Command = "stopAll"
                        /\ \A t \in 1..step : StopOrder[t] \notin flags \cap Polled
    /\ StopHolds

\* What core 0 holds in each phase of a handler.
Core0Inv ==
    /\ args = [s \in DOMAIN args |-> args[s]]
    /\ phase \in {"poll", "block", "sweep", "mark", "clear", "point"} => args = NoArgs
    /\ phase # "poll" => st.flag # "SPI setup"
    /\ phase = "block" => st.flag = "CONFIG_UPDATE"
    /\ phase \in {"sweep", "mark"} => st.flag = "AD7606_IS_SCANNING"
    /\ phase = "mark" => sweep = "off"
    /\ phase = "clear" => st.clear \in {"first", "twice"}
    /\ phase = "point" => st.flag = "AD7606_IS_SCANNING"
    /\ phase = "last" => st.clear = "last"
    /\ phase = "run" => DOMAIN args = st.reads

IInv == TypeOK /\ Core1Inv /\ Core0Inv /\ NoLostCommand

\* A flag that is up is one not yet served, or its handler keeps it up while it
\* works.
RaisedIsOwed ==
    \A f \in WithArgs \cap flags :
        \/ f \in owed
        \/ f = "LID_UNTIL_STOP" /\ st.flag = f /\ phase \in {"read", "run"}
        \/ f = "AD7606_IS_SCANNING" /\ (sweep # "off" \/ (st.flag = f /\ phase = "last"))

\* What is owed is the last line's, and its numbers are in the array.
OwedIsLast == \A f \in WithArgs \cap owed \cap flags : IsFor(Line, f) /\ Stored

\* Core 1 is in a line only while core 0 reads no arguments.
NoOverlap ==
    rx # "getline" => /\ WithArgs \cap owed \cap flags = {}
                      /\ phase \in {"clear", "read"} => st.flag \notin WithArgs \/ Overtaken

\* From the poll to the last argument.
Serving ==
    st.flag \in WithArgs /\ ~Overtaken =>
        /\ phase = "clear" => st.flag \in owed \cap flags
        /\ phase = "read" =>
             /\ IsFor(Line, st.flag) /\ Stored
             /\ \A s \in DOMAIN args : args[s] = Line
             /\ st.clear \in {"first", "twice"} => st.flag \notin flags
             /\ st.flag = "AD7606_IS_SCANNING" => sweep # "off"

\* The arguments in use are those of one line for this handler.
OneLine ==
    phase = "run" /\ st.flag \in WithArgs /\ ~Overtaken =>
        \E n \in 1..Line : IsFor(n, st.flag) /\ \A s \in DOMAIN args : args[s] = n

\* A sender that was raised before the setup finds its own port there.
PortLoaded ==
    /\ \A f \in (Senders \cap owed \cap flags) \ late : at > 14 => spi = Line
    /\ st.flag \in Senders \ late =>
         /\ phase = "read" => spi = Line
         /\ phase = "run" => spi = args[2]

Waits == RaisedIsOwed /\ OwedIsLast /\ NoOverlap /\ Serving /\ OneLine /\ PortLoaded

\* While a command comes in, no sweep is under way.
Quiet ==
    rx # "getline" /\ Command \notin Stops =>
        "AD7606_IS_SCANNING" \notin flags /\ (st.flag = "AD7606_IS_SCANNING" => phase = "poll")

WaitInv == ~rushed => Waits /\ Quiet

\* v is from the last line that asked for an update, or a later one.
Newest(v) == \A n \in 1..Line : IsFor(n, "CONFIG_UPDATE") => v >= n

\* An update is under way.
Updating ==
    \/ rx \in {"fill", "store", "raise"} /\ Command = "CONFIG_UPDATE"
    \/ "CONFIG_UPDATE" \in flags
    \/ st.flag = "CONFIG_UPDATE" /\ phase \in {"clear", "read", "run"}

\* The configuration is the newest, or one is under way, and then no scan is.
UpdateDone ==
    Updating \/ \A n \in 1..Line : IsFor(n, "CONFIG_UPDATE") => conf # NoArgs /\ conf[1] >= n
UpdateFirst ==
    Updating => "MICRO_SCAN" \notin flags /\ (st.flag = "MICRO_SCAN" => phase = "poll")
UpdateNewest == phase = "run" /\ st.flag = "CONFIG_UPDATE" => Newest(args[1])

\* While a command comes in, nothing else is served.
Alone == rx \in {"fill", "store", "raise"} /\ Command \notin Stops => AllServed

Configs == UpdateDone /\ UpdateFirst /\ UpdateNewest /\ Alone

ConfigInv == ~rushed => Configs

-----------------------------------------------------------------------------
(* The operators the model is built from. *)

LEMMA RaisesFacts ==
  ASSUME NEW c \in Commands
  PROVE  /\ Len(Raises(c)) \in 0..2 /\ DOMAIN Raises(c) = 1..Len(Raises(c))
         /\ \A k \in DOMAIN Raises(c) : Raises(c)[k] \in Flag \ {"AD7606_READ_FOREVER"}
         /\ c \notin {"stopAll", "unknown"} => Len(Raises(c)) > 0
         /\ Len(Raises(c)) = 2 => /\ c = "command50" /\ Raises(c)[1] = "MICRO_SCAN"
                                 /\ Raises(c)[2] = "CONFIG_UPDATE"
         /\ c # "command50" => \A k \in DOMAIN Raises(c) : Raises(c)[k] = c
<1>1. CASE c = "command50"
  <2>1. Raises(c) = <<"MICRO_SCAN", "CONFIG_UPDATE">>
    BY <1>1 DEF Raises
  <2>2. {"MICRO_SCAN", "CONFIG_UPDATE"} \subseteq Flag
    BY PolledFlags DEF Flag
  <2>3. QED
    BY <1>1, <2>1, <2>2
<1>2. CASE c \in {"stopAll", "unknown"}
  <2>1. Raises(c) = <<>>
    BY <1>2 DEF Raises
  <2>2. QED
    BY <1>2, <2>1
<1>3. CASE c \notin {"command50", "stopAll", "unknown"}
  <2>1. Raises(c) = <<c>>
    BY <1>3 DEF Raises
  <2>2. c \in Flag \ {"AD7606_READ_FOREVER"}
    BY <1>3, CommandsAssumption
  <2>3. QED
    BY <1>3, <2>1, <2>2
<1>4. QED
  BY <1>1, <1>2, <1>3

\* A line fills the slots from the first to the last that its handler reads.
LEMMA FilledFacts ==
  ASSUME NEW c
  PROVE  /\ Filled(c) \subseteq Slots /\ 0 \in Filled(c)
         /\ \A s \in Slots, r \in Filled(c) : s <= r => s \in Filled(c)
         /\ \A n \in DOMAIN Stations, k \in DOMAIN Raises(c) :
               Stations[n].flag = Raises(c)[k] => Stations[n].reads \subseteq Filled(c)
<1> DEFINE top == {i \in DOMAIN Stations :
                     \E k \in DOMAIN Raises(c) : Stations[i].flag = Raises(c)[k]}
<1>1. Filled(c) = {s \in Slots : s = 0 \/ \E i \in top : \E r \in Stations[i].reads : s <= r}
  BY DEF Filled
<1>2. \A n \in DOMAIN Stations : Stations[n].reads \subseteq Slots
  BY StationShapes DEF Shape
<1>3. top \subseteq DOMAIN Stations
  OBVIOUS
<1>4. ASSUME NEW n \in DOMAIN Stations, NEW k \in DOMAIN Raises(c),
             Stations[n].flag = Raises(c)[k]
      PROVE  n \in top
  BY <1>4
<1> HIDE DEF top
<1>5. Filled(c) \subseteq Slots /\ 0 \in Filled(c)
  BY <1>1 DEF Slots
<1>6. ASSUME NEW s \in Slots, NEW r \in Filled(c), s <= r PROVE s \in Filled(c)
  BY <1>1, <1>2, <1>3, <1>6 DEF Slots
<1>7. ASSUME NEW n \in top PROVE Stations[n].reads \subseteq Filled(c)
  BY <1>1, <1>2, <1>3 DEF Slots
<1>8. QED
  BY <1>4, <1>5, <1>6, <1>7

LEMMA NoArgsFacts == DOMAIN NoArgs = {} /\ NoArgs = [s \in DOMAIN NoArgs |-> NoArgs[s]]
BY DEF NoArgs

\* The station that core 0 is at.
LEMMA StationAt == TypeOK => Shape(at, st) /\ at \in 1..21
<1>1. DOMAIN Stations = 1..21
  BY StationTable, Zenon
<1>2. QED
  BY <1>1, StationShapes DEF TypeOK, st

LEMMA Leaving ==
  ASSUME TypeOK, Leave
  PROVE  /\ phase' = "poll" /\ args' = NoArgs /\ DOMAIN args' = {}
         /\ at' \in DOMAIN Stations
         /\ at' > 14 => at > 14 \/ st.flag = "SPI setup"
<1>1. DOMAIN Stations = 1..21 /\ Len(Stations) = 21
  BY StationTable, Zenon
<1>2. at = 14 => st.flag = "SPI setup"
  BY StationAt DEF Shape
<1>3. phase' = "poll" /\ args' = NoArgs /\ DOMAIN args' = {}
  BY NoArgsFacts DEF Leave
<1>4. at' = 1 \/ (at # 21 /\ at' = at + 1)
  BY <1>1, Zenon DEF Leave
<1>5. at' \in 1..21 /\ (at' > 14 => at > 14 \/ at = 14)
  <2>1. at \in 1..21
    BY StationAt
  <2>2. QED
    BY <2>1, <1>4
<1>6. QED
  BY <1>1, <1>2, <1>3, <1>5

\* The line that core 1 works on is one of the commands.
LEMMA CommandTyped == TypeOK /\ Line > 0 => Command \in Commands /\ Line \in Serial
BY CommandsAssumption DEF TypeOK, Line, Command, Serial

-----------------------------------------------------------------------------
(* Type correctness, and the shape of what each core holds. *)

\* The part of TypeOK that only core 1 changes, and the rest.
Typed1 ==
    /\ sent \in Seq(Commands) /\ Line <= MaxLines
    /\ rx \in {"getline", "fill", "store", "raise", "stopAll", "activateError"}
    /\ step \in 0..Len(StopOrder)
    /\ vector \in [Slots -> Serial]
    /\ rushed \in BOOLEAN

Typed0 ==
    /\ at \in DOMAIN Stations
    /\ phase \in {"poll", "block", "sweep", "mark", "clear", "read", "run", "point", "last"}
    /\ DOMAIN args \subseteq st.reads /\ \A s \in DOMAIN args : args[s] \in Serial
    /\ spi \in Serial
    /\ DOMAIN conf \in {{}, {1, 2}} /\ \A s \in DOMAIN conf : conf[s] \in Serial

TypedFlags ==
    /\ flags \subseteq Flag /\ late \subseteq Flag /\ owed \subseteq Polled
    /\ sweep \in {"off", "started", "measured"}

LEMMA StepRange == Typed1 => step \in 0..23
<1>1. Typed1 => step \in 0..Len(StopOrder)
  BY Zenon DEF Typed1
<1>2. QED
  BY <1>1, StopOrderLength, Zenon

LEMMA TypeParts == TypeOK <=> Typed1 /\ Typed0 /\ TypedFlags
BY Zenon DEF TypeOK, Typed1, Typed0, TypedFlags

LEMMA TypeParts2 == Typed1' /\ Typed0' /\ TypedFlags' => TypeOK'
BY Zenon DEF TypeOK, Typed1, Typed0, TypedFlags

LEMMA InitInv == Init => IInv /\ WaitInv /\ ConfigInv
<1> SUFFICES ASSUME Init PROVE IInv /\ WaitInv /\ ConfigInv
  OBVIOUS
<1>1. Typed1
  BY CommandsAssumption, StopOrderLength DEF Init, Typed1, Line, Serial, Slots
<1>2. TypedFlags
  BY DEF Init, TypedFlags
<1>3. at \in DOMAIN Stations
  <2>1. DOMAIN Stations = 1..21
    BY StationTable, Zenon
  <2>2. QED
    BY <2>1 DEF Init
<1>4. Typed0
  BY <1>3, NoArgsFacts, CommandsAssumption DEF Init, Typed0, Serial
<1>5. Core1Inv
  BY DEF Init, Core1Inv, StopHolds, Line
<1>6. Core0Inv
  BY NoArgsFacts DEF Init, Core0Inv
<1>7. NoLostCommand
  BY DEF Init, NoLostCommand
<1>8. WaitInv
  BY DEF Init, WaitInv, Waits, RaisedIsOwed, OwedIsLast, NoOverlap, Serving, OneLine, PortLoaded,
         Quiet
<1>9. ConfigInv
  BY DEF Init, ConfigInv, Configs, UpdateDone, UpdateFirst, UpdateNewest, Alone, Line, Updating
<1>10. QED
  BY <1>1, <1>2, <1>4, <1>5, <1>6, <1>7, <1>8, <1>9, TypeParts DEF IInv

LEMMA Core1Typed ==
  ASSUME TypeOK, Core1Inv, Core1
  PROVE  Typed1'
<1> USE TypeParts
<1>1. ASSUME NEW c \in Commands, GetLine(c) PROVE Typed1'
  <2>1. sent' \in Seq(Commands) /\ Len(sent') = Len(sent) + 1
    BY <1>1 DEF GetLine, Typed1
  <2>2. rushed' \in BOOLEAN
    BY <1>1 DEF GetLine
  <2>3. QED
    BY <1>1, <2>1, <2>2, CommandsAssumption, StopOrderLength DEF GetLine, Typed1, Line
<1>2. CASE Fill
  <2>1. step \in 0..2 /\ 0 \in Serial
    BY <1>2, CommandsAssumption DEF Fill, Core1Inv, Serial
  <2>2. vector' \in [Slots -> Serial]
    BY <1>2, <2>1 DEF Fill, Typed1
  <2>3. step' \in 0..Len(StopOrder) /\ rx' \in {"fill", "store"}
    BY <1>2, <2>1, StopOrderLength DEF Fill
  <2>4. sent' = sent /\ rushed' = rushed
    BY <1>2 DEF Fill
  <2>5. QED
    BY <2>2, <2>3, <2>4 DEF Typed1, Line
<1>3. CASE Store
  <2>1. Line \in Serial /\ step \in Slots
    BY <1>3, CommandTyped, FilledFacts DEF Store, Core1Inv
  <2>2. vector' \in [Slots -> Serial]
    BY <1>3, <2>1 DEF Store, Typed1
  <2>3. step' \in 0..Len(StopOrder)
    BY <1>3, <2>1, StopOrderLength DEF Store, Slots
  <2>4. rx' \in {"store", "raise", "stopAll", "activateError"}
    BY <1>3 DEF Store
  <2>5. sent' = sent /\ rushed' = rushed
    BY <1>3 DEF Store
  <2>6. QED
    BY <2>2, <2>3, <2>4, <2>5 DEF Typed1, Line
<1>4. CASE Raise
  <2>1. step' \in 0..Len(StopOrder) /\ rx' \in {"raise", "getline"}
    <3> DEFINE n == Len(Raises(Command))
    <3>2. \/ step + 1 < n /\ rx' = "raise" /\ step' = step + 1
          \/ rx' = "getline" /\ step' = 0
      BY <1>4 DEF Raise
    <3>1. n \in 0..2
      BY <1>4, CommandTyped, RaisesFacts DEF Raise, Core1Inv
    <3> HIDE DEF n
    <3>3. step \in Nat
      BY StepRange
    <3>4. QED
      BY <3>1, <3>2, <3>3, StopOrderLength
  <2>2. QED
    BY <1>4, <2>1 DEF Raise, Typed1, Line
<1>5. CASE StopAll
  <2>1. /\ sent' = sent /\ vector' = vector /\ rushed' = rushed
        /\ rx' \in {"stopAll", "getline"}
    BY <1>5 DEF StopAll
  <2>2. step' \in 0..Len(StopOrder)
    <3>1. (step < Len(StopOrder) /\ step' = step + 1) \/ step' = 0
      BY <1>5, Zenon DEF StopAll
    <3>2. QED
      BY <3>1, StepRange, StopOrderLength
  <2>3. QED
    BY <2>1, <2>2 DEF Typed1, Line
<1>6. QED
  BY <1>1, <1>2, <1>3, <1>4, <1>5 DEF Core1

\* What core 1 changes of the rest is only the flags and the sweep.
LEMMA Core1Keeps ==
  ASSUME Core1
  PROVE  /\ at' = at /\ phase' = phase /\ args' = args /\ spi' = spi /\ conf' = conf
         /\ st' = st /\ (sweep = "off" => sweep' = "off")
BY DEF Core1, GetLine, Fill, Store, Raise, StopAll, core0, st

LEMMA Core1Type ==
  ASSUME TypeOK, Core1Inv, Core1
  PROVE  TypeOK'
<1>1. Typed0'
  BY Core1Keeps, TypeParts DEF Typed0, Serial
<1>2. TypedFlags'
  <2> USE TypeParts DEF TypedFlags
  <2>1. ASSUME NEW c \in Commands, GetLine(c) PROVE TypedFlags'
    BY <2>1 DEF GetLine, core0
  <2>2. CASE Fill \/ Store
    BY <2>2 DEF Fill, Store, core0
  <2>3. CASE Raise
    <3>1. Raises(Command)[step + 1] \in Flag
      BY <2>3, CommandTyped, RaisesFacts DEF Raise, Core1Inv, Typed1
    <3>2. QED
      BY <2>3, <3>1 DEF Raise
  <2>4. CASE StopAll
    <3>1. late' = late /\ owed' \subseteq owed /\ sweep' \in {sweep, "off"}
      BY <2>4 DEF StopAll, core0
    <3>2. \/ step < 23 /\ flags' \subseteq flags \cup ({StopOrder[step + 1]} \cap Stops)
          \/ flags' = flags
      BY <2>4, StopOrderLength DEF StopAll
    <3>3. step < 23 => StopOrder[step + 1] # "stopAll"
      <4>1. step < 23 => step + 1 \in 1..23
        BY StepRange
      <4>2. QED
        BY <4>1, StopOrderFacts, Zenon
    <3>4. flags' \subseteq Flag
      BY <3>2, <3>3 DEF Stops, Flag
    <3>5. QED
      BY <3>1, <3>4
  <2>5. QED
    BY <2>1, <2>2, <2>3, <2>4 DEF Core1
<1>3. QED
  BY <1>1, <1>2, Core1Typed, TypeParts2

LEMMA Core0Keeps ==
  ASSUME Core0
  PROVE  /\ sent' = sent /\ rx' = rx /\ step' = step /\ vector' = vector /\ rushed' = rushed
         /\ owed' \subseteq owed /\ late' \in {late, {}}
<1> USE DEF core1
<1>1. CASE EnterBlock \/ PollDown \/ PollUp \/ Setup \/ Clear
  BY <1>1 DEF EnterBlock, PollDown, PollUp, Setup, Clear
<1>2. CASE SweepTest \/ SweepMark \/ Read
  BY <1>2 DEF SweepTest, SweepMark, Read
<1>3. CASE RunPlain \/ RunConvergence \/ RunLidUntilStop \/ RunConfigUpdate
  BY <1>3 DEF RunPlain, RunConvergence, RunLidUntilStop, RunConfigUpdate
<1>4. CASE RunScan \/ ClearLast \/ RunSetIo \/ RunEnableDisable \/ SweepPass
  BY <1>4 DEF RunScan, ClearLast, RunSetIo, RunEnableDisable, SweepPass
<1>5. QED
  BY <1>1, <1>2, <1>3, <1>4 DEF Core0

\* Core 0 lowers flags, and raises only the one that it does not poll for itself.
LEMMA Core0Lowers ==
  ASSUME TypeOK, Core0
  PROVE  /\ flags' \subseteq flags \cup {"AD7606_READ_FOREVER"}
         /\ sweep' \in {"off", "started", "measured"}
<1>0. sweep \in {"off", "started", "measured"}
  BY DEF TypeOK
<1>1. CASE EnterBlock \/ PollDown \/ PollUp \/ SweepTest \/ SweepMark \/ Setup \/ Clear \/ Read
  BY <1>0, <1>1 DEF EnterBlock, PollDown, PollUp, SweepTest, SweepMark, Setup, Clear, Read
<1>2. CASE RunPlain \/ RunConvergence \/ RunLidUntilStop \/ RunConfigUpdate
  BY <1>0, <1>2 DEF RunPlain, RunConvergence, RunLidUntilStop, RunConfigUpdate
<1>3. CASE RunScan \/ ClearLast \/ RunSetIo \/ RunEnableDisable
  BY <1>0, <1>3 DEF RunScan, ClearLast, RunSetIo, RunEnableDisable
<1>4. CASE SweepPass
  BY <1>0, <1>4 DEF SweepPass
<1>5. QED
  BY <1>1, <1>2, <1>3, <1>4 DEF Core0

\* A handler ends.
LEMMA LeaveShape ==
  ASSUME TypeOK, Leave, spi' = spi, conf' = conf \/ (conf' = args /\ DOMAIN args = {1, 2})
  PROVE  Typed0' /\ Core0Inv'
<1>1. /\ spi \in Serial /\ DOMAIN conf' \in {{}, {1, 2}}
      /\ \A s \in DOMAIN conf' : conf'[s] \in Serial
  BY TypeParts DEF Typed0
<1>2. Typed0'
  BY <1>1, Leaving DEF Typed0, Serial
<1>3. Core0Inv'
  BY Leaving, NoArgsFacts DEF Core0Inv
<1>4. QED
  BY <1>2, <1>3

LEMMA Core0Shape ==
  ASSUME TypeOK, Core0Inv, Core0
  PROVE  Typed0' /\ Core0Inv'
<1>1. Typed0 /\ Typed1 /\ Shape(at, st) /\ at \in 1..21
  BY TypeParts, StationAt
<1>2. DOMAIN Stations = 1..21 /\ Len(Stations) = 21
  BY StationTable, Zenon
<1>3. "SPI setup" \notin Flag
  BY PolledFlags DEF Flag, Lowered
<1>4. CASE PollDown
  <2>1. at' \in DOMAIN Stations
    <3>1. at' = 1 \/ (at # 21 /\ at' = at + 1)
      BY <1>2, <1>4, Zenon DEF PollDown
    <3>2. at \in 1..21
      BY <1>1
    <3>3. at' \in 1..21
      BY <3>1, <3>2
    <3>4. QED
      BY <1>2, <3>3, Zenon
  <2>2. /\ phase \in {"poll", "block"} /\ phase' = "poll" /\ args' = args /\ spi' = spi
        /\ conf' = conf
    BY <1>4 DEF PollDown, Polling
  <2>3. args = NoArgs
    BY <2>2 DEF Core0Inv
  <2>4. Typed0'
    BY <1>1, <2>1, <2>2, <2>3, NoArgsFacts DEF Typed0, Serial
  <2>5. Core0Inv'
    BY <2>2, <2>3, NoArgsFacts DEF Core0Inv
  <2>6. QED
    BY <2>4, <2>5
<1>5. CASE PollUp
  <2>1. st.flag # "SPI setup"
    BY <1>3, <1>5 DEF PollUp, TypeOK
  <2>2. /\ phase \in {"poll", "block"} /\ at' = at /\ args' = args /\ spi' = spi
        /\ conf' = conf /\ st' = st
    BY <1>5 DEF PollUp, Polling, st
  <2>3. \/ phase' = "read"
        \/ phase' = "sweep" /\ st.flag = "AD7606_IS_SCANNING"
        \/ phase' = "clear" /\ st.clear \in {"first", "twice"}
    BY <1>5 DEF PollUp
  <2>4. args = NoArgs
    BY <2>2 DEF Core0Inv
  <2>5. Typed0'
    BY <1>1, <2>2, <2>3 DEF Typed0, Serial
  <2>6. Core0Inv'
    BY <2>1, <2>2, <2>3, <2>4, NoArgsFacts DEF Core0Inv
  <2>7. QED
    BY <2>5, <2>6
<1>15. CASE EnterBlock
  <2>1. /\ phase = "poll" /\ st.flag = "CONFIG_UPDATE" /\ args' = args /\ spi' = spi
        /\ conf' = conf /\ phase' \in {"poll", "block"} /\ (at' = at \/ at' = at + 2)
        /\ phase' = "block" => at' = at
    BY <1>15 DEF EnterBlock
  <2>2. args = NoArgs
    BY <2>1 DEF Core0Inv
  <2>3. at' \in DOMAIN Stations
    <3>1. at = 4
      BY <1>1, <2>1 DEF Shape
    <3>2. at' \in 1..21
      BY <2>1, <3>1
    <3>3. QED
      BY <1>2, <3>2, Zenon
  <2>4. Typed0'
    BY <1>1, <2>1, <2>2, <2>3, NoArgsFacts DEF Typed0, Serial
  <2>5. phase' = "block" => st' = st
    BY <2>1 DEF st
  <2>6. Core0Inv'
    BY <2>1, <2>2, <2>5, NoArgsFacts DEF Core0Inv
  <2>7. QED
    BY <2>4, <2>6
<1>16. CASE SweepTest \/ SweepMark
  <2>1. /\ phase \in {"sweep", "mark"} /\ phase' \in {"mark", "point", "read"}
        /\ at' = at /\ args' = args /\ spi' = spi /\ conf' = conf /\ st' = st
        /\ phase' = "mark" => sweep' = "off"
    BY <1>16 DEF SweepTest, SweepMark, st
  <2>2. args = NoArgs /\ st.flag = "AD7606_IS_SCANNING"
    BY <2>1 DEF Core0Inv
  <2>3. Typed0'
    BY <1>1, <2>1, <2>2 DEF Typed0, Serial
  <2>4. Core0Inv'
    BY <2>1, <2>2, NoArgsFacts DEF Core0Inv
  <2>5. QED
    BY <2>3, <2>4
<1>6. CASE Setup
  <2>1. at = 14
    BY <1>1, <1>6 DEF Setup, Shape
  <2>2. at' \in DOMAIN Stations
    <3>1. at' = at + 1
      BY <1>6 DEF Setup
    <3>2. at' \in 1..21
      BY <2>1, <3>1
    <3>3. QED
      BY <1>2, <3>2, Zenon
  <2>3. phase = "poll" /\ phase' = phase /\ args' = args /\ conf' = conf
    BY <1>6 DEF Setup
  <2>4. args = NoArgs
    BY <2>3 DEF Core0Inv
  <2>5. spi' \in Serial
    <3>1. spi' = vector[1]
      BY <1>6, Zenon DEF Setup
    <3>2. 1 \in Slots
      BY DEF Slots
    <3>3. vector \in [Slots -> Serial]
      BY <1>1 DEF Typed1
    <3>4. QED
      BY <3>1, <3>2, <3>3
  <2>6. Typed0'
    BY <1>1, <2>2, <2>3, <2>4, <2>5, NoArgsFacts DEF Typed0, Serial
  <2>7. Core0Inv'
    BY <2>3, <2>4, NoArgsFacts DEF Core0Inv
  <2>8. QED
    BY <2>6, <2>7
<1>7. CASE Clear
  <2>1. /\ phase = "clear" /\ phase' = "read" /\ at' = at /\ args' = args /\ spi' = spi
        /\ conf' = conf /\ st' = st
    BY <1>7 DEF Clear, st
  <2>2. Typed0'
    BY <1>1, <2>1 DEF Typed0, Serial
  <2>3. Core0Inv'
    BY <2>1 DEF Core0Inv
  <2>4. QED
    BY <2>2, <2>3
<1>8. CASE Read
  <2>1. phase = "read" /\ at' = at /\ spi' = spi /\ conf' = conf /\ st' = st
    BY <1>8 DEF Read, st
  <2>2. CASE phase' = "run" /\ args' = args /\ st.reads \ DOMAIN args = {}
    <3>1. DOMAIN args = st.reads
      BY <1>1, <2>2 DEF Typed0
    <3>2. Typed0'
      BY <1>1, <2>1, <2>2 DEF Typed0, Serial
    <3>3. Core0Inv'
      BY <2>1, <2>2, <3>1 DEF Core0Inv
    <3>4. QED
      BY <3>2, <3>3
  <2>3. ASSUME NEW s \in st.reads \ DOMAIN args, phase' = phase,
               args' = [r \in DOMAIN args \cup {s} |->
                          IF r = s THEN vector[s] ELSE args[r]]
        PROVE  Typed0' /\ Core0Inv'
    <3>1. s \in Slots
      BY <1>1 DEF Shape
    <3>2. vector[s] \in Serial
      BY <1>1, <3>1 DEF Typed1
    <3>3. DOMAIN args' = DOMAIN args \cup {s}
      BY <2>3
    <3>4. \A r \in DOMAIN args' : args'[r] \in Serial
      BY <1>1, <2>3, <3>2 DEF Typed0
    <3>5. Typed0'
      BY <1>1, <2>1, <2>3, <3>3, <3>4 DEF Typed0, Serial
    <3>6. args' = [r \in DOMAIN args' |-> args'[r]]
      BY <2>3
    <3>7. Core0Inv'
      BY <2>1, <2>3, <3>6 DEF Core0Inv
    <3>8. QED
      BY <3>5, <3>7
  <2>4. QED
    BY <1>8, <2>2, <2>3 DEF Read
<1>9. CASE RunPlain \/ RunSetIo \/ RunEnableDisable \/ ClearLast
  BY <1>9, LeaveShape DEF RunPlain, RunSetIo, RunEnableDisable, ClearLast
<1>10. CASE RunConvergence \/ RunLidUntilStop
  <2>1. phase = "run" /\ spi' = spi /\ conf' = conf
    BY <1>10 DEF RunConvergence, RunLidUntilStop
  <2>2. CASE Leave
    BY <2>1, <2>2, LeaveShape
  <2>3. CASE phase' = phase /\ at' = at /\ args' = args
    <3>1. st' = st
      BY <2>3 DEF st
    <3>2. Typed0'
      BY <1>1, <2>1, <2>3, <3>1 DEF Typed0, Serial
    <3>3. Core0Inv'
      BY <2>1, <2>3, <3>1 DEF Core0Inv
    <3>4. QED
      BY <3>2, <3>3
  <2>4. QED
    BY <1>10, <2>2, <2>3 DEF RunConvergence, RunLidUntilStop
<1>11. CASE RunConfigUpdate
  <2>1. DOMAIN args = {1, 2}
    BY <1>1, <1>11 DEF RunConfigUpdate, Core0Inv, Shape
  <2>2. QED
    BY <1>11, <2>1, LeaveShape DEF RunConfigUpdate
<1>12. CASE RunScan
  <2>1. /\ phase = "run" /\ phase' = "last" /\ at' = at /\ args' = args /\ spi' = spi
        /\ conf' = conf /\ st' = st /\ st.flag = "MICRO_SCAN"
    BY <1>12 DEF RunScan, st
  <2>2. st.clear = "last"
    BY <1>1, <2>1 DEF Shape
  <2>3. Typed0'
    BY <1>1, <2>1 DEF Typed0, Serial
  <2>4. Core0Inv'
    BY <2>1, <2>2 DEF Core0Inv
  <2>5. QED
    BY <2>3, <2>4
<1>13. CASE SweepPass
  <2>1. phase = "point" /\ spi' = spi /\ conf' = conf
    BY <1>13 DEF SweepPass
  <2>2. CASE Leave
    BY <2>1, <2>2, LeaveShape
  <2>3. CASE phase' = "last" /\ at' = at /\ args' = args
    <3>1. st' = st
      BY <2>3 DEF st
    <3>2. st.flag = "AD7606_IS_SCANNING"
      BY <2>1 DEF Core0Inv
    <3>3. st.clear = "last"
      BY <1>1, <3>2 DEF Shape
    <3>4. Typed0'
      BY <1>1, <2>1, <2>3, <3>1 DEF Typed0, Serial
    <3>5. Core0Inv'
      BY <2>1, <2>3, <3>1, <3>2, <3>3 DEF Core0Inv
    <3>6. QED
      BY <3>4, <3>5
  <2>4. QED
    BY <1>13, <2>2, <2>3 DEF SweepPass
<1>14. QED
  BY <1>4, <1>5, <1>6, <1>7, <1>8, <1>9, <1>10, <1>11, <1>12, <1>13, <1>15, <1>16 DEF Core0

LEMMA Core0Type ==
  ASSUME TypeOK, Core0Inv, Core0
  PROVE  TypeOK'
<1>1. Typed1'
  BY Core0Keeps, TypeParts DEF Typed1, Line, Serial
<1>2. TypedFlags'
  BY Core0Keeps, Core0Lowers, TypeParts DEF TypedFlags, Flag
<1>3. QED
  BY <1>1, <1>2, Core0Shape, TypeParts2

LEMMA Core0InvStep1 ==
  ASSUME Core0Inv, Core1
  PROVE  Core0Inv'
BY Core1Keeps DEF Core0Inv

-----------------------------------------------------------------------------
(* Core 1 in its line, and what stopAll achieves. *)

LEMMA NotPolled ==
  /\ "AD7606_READ_FOREVER" \notin Polled /\ "SPI setup" \notin Polled
  /\ Polled \cap Stops = {}
BY PolledFlags DEF Lowered, Stops

LEMMA Core1InvStep0 ==
  ASSUME TypeOK, Core1Inv, Core0
  PROVE  Core1Inv'
<1>1. flags' \cap Polled \subseteq flags \cap Polled
  BY Core0Lowers, NotPolled
<1>2. /\ sent' = sent /\ rx' = rx /\ step' = step /\ vector' = vector
      /\ Line' = Line /\ Command' = Command
  BY Core0Keeps DEF Line, Command
<1>3. Stored' <=> Stored
  BY <1>2 DEF Stored
<1>4. StopHolds'
  BY <1>1, <1>2 DEF Core1Inv, StopHolds
<1>5. QED
  BY <1>1, <1>2, <1>3, <1>4 DEF Core1Inv

LEMMA Core1InvStep1 ==
  ASSUME TypeOK, Core1Inv, Core1
  PROVE  Core1Inv'
<1>0. Typed1
  BY TypeParts
<1>1. ASSUME NEW c \in Commands, GetLine(c) PROVE Core1Inv'
  <2>1. rx' = "fill" /\ step' = 0
    BY <1>1 DEF GetLine
  <2>2. Line' > 0
    BY <1>0, <1>1 DEF GetLine, Line, Typed1
  <2>3. StopHolds'
    BY <2>1 DEF StopHolds
  <2>4. QED
    BY <2>1, <2>2, <2>3 DEF Core1Inv
<1>2. CASE Fill
  <2>1. /\ sent' = sent /\ Line' = Line /\ Command' = Command /\ Line > 0
        /\ step \in 0..2
    BY <1>2 DEF Fill, Core1Inv, Line, Command
  <2>2. (rx' = "fill" /\ step < 2 /\ step' = step + 1) \/ (rx' = "store" /\ step' = 0)
    BY <1>2 DEF Fill
  <2>3. 0 \in Filled(Command') /\ \A s \in Slots : ~(s < 0)
    BY FilledFacts DEF Slots
  <2>4. StopHolds'
    BY <2>2 DEF StopHolds
  <2>5. CASE rx' = "fill" /\ step < 2 /\ step' = step + 1
    BY <2>1, <2>4, <2>5 DEF Core1Inv
  <2>6. CASE rx' = "store" /\ step' = 0
    BY <2>1, <2>3, <2>4, <2>6 DEF Core1Inv
  <2>7. QED
    BY <2>2, <2>5, <2>6
<1>3. CASE Store
  <2>1. /\ sent' = sent /\ Line' = Line /\ Command' = Command /\ Line > 0
        /\ step \in Filled(Command) /\ step \in Slots
        /\ \A s \in Slots : s < step => vector[s] = Line
    BY <1>3, FilledFacts DEF Store, Core1Inv, Line, Command
  <2>2. vector' = [vector EXCEPT ![step] = Line]
    BY <1>3 DEF Store
  <2>3. vector \in [Slots -> Serial]
    BY <1>0 DEF Typed1
  <2>4. \A s \in Slots : s <= step => vector'[s] = Line
    BY <2>1, <2>2, <2>3 DEF Slots
  <2>5. CASE step + 1 \in Filled(Command)
    <3>1. rx' = "store" /\ step' = step + 1
      BY <1>3, <2>5 DEF Store
    <3>2. \A s \in Slots : s < step + 1 => s <= step
      BY <2>1 DEF Slots
    <3>3. StopHolds'
      BY <3>1 DEF StopHolds
    <3>4. QED
      BY <2>1, <2>4, <2>5, <3>1, <3>2, <3>3 DEF Core1Inv
  <2>6. CASE step + 1 \notin Filled(Command)
    <3>1. /\ Command = "stopAll" => rx' = "stopAll"
          /\ Command = "unknown" => rx' = "activateError"
          /\ Command \notin {"stopAll", "unknown"} => rx' = "raise"
          /\ step' = 0
      BY <1>3, <2>6 DEF Store
    <3>2. \A s \in Filled(Command) : s \in Slots /\ s <= step
      <4>1. ASSUME NEW s \in Filled(Command), step + 1 <= s
            PROVE  step + 1 \in Filled(Command)
        <5>1. s \in Slots
          BY FilledFacts
        <5>2. step + 1 \in Slots
          BY <2>1, <4>1, <5>1 DEF Slots
        <5>3. QED
          BY <4>1, <5>2, FilledFacts
      <4>2. QED
        BY <2>1, <2>6, <4>1, FilledFacts DEF Slots
    <3>3. Stored'
      BY <2>1, <2>4, <3>2 DEF Stored
    <3>4. ~(rx' = "getline") /\ ~(rx' = "fill") /\ ~(rx' = "store")
      BY <3>1
    <3>5. StopHolds'
      BY <3>4 DEF StopHolds
    <3>6. CASE Command = "stopAll"
      BY <2>1, <3>1, <3>4, <3>5, <3>6 DEF Core1Inv
    <3>7. CASE Command = "unknown"
      BY <2>1, <3>1, <3>4, <3>5, <3>7 DEF Core1Inv
    <3>8. CASE Command \notin {"stopAll", "unknown"}
      <4>1. 0 < Len(Raises(Command))
        BY <2>1, <3>8, CommandTyped, RaisesFacts
      <4>2. QED
        BY <2>1, <3>1, <3>3, <3>4, <3>5, <3>8, <4>1 DEF Core1Inv
    <3>9. QED
      BY <3>6, <3>7, <3>8
  <2>7. QED
    BY <2>5, <2>6
<1>4. CASE Raise
  <2>1. /\ sent' = sent /\ vector' = vector /\ Line' = Line /\ Command' = Command
        /\ Line > 0 /\ Command \notin {"stopAll", "unknown"} /\ Stored
    BY <1>4 DEF Raise, Core1Inv, Line, Command
  <2>2. \/ step + 1 < Len(Raises(Command)) /\ rx' = "raise" /\ step' = step + 1
        \/ rx' = "getline" /\ step' = 0
    BY <1>4 DEF Raise
  <2>3. Stored'
    BY <2>1 DEF Stored
  <2>4. StopHolds'
    BY <2>1 DEF StopHolds
  <2>5. QED
    BY <2>1, <2>2, <2>3, <2>4 DEF Core1Inv
<1>5. CASE StopAll
  <2>1. /\ sent' = sent /\ Line' = Line /\ Command' = Command /\ Line > 0
        /\ Command = "stopAll" /\ rx = "stopAll"
        /\ \A t \in 1..step : StopOrder[t] \notin flags \cap Polled
    BY <1>5 DEF StopAll, Core1Inv, Line, Command
  <2>2. step \in 0..23
    BY <1>0, StopOrderLength DEF Typed1
  <2>3. CASE step < 23
    <3>1. rx' = "stopAll" /\ step' = step + 1
      BY <1>5, <2>3, <2>1, StopOrderLength DEF StopAll
    <3>2. /\ flags' \cap Polled \subseteq flags \cap Polled
          /\ StopOrder[step + 1] \notin flags' \cap Polled
      BY <1>5, <2>3, StopOrderLength, NotPolled DEF StopAll
    <3>3. \A t \in 1..(step + 1) : t \in 1..step \/ t = step + 1
      BY <2>2
    <3>4. \A t \in 1..(step + 1) : StopOrder[t] \notin flags' \cap Polled
      BY <2>1, <3>2, <3>3
    <3>5. StopHolds'
      BY <3>1 DEF StopHolds
    <3>6. QED
      BY <2>1, <3>1, <3>4, <3>5 DEF Core1Inv
  <2>4. CASE step = 23
    <3>1. rx' = "getline" /\ flags' = flags
      BY <1>5, <2>4, StopOrderLength DEF StopAll
    <3>2. ASSUME NEW f \in Polled PROVE f \notin flags
      BY <2>1, <2>4, StopOrderFacts, PolledFlags
    <3>3. StopHolds'
      BY <3>1, <3>2 DEF StopHolds
    <3>4. QED
      BY <2>1, <3>1, <3>3 DEF Core1Inv
  <2>5. QED
    BY <2>2, <2>3, <2>4
<1>6. QED
  BY <1>1, <1>2, <1>3, <1>4, <1>5 DEF Core1

-----------------------------------------------------------------------------
(* No command is swallowed. *)

LEMMA ClearedFirstFacts ==
  ClearedFirst \cap {"MICRO_SCAN", "AD7606_IS_SCANNING", "SET_IO_VALUE",
                     "AD7606_STOP_SCAN", "STOP_ALL", "AD7606_READ_FOREVER"} = {}
BY StationShapes DEF ClearedFirst, Shape, Lowered

LEMMA NoLostStep1 ==
  ASSUME NoLostCommand, Core1
  PROVE  NoLostCommand'
<1>1. phase' = phase /\ st' = st /\ args' = args /\ ClearedFirst' = ClearedFirst
  BY Core1Keeps DEF ClearedFirst
<1>2. owed' \ flags' \subseteq owed \ flags
  BY DEF Core1, GetLine, Fill, Store, Raise, StopAll
<1>3. \A f \in owed' : f \in flags' \/ (f \in owed /\ f \notin flags)
  BY <1>2
<1>4. QED
  BY <1>1, <1>3 DEF NoLostCommand

LEMMA NoLostStep0 ==
  ASSUME TypeOK, Core0Inv, NoLostCommand, Core0
  PROVE  NoLostCommand'
<1> SUFFICES ASSUME NEW f \in owed', f \in ClearedFirst,
                    ~(phase' = "read" /\ st'.flag = f /\ args' = NoArgs)
             PROVE  f \in flags'
  BY DEF NoLostCommand, ClearedFirst
<1>0. f \in owed
  BY Core0Keeps
<1>1. f \in flags \/ (phase = "read" /\ st.flag = f /\ args = NoArgs)
  BY <1>0 DEF NoLostCommand
<1>2. f \notin {"MICRO_SCAN", "AD7606_IS_SCANNING", "SET_IO_VALUE",
                "AD7606_STOP_SCAN", "STOP_ALL", "AD7606_READ_FOREVER"}
  BY ClearedFirstFacts
<1>3. CASE EnterBlock \/ PollDown \/ PollUp \/ Setup
  BY <1>1, <1>3 DEF EnterBlock, PollDown, PollUp, Polling, Setup
<1>10. CASE SweepTest \/ SweepMark
  BY <1>1, <1>10 DEF SweepTest, SweepMark
<1>4. CASE Clear
  <2>1. args = NoArgs
    BY <1>4 DEF Clear, Core0Inv
  <2>2. phase' = "read" /\ st' = st /\ args' = args /\ phase = "clear"
    BY <1>4 DEF Clear, st
  <2>3. QED
    BY <1>1, <1>4, <2>1, <2>2 DEF Clear
<1>5. CASE Read
  BY <1>1, <1>5 DEF Read
<1>6. CASE RunPlain \/ RunConvergence \/ RunLidUntilStop \/ RunConfigUpdate
  BY <1>1, <1>2, <1>6 DEF RunPlain, RunConvergence, RunLidUntilStop, RunConfigUpdate
<1>7. CASE RunScan \/ RunSetIo \/ RunEnableDisable \/ SweepPass
  BY <1>1, <1>2, <1>7 DEF RunScan, RunSetIo, RunEnableDisable, SweepPass
<1>8. CASE ClearLast
  <2>1. st.clear = "last"
    BY <1>8 DEF ClearLast, Core0Inv
  <2>2. st.flag # f
    BY <1>2, <2>1, StationAt DEF Shape
  <2>3. QED
    BY <1>1, <1>8, <2>2 DEF ClearLast
<1>9. QED
  BY <1>3, <1>4, <1>5, <1>6, <1>7, <1>8, <1>10 DEF Core0

LEMMA StutterInv ==
  ASSUME UNCHANGED vars
  PROVE  (IInv => IInv') /\ (WaitInv => WaitInv') /\ (ConfigInv => ConfigInv')
<1> USE DEF vars
<1>1. st' = st /\ Line' = Line /\ Command' = Command
  BY DEF st, Line, Command
<1>2. Stored' = Stored /\ \A n, f : IsFor(n, f)' = IsFor(n, f)
  BY <1>1 DEF Stored, IsFor
<1>3. TypeOK => TypeOK'
  BY <1>1 DEF TypeOK
<1>4. Core1Inv => Core1Inv'
  BY <1>1, <1>2 DEF Core1Inv, StopHolds
<1>5. Core0Inv => Core0Inv'
  BY <1>1 DEF Core0Inv
<1>6. NoLostCommand => NoLostCommand'
  BY <1>1 DEF NoLostCommand
<1>7. RaisedIsOwed => RaisedIsOwed'
  BY <1>1 DEF RaisedIsOwed
<1>8. OwedIsLast => OwedIsLast'
  BY <1>1, <1>2 DEF OwedIsLast
<1>16. Overtaken' <=> Overtaken
  BY <1>1 DEF Overtaken
<1>9. NoOverlap => NoOverlap'
  BY <1>1, <1>16 DEF NoOverlap
<1>10. Serving => Serving'
  BY <1>1, <1>2, <1>16 DEF Serving
<1>11. OneLine => OneLine'
  BY <1>1, <1>2, <1>16 DEF OneLine
<1>12. PortLoaded => PortLoaded'
  BY <1>1 DEF PortLoaded
<1>13. WaitInv => WaitInv'
  BY <1>1, <1>7, <1>8, <1>9, <1>10, <1>11, <1>12 DEF WaitInv, Waits, Quiet
<1>14. ConfigInv => ConfigInv'
  BY <1>1, <1>2 DEF ConfigInv, Configs, UpdateDone, UpdateFirst, UpdateNewest, Alone, Newest,
                     Updating, AllServed
<1>15. QED
  BY <1>3, <1>4, <1>5, <1>6, <1>13, <1>14 DEF IInv

LEMMA InvStep == IInv /\ [Next]_vars => IInv'
<1> SUFFICES ASSUME IInv, [Next]_vars PROVE IInv'
  OBVIOUS
<1>1. CASE Core1
  BY <1>1, Core1Type, Core0InvStep1, Core1InvStep1, NoLostStep1 DEF IInv
<1>2. CASE Core0
  BY <1>2, Core0Type, Core0Shape, Core1InvStep0, NoLostStep0 DEF IInv
<1>3. CASE UNCHANGED vars
  BY <1>3, StutterInv
<1>4. QED
  BY <1>1, <1>2, <1>3 DEF Next

\* The stations, the array and the flags keep their types, for every set of
\* commands and every number of lines.
THEOREM TypeCorrect == Spec => []TypeOK
<1>1. IInv => TypeOK
  BY DEF IInv
<1>2. QED
  BY <1>1, InitInv, InvStep, PTL DEF Spec

\* Once stopAll of launchOnCore1 has returned, no flag that MainCore::loop polls
\* is up until the host sends another line, whatever the loop did meanwhile.
THEOREM StopLeavesNothing == Spec => []StopHolds
<1>1. IInv => StopHolds
  BY DEF IInv, Core1Inv
<1>2. QED
  BY <1>1, InitInv, InvStep, PTL DEF Spec

\* A handler that clears its flag first never swallows a command that comes after
\* it has read its arguments, however fast the host sends.
THEOREM NothingSwallowed == Spec => []NoLostCommand
<1>1. IInv => NoLostCommand
  BY DEF IInv
<1>2. QED
  BY <1>1, InitInv, InvStep, PTL DEF Spec

-----------------------------------------------------------------------------
(* A host that waits: core 1. *)

LEMMA WithArgsFacts ==
  /\ WithArgs \subseteq Polled
  /\ WithArgs \cap (Stops \cup Bare \cup {"AD7606_READ_FOREVER", "CONVERGENCE"}) = {}
  /\ Senders \cap Polled \subseteq WithArgs
BY NotPolled DEF WithArgs, Senders, Bare

LEMMA SweepFlag == "AD7606_IS_SCANNING" \in WithArgs
BY PolledFlags DEF WithArgs, Bare

\* Between two lines, everything with arguments is served or in use.
LEMMA WaitedFor ==
  ASSUME IInv, Waits, NEW c, Waited(c)
  PROVE  /\ WithArgs \cap owed \cap flags = {}
         /\ phase # "read"
         /\ phase = "clear" => st.flag \notin WithArgs
<1>1. CASE AllServed
  <2>1. flags \subseteq Stops /\ phase \in {"poll", "block"}
    BY <1>1 DEF AllServed, Stops
  <2>2. QED
    BY <2>1, WithArgsFacts
<1>2. CASE owed = {} /\ phase # "read"
  <2>1. phase = "clear" => ~Overtaken
    <3>1. Shape(at, st)
      BY StationAt DEF IInv
    <3>2. phase = "clear" => st.clear \in {"first", "twice"}
      BY DEF IInv, Core0Inv
    <3>3. QED
      BY <3>1, <3>2 DEF Shape, Overtaken
  <2>2. QED
    BY <1>2, <2>1 DEF Waits, Serving
<1>3. QED
  BY <1>1, <1>2 DEF Waited

LEMMA LineAppended ==
  ASSUME TypeOK, NEW c \in Commands, GetLine(c)
  PROVE  /\ Line \in Nat /\ Line' = Line + 1 /\ Command' = c
         /\ \A n \in 1..Line : \A f : IsFor(n, f)' <=> IsFor(n, f)
         /\ \A f : IsFor(Line, f)' <=> \E k \in DOMAIN Raises(c) : Raises(c)[k] = f
<1>1. /\ sent \in Seq(Commands) /\ sent' = Append(sent, c)
      /\ sent' \in Seq(Commands)
  BY DEF TypeOK, GetLine
<1>2. Line \in Nat /\ Line' = Line + 1
  BY <1>1 DEF Line
<1>3. sent'[Line'] = c /\ \A n \in 1..Line : sent'[n] = sent[n]
  BY <1>1 DEF Line
<1>4. 1..Line \subseteq 1..Line' /\ Line' \in 1..Line'
  BY <1>2
<1>5. ASSUME NEW n \in 1..Line, NEW f PROVE IsFor(n, f)' <=> IsFor(n, f)
  BY <1>3, <1>4 DEF IsFor
<1>6. ASSUME NEW f
      PROVE  IsFor(Line, f)' <=> \E k \in DOMAIN Raises(c) : Raises(c)[k] = f
  BY <1>3, <1>4 DEF IsFor
<1>7. Command' = c
  BY <1>3 DEF Command
<1>8. QED
  BY <1>2, <1>5, <1>6, <1>7

LEMMA WaitsGetLine ==
  ASSUME IInv, Waits, NEW c \in Commands, GetLine(c), Waited(c)
  PROVE  Waits'
<1>0. TypeOK
  BY DEF IInv
<1>1. /\ flags' = flags /\ owed' = owed /\ sweep' = sweep /\ late' = late /\ at' = at
      /\ phase' = phase /\ args' = args /\ spi' = spi /\ st' = st
  BY DEF GetLine, core0, st
<1>2. /\ WithArgs \cap owed \cap flags = {} /\ phase # "read"
      /\ phase = "clear" => st.flag \notin WithArgs
  BY <1>0, WaitedFor
<1>3. RaisedIsOwed'
  BY <1>1 DEF Waits, RaisedIsOwed
<1>4. OwedIsLast'
  BY <1>1, <1>2 DEF OwedIsLast
<1>5. NoOverlap'
  BY <1>1, <1>2 DEF NoOverlap
<1>6. Serving'
  BY <1>1, <1>2 DEF Serving
<1>7. OneLine'
  <2>1. SUFFICES ASSUME phase = "run", st.flag \in WithArgs, ~Overtaken
                 PROVE  \E n \in 1..Line' : IsFor(n, st.flag)' /\ \A s \in DOMAIN args : args[s] = n
    BY <1>1 DEF OneLine, Overtaken
  <2>2. PICK n \in 1..Line : IsFor(n, st.flag) /\ \A s \in DOMAIN args : args[s] = n
    BY <2>1 DEF Waits, OneLine
  <2>3. n \in 1..Line'
    BY <1>0, LineAppended
  <2>4. IsFor(n, st.flag)'
    BY <1>0, <1>1, <2>2, LineAppended
  <2>5. QED
    BY <2>2, <2>3, <2>4
<1>8. PortLoaded'
  <2>1. Senders \cap owed \cap flags = {}
    BY <1>0, <1>2, WithArgsFacts DEF TypeOK
  <2>2. QED
    BY <1>1, <1>2, <2>1 DEF Waits, PortLoaded
<1>9. QED
  BY <1>3, <1>4, <1>5, <1>6, <1>7, <1>8 DEF Waits

LEMMA WaitsFill ==
  ASSUME IInv, Waits, Fill \/ Store
  PROVE  Waits'
<1>1. /\ flags' = flags /\ owed' = owed /\ sweep' = sweep /\ late' = late /\ at' = at
      /\ phase' = phase /\ args' = args /\ spi' = spi /\ st' = st /\ sent' = sent
  BY DEF Fill, Store, core0, st
<1>2. Line' = Line /\ \A n, f : IsFor(n, f)' = IsFor(n, f)
  BY <1>1 DEF IsFor, Line
<1>3. rx # "getline" /\ (Overtaken' <=> Overtaken)
  BY <1>1 DEF Fill, Store, Overtaken
<1>4. /\ WithArgs \cap owed \cap flags = {}
      /\ phase \in {"clear", "read"} => st.flag \notin WithArgs \/ Overtaken
  BY <1>3 DEF Waits, NoOverlap
<1>5. RaisedIsOwed'
  BY <1>1 DEF Waits, RaisedIsOwed
<1>6. OwedIsLast'
  BY <1>1, <1>4 DEF OwedIsLast
<1>7. NoOverlap'
  BY <1>1, <1>3, <1>4 DEF NoOverlap
<1>8. Serving'
  BY <1>1, <1>3, <1>4 DEF Serving
<1>9. OneLine'
  BY <1>1, <1>2, <1>3 DEF Waits, OneLine
<1>10. PortLoaded'
  BY <1>1, <1>2 DEF Waits, PortLoaded
<1>11. QED
  BY <1>5, <1>6, <1>7, <1>8, <1>9, <1>10 DEF Waits

\* Where core 1 is when it raises a flag.
LEMMA RaiseFrom ==
  ASSUME IInv, rx = "raise"
  PROVE  /\ Line > 0 /\ Line \in Nat /\ Stored /\ Command \in Commands
         /\ step \in Nat /\ step < Len(Raises(Command))
<1>1. TypeOK /\ Typed1 /\ Core1Inv
  BY TypeParts, Zenon DEF IInv
<1>2. Line > 0 /\ Stored /\ step < Len(Raises(Command))
  BY <1>1, Zenon DEF Core1Inv
<1>3. step \in Nat
  BY <1>1, StepRange
<1>4. Command \in Commands /\ Line \in Serial
  BY <1>1, <1>2, CommandTyped, Zenon
<1>5. Line \in Nat
  BY <1>1 DEF Line, Typed1
<1>6. QED
  BY <1>2, <1>3, <1>4, <1>5, Zenon

\* What a line raises is a command like the line itself, or a part of command 50.
LEMMA RaisedCommand ==
  ASSUME IInv, rx = "raise"
  PROVE  /\ Raises(Command)[step + 1] = "AD7606_IS_SCANNING" => Command \notin Stops
         /\ step + 1 < Len(Raises(Command)) => Raises(Command)[step + 1] = "MICRO_SCAN"
<1> DEFINE m == Len(Raises(Command))
<1>1. Command \in Commands /\ step \in Nat /\ step < m
  BY RaiseFrom
<1>2. m \in 0..2 /\ DOMAIN Raises(Command) = 1..m
  BY <1>1, RaisesFacts
<1>3. step + 1 \in DOMAIN Raises(Command) /\ (step + 1 < m => step = 0 /\ m = 2)
  <2> HIDE DEF m
  <2>1. step + 1 \in 1..m /\ (step + 1 < m => step = 0 /\ m = 2)
    BY <1>1, <1>2
  <2>2. QED
    BY <1>2, <2>1
<1>4. step + 1 < m => Raises(Command)[step + 1] = "MICRO_SCAN"
  BY <1>1, <1>3, RaisesFacts
<1>5. Command \in Stops => Raises(Command)[step + 1] = Command
  BY <1>1, <1>3, RaisesFacts DEF Stops
<1>6. QED
  BY <1>4, <1>5 DEF Stops

LEMMA WaitsRaise ==
  ASSUME IInv, Waits, Quiet, Raise
  PROVE  Waits'
<1> DEFINE f == Raises(Command)[step + 1]
<1>1. /\ at' = at /\ phase' = phase /\ args' = args /\ spi' = spi /\ st' = st
      /\ sent' = sent /\ vector' = vector /\ sweep' = sweep /\ rx = "raise"
      /\ flags' = flags \cup {f} /\ late' = late \cup {f}
      /\ owed' = owed \cup ({f} \cap Polled)
  BY DEF Raise, st
<1>2. /\ Line' = Line /\ Stored' = Stored /\ \A n, g : IsFor(n, g)' = IsFor(n, g)
  BY <1>1 DEF IsFor, Line, Stored, Command
<1>3. /\ WithArgs \cap owed \cap flags = {}
      /\ phase \in {"clear", "read"} => st.flag \notin WithArgs \/ Overtaken
  BY <1>1 DEF Waits, NoOverlap
<1>14. phase # "poll" /\ Overtaken => Overtaken'
  <2>1. f = "AD7606_IS_SCANNING" => Command \notin Stops
    BY <1>1, RaisedCommand
  <2>2. QED
    BY <1>1, <2>1 DEF Overtaken, Quiet
<1>4. /\ Line > 0 /\ Line \in Nat /\ Stored /\ Command \in Commands
      /\ step \in Nat /\ step < Len(Raises(Command))
  BY <1>1, RaiseFrom
<1>5. IsFor(Line, f)
  <2>1. step + 1 \in DOMAIN Raises(Command)
    BY <1>4, RaisesFacts
  <2>2. Line \in 1..Line
    BY <1>4
  <2>3. QED
    BY <2>1, <2>2 DEF IsFor, Command
<1>6. rx' # "getline" => f = "MICRO_SCAN"
  <2>1. rx' # "getline" => step + 1 < Len(Raises(Command))
    BY DEF Raise
  <2>2. QED
    BY <1>1, <2>1, RaisedCommand
<1> HIDE DEF f
<1>7. RaisedIsOwed'
  BY <1>1, WithArgsFacts DEF Waits, RaisedIsOwed
<1>8. OwedIsLast'
  BY <1>1, <1>2, <1>3, <1>4, <1>5 DEF OwedIsLast
<1>9. NoOverlap'
  <2>1. "MICRO_SCAN" \notin WithArgs
    BY WithArgsFacts DEF Bare
  <2>2. QED
    BY <1>1, <1>3, <1>6, <1>14, <2>1 DEF NoOverlap
<1>10. Serving'
  BY <1>1, <1>3, <1>14 DEF Serving
<1>11. OneLine'
  BY <1>1, <1>2, <1>14 DEF Waits, OneLine
<1>12. PortLoaded'
  BY <1>1, <1>2 DEF Waits, PortLoaded
<1>13. QED
  BY <1>7, <1>8, <1>9, <1>10, <1>11, <1>12 DEF Waits

LEMMA WaitsStopAll ==
  ASSUME IInv, Waits, StopAll
  PROVE  Waits'
<1>1. /\ at' = at /\ phase' = phase /\ args' = args /\ spi' = spi /\ st' = st
      /\ sent' = sent /\ rx = "stopAll" /\ owed' \subseteq owed /\ late' = late
  BY DEF StopAll, core0, st
<1>2. Line' = Line /\ \A n, f : IsFor(n, f)' = IsFor(n, f)
  BY <1>1 DEF IsFor, Line
<1>3. WithArgs \cap flags' \subseteq flags
  <2>1. WithArgs \cap Stops = {}
    BY WithArgsFacts
  <2>2. QED
    BY <2>1 DEF StopAll
<1>13. Overtaken => Overtaken'
  BY <1>1, <1>3, SweepFlag DEF Overtaken
<1>4. /\ WithArgs \cap owed \cap flags = {}
      /\ phase \in {"clear", "read"} => st.flag \notin WithArgs \/ Overtaken
  BY <1>1 DEF Waits, NoOverlap
<1>5. sweep' = sweep \/ WithArgs \cap flags = {}
  <2>1. CASE step < 23
    BY <2>1, StopOrderLength DEF StopAll
  <2>2. CASE step = 23
    <3>1. \A t \in 1..23 : StopOrder[t] \notin flags \cap Polled
      BY <1>1, <2>2 DEF IInv, Core1Inv
    <3>2. ASSUME NEW f \in Polled PROVE f \notin flags
      BY <3>1, StopOrderFacts, PolledFlags
    <3>3. QED
      BY <3>2, WithArgsFacts
  <2>3. step \in 0..23
    BY StopOrderLength, TypeParts DEF IInv, Typed1
  <2>4. QED
    BY <2>1, <2>2, <2>3
<1>6. RaisedIsOwed'
  BY <1>1, <1>3, <1>4, <1>5 DEF Waits, RaisedIsOwed
<1>7. OwedIsLast'
  BY <1>1, <1>3, <1>4 DEF OwedIsLast
<1>8. NoOverlap'
  BY <1>1, <1>3, <1>4, <1>13 DEF NoOverlap
<1>9. Serving'
  BY <1>1, <1>4, <1>13 DEF Serving
<1>10. OneLine'
  BY <1>1, <1>2, <1>13 DEF Waits, OneLine
<1>11. PortLoaded'
  <2>1. owed' \subseteq WithArgs \cup (Polled \ Senders)
    BY <1>1, WithArgsFacts DEF IInv, TypeOK
  <2>2. Senders \cap owed' \cap flags' = {}
    BY <1>1, <1>3, <1>4, <2>1
  <2>3. QED
    BY <1>1, <1>2, <2>2 DEF Waits, PortLoaded
<1>12. QED
  BY <1>6, <1>7, <1>8, <1>9, <1>10, <1>11 DEF Waits

-----------------------------------------------------------------------------
(* A host that waits: core 0. *)

LEMMA SameLine ==
  ASSUME Core0
  PROVE  /\ Line' = Line /\ Command' = Command /\ Stored' = Stored
         /\ \A n, f : IsFor(n, f)' = IsFor(n, f)
<1>1. sent' = sent /\ vector' = vector
  BY Core0Keeps
<1>2. QED
  BY <1>1 DEF Line, Command, Stored, IsFor

\* A station's handler finds its arguments in the slots of its line.
LEMMA ReadsFilled ==
  ASSUME TypeOK, NEW i \in DOMAIN Stations, IsFor(Line, Stations[i].flag)
  PROVE  Stations[i].reads \subseteq Filled(Command)
<1>1. PICK k \in DOMAIN Raises(Command) : Raises(Command)[k] = Stations[i].flag
  BY DEF IsFor, Command
<1>2. QED
  BY <1>1, FilledFacts

LEMMA PolledAt ==
  ASSUME TypeOK, st.flag # "SPI setup"
  PROVE  st.flag \in Polled
BY DEF TypeOK, st, Polled

\* The station is not entered yet, or has been left: nothing is read or run.
LEMMA WaitsPolling ==
  ASSUME IInv, Waits, Core0, phase' \notin {"clear", "read", "run"}, owed' \subseteq owed,
         spi' = spi, late' = late,
         WithArgs \cap flags' \subseteq flags, RaisedIsOwed', at' > 14 => at > 14
  PROVE  Waits'
<1>1. rx' = rx
  BY Core0Keeps
<1>2. OwedIsLast'
  BY SameLine DEF Waits, OwedIsLast
<1>3. NoOverlap'
  BY <1>1 DEF Waits, NoOverlap
<1>4. Serving' /\ OneLine'
  BY DEF Serving, OneLine
<1>5. PortLoaded'
  <2>1. owed \subseteq WithArgs \cup (Polled \ Senders)
    BY WithArgsFacts DEF IInv, TypeOK
  <2>2. Senders \cap owed' \cap flags' \subseteq Senders \cap owed \cap flags
    BY <2>1
  <2>3. QED
    BY <2>2, SameLine DEF Waits, PortLoaded
<1>6. QED
  BY <1>2, <1>3, <1>4, <1>5 DEF Waits

\* The handler goes on, or to its last statement, and reads nothing more.
LEMMA WaitsRunning ==
  ASSUME IInv, Waits, Core0, owed' = owed, spi' = spi, late' = late, at' = at, args' = args,
         WithArgs \cap flags' \subseteq flags, RaisedIsOwed',
         phase' \in {phase, "last"}, phase \notin {"clear", "read"}
  PROVE  Waits'
<1>1. rx' = rx /\ st' = st
  BY Core0Keeps DEF st
<1>7. Overtaken => Overtaken'
  BY <1>1, SweepFlag DEF Overtaken
<1>2. OwedIsLast'
  BY SameLine DEF Waits, OwedIsLast
<1>3. NoOverlap'
  BY <1>1 DEF Waits, NoOverlap
<1>4. Serving' /\ OneLine'
  BY <1>1, <1>7, SameLine DEF Waits, Serving, OneLine
<1>5. PortLoaded'
  <2>1. owed \subseteq WithArgs \cup (Polled \ Senders)
    BY WithArgsFacts DEF IInv, TypeOK
  <2>2. Senders \cap owed' \cap flags' \subseteq Senders \cap owed \cap flags
    BY <2>1
  <2>3. QED
    BY <1>1, <2>2, SameLine DEF Waits, PortLoaded
<1>6. QED
  BY <1>2, <1>3, <1>4, <1>5 DEF Waits

LEMMA WaitsPollDown ==
  ASSUME IInv, Waits, PollDown
  PROVE  Waits'
<1>1. /\ phase # "last" /\ phase' = "poll" /\ owed' = owed /\ spi' = spi /\ late' = late
      /\ flags' = flags /\ sweep' = sweep /\ st.flag # "SPI setup"
      /\ phase \notin {"read", "run"}
  BY DEF PollDown, Polling
<1>2. RaisedIsOwed'
  BY <1>1 DEF Waits, RaisedIsOwed
<1>3. at' > 14 => at > 14
  <2>1. DOMAIN Stations = 1..21 /\ Len(Stations) = 21
    BY StationTable, Zenon
  <2>2. at' = 1 \/ at' = at + 1
    BY Zenon DEF PollDown
  <2>3. at \in 1..21 /\ at # 14
    BY <1>1, StationAt DEF IInv, Shape
  <2>4. QED
    BY <2>2, <2>3
<1>4. Core0
  BY DEF Core0
<1>5. QED
  BY <1>1, <1>2, <1>3, <1>4, WaitsPolling

LEMMA WaitsEnterBlock ==
  ASSUME IInv, Waits, EnterBlock
  PROVE  Waits'
<1>1. /\ phase = "poll" /\ phase' \in {"poll", "block"} /\ owed' = owed /\ spi' = spi
      /\ late' = late /\ flags' = flags /\ sweep' = sweep /\ st.flag = "CONFIG_UPDATE"
      /\ (at' = at \/ at' = at + 2)
  BY DEF EnterBlock
<1>2. RaisedIsOwed'
  BY <1>1 DEF Waits, RaisedIsOwed
<1>3. at' > 14 => at > 14
  <2>1. at = 4
    BY <1>1, StationAt DEF IInv, Shape
  <2>2. QED
    BY <1>1, <2>1
<1>4. Core0
  BY DEF Core0
<1>5. QED
  BY <1>1, <1>2, <1>3, <1>4, WaitsPolling

LEMMA WaitsSweepTest ==
  ASSUME IInv, Waits, SweepTest
  PROVE  Waits'
<1>1. /\ phase = "sweep" /\ phase' \in {"mark", "point"} /\ spi' = spi /\ late' = late
      /\ flags' = flags /\ sweep' = sweep /\ at' = at /\ st' = st
      /\ owed' = owed \/ (sweep # "off" /\ owed' = owed \ {st.flag})
  BY DEF SweepTest, st
<1>2. st.flag = "AD7606_IS_SCANNING"
  BY <1>1 DEF IInv, Core0Inv
<1>3. RaisedIsOwed'
  BY <1>1, <1>2 DEF Waits, RaisedIsOwed
<1>4. Core0
  BY DEF Core0
<1>5. QED
  BY <1>1, <1>3, <1>4, WaitsPolling

LEMMA WaitsSweepMark ==
  ASSUME IInv, Waits, SweepMark
  PROVE  Waits'
<1>1. /\ phase = "mark" /\ phase' = "read" /\ owed' = owed /\ spi' = spi /\ late' = late
      /\ flags' = flags /\ sweep' = "started" /\ at' = at /\ st' = st /\ args' = args
  BY DEF SweepMark, st
<1>2. Core0
  BY DEF Core0
<1>3. /\ st.flag = "AD7606_IS_SCANNING" /\ sweep = "off" /\ args = NoArgs /\ rx' = rx
      /\ st.clear = "last" /\ st.flag \notin Senders
  BY <1>1, <1>2, Core0Keeps, StationAt DEF IInv, Core0Inv, Shape, Senders
<1>4. ~Overtaken => st.flag \in WithArgs \cap owed \cap flags
  BY <1>1, <1>3, SweepFlag DEF Waits, RaisedIsOwed, Overtaken
<1>5. Overtaken' <=> Overtaken
  BY <1>1 DEF Overtaken
<1>6. RaisedIsOwed'
  BY <1>1, <1>3 DEF Waits, RaisedIsOwed
<1>7. OwedIsLast'
  BY <1>1, <1>2, SameLine DEF Waits, OwedIsLast
<1>8. NoOverlap'
  BY <1>1, <1>3, <1>4, <1>5 DEF Waits, NoOverlap
<1>9. Serving'
  BY <1>1, <1>2, <1>3, <1>4, <1>5, SameLine, NoArgsFacts DEF Waits, OwedIsLast, Serving
<1>10. OneLine'
  BY <1>1 DEF OneLine
<1>11. PortLoaded'
  BY <1>1, <1>2, <1>3, SameLine DEF Waits, PortLoaded
<1>12. QED
  BY <1>6, <1>7, <1>8, <1>9, <1>10, <1>11 DEF Waits

LEMMA WaitsPollUp ==
  ASSUME IInv, Waits, PollUp
  PROVE  Waits'
<1>1. /\ phase \in {"poll", "block"} /\ owed' = owed /\ spi' = spi /\ late' = late /\ at' = at
      /\ flags' = flags /\ args' = args /\ st' = st /\ sweep' = sweep
  BY DEF PollUp, Polling, st
<1>2. Core0
  BY DEF Core0
<1>3. rx' = rx /\ args = NoArgs
  BY <1>1, <1>2, Core0Keeps DEF IInv, Core0Inv
<1>4. Shape(at, st)
  BY StationAt DEF IInv
<1>6. RaisedIsOwed'
  BY <1>1 DEF Waits, RaisedIsOwed
<1>7. OwedIsLast'
  BY <1>1, <1>2, SameLine DEF Waits, OwedIsLast
<1>8. /\ phase' # "run"
      /\ st.flag = "AD7606_IS_SCANNING" => phase' = "sweep"
      /\ phase' = "read" => st.clear \notin {"first", "twice"}
  <2>1. st.flag = "AD7606_IS_SCANNING" => phase' = "sweep"
    BY DEF PollUp
  <2>2. st.flag # "AD7606_IS_SCANNING" /\ st.clear \in {"first", "twice"} => phase' = "clear"
    BY DEF PollUp
  <2>3. CASE st.flag # "AD7606_IS_SCANNING" /\ st.clear \notin {"first", "twice"}
    <3>1. phase' = "read"
      BY <2>3 DEF PollUp
    <3>2. QED
      BY <2>3, <3>1
  <2>4. QED
    BY <2>1, <2>2, <2>3
<1>9. st.flag \in WithArgs => st.flag \in flags
  <2>1. "AD7606_READ" \notin WithArgs
    BY WithArgsFacts DEF Bare
  <2>2. QED
    BY <2>1 DEF PollUp
<1>10. st.flag \in WithArgs /\ phase' \in {"clear", "read"} => st.flag \in owed
  BY <1>1, <1>8, <1>9 DEF Waits, RaisedIsOwed
<1>11. NoOverlap'
  BY <1>1, <1>3, <1>9, <1>10 DEF Waits, NoOverlap
<1>12. Serving'
  <2>1. SUFFICES ASSUME st.flag \in WithArgs
        PROVE  /\ phase' = "clear" => st.flag \in owed \cap flags
               /\ phase' = "read" =>
                    /\ IsFor(Line, st.flag) /\ Stored
                    /\ st.clear \in {"first", "twice"} => st.flag \notin flags
                    /\ st.flag # "AD7606_IS_SCANNING"
    BY <1>1, <1>2, <1>3, SameLine, NoArgsFacts DEF Serving
  <2>2. phase' \in {"clear", "read"} => IsFor(Line, st.flag) /\ Stored
    BY <1>9, <1>10, <2>1 DEF Waits, OwedIsLast
  <2>3. QED
    BY <1>8, <1>9, <1>10, <2>1, <2>2
<1>13. OneLine'
  BY <1>8 DEF OneLine
<1>14. PortLoaded'
  <2>1. st.flag \in Senders => st.clear = "first"
    BY <1>4 DEF Shape, Senders
  <2>2. st.flag \in Senders => phase' # "read"
    BY <1>8, <2>1
  <2>3. QED
    BY <1>1, <1>2, <1>8, <2>2, SameLine DEF Waits, PortLoaded
<1>15. QED
  BY <1>6, <1>7, <1>11, <1>12, <1>13, <1>14 DEF Waits

LEMMA WaitsSetup ==
  ASSUME IInv, Waits, Setup
  PROVE  Waits'
<1>1. /\ phase = "poll" /\ phase' = phase /\ owed' = owed /\ late' = {} /\ flags' = flags
      /\ sweep' = sweep
  BY DEF Setup
<1>2. spi' = vector[1]
  BY Zenon DEF Setup
<1>3. Core0
  BY DEF Core0
<1>4. rx' = rx
  BY <1>3, Core0Keeps
<1>5. RaisedIsOwed'
  BY <1>1 DEF Waits, RaisedIsOwed
<1>6. OwedIsLast'
  BY <1>1, <1>3, SameLine DEF Waits, OwedIsLast
<1>7. NoOverlap'
  BY <1>1, <1>4 DEF Waits, NoOverlap
<1>8. Serving' /\ OneLine'
  BY <1>1 DEF Serving, OneLine
<1>9. PortLoaded'
  <2>1. ASSUME NEW f \in Senders \cap owed \cap flags PROVE spi' = Line
    <3>1. f \in Polled /\ f \in WithArgs
      BY <2>1, WithArgsFacts DEF IInv, TypeOK
    <3>2. IsFor(Line, f) /\ Stored
      BY <2>1, <3>1 DEF Waits, OwedIsLast
    <3>3. PICK i \in DOMAIN Stations : Stations[i].flag = f
      BY <3>1 DEF Polled
    <3>4. 2 \in Stations[i].reads
      BY <2>1, <3>3, StationShapes DEF Shape
    <3>5. 2 \in Filled(Command)
      BY <3>2, <3>3, <3>4, ReadsFilled DEF IInv
    <3>6. 1 \in Slots /\ 1 <= 2
      BY DEF Slots
    <3>7. 1 \in Filled(Command)
      BY <3>5, <3>6, FilledFacts
    <3>8. QED
      BY <1>2, <3>2, <3>7 DEF Stored
  <2>2. QED
    BY <1>1, <1>3, <2>1, SameLine DEF PortLoaded
<1>10. QED
  BY <1>5, <1>6, <1>7, <1>8, <1>9 DEF Waits

LEMMA WaitsClear ==
  ASSUME IInv, Waits, Clear
  PROVE  Waits'
<1>1. /\ phase = "clear" /\ phase' = "read" /\ owed' = owed /\ spi' = spi /\ late' = late
      /\ at' = at /\ flags' = flags \ {st.flag} /\ args' = args /\ st' = st /\ sweep' = sweep
  BY DEF Clear, st
<1>2. Core0
  BY DEF Core0
<1>3. /\ rx' = rx /\ args = NoArgs /\ st.clear \in {"first", "twice"}
      /\ st.flag # "SPI setup"
  BY <1>1, <1>2, Core0Keeps DEF IInv, Core0Inv
<1>4. Shape(at, st) /\ st.flag \in Polled
  BY <1>3, StationAt, PolledAt DEF IInv
<1>5. RaisedIsOwed'
  BY <1>1 DEF Waits, RaisedIsOwed
<1>6. OwedIsLast'
  BY <1>1, <1>2, SameLine DEF Waits, OwedIsLast
<1>13. st.flag # "AD7606_IS_SCANNING" /\ ~Overtaken
  BY <1>3, <1>4 DEF Shape, Overtaken
<1>7. NoOverlap'
  BY <1>1, <1>3, <1>13 DEF Waits, NoOverlap
<1>8. st.flag \in WithArgs => st.flag \in owed \cap flags /\ IsFor(Line, st.flag) /\ Stored
  BY <1>1, <1>13 DEF Waits, Serving, OwedIsLast
<1>9. Serving'
  BY <1>1, <1>2, <1>3, <1>8, <1>13, SameLine, NoArgsFacts DEF Serving
<1>10. OneLine'
  BY <1>1 DEF OneLine
<1>11. PortLoaded'
  <2>1. st.flag \in Senders => st.flag \in WithArgs /\ at > 14
    BY <1>4, WithArgsFacts DEF Shape
  <2>2. QED
    BY <1>1, <1>2, <1>8, <2>1, SameLine DEF Waits, PortLoaded
<1>12. QED
  BY <1>5, <1>6, <1>7, <1>9, <1>10, <1>11 DEF Waits

LEMMA WaitsRead ==
  ASSUME IInv, Waits, Read
  PROVE  Waits'
<1>1. /\ phase = "read" /\ owed' = owed \ {st.flag} /\ spi' = spi /\ late' = late
      /\ at' = at /\ flags' = flags /\ st' = st /\ sweep' = sweep
  BY DEF Read, st
<1>2. Core0
  BY DEF Core0
<1>3. rx' = rx /\ st.flag # "SPI setup" /\ phase' \in {"read", "run"}
  BY <1>1, <1>2, Core0Keeps DEF IInv, Core0Inv, Read
<1>4. Shape(at, st) /\ st.flag \in Polled
  BY <1>3, StationAt, PolledAt DEF IInv
<1>5. RaisedIsOwed'
  <2>1. SUFFICES ASSUME NEW f \in WithArgs \cap flags
        PROVE  \/ f \in owed /\ f # st.flag
               \/ f = "LID_UNTIL_STOP" /\ st.flag = f
               \/ f = "AD7606_IS_SCANNING" /\ sweep # "off"
    BY <1>1, <1>3 DEF RaisedIsOwed
  <2>2. CASE f = st.flag
    <3>1. st.clear \notin {"first", "twice"} /\ (f = "AD7606_IS_SCANNING" => sweep # "off")
      BY <1>1, <2>1, <2>2 DEF Waits, Serving, Overtaken
    <3>2. f \in {"MICRO_SCAN", "AD7606_IS_SCANNING", "CONVERGENCE", "LID_UNTIL_STOP", "SPI setup"}
      BY <1>4, <2>2, <3>1 DEF Shape
    <3>3. f \in {"AD7606_IS_SCANNING", "LID_UNTIL_STOP"}
      BY <1>3, <2>1, <2>2, <3>2, WithArgsFacts DEF Bare
    <3>4. QED
      BY <2>2, <3>1, <3>3
  <2>3. CASE f # st.flag
    BY <1>1, <2>1, <2>3 DEF Waits, RaisedIsOwed
  <2>4. QED
    BY <2>2, <2>3
<1>6. OwedIsLast'
  BY <1>1, <1>2, SameLine DEF Waits, OwedIsLast
<1>14. Overtaken' <=> Overtaken
  BY <1>1 DEF Overtaken
<1>7. NoOverlap'
  BY <1>1, <1>3, <1>14 DEF Waits, NoOverlap
<1>8. st.flag \in WithArgs /\ ~Overtaken =>
        /\ IsFor(Line, st.flag) /\ Stored
        /\ \A s \in DOMAIN args : args[s] = Line
        /\ st.clear \in {"first", "twice"} => st.flag \notin flags
        /\ st.flag = "AD7606_IS_SCANNING" => sweep # "off"
  BY <1>1 DEF Waits, Serving
<1>9. \A s \in DOMAIN args' : st.flag \in WithArgs /\ ~Overtaken => args'[s] = Line
  <2>1. CASE args' = args
    BY <1>8, <2>1
  <2>2. ASSUME NEW s \in st.reads, st.flag \in WithArgs, ~Overtaken,
               args' = [r \in DOMAIN args \cup {s} |->
                          IF r = s THEN vector[s] ELSE args[r]]
        PROVE  \A r \in DOMAIN args' : args'[r] = Line
    <3>1. s \in Filled(Command)
      <4>1. at \in DOMAIN Stations
        BY DEF IInv, TypeOK
      <4>2. QED
        BY <1>8, <2>2, <4>1, ReadsFilled DEF IInv, st
    <3>2. vector[s] = Line
      BY <1>8, <2>2, <3>1 DEF Stored
    <3>3. QED
      BY <1>8, <2>2, <3>2
  <2>3. QED
    BY <2>1, <2>2 DEF Read
<1>10. Serving'
  BY <1>1, <1>2, <1>3, <1>8, <1>9, <1>14, SameLine DEF Serving
<1>11. OneLine'
  <2>1. IsFor(Line, st.flag) => Line \in 1..Line
    BY DEF IsFor
  <2>2. QED
    BY <1>1, <1>2, <1>8, <1>9, <1>14, <2>1, SameLine DEF OneLine
<1>12. PortLoaded'
  <2>1. st.flag \in Senders => st.flag \in WithArgs /\ 2 \in st.reads /\ ~Overtaken
    BY <1>4, WithArgsFacts DEF Shape, Senders, Overtaken
  <2>2. phase' = "run" => DOMAIN args' = st.reads
    BY <1>1, <1>2, Core0Shape DEF IInv, Core0Inv
  <2>3. st.flag \in Senders /\ phase' = "run" => args'[2] = Line
    BY <1>9, <2>1, <2>2
  <2>4. QED
    BY <1>1, <1>2, <2>3, SameLine DEF Waits, PortLoaded
<1>13. QED
  BY <1>5, <1>6, <1>7, <1>10, <1>11, <1>12 DEF Waits

\* A handler that ends and leaves the flags of the others alone.
LEMMA WaitsLeave ==
  ASSUME IInv, Waits, Core0, Leave, phase \in {"run", "point", "last"},
         owed' = owed, spi' = spi, late' = late, WithArgs \cap flags' \subseteq flags,
         sweep # "off" => sweep' # "off",
         st.flag = "LID_UNTIL_STOP" /\ phase = "run" => st.flag \notin flags,
         phase = "last" => st.flag \notin flags'
  PROVE  Waits'
<1>1. /\ phase' = "poll" /\ (at' > 14 => at > 14 \/ st.flag = "SPI setup")
      /\ st.flag # "SPI setup"
  BY Leaving DEF IInv, Core0Inv
<1>2. RaisedIsOwed'
  BY <1>1 DEF Waits, RaisedIsOwed
<1>3. QED
  BY <1>1, <1>2, WaitsPolling

LEMMA WaitsRun ==
  ASSUME IInv, Waits,
         RunPlain \/ RunConvergence \/ RunLidUntilStop \/ RunConfigUpdate \/ RunScan
           \/ ClearLast \/ RunSetIo \/ RunEnableDisable \/ SweepPass
  PROVE  Waits'
<1>1. Core0
  BY DEF Core0
<1>2. WithArgs \cap flags' \subseteq flags
  BY <1>1, Core0Lowers, WithArgsFacts DEF IInv
<1>3. CASE RunPlain \/ RunConfigUpdate
  <2>1. /\ phase = "run" /\ Leave /\ owed' = owed /\ spi' = spi /\ late' = late
        /\ sweep' = sweep /\ st.flag # "LID_UNTIL_STOP"
    BY <1>3 DEF RunPlain, RunConfigUpdate
  <2>2. QED
    BY <1>1, <1>2, <2>1, WaitsLeave
<1>4. CASE RunSetIo \/ RunEnableDisable
  <2>1. /\ phase = "run" /\ Leave /\ owed' = owed /\ spi' = spi /\ late' = late
        /\ sweep' = sweep /\ st.flag # "LID_UNTIL_STOP"
    BY <1>4 DEF RunSetIo, RunEnableDisable
  <2>2. QED
    BY <1>1, <1>2, <2>1, WaitsLeave
<1>5. CASE RunConvergence \/ RunLidUntilStop
  <2>1. /\ phase = "run" /\ owed' = owed /\ spi' = spi /\ late' = late /\ sweep' = sweep
    BY <1>5 DEF RunConvergence, RunLidUntilStop
  <2>2. CASE Leave
    <3>1. st.flag = "LID_UNTIL_STOP" => st.flag \notin flags
      <4>1. CASE RunConvergence
        BY <4>1 DEF RunConvergence
      <4>2. CASE RunLidUntilStop
        <5>1. "LID_UNTIL_STOP" \in flags => phase' = phase
          BY <4>2 DEF RunLidUntilStop
        <5>2. QED
          BY <2>1, <2>2, <5>1 DEF Leave
      <4>3. QED
        BY <1>5, <4>1, <4>2
    <3>2. QED
      BY <1>1, <1>2, <2>1, <2>2, <3>1, WaitsLeave
  <2>3. CASE phase' = phase /\ at' = at /\ args' = args
    <3>1. st' = st
      BY <2>3 DEF st
    <3>2. RaisedIsOwed'
      BY <1>2, <2>1, <2>3, <3>1 DEF Waits, RaisedIsOwed
    <3>3. QED
      BY <1>1, <1>2, <2>1, <2>3, <3>2, WaitsRunning
  <2>4. QED
    BY <1>5, <2>2, <2>3 DEF RunConvergence, RunLidUntilStop
<1>6. CASE RunScan
  <2>1. /\ phase = "run" /\ phase' = "last" /\ owed' = owed /\ spi' = spi /\ late' = late
        /\ sweep' = sweep /\ at' = at /\ args' = args /\ st' = st /\ st.flag = "MICRO_SCAN"
    BY <1>6 DEF RunScan, st
  <2>2. RaisedIsOwed'
    BY <1>2, <2>1 DEF Waits, RaisedIsOwed
  <2>3. QED
    BY <1>1, <1>2, <2>1, <2>2, WaitsRunning
<1>7. CASE ClearLast
  <2>1. /\ phase = "last" /\ Leave /\ owed' = owed /\ spi' = spi /\ late' = late
        /\ sweep' = sweep /\ flags' = flags \ {st.flag}
    BY <1>7 DEF ClearLast
  <2>2. QED
    BY <1>1, <1>2, <2>1, WaitsLeave
<1>8. CASE SweepPass
  <2>1. phase = "point" /\ owed' = owed /\ spi' = spi /\ late' = late
    BY <1>8 DEF SweepPass
  <2>2. st.flag = "AD7606_IS_SCANNING"
    BY <2>1 DEF IInv, Core0Inv
  <2>3. CASE Leave /\ sweep' = IF sweep = "started" THEN "measured" ELSE sweep
    BY <1>1, <1>2, <2>1, <2>3, WaitsLeave
  <2>4. CASE phase' = "last" /\ at' = at /\ args' = args
    <3>1. st' = st
      BY <2>4 DEF st
    <3>2. RaisedIsOwed'
      BY <1>2, <2>1, <2>2, <2>4, <3>1 DEF Waits, RaisedIsOwed
    <3>3. QED
      BY <1>1, <1>2, <2>1, <2>4, <3>2, WaitsRunning
  <2>5. QED
    BY <1>8, <2>3, <2>4 DEF SweepPass
<1>9. QED
  BY <1>3, <1>4, <1>5, <1>6, <1>7, <1>8

\* Core 0 enters a handler only with a poll, and stays at its station in it.
LEMMA Entering ==
  ASSUME Core0, phase' \notin {"poll", "block"}
  PROVE  st' = st /\ (phase \notin {"poll", "block"} \/ PollUp)
<1>1. CASE EnterBlock \/ PollDown \/ PollUp \/ Setup \/ Clear
  BY <1>1 DEF EnterBlock, PollDown, PollUp, Setup, Clear, st
<1>6. CASE SweepTest \/ SweepMark
  BY <1>6 DEF SweepTest, SweepMark, st
<1>2. CASE Read \/ RunPlain \/ RunConfigUpdate \/ RunScan
  BY <1>2 DEF Read, RunPlain, RunConfigUpdate, RunScan, st, Leave
<1>3. CASE ClearLast \/ RunSetIo \/ RunEnableDisable \/ SweepPass
  BY <1>3 DEF ClearLast, RunSetIo, RunEnableDisable, SweepPass, st, Leave
<1>4. CASE RunConvergence \/ RunLidUntilStop
  BY <1>4 DEF RunConvergence, RunLidUntilStop, st, Leave
<1>5. QED
  BY <1>1, <1>2, <1>3, <1>4, <1>6 DEF Core0

\* No sweep begins while a command comes in.
LEMMA QuietCore1 ==
  ASSUME IInv, Quiet, Fill \/ Store \/ Raise \/ StopAll
  PROVE  Quiet'
<1>1. phase' = phase /\ st' = st /\ Command' = Command /\ rx # "getline"
  BY DEF Fill, Store, Raise, StopAll, core0, st, Command, Line
<1>2. CASE Fill \/ Store
  BY <1>1, <1>2 DEF Quiet, Fill, Store
<1>3. CASE Raise
  <2>1. rx' # "getline" => Raises(Command)[step + 1] = "MICRO_SCAN"
    BY <1>3, RaisedCommand DEF Raise
  <2>2. QED
    BY <1>1, <1>3, <2>1 DEF Quiet, Raise
<1>4. CASE StopAll
  <2>1. Command \in Stops
    BY <1>4 DEF StopAll, IInv, Core1Inv, Stops
  <2>2. QED
    BY <1>1, <2>1 DEF Quiet
<1>5. QED
  BY <1>2, <1>3, <1>4

LEMMA QuietCore0 ==
  ASSUME IInv, Quiet, Core0
  PROVE  Quiet'
<1>1. rx' = rx /\ Command' = Command
  BY Core0Keeps, SameLine
<1>2. "AD7606_IS_SCANNING" \in flags' => "AD7606_IS_SCANNING" \in flags
  BY Core0Lowers DEF IInv
<1>3. SUFFICES ASSUME rx # "getline", Command \notin Stops, st'.flag = "AD7606_IS_SCANNING",
                      phase' # "poll"
               PROVE  FALSE
  BY <1>1, <1>2 DEF Quiet
<1>4. phase' # "block"
  BY <1>3, Core0Shape DEF IInv, Core0Inv
<1>5. st' = st /\ (phase \notin {"poll", "block"} \/ PollUp)
  BY <1>3, <1>4, Entering
<1>6. CASE PollUp
  BY <1>3, <1>5, <1>6 DEF Quiet, PollUp
<1>7. CASE ~PollUp
  BY <1>3, <1>5, <1>7 DEF Quiet
<1>8. QED
  BY <1>6, <1>7

LEMMA WaitStep == IInv /\ WaitInv /\ [Next]_vars => WaitInv'
<1> SUFFICES ASSUME IInv, WaitInv, [Next]_vars, ~rushed' PROVE Waits' /\ Quiet'
  BY DEF WaitInv
<1>1. CASE Core0
  <2>1. Waits /\ Quiet
    BY <1>1, Core0Keeps DEF WaitInv
  <2>2. Quiet'
    BY <1>1, <2>1, QuietCore0
  <2>3. QED
    BY <1>1, <2>1, <2>2, WaitsEnterBlock, WaitsPollDown, WaitsPollUp, WaitsSweepTest,
       WaitsSweepMark, WaitsSetup, WaitsClear, WaitsRead, WaitsRun
    DEF Core0
<1>2. ASSUME NEW c \in Commands, GetLine(c) PROVE Waits' /\ Quiet'
  <2>1. ~rushed /\ Waited(c)
    BY <1>2 DEF GetLine
  <2>2. Quiet'
    <3>1. Command' = c /\ flags' = flags /\ phase' = phase /\ st' = st
      BY <1>2, LineAppended DEF IInv, GetLine, core0, st
    <3>2. c \notin Stops => flags \subseteq Stops /\ phase \in {"poll", "block"}
      BY <2>1 DEF Waited, AllServed, Stops
    <3>3. phase = "block" => st.flag = "CONFIG_UPDATE"
      BY DEF IInv, Core0Inv
    <3>4. QED
      BY <3>1, <3>2, <3>3 DEF Quiet, Stops
  <2>3. QED
    BY <1>2, <2>1, <2>2, WaitsGetLine DEF WaitInv
<1>3. CASE Fill \/ Store \/ Raise \/ StopAll
  <2>1. Waits /\ Quiet
    BY <1>3 DEF Fill, Store, Raise, StopAll, WaitInv
  <2>2. QED
    BY <1>3, <2>1, WaitsFill, WaitsRaise, WaitsStopAll, QuietCore1
<1>4. CASE UNCHANGED vars
  <2>1. WaitInv'
    BY <1>4, StutterInv
  <2>2. QED
    BY <2>1 DEF WaitInv
<1>5. QED
  BY <1>1, <1>2, <1>3, <1>4 DEF Next, Core1

\* A handler runs on the numbers of one line that is a line for it, as long as
\* the host waits: core 1 does not overwrite the vector while the loop reads it,
\* but for the sweep that stopAll ends between the tests of lines 88 and 91.
THEOREM ArgumentsOfOneLine == Spec => []ArgsOwn
<1>1. IInv /\ WaitInv => ArgsOwn
  <2> SUFFICES ASSUME IInv, WaitInv, ~rushed, phase = "run", args # NoArgs,
                      st.flag # "CONVERGENCE", ~Overtaken
               PROVE  \E n \in 1..Line : IsFor(n, st.flag) /\ \A s \in DOMAIN args : args[s] = n
    BY DEF ArgsOwn
  <2>1. st.flag \in Polled /\ Shape(at, st) /\ DOMAIN args = st.reads
    BY StationAt, PolledAt DEF IInv, Core0Inv
  <2>2. st.flag \notin Bare
    <3>1. SUFFICES ASSUME st.flag \in Bare PROVE FALSE
      OBVIOUS
    <3>2. DOMAIN args = {}
      BY <2>1, <3>1 DEF Shape
    <3>3. args = [s \in {} |-> args[s]]
      BY <3>2 DEF IInv, Core0Inv
    <3>4. QED
      BY <3>3 DEF NoArgs
  <2>3. st.flag \in WithArgs
    BY <2>1, <2>2 DEF WithArgs
  <2>4. QED
    BY <2>3 DEF WaitInv, Waits, OneLine
<1>2. IInv /\ WaitInv /\ [Next]_vars => IInv' /\ WaitInv'
  BY InvStep, WaitStep
<1>3. QED
  BY <1>1, <1>2, InitInv, PTL DEF Spec

\* A transfer goes out with the port and the format of the sender's own line,
\* unless its flag was raised after the setup of this pass of MainCore::loop.
THEOREM TransferUsesItsSetup == Spec => []SenderSetup
<1>1. WaitInv => SenderSetup
  BY DEF WaitInv, Waits, PortLoaded, SenderSetup
<1>2. IInv /\ WaitInv /\ [Next]_vars => IInv' /\ WaitInv'
  BY InvStep, WaitStep
<1>3. QED
  BY <1>1, <1>2, InitInv, PTL DEF Spec

-----------------------------------------------------------------------------
(* A host that waits and does not use command 50: the scanner's configuration. *)

LEMMA ConfigFlags ==
  /\ "CONFIG_UPDATE" \in WithArgs /\ "MICRO_SCAN" \in Polled
  /\ {"CONFIG_UPDATE", "MICRO_SCAN"} \cap Stops = {}
BY PolledFlags DEF WithArgs, Bare, Stops

LEMMA ConfigGetLine ==
  ASSUME IInv, Configs, "command50" \notin Commands,
         NEW c \in Commands, GetLine(c), Waited(c)
  PROVE  Configs'
<1>0. TypeOK
  BY DEF IInv
<1>1. /\ flags' = flags /\ owed' = owed /\ at' = at /\ phase' = phase /\ args' = args
      /\ conf' = conf /\ st' = st /\ rx = "getline" /\ rx' = "fill"
  BY DEF GetLine, core0, st
<1>2. Line \in Nat /\ Line' = Line + 1 /\ Command' = c
  BY <1>0, LineAppended
<1>3. \A n \in 1..Line : IsFor(n, "CONFIG_UPDATE")' <=> IsFor(n, "CONFIG_UPDATE")
  BY <1>0, LineAppended
<1>4. IsFor(Line, "CONFIG_UPDATE")' => c = "CONFIG_UPDATE"
  <2>1. \A k \in DOMAIN Raises(c) : Raises(c)[k] = c
    BY RaisesFacts
  <2>2. QED
    BY <1>0, <2>1, LineAppended
<1>5. \A n \in 1..Line' : n \in 1..Line \/ n = Line'
  BY <1>2
<1>6. c \notin Stops => AllServed
  BY DEF Waited
<1>7. \A n \in 1..Line' : IsFor(n, "CONFIG_UPDATE")' /\ c # "CONFIG_UPDATE" =>
          n \in 1..Line /\ IsFor(n, "CONFIG_UPDATE")
  BY <1>3, <1>4, <1>5
<1>8. UpdateDone'
  <2>1. CASE c = "CONFIG_UPDATE"
    BY <1>1, <1>2, <2>1 DEF UpdateDone, Updating
  <2>2. CASE c # "CONFIG_UPDATE" /\ Updating
    BY <1>1, <2>2 DEF UpdateDone, Updating
  <2>3. CASE c # "CONFIG_UPDATE" /\ ~Updating
    BY <1>1, <1>7, <2>3 DEF Configs, UpdateDone
  <2>4. QED
    BY <2>1, <2>2, <2>3
<1>9. UpdateFirst'
  <2>1. CASE c = "CONFIG_UPDATE"
    <3>1. phase = "block" => st.flag = "CONFIG_UPDATE"
      BY DEF IInv, Core0Inv
    <3>2. QED
      BY <1>1, <1>6, <2>1, <3>1, ConfigFlags DEF UpdateFirst, AllServed
  <2>2. CASE c # "CONFIG_UPDATE"
    BY <1>1, <1>2, <2>2 DEF Configs, UpdateFirst, Updating
  <2>3. QED
    BY <2>1, <2>2
<1>10. UpdateNewest'
  <2>1. SUFFICES ASSUME phase = "run", st.flag = "CONFIG_UPDATE"
                 PROVE  \A n \in 1..Line' : IsFor(n, "CONFIG_UPDATE")' => args[1] >= n
    BY <1>1 DEF UpdateNewest, Newest
  <2>2. c # "CONFIG_UPDATE"
    BY <1>6, <2>1, ConfigFlags DEF AllServed
  <2>3. QED
    BY <1>7, <2>1, <2>2 DEF Configs, UpdateNewest, Newest
<1>11. Alone'
  BY <1>1, <1>2, <1>6 DEF Alone, AllServed
<1>12. QED
  BY <1>8, <1>9, <1>10, <1>11 DEF Configs

LEMMA ConfigFill ==
  ASSUME IInv, Configs, Fill \/ Store
  PROVE  Configs'
<1>1. /\ flags' = flags /\ at' = at /\ phase' = phase /\ args' = args /\ conf' = conf
      /\ st' = st /\ sent' = sent
  BY DEF Fill, Store, core0, st
<1>2. Line' = Line /\ Command' = Command /\ \A n, f : IsFor(n, f)' = IsFor(n, f)
  BY <1>1 DEF IsFor, Line, Command
<1>3. /\ rx \in {"fill", "store"}
      /\ Command = "CONFIG_UPDATE" => rx' \in {"fill", "store", "raise"}
  BY DEF Fill, Store
<1>4. Updating' <=> Updating
  BY <1>1, <1>2, <1>3 DEF Updating
<1>5. UpdateDone'
  BY <1>1, <1>2, <1>4 DEF Configs, UpdateDone
<1>6. UpdateFirst'
  BY <1>1, <1>4 DEF Configs, UpdateFirst
<1>7. UpdateNewest'
  BY <1>1, <1>2 DEF Configs, UpdateNewest, Newest
<1>8. Alone'
  BY <1>1, <1>2, <1>3 DEF Configs, Alone, AllServed
<1>9. QED
  BY <1>5, <1>6, <1>7, <1>8 DEF Configs

LEMMA ConfigRaise ==
  ASSUME IInv, Configs, "command50" \notin Commands, Raise
  PROVE  Configs'
<1>1. /\ at' = at /\ phase' = phase /\ args' = args /\ conf' = conf
      /\ st' = st /\ sent' = sent /\ rx = "raise"
  BY DEF Raise, st
<1>2. Line' = Line /\ Command' = Command /\ \A n, f : IsFor(n, f)' = IsFor(n, f)
  BY <1>1 DEF IsFor, Line, Command
<1>3. /\ Command \in Commands /\ step \in Nat /\ step < Len(Raises(Command))
  BY <1>1, RaiseFrom
<1>4. rx' = "getline" /\ flags' = flags \cup {Command}
  <2> DEFINE m == Len(Raises(Command))
  <2>1. m \in 0..2 /\ m # 2 /\ DOMAIN Raises(Command) = 1..m
    BY <1>3, RaisesFacts
  <2>2. step \in Nat /\ step < m /\ (~(step + 1 < m) => rx' = "getline")
    BY <1>3 DEF Raise
  <2>3. step + 1 \in DOMAIN Raises(Command)
    <3> HIDE DEF m
    <3>1. step + 1 \in 1..m
      BY <2>1, <2>2
    <3>2. QED
      BY <2>1, <3>1, Zenon
  <2>4. Raises(Command)[step + 1] = Command
    BY <1>3, <2>3, RaisesFacts
  <2>5. rx' = "getline"
    <3> HIDE DEF m
    <3>1. ~(step + 1 < m)
      BY <2>1, <2>2
    <3>2. QED
      BY <2>2, <3>1, Zenon
  <2>6. flags' = flags \cup {Raises(Command)[step + 1]}
    BY DEF Raise
  <2>7. QED
    BY <2>4, <2>5, <2>6
<1>5. Command \in Stops \/ (flags \subseteq Stops /\ phase \in {"poll", "block"})
  BY <1>1 DEF Configs, Alone, AllServed, Stops
<1>6. UpdateDone'
  <2>1. Updating => Updating'
    BY <1>1, <1>2, <1>4 DEF Updating
  <2>2. QED
    BY <1>1, <1>2, <2>1 DEF Configs, UpdateDone
<1>7. UpdateFirst'
  <2>1. CASE Command = "CONFIG_UPDATE"
    <3>1. phase = "block" => st.flag = "CONFIG_UPDATE"
      BY DEF IInv, Core0Inv
    <3>2. QED
      BY <1>1, <1>4, <1>5, <2>1, <3>1, ConfigFlags DEF UpdateFirst
  <2>2. CASE Command # "CONFIG_UPDATE" /\ Updating'
    <3>1. Updating
      BY <1>1, <1>2, <1>4, <2>2 DEF Updating
    <3>2. Command \in Stops
      BY <1>1, <1>5, <2>2, <3>1, ConfigFlags DEF Updating
    <3>3. QED
      BY <1>1, <1>4, <3>1, <3>2, ConfigFlags DEF Configs, UpdateFirst
  <2>3. QED
    BY <2>1, <2>2 DEF UpdateFirst
<1>8. UpdateNewest'
  BY <1>1, <1>2 DEF Configs, UpdateNewest, Newest
<1>9. Alone'
  BY <1>4 DEF Alone
<1>10. QED
  BY <1>6, <1>7, <1>8, <1>9 DEF Configs

LEMMA ConfigStopAll ==
  ASSUME IInv, Waits, Configs, StopAll
  PROVE  Configs'
<1>1. /\ at' = at /\ phase' = phase /\ args' = args /\ conf' = conf
      /\ st' = st /\ sent' = sent /\ rx = "stopAll" /\ rx' \in {"stopAll", "getline"}
  BY DEF StopAll, core0, st
<1>2. Line' = Line /\ Command' = Command /\ \A n, f : IsFor(n, f)' = IsFor(n, f)
  BY <1>1 DEF IsFor, Line, Command
<1>3. flags' \cap Polled \subseteq flags \cap Polled
  BY NotPolled DEF StopAll
<1>4. "CONFIG_UPDATE" \notin flags
  BY <1>1, ConfigFlags DEF Waits, RaisedIsOwed, NoOverlap
<1>5. Updating' <=> Updating
  BY <1>1, <1>3, <1>4, ConfigFlags, WithArgsFacts DEF Updating
<1>6. UpdateDone'
  BY <1>1, <1>2, <1>5 DEF Configs, UpdateDone
<1>7. UpdateFirst'
  BY <1>1, <1>3, <1>5, ConfigFlags DEF Configs, UpdateFirst
<1>8. UpdateNewest'
  BY <1>1, <1>2 DEF Configs, UpdateNewest, Newest
<1>9. Alone'
  BY <1>1 DEF Alone
<1>10. QED
  BY <1>6, <1>7, <1>8, <1>9 DEF Configs

\* The update that is under way goes on, or ends with the new configuration.
LEMMA UpdateGoesOn ==
  ASSUME IInv, Core0, Updating
  PROVE  Updating' \/ RunConfigUpdate
<1>1. rx' = rx /\ Command' = Command
  BY Core0Keeps, SameLine
<1>2. CASE EnterBlock \/ PollDown \/ PollUp \/ Setup
  BY <1>1, <1>2 DEF EnterBlock, PollDown, PollUp, Polling, Setup, Updating
<1>10. CASE SweepTest \/ SweepMark
  BY <1>1, <1>10 DEF SweepTest, SweepMark, Updating
<1>3. CASE Clear
  BY <1>1, <1>3 DEF Clear, Updating, st
<1>4. CASE Read
  BY <1>1, <1>4 DEF Read, Updating, st
<1>5. CASE RunPlain \/ RunConvergence \/ RunLidUntilStop
  BY <1>1, <1>5 DEF RunPlain, RunConvergence, RunLidUntilStop, Updating
<1>6. CASE RunScan \/ RunSetIo \/ RunEnableDisable
  BY <1>1, <1>6 DEF RunScan, RunSetIo, RunEnableDisable, Updating
<1>7. CASE SweepPass
  BY <1>1, <1>7 DEF SweepPass, Updating
<1>8. CASE ClearLast
  <2>1. st.flag # "CONFIG_UPDATE"
    BY <1>8, StationAt DEF ClearLast, IInv, Core0Inv, Shape
  <2>2. QED
    BY <1>1, <1>8, <2>1 DEF ClearLast, Updating
<1>9. QED
  BY <1>2, <1>3, <1>4, <1>5, <1>6, <1>7, <1>8, <1>10 DEF Core0

LEMMA ServedStays ==
  ASSUME IInv, Core0, AllServed
  PROVE  AllServed'
<1>1. phase \in {"poll", "block"} /\ flags \subseteq Stops
  BY DEF AllServed, Stops
<1>2. st.flag \notin flags /\ "AD7606_READ_FOREVER" \notin flags
  BY <1>1, StationAt DEF IInv, Shape, Lowered, Stops
<1>3. CASE EnterBlock \/ PollDown \/ Setup
  BY <1>3 DEF EnterBlock, PollDown, Setup, AllServed
<1>4. CASE PollUp
  BY <1>2, <1>4 DEF PollUp
<1>5. EnterBlock \/ PollDown \/ Setup \/ PollUp
  BY <1>1 DEF Core0, SweepTest, SweepMark, Clear, Read, RunPlain, RunConvergence, RunLidUntilStop, RunConfigUpdate,
         RunScan, ClearLast, RunSetIo, RunEnableDisable, SweepPass
<1>6. QED
  BY <1>3, <1>4, <1>5

LEMMA ConfigCore0 ==
  ASSUME IInv, Waits, Configs, Core0
  PROVE  Configs'
<1>1. /\ rx' = rx /\ Line' = Line /\ Command' = Command
      /\ \A n, f : IsFor(n, f)' = IsFor(n, f)
  BY Core0Keeps, SameLine
<1>2. flags' \cap Polled \subseteq flags \cap Polled
  BY Core0Lowers, NotPolled DEF IInv
<1>3. ~RunConfigUpdate => conf' = conf
  BY DEF Core0, EnterBlock, PollDown, PollUp, SweepTest, SweepMark, Setup, Clear, Read,
         RunPlain, RunConvergence, RunLidUntilStop, RunScan, ClearLast, RunSetIo, RunEnableDisable, SweepPass
<1>4. UpdateDone'
  <2>1. CASE RunConfigUpdate
    <3>1. phase = "run" /\ st.flag = "CONFIG_UPDATE" /\ conf' = args
      BY <2>1 DEF RunConfigUpdate
    <3>2. DOMAIN args = {1, 2}
      BY <3>1, StationAt DEF IInv, Core0Inv, Shape
    <3>3. args # NoArgs
      BY <3>2, NoArgsFacts
    <3>4. Newest(args[1])
      BY <3>1 DEF Configs, UpdateNewest
    <3>5. QED
      BY <1>1, <3>1, <3>3, <3>4 DEF UpdateDone, Newest
  <2>2. CASE ~RunConfigUpdate /\ Updating
    BY <2>2, UpdateGoesOn DEF UpdateDone
  <2>3. CASE ~RunConfigUpdate /\ ~Updating
    BY <1>1, <1>3, <2>3 DEF Configs, UpdateDone
  <2>4. QED
    BY <2>1, <2>2, <2>3
<1>5. UpdateFirst'
  <2>1. SUFFICES ASSUME Updating'
                 PROVE  "MICRO_SCAN" \notin flags' /\ (st'.flag = "MICRO_SCAN" => phase' = "poll")
    BY DEF UpdateFirst
  <2>2. Updating
    <3>1. CASE "CONFIG_UPDATE" \in flags'
      BY <1>2, <3>1, ConfigFlags, WithArgsFacts DEF Updating
    <3>2. CASE st'.flag = "CONFIG_UPDATE" /\ phase' \in {"clear", "read", "run"}
      <4>1. st' = st /\ (phase \notin {"poll", "block"} \/ PollUp)
        BY <3>2, Entering
      <4>2. CASE PollUp
        BY <3>2, <4>1, <4>2 DEF PollUp, Updating
      <4>3. CASE phase \notin {"poll", "block"}
        <5>1. phase \in {"clear", "read", "run"}
          <6>1. st.flag \notin {"MICRO_SCAN", "AD7606_IS_SCANNING"}
            BY <3>2, <4>1
          <6>2. phase \notin {"sweep", "mark", "point", "last"}
            BY <6>1, StationAt DEF IInv, Core0Inv, Shape
          <6>3. QED
            BY <4>3, <6>2 DEF IInv, TypeOK
        <5>2. QED
          BY <3>2, <4>1, <5>1 DEF Updating
      <4>4. QED
        BY <4>1, <4>2, <4>3
    <3>3. CASE rx' \in {"fill", "store", "raise"} /\ Command' = "CONFIG_UPDATE"
      BY <1>1, <3>3 DEF Updating
    <3>4. QED
      BY <2>1, <3>1, <3>2, <3>3 DEF Updating
  <2>3. "MICRO_SCAN" \notin flags /\ (st.flag = "MICRO_SCAN" => phase = "poll")
    BY <2>2 DEF Configs, UpdateFirst
  <2>4. st'.flag = "MICRO_SCAN" => phase' = "poll"
    <3>1. PollUp => st.flag # "MICRO_SCAN"
      BY <2>3 DEF PollUp
    <3>2. phase' = "block" => st'.flag = "CONFIG_UPDATE"
      BY Core0Shape DEF IInv, Core0Inv
    <3>3. QED
      BY <2>3, <3>1, <3>2, Entering
  <2>5. QED
    BY <1>2, <2>3, <2>4, ConfigFlags
<1>6. UpdateNewest'
  <2>1. SUFFICES ASSUME phase' = "run", st'.flag = "CONFIG_UPDATE"
                 PROVE  Newest(args[1])'
    BY DEF UpdateNewest
  <2>2. st' = st /\ st.flag = "CONFIG_UPDATE"
    BY <2>1, Entering
  <2>3. Read
    BY <2>1, <2>2 DEF Core0, EnterBlock, PollDown, PollUp, SweepTest, SweepMark, Setup, Clear,
       RunPlain, RunConvergence, RunLidUntilStop, RunConfigUpdate, RunScan, ClearLast, RunSetIo, RunEnableDisable,
       SweepPass, Leave
  <2>4. args' = args /\ phase = "read"
    BY <2>1, <2>3 DEF Read
  <2>5. 1 \in DOMAIN args'
    BY <2>1, <2>2, StationAt, Core0Shape DEF IInv, Core0Inv, Shape
  <2>6. args'[1] = Line
    BY <2>2, <2>4, <2>5, ConfigFlags DEF Waits, Serving, Overtaken
  <2>7. \A n \in 1..Line : Line >= n
    <3>1. Line \in Nat
      BY DEF IInv, TypeOK, Line
    <3>2. QED
      BY <3>1
  <2>8. QED
    BY <1>1, <2>6, <2>7 DEF Newest
<1>7. Alone'
  BY <1>1, ServedStays DEF Configs, Alone
<1>8. QED
  BY <1>4, <1>5, <1>6, <1>7 DEF Configs

LEMMA ConfigStep ==
  ASSUME "command50" \notin Commands
  PROVE  IInv /\ WaitInv /\ ConfigInv /\ [Next]_vars => ConfigInv'
<1> SUFFICES ASSUME IInv, WaitInv, ConfigInv, [Next]_vars, ~rushed' PROVE Configs'
  BY DEF ConfigInv
<1>1. CASE Core0
  BY <1>1, Core0Keeps, ConfigCore0 DEF WaitInv, ConfigInv
<1>2. ASSUME NEW c \in Commands, GetLine(c) PROVE Configs'
  <2>1. ~rushed /\ Waited(c)
    BY <1>2 DEF GetLine
  <2>2. QED
    BY <1>2, <2>1, ConfigGetLine DEF ConfigInv
<1>3. CASE Fill \/ Store \/ Raise \/ StopAll
  <2>1. ~rushed
    BY <1>3 DEF Fill, Store, Raise, StopAll
  <2>2. QED
    BY <1>3, <2>1, ConfigFill, ConfigRaise, ConfigStopAll DEF WaitInv, ConfigInv
<1>4. CASE UNCHANGED vars
  <2>1. ConfigInv'
    BY <1>4, StutterInv
  <2>2. QED
    BY <2>1 DEF ConfigInv
<1>5. QED
  BY <1>1, <1>2, <1>3, <1>4 DEF Next, Core1

\* A scan runs with the configuration of the latest line that asked for an
\* update, for a host that waits and does not use command 50, whose case of
\* launchOnCore1 raises MICRO_SCAN before CONFIG_UPDATE.
THEOREM ScanIsConfigured ==
  ASSUME "command50" \notin Commands
  PROVE  Spec => []ScanUsesItsConfig
<1>1. ConfigInv => ScanUsesItsConfig
  BY DEF ConfigInv, Configs, UpdateDone, UpdateFirst, ScanUsesItsConfig
<1>2. IInv /\ WaitInv /\ ConfigInv /\ [Next]_vars => IInv' /\ WaitInv' /\ ConfigInv'
  BY InvStep, WaitStep, ConfigStep
<1>3. QED
  BY <1>1, <1>2, InitInv, PTL DEF Spec
=============================================================================
