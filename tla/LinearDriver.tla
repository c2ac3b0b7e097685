---------------------------- MODULE LinearDriver ----------------------------
(***************************************************************************)
(* LinearDriver::activate drives one of three stick-slip motors with two   *)
(* lines: one is held high, the other pulsed n times; dir exchanges them.  *)
(* It is called by command 90..99 once, by command 80 again and again      *)
(* until a stop (moveLinearDriverUntilStop) and by the approach. A step is *)
(* one change of the lines. Durations are computed apart.                  *)
(***************************************************************************)
EXTENDS Integers

CONSTANTS
    U16,      \* the modulus of uint16_t, scaled down
    Numbers   \* what a command's fields may hold, the -1 of the fill included

ASSUME LidAssumption == U16 \in Nat \ {0} /\ Numbers \subseteq Int

Axes == {"x", "y", "z"}
Pin == Axes \X {"a", "b"}

\* 95 and 99 have axes of their own, every other number is the first one.
AxisOf(command) == CASE command = 95 -> "y" [] command = 99 -> "z" [] OTHER -> "x"

\* The times of a pulse in microseconds: 1000000 / freq is an integer division,
\* the rest is in doubles and cut by sleep_us. For freq = 0, and for p > 1000,
\* what the code computes is undefined; such lines are not sent here.
tAbs(freq) == 1000000 \div freq
tLow(freq, p) == (p * tAbs(freq)) \div 1000
tHigh(freq, p) == tAbs(freq) - ((p * tAbs(freq) + 999) \div 1000)

VARIABLES
    lines,   \* the pins that are high
    pc,      \* where activate is
    move,    \* the running call: its pins, its n, and who called
    i,       \* pulses given so far
    until,   \* LID_UNTIL_STOP and the fields of its command
    zread    \* command 80 on z: Z has been read since the last burst

lidVars == <<lines, pc, move, i, until, zread>>

NoMove == [fixed |-> <<"x", "a">>, moving |-> <<"x", "b">>, n |-> 0, by |-> "none"]
NotUntil == [on |-> FALSE, name |-> 0, n |-> 0, dir |-> 0]

LidInit ==
    /\ lines = {} /\ pc = "idle" /\ move = NoMove /\ i = 0
    /\ until = NotUntil /\ zread = FALSE

\* Core 0 is inside moveLinearDriverUntilStop. It does not stay there for a name
\* other than 90, 95 and 99, nor for the first field of a later command's line.
Busy == zread \/ (until.on /\ until.name \in {90, 95, 99})

\* The entry of activate: the pins, exchanged for dir.
Activate(command, f, p, n, dir, by) ==
    LET axis == AxisOf(command)
        A == <<axis, IF dir # 0 THEN "b" ELSE "a">>
        B == <<axis, IF dir # 0 THEN "a" ELSE "b">>
    IN  /\ pc = "idle" /\ pc' = "fixed" /\ i' = 0
        /\ move' = [fixed |-> A, moving |-> B, n |-> n, by |-> by, dir |-> dir,
                    f |-> f, low |-> tLow(f, p), high |-> tHigh(f, p)]

\* Command 90..99: the fields go through an array of uint16_t.
Lid(command) ==
    /\ ~Busy
    /\ \E n, dir \in Numbers, f \in {3, 5000}, p \in {0, 333, 1000} :
          Activate(command, f, p, n % U16, dir % U16, "LID")
    /\ UNCHANGED <<lines, until, zread>>

\* The approach moves z by |NSTEPS|, away for a positive one.
ApproachMove ==
    /\ ~Busy
    /\ \E n \in Numbers :
          Activate(99, 5000, 750, IF n < 0 THEN -n ELSE n, IF n > 0 THEN 1 ELSE 0, "approach")
    /\ UNCHANGED <<lines, until, zread>>

\* Command 80; a name other than 90, 95 and 99 moves nothing and stays up.
LidUntilStop ==
    /\ ~Busy /\ pc = "idle"
    /\ \E name \in {90, 95, 99, 91}, n, dir \in Numbers :
          until' = [on |-> TRUE, name |-> name, n |-> n, dir |-> dir]
    /\ UNCHANGED <<lines, pc, move, i, zread>>

\* The z axis reads Z before each burst; the x and y axes do not.
ReadZ ==
    /\ pc = "idle" /\ until.on /\ until.name = 99 /\ ~zread
    /\ zread' = TRUE
    /\ UNCHANGED <<lines, pc, move, i, until>>

Again ==
    /\ IF until.name = 99 THEN zread ELSE until.on /\ until.name \in {90, 95}
    /\ Activate(until.name, 5000, 750, until.n, until.dir, "LID_UNTIL_STOP")
    /\ zread' = FALSE
    /\ UNCHANGED <<lines, until>>

\* stopAll lowers LID_UNTIL_STOP at any moment; a burst whose Z has been read
\* still comes.
Stop ==
    /\ until.on
    /\ until' = [until EXCEPT !.on = FALSE]
    /\ UNCHANGED <<lines, pc, move, i, zread>>

Enable(pins) == lines' = lines \cup pins
Disable(pins) == lines' = lines \ pins

FixedUp ==
    /\ pc = "fixed" /\ pc' = "for"
    /\ Enable({move.fixed})
    /\ UNCHANGED <<move, i, until, zread>>

PulseLow ==
    /\ pc = "for" /\ i < move.n /\ pc' = "low"
    /\ Disable({move.moving})
    /\ UNCHANGED <<move, i, until, zread>>

PulseHigh ==
    /\ pc = "low" /\ pc' = "for"
    /\ Enable({move.moving})
    /\ i' = i + 1
    /\ UNCHANGED <<move, until, zread>>

\* Mutant: only the held line goes down at the end.
FinishFixedOnly ==
    /\ pc = "for" /\ i >= move.n /\ pc' = "idle"
    /\ Disable({move.fixed})
    /\ UNCHANGED <<move, i, until, zread>>

Finish ==
    /\ pc = "for" /\ i >= move.n /\ pc' = "idle"
    /\ Disable({move.fixed, move.moving})
    /\ UNCHANGED <<move, i, until, zread>>

LidNext ==
    \/ \E c \in {90, 92, 95, 99} : Lid(c)
    \/ ApproachMove \/ LidUntilStop \/ ReadZ \/ Again \/ Stop
    \/ FixedUp \/ PulseLow \/ PulseHigh \/ Finish

LidSpec == LidInit /\ [][LidNext]_lidVars

-----------------------------------------------------------------------------

(* Both lines are low whenever no call is running, even after a call for no
   pulses, in either direction and after a stop in the middle of a burst; while
   one runs, no line of another axis is up, and the held line is up for every
   pulse. A burst that is over has given all its pulses, on the right line, and
   the two sleeps of a pulse make up its period to a microsecond. *)
DriverLines ==
    /\ pc \in {"idle", "fixed"} => lines = {}
    /\ pc = "low" => lines = {move.fixed}
    /\ pc = "for" => lines = {move.fixed} \cup (IF i > 0 THEN {move.moving} ELSE {})
    /\ pc = "idle" /\ move.by # "none" =>
          /\ i = IF move.n > 0 THEN move.n ELSE 0
          /\ move.moving[2] = (IF move.dir = 0 THEN "b" ELSE "a")
          /\ tAbs(move.f) - (move.low + move.high) \in {0, 1}
=============================================================================
