----------------------------- MODULE CharDisplays ----------------------------
(***************************************************************************)
(* Four character and segment displays of the examples and their drivers:   *)
(* the HT16K33 digits (i2c/ht16k33_i2c), the 1602 LCD behind an I2C port    *)
(* expander (i2c/lcd_1602_i2c), the MAX7219 chains (spi/max7219) and the    *)
(* serial LCD backpack (uart/lcd_uart).  Each is a machine of its own with  *)
(* its own Init and Next.  The chips are external.  Characters are codes.   *)
(***************************************************************************)
EXTENDS Integers, Sequences, SequencesExt, FiniteSets

CONSTANTS NUM_DIGITS,    \* digits of the HT16K33 board
          LedStrings,    \* strings it scrolls
          MAX_CHARS,     \* columns of the 1602 (16)
          Messages,      \* pairs of lines for the 1602
          LcdResets,     \* restarts of the Pico while the LCD stays powered
          NUM_MODULES,   \* MAX7219 modules in the chain
          MaxDigits,     \* digits of the 7 segment display (8)
          TypedMax       \* keys typed at the serial LCD

-----------------------------------------------------------------------------
(* HT16K33: segment patterns are abstracted to the character they draw. *)
VARIABLES digits,        \* the chip's display memory
          ledStr, ledPos \* the string being scrolled and the next frame of it, -1 after

ledVars == <<digits, ledStr, ledPos>>

Alnum == (48 .. 57) \union (65 .. 90) \union (97 .. 122)
char_to_pattern(ch) == IF ch \notin Alnum THEN 0 ELSE IF ch > 96 THEN ch - 32 ELSE ch

(* "digit <= NUM_DIGITS": one digit more than the board has is written. *)
ht16k33_display_string(str) ==
    digits' = [d \in DOMAIN digits |->
                 IF d <= NUM_DIGITS /\ d < Len(str) THEN char_to_pattern(str[d + 1]) ELSE digits[d]]

LedInit == digits = [d \in 0 .. 7 |-> 0] /\ ledStr = <<>> /\ ledPos = -1

(* One frame of the scroll, or the only one of a short string. *)
ht16k33_scroll_string ==
    /\ ledPos >= 0
    /\ ht16k33_display_string(SubSeq(ledStr, ledPos + 1, Len(ledStr)))
    /\ ledPos' = IF ledPos + 1 < Len(ledStr) - NUM_DIGITS + 1 THEN ledPos + 1 ELSE -1
    /\ UNCHANGED ledStr

LedCalls == ledPos = -1 /\ ledPos' = 0 /\ ledStr' \in LedStrings /\ UNCHANGED digits

LedNext == LedCalls \/ ht16k33_scroll_string

(* A string as long as the board or longer scrolls through to its last character
   and is left standing there, whatever its length. *)
LedShows ==
    ledPos = -1 /\ Len(ledStr) >= NUM_DIGITS =>
        \A d \in 0 .. NUM_DIGITS - 1 :
            digits[d] = char_to_pattern(ledStr[Len(ledStr) - NUM_DIGITS + d + 1])

-----------------------------------------------------------------------------
(* 1602: a byte goes out as two nibbles, each latched by the falling edge of E. *)
VARIABLES lcdPc, lcdMsg,   \* main: "start", "show", "shown"; the message
          prog, micro,     \* bytes still to send, writes done of the first one
          pins,            \* the port expander: nibble, rs, e
          lcd,             \* the controller: 4-bit mode, pending nibble, cursor, memory
          resets

lcdVars == <<lcdPc, lcdMsg, prog, micro, pins, lcd, resets>>

LcdCells == (0 .. MAX_CHARS - 1) \union (64 .. 64 + MAX_CHARS - 1)
Blank == [c \in LcdCells |-> 32]

(* The controller executes a byte. *)
LcdExec(d, b, rs) ==
    CASE rs /\ d.cur \in LcdCells -> [d EXCEPT !.mem[d.cur] = b, !.cur = @ + 1]
      [] rs -> [d EXCEPT !.cur = @ + 1]
      [] ~rs /\ b >= 128 -> [d EXCEPT !.cur = b - 128]
      [] ~rs /\ b \in 32 .. 63 -> [d EXCEPT !.four = b < 48]
      [] ~rs /\ b = 1 -> [d EXCEPT !.cur = 0, !.mem = Blank]
      [] ~rs /\ b \in 2 .. 3 -> [d EXCEPT !.cur = 0]
      [] OTHER -> d
(* It latches a nibble: alone an instruction in 8-bit mode, half of one else. *)
LcdLatch(d, n, rs) ==
    IF ~d.four THEN LcdExec(d, n * 16, rs)
    ELSE IF d.half = <<>> THEN [d EXCEPT !.half = <<n>>]
    ELSE LcdExec([d EXCEPT !.half = <<>>], d.half[1] * 16 + n, rs)

Byte(b, rs) == [b |-> b, rs |-> rs]
lcd_set_cursor(row, position) == Byte(IF row = 0 THEN 128 + position ELSE 192 + position, FALSE)
lcd_string(s) == [i \in 1 .. Len(s) |-> Byte(s[i], TRUE)]
InitUnsynced == <<Byte(2, FALSE), Byte(6, FALSE), Byte(40, FALSE), Byte(12, FALSE),
                  Byte(1, FALSE)>>

lcd_init == <<Byte(3, FALSE), Byte(3, FALSE), Byte(3, FALSE), Byte(2, FALSE),
              Byte(6, FALSE), Byte(40, FALSE), Byte(12, FALSE), Byte(1, FALSE)>>

Column(s) == (MAX_CHARS \div 2) - (Len(s) \div 2)
TwoLines(m) == <<lcd_set_cursor(0, Column(m[1]))>> \o lcd_string(m[1])
               \o <<lcd_set_cursor(1, Column(m[2]))>> \o lcd_string(m[2])

LcdInit ==
    /\ lcdPc = "start" /\ lcdMsg = <<>> /\ prog = lcd_init /\ micro = 0 /\ resets = 0
    /\ pins = [n |-> 0, rs |-> FALSE, e |-> FALSE]
    /\ lcd = [four |-> FALSE, half |-> <<>>, cur |-> 0, mem |-> Blank]

(* lcd_send_byte: six writes, each nibble set, with E raised and with E low.
   A falling edge that comes with new data latches the old or the new nibble. *)
lcd_send_byte ==
    /\ prog # <<>>
    /\ LET n == IF micro < 3 THEN Head(prog).b \div 16 ELSE Head(prog).b % 16
           p == [n |-> n, rs |-> Head(prog).rs, e |-> micro % 3 = 1]
       IN  /\ pins' = p
           /\ IF pins.e /\ ~p.e
              THEN \E q \in {pins, p} : lcd' = LcdLatch(lcd, q.n, q.rs)
              ELSE UNCHANGED lcd
    /\ micro' = (micro + 1) % 6
    /\ prog' = IF micro = 5 THEN Tail(prog) ELSE prog
    /\ UNCHANGED <<lcdPc, lcdMsg, resets>>

LcdMain ==
    /\ prog = <<>>
    /\ \/ /\ lcdPc \in {"start", "cleared"} /\ lcdPc' = "shown"
          /\ lcdMsg' \in Messages
          /\ prog' = TwoLines(lcdMsg')
       \/ lcdPc = "shown" /\ prog' = <<Byte(1, FALSE)>> /\ lcdPc' = "cleared" /\ UNCHANGED lcdMsg
    /\ UNCHANGED <<micro, pins, lcd, resets>>

(* The Pico restarts, perhaps in the middle of a byte; the LCD and the port
   expander keep their state. *)
LcdRestart ==
    /\ resets < LcdResets
    /\ resets' = resets + 1 /\ lcdPc' = "start" /\ lcdMsg' = <<>>
    /\ prog' = lcd_init /\ micro' = 0
    /\ UNCHANGED <<pins, lcd>>

LcdNext == lcd_send_byte \/ LcdMain \/ LcdRestart

Centred(m, row, c) ==
    LET i == c - 64 * row - Column(m[row + 1])
    IN  IF i \in 0 .. Len(m[row + 1]) - 1 THEN m[row + 1][i + 1] ELSE 32
(* Both lines of the message are on the display, centred, and nothing else is,
   also after a restart in the middle of a byte: lcd_init brings the controller
   back into step from any half-sent byte. *)
LcdShows ==
    prog = <<>> /\ lcdPc = "shown" =>
        /\ lcd.four /\ lcd.half = <<>>
        /\ \A c \in LcdCells : lcd.mem[c] = Centred(lcdMsg, IF c < 64 THEN 0 ELSE 1, c)

-----------------------------------------------------------------------------
(* MAX7219: the frames of a transfer run through the chain and every module
   latches the one it holds when CS rises. *)
VARIABLES modules,        \* the registers of each module
          maxPc,          \* "matrix", or the 7 segment counter's "next", "digit"
          number, rest, digit,
          bright,
          laps            \* history: how often the counter has started over

maxVars == <<modules, maxPc, number, rest, digit, bright, laps>>

FrameBound == 18          \* checkerboard frames drawn, past the brightest
LapBound == 1

Shift(frames) == [m \in 1 .. NUM_MODULES |-> frames[Len(frames) + 1 - m]]

write_register_all(reg, data) ==
    LET held == Shift([i \in 1 .. NUM_MODULES |-> <<reg, data>>])
    IN  modules' = [m \in 1 .. NUM_MODULES |-> [modules[m] EXCEPT ![held[m][1]] = held[m][2]]]

(* The two programs: register 10 is the brightness, the others are the rows. *)
MaxInit ==
    /\ modules = [m \in 1 .. NUM_MODULES |-> [r \in 1 .. 10 |-> IF r = 10 THEN 8 ELSE 0]]
    /\ maxPc \in {"matrix", "next"}
    /\ number = 0 /\ rest = 0 /\ digit = 0 /\ bright = 1 /\ laps = 0

(* The checkerboard: 170 >> (i % 2), or its complement in every second frame;
   the brightness is written after each row. *)
MatrixRow ==
    /\ maxPc = "matrix" /\ bright < FrameBound
    /\ write_register_all(digit + 1, LET x == IF digit % 2 = 0 THEN 170 ELSE 85
                                     IN  IF bright % 2 = 1 THEN x ELSE 255 - x)
    /\ maxPc' = "dim" /\ UNCHANGED <<number, rest, digit, bright, laps>>

MatrixDim ==
    /\ maxPc = "dim"
    /\ write_register_all(10, bright % 16)
    /\ digit' = (digit + 1) % 8
    /\ maxPc' = IF digit = 7 THEN "frame" ELSE "matrix"
    /\ UNCHANGED <<number, rest, bright, laps>>

MatrixFrame ==
    /\ maxPc = "frame" /\ bright' = bright + 1 /\ maxPc' = "matrix"
    /\ UNCHANGED <<modules, number, rest, digit, laps>>

(* display_num(j++), the wrap of j, and one digit of the loop of display_num. *)
NextNumber ==
    /\ maxPc = "next" /\ laps <= LapBound
    /\ maxPc' = "digit" /\ rest' = number /\ digit' = 0
    /\ UNCHANGED <<modules, number, bright, laps>>

display_num ==
    /\ maxPc = "digit" /\ rest # 0 /\ digit < MaxDigits
    /\ write_register_all(1 + digit, rest % 10)
    /\ rest' = rest \div 10 /\ digit' = digit + 1
    /\ UNCHANGED <<maxPc, number, bright, laps>>

NumberShown ==
    /\ maxPc = "digit" /\ (rest = 0 \/ digit = MaxDigits)
    /\ number' = IF number + 1 > 10 ^ MaxDigits - 1 THEN 0 ELSE number + 1
    /\ laps' = IF number' = 0 THEN laps + 1 ELSE laps
    /\ maxPc' = "next"
    /\ UNCHANGED <<modules, rest, digit, bright>>

MaxNext == MatrixRow \/ MatrixDim \/ MatrixFrame \/ NextNumber \/ display_num \/ NumberShown

(* A whole frame is the same checkerboard on every module of the chain; and the
   digits spell the number: display_num writes no leading zero, which is right
   until the count starts over (the zero after it writes nothing at all). *)
Spelt == LET sum[i \in 0 .. MaxDigits] ==
                 IF i = 0 THEN 0 ELSE sum[i - 1] + modules[1][i] * 10 ^ (i - 1)
         IN  sum[MaxDigits]
MaxShows ==
    /\ maxPc = "frame" => \A m \in 1 .. NUM_MODULES, r \in 1 .. 7 :
                              modules[m][r] + modules[m][r + 1] = 255 /\ modules[m] = modules[1]
    /\ maxPc = "digit" /\ rest = 0 /\ laps = 0 => Spelt = number

-----------------------------------------------------------------------------
(* The serial backpack: bytes that follow 0xFE are a command and its arguments,
   all others are text. *)
VARIABLES ttyWire,      \* bytes sent and not yet taken by the display
          backpack,  \* text shown, and the arguments still owed to a command
          ttyTyped      \* what was typed

ttyVars == <<ttyWire, backpack, ttyTyped>>

Prefix == 254
Args(cmd) == CASE cmd \in {80, 153, 66} -> 1   \* contrast, brightness, display on
               [] cmd = 209 -> 2               \* size
               [] cmd = 208 -> 3               \* backlight colour
               [] cmd = 64 -> 32               \* splash
               [] OTHER -> 0

lcd_write(cmd, arg) == <<Prefix, cmd>> \o [i \in 1 .. Args(cmd) |-> arg]

(* The set-up commands, the splash, home and clear; the argument of the display-on
   command is read from address 0. *)
TtyInit ==
    /\ \E junk \in {0, 254} :
          ttyWire = lcd_write(66, junk) \o lcd_write(209, 16) \o lcd_write(80, 155)
                 \o lcd_write(153, 255) \o lcd_write(84, 0) \o lcd_write(75, 0)
                 \o lcd_write(64, 65) \o lcd_write(72, 0) \o lcd_write(88, 0)
    /\ backpack = [text |-> <<>>, st |-> "text", owed |-> 0]
    /\ ttyTyped = <<>>

EchoKey(c) == IF c < 128 THEN <<c>> ELSE <<>>

(* A key: its character goes to the display, then a new colour. *)
TtyKey ==
    /\ ttyWire = <<>> /\ Len(ttyTyped) < TypedMax
    /\ \E c \in {65, 127, 128, 254}, colour \in {1, 254} :
          /\ ttyWire' = EchoKey(c) \o lcd_write(208, colour)
          /\ ttyTyped' = Append(ttyTyped, c)
    /\ UNCHANGED backpack

BackpackTakes ==
    /\ ttyWire # <<>>
    /\ ttyWire' = Tail(ttyWire)
    /\ LET b == Head(ttyWire)
       IN  backpack' =
             CASE backpack.st = "text" /\ b = Prefix -> [backpack EXCEPT !.st = "cmd"]
               [] backpack.st = "text" /\ b # Prefix -> [backpack EXCEPT !.text = Append(@, b)]
               [] backpack.st = "cmd" ->
                    [backpack EXCEPT !.st = IF Args(b) = 0 THEN "text" ELSE "args", !.owed = Args(b)]
               [] OTHER -> [backpack EXCEPT !.owed = @ - 1, !.st = IF backpack.owed = 1 THEN "text" ELSE @]
    /\ UNCHANGED ttyTyped

TtyNext == TtyKey \/ BackpackTakes

(* The display shows the typed ASCII characters in their order and nothing else:
   no key starts a command, no argument is taken for text. *)
TtyShows == ttyWire = <<>> => backpack.st = "text"
                           /\ backpack.text = SelectSeq(ttyTyped, LAMBDA c : c < 128)

-----------------------------------------------------------------------------
(* Each of the four displays shows what its program means it to show, whatever
   came before: a longer or a shorter string, a restart in the middle of a byte,
   a chain of modules, ttyTyped bytes that look like commands. *)
DisplaysShow == LedShows /\ LcdShows /\ MaxShows /\ TtyShows
=============================================================================
