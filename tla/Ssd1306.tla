------------------------------- MODULE Ssd1306 -------------------------------
(***************************************************************************)
(* The OLED example (i2c/ssd1306_i2c): a frame buffer, the render of an     *)
(* area of it to the display's memory, text and lines drawn into it, in the *)
(* order main runs them.  A byte of the buffer is the set of its lit bits.  *)
(* The display is external: a window, a pointer that runs through it row by *)
(* row and starts over at its end, and memory that a write spoils while the *)
(* hardware scrolls (the comment at line 177).                              *)
(***************************************************************************)
EXTENDS Integers, Sequences, FiniteSets, FiniteSetsExt

CONSTANTS SSD1306_WIDTH, SSD1306_HEIGHT,   \* pixels; the height in whole pages
          IMG_WIDTH,                       \* columns of the raspberry
          Texts                            \* the strings a line of text is chosen from

VARIABLES oledPc,   \* where main stands
          count,    \* its loop counter
          buf,      \* the frame buffer, one set of bits per cell
          ram,      \* the display's memory
          dev,      \* the modes the commands have set
          line,     \* DrawLine's locals
          path      \* history: the pixels the current DrawLine has set

oledVars == <<oledPc, count, buf, ram, dev, line, path>>

SSD1306_NUM_PAGES == SSD1306_HEIGHT \div 8
SSD1306_BUF_LEN == SSD1306_NUM_PAGES * SSD1306_WIDTH
Cells == 0 .. SSD1306_BUF_LEN - 1

Abs(n) == IF n < 0 THEN -n ELSE n

FrameArea == [start_col |-> 0, end_col |-> SSD1306_WIDTH - 1,
              start_page |-> 0, end_page |-> SSD1306_NUM_PAGES - 1]

BuflenOneShort(area) ==
    (area.end_col - area.start_col) * (area.end_page - area.start_page + 1)

calc_render_area_buflen(area) ==
    (area.end_col - area.start_col + 1) * (area.end_page - area.start_page + 1)

(* Horizontal addressing: where the k-th byte sent to the window lands. *)
WindowCell(area, k) ==
    LET w == area.end_col - area.start_col + 1
        h == area.end_page - area.start_page + 1
    IN  (area.start_page + ((k \div w) % h)) * SSD1306_WIDTH + area.start_col + (k % w)

(* buflen bytes sent in one transfer to the window the commands have set. *)
SSD1306_send_buf(data, buflen, area) ==
    LET At(c) == {k \in 0 .. buflen - 1 : WindowCell(area, k) = c}
    IN  ram' = IF dev.scroll THEN [c \in Cells |-> {"spoilt"}]
               ELSE [c \in Cells |-> IF At(c) = {} THEN ram[c] ELSE data[Max(At(c))]]

render(data, area) == SSD1306_send_buf(data, calc_render_area_buflen(area), area)

OledInit ==
    /\ oledPc = "init" /\ count = 0
    /\ buf = [c \in Cells |-> {}]
    /\ ram \in {[c \in Cells |-> {}], [c \in Cells |-> {0, 7}]}
    /\ dev \in [on : {FALSE}, scroll : BOOLEAN, inverted : BOOLEAN, all : BOOLEAN]
    /\ line = <<>> /\ path = {}

(* The command list: off, horizontal addressing, follow the RAM, normal, no
   scroll, on. *)
SSD1306_init ==
    /\ oledPc = "init" /\ oledPc' = "clear"
    /\ dev' = [on |-> TRUE, scroll |-> FALSE, inverted |-> FALSE, all |-> FALSE]
    /\ UNCHANGED <<count, buf, ram, line, path>>

RenderFrame ==
    /\ \/ oledPc = "clear" /\ oledPc' = "flash"
       \/ oledPc = "text" /\ count = SSD1306_NUM_PAGES + 1 /\ oledPc' = "shown"
       \/ oledPc = "drawn" /\ oledPc' = "lineShown"
    /\ render(buf, FrameArea)
    /\ UNCHANGED <<count, buf, dev, line, path>>

(* Three times all pixels on, then back to the RAM. *)
Flash ==
    /\ oledPc = "flash"
    /\ dev' = [dev EXCEPT !.all = ~@]
    /\ count' = IF dev.all THEN (count + 1) % 3 ELSE count
    /\ oledPc' = IF dev.all /\ count = 2 THEN "fruit" ELSE "flash"
    /\ UNCHANGED <<buf, ram, line, path>>

Raspberry == [k \in 0 .. IMG_WIDTH * SSD1306_NUM_PAGES - 1 |-> {k % 8}]
FruitArea(i) == [FrameArea EXCEPT !.start_col = i * (5 + IMG_WIDTH),
                                  !.end_col = i * (5 + IMG_WIDTH) + IMG_WIDTH - 1]

RenderFruit ==
    /\ oledPc = "fruit"
    /\ render(Raspberry, FruitArea(count))
    /\ count' = (count + 1) % 3
    /\ oledPc' = IF count = 2 THEN "scrollOn" ELSE "fruit"
    /\ UNCHANGED <<buf, dev, line, path>>

SSD1306_scroll(on) == dev' = [dev EXCEPT !.scroll = on]

Scroll ==
    /\ \/ oledPc = "scrollOn" /\ SSD1306_scroll(TRUE) /\ oledPc' = "scrollOff"
       \/ oledPc = "scrollOff" /\ SSD1306_scroll(FALSE) /\ oledPc' = "text"
    /\ UNCHANGED <<count, buf, ram, line, path>>

(* Letters, then digits; anything else is a blank.  The font is abstracted to
   one bit a column, which tells characters and columns apart, and reverse
   turns the bits of a byte round. *)
GetFontIndex(ch) == CASE ch \in 65 .. 90 -> ch - 64
                      [] ch \in 48 .. 57 -> ch - 48 + 27
                      [] OTHER -> 0
Font(k) == IF k < 8 THEN {} ELSE {((k \div 8) + k) % 8}
reverse(b) == {7 - i : i \in b}

toupper(ch) == IF ch \in 97 .. 122 THEN ch - 32 ELSE ch

WriteChar(b, x, y, ch) ==
    IF x > SSD1306_WIDTH - 8 \/ y > SSD1306_HEIGHT - 8 THEN b
    ELSE LET at == (y \div 8) * SSD1306_WIDTH + x
             idx == GetFontIndex(toupper(ch))
         IN  [c \in Cells |-> IF c \in at .. at + 7
                              THEN reverse(Font(idx * 8 + c - at)) ELSE b[c]]

WriteString(b, x, y, str) ==
    IF x > SSD1306_WIDTH - 8 \/ y > SSD1306_HEIGHT - 8 THEN b
    ELSE LET step[i \in 0 .. Len(str)] ==
                 IF i = 0 THEN b ELSE WriteChar(step[i - 1], x + 8 * (i - 1), y, str[i])
         IN  step[Len(str)]

(* One line of text after the other, one more than the display has pages. *)
DrawText ==
    /\ oledPc = "text" /\ count <= SSD1306_NUM_PAGES
    /\ \E s \in Texts : buf' = WriteString(buf, 5, 8 * count, s)
    /\ count' = count + 1
    /\ UNCHANGED <<oledPc, ram, dev, line, path>>

Invert ==
    /\ oledPc = "shown"
    /\ dev' = [dev EXCEPT !.inverted = ~@]
    /\ oledPc' = IF dev.inverted THEN "lines" ELSE "shown"
    /\ count' = IF dev.inverted THEN 0 ELSE count
    /\ UNCHANGED <<buf, ram, line, path>>

(* The fan of lines: from the top edge, then from the left edge; drawn in the
   first of two passes, erased in the second. *)
Lines == SSD1306_WIDTH + SSD1306_HEIGHT
LineFrom(n) ==
    LET i == n % Lines
        x == IF i < SSD1306_WIDTH THEN i ELSE 0
        y == IF i < SSD1306_WIDTH THEN 0 ELSE SSD1306_HEIGHT - 1 - (i - SSD1306_WIDTH)
    IN  [x0 |-> x, y0 |-> y, x1 |-> SSD1306_WIDTH - 1 - x, y1 |-> SSD1306_HEIGHT - 1 - y]

SetPixel(b, x, y, on) ==
    LET byte_idx == (y \div 8) * SSD1306_WIDTH + x
    IN  [b EXCEPT ![byte_idx] = IF on THEN @ \union {y % 8} ELSE @ \ {y % 8}]

Sign(a, b) == IF a < b THEN 1 ELSE -1

StartLine ==
    /\ \/ oledPc = "lines"
       \/ oledPc = "lineShown" /\ count < 2 * Lines
    /\ LET l == LineFrom(count)
       IN  line' = [l |-> l, x |-> l.x0, y |-> l.y0, err |-> Abs(l.x1 - l.x0) - Abs(l.y1 - l.y0)]
    /\ path' = {} /\ oledPc' = "line" /\ count' = count + 1
    /\ UNCHANGED <<buf, ram, dev>>

(* One turn of Bresenham's loop. *)
DrawLine ==
    /\ oledPc = "line"
    /\ LET dx == Abs(line.l.x1 - line.l.x0)
           dy == -Abs(line.l.y1 - line.l.y0)
           e2 == 2 * line.err
           stepX == e2 >= dy
           stepY == e2 <= dx
       IN  /\ buf' = SetPixel(buf, line.x, line.y, count <= Lines)
           /\ path' = path \union {<<line.x, line.y>>}
           /\ IF line.x = line.l.x1 /\ line.y = line.l.y1
              THEN oledPc' = "drawn" /\ UNCHANGED line
              ELSE /\ oledPc' = "line"
                   /\ line' = [line EXCEPT
                        !.err = @ + (IF stepX THEN dy ELSE 0) + (IF stepY THEN dx ELSE 0),
                        !.x = @ + (IF stepX THEN Sign(line.l.x0, line.l.x1) ELSE 0),
                        !.y = @ + (IF stepY THEN Sign(line.l.y0, line.l.y1) ELSE 0)]
    /\ UNCHANGED <<count, ram, dev>>

(* goto restart: the buffer keeps what the second pass has left. *)
Restart ==
    /\ oledPc = "lineShown" /\ count = 2 * Lines
    /\ oledPc' = "fruit" /\ count' = 0 /\ line' = <<>> /\ path' = {}
    /\ UNCHANGED <<buf, ram, dev>>

OledNext == SSD1306_init \/ RenderFrame \/ Flash \/ RenderFruit \/ Scroll \/ DrawText
            \/ Invert \/ StartLine \/ DrawLine \/ Restart

-----------------------------------------------------------------------------
(* A frame that was rendered is on the display, byte for byte and never spoilt
   by a scroll left running; the three raspberries are side by side on it.  And
   a finished DrawLine has set exactly one pixel in every step of its longer
   axis, none further than half a pixel from the line. *)
OnLine(p) ==
    LET l == line.l
    IN  2 * Abs((p[2] - l.y0) * (l.x1 - l.x0) - (p[1] - l.x0) * (l.y1 - l.y0))
            <= Max({Abs(l.x1 - l.x0), Abs(l.y1 - l.y0)})
OledShows ==
    /\ oledPc \in {"flash", "shown", "lineShown"} => ram = buf
    /\ oledPc = "scrollOff" =>
         \A i \in 0 .. 2, k \in DOMAIN Raspberry : ram[WindowCell(FruitArea(i), k)] = Raspberry[k]
    /\ oledPc = "drawn" =>
         /\ \A p \in path : OnLine(p)
         /\ Cardinality(path) = 1 + Max({Abs(line.l.x1 - line.l.x0), Abs(line.l.y1 - line.l.y0)})
=============================================================================
