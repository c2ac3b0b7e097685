----------------------------- MODULE PioDisplays -----------------------------
(***************************************************************************)
(* Two displays fed through PIO state machines: the ST7789 LCD               *)
(* (pio/st7789_lcd) and the HUB75 LED matrix (pio/hub75).  The processor     *)
(* runs ahead of a state machine by its FIFO; what it does besides (moving   *)
(* the D/C and CS pins, patching the shift of the data program, latching a   *)
(* row) must wait until the state machine has stalled on an empty FIFO.      *)
(* `todo` is what main still does of the current command, frame or bit       *)
(* plane, as steps <<"wait", sm>>, <<"pins", dc, cs>>, <<"shift", n>> and     *)
(* <<"put", sm, word>>.                                                      *)
(***************************************************************************)
EXTENDS Integers, Sequences, SequencesExt, FiniteSets

CONSTANTS TxDepth,                      \* the joined TX FIFO, 8 in the hardware
          SCREEN_WIDTH, SCREEN_HEIGHT, LOG_IMAGE_SIZE, Rotations, MaxFrames,
          WIDTH, ROWSEL_N_PINS

VARIABLES panel,      \* "st7789" or "hub"
          unit,       \* the command, frame or plane under way
          todo, tx, osr, stalled, dc_cs, st7789, shiftBy, hubPins, chain, lit

pioVars == <<panel, unit, todo, tx, osr, stalled, dc_cs, st7789, shiftBy, hubPins, chain, lit>>

Sms == {"data", "row"}

-----------------------------------------------------------------------------
(* The LCD.  The commands of the init sequence, without the delays after them. *)
st7789_init_seq ==
    <<<<1>>, <<17>>, <<58, 85>>, <<54, 0>>,
      <<42, 0, 0, SCREEN_WIDTH \div 256, SCREEN_WIDTH % 256>>,
      <<43, 0, 0, SCREEN_HEIGHT \div 256, SCREEN_HEIGHT % 256>>, <<33>>, <<19>>, <<41>>>>
RAMWR == <<44>>

IMAGE_SIZE == 2^LOG_IMAGE_SIZE
(* The bytes of the picture, low byte of a pixel first: any image with distinct pixels. *)
raspberry_256x256 == [a \in 0 .. (2 * IMAGE_SIZE * IMAGE_SIZE) - 1 |-> (37 * a) % 256]

Put(sm, w) == <<"put", sm, w>>
lcd_write_cmd(cmd) ==
    <<<<"wait", "data">>, <<"pins", 0, 0>>, Put("data", cmd[1])>>
      \o (IF Len(cmd) < 2 THEN <<>>
          ELSE <<<<"wait", "data">>, <<"pins", 1, 0>>>>
                  \o [i \in 1 .. Len(cmd) - 1 |-> Put("data", cmd[i + 1])])
      \o <<<<"wait", "data">>, <<"pins", 1, 1>>>>

st7789_start_pixels == lcd_write_cmd(RAMWR) \o <<<<"pins", 1, 0>>>>

(* A lane of the interpolator: the accumulator shifted right, bits lsb .. msb kept. *)
Lane(accum, shift, lsb, msb) ==
    LET s == accum \div 2^shift IN (s % 2^(msb + 1)) - (s % 2^lsb)
pop2(a0, a1) == Lane(a0, 15, 1, LOG_IMAGE_SIZE)
                + Lane(a1, 16 - (1 + LOG_IMAGE_SIZE), 1 + LOG_IMAGE_SIZE, 2 * LOG_IMAGE_SIZE)

(* The bytes of a frame: each pixel high byte first, the accumulators stepping along x. *)
FrameBytes(rotate) ==
    [k \in 1 .. 2 * SCREEN_WIDTH * SCREEN_HEIGHT |->
        LET px == (k - 1) \div 2   x == px % SCREEN_WIDTH   y == px \div SCREEN_WIDTH
            a == pop2((rotate[2] * y) + (rotate[1] * x), (rotate[4] * y) + (rotate[3] * x))
        IN raspberry_256x256[IF k % 2 = 1 THEN a + 1 ELSE a]]

LcdSteps(u) ==
    IF u.no <= Len(st7789_init_seq) THEN lcd_write_cmd(st7789_init_seq[u.no])
    ELSE st7789_start_pixels \o [k \in DOMAIN FrameBytes(u.rotate) |->
                                    Put("data", FrameBytes(u.rotate)[k])]

-----------------------------------------------------------------------------
(* The matrix.  A pixel is <<r, g, b>> of 5, 6 and 5 bits; the squares of the masked
   fields, shifted back, are the squares of the fields over 4, 16 and 4. *)
mountains_128x64 == [k \in 0 .. (WIDTH * 2^(ROWSEL_N_PINS + 1)) - 1 |->
                        <<(7 * k) % 32, 63 - k, (31 + (11 * k)) % 32>>]
gamma_correct_565_888(pix) ==
    <<(pix[1] * pix[1]) \div 4, (pix[2] * pix[2]) \div 16, (pix[3] * pix[3]) \div 4>>
gc_row(lane, rowsel, x) ==
    gamma_correct_565_888(mountains_128x64[(((lane * 2^ROWSEL_N_PINS) + rowsel) * WIDTH) + x])

DummyPixel == <<0, 0, 0>>
HubUnawaited(u) ==
    <<<<"shift", u.bit>>>>
      \o FlattenSeq([x \in 1 .. WIDTH |-> <<Put("data", gc_row(0, u.rowsel, x - 1)),
                                           Put("data", gc_row(1, u.rowsel, x - 1))>>])
      \o <<Put("data", DummyPixel), Put("data", DummyPixel), <<"wait", "data">>,
           Put("row", [row |-> u.rowsel, pulse |-> 100 * 2^u.bit])>>
HubSteps(u) ==
    <<<<"shift", u.bit>>>>
      \o FlattenSeq([x \in 1 .. WIDTH |-> <<Put("data", gc_row(0, u.rowsel, x - 1)),
                                           Put("data", gc_row(1, u.rowsel, x - 1))>>])
      \o <<Put("data", DummyPixel), Put("data", DummyPixel), <<"wait", "data">>,
           <<"wait", "row">>, Put("row", [row |-> u.rowsel, pulse |-> 100 * 2^u.bit])>>

-----------------------------------------------------------------------------
BlankPanel == <<0, 0, 0>>
PioInit ==
    /\ panel \in {"st7789", "hub"}
    /\ unit = [no |-> 0, rotate |-> <<0, 0, 0, 0>>, rowsel |-> 0, bit |-> 7]
    /\ todo = <<>> /\ tx = [s \in Sms |-> <<>>] /\ osr = [s \in Sms |-> <<>>]
    /\ stalled = [s \in Sms |-> TRUE] /\ dc_cs = <<0, 1>>
    /\ st7789 = [cmd |-> 0, args |-> <<>>] /\ shiftBy = 0
    /\ hubPins = <<BlankPanel, BlankPanel>> /\ chain = [x \in 1 .. WIDTH |-> <<BlankPanel, BlankPanel>>]
    /\ lit = [row |-> 0, pulse |-> 0, chain |-> chain]

(* The next command of lcd_init, or the next frame at some angle. *)
NextLcdUnit ==
    /\ panel = "st7789" /\ todo = <<>> /\ unit.no < Len(st7789_init_seq) + MaxFrames
    /\ \E r \in Rotations : unit' = [unit EXCEPT !.no = @ + 1, !.rotate = r]
    /\ todo' = LcdSteps(unit')
    /\ UNCHANGED <<panel, tx, osr, stalled, dc_cs, st7789, shiftBy, hubPins, chain, lit>>

(* The next bit of the row, or the first of the next one. *)
NextPlane ==
    /\ panel = "hub" /\ todo = <<>>
    /\ unit' = [unit EXCEPT !.no = 1, !.bit = (@ + 1) % 8,
                   !.rowsel = IF unit.no = 0 THEN 0
                              ELSE IF unit.bit = 7 THEN (@ + 1) % 2^ROWSEL_N_PINS ELSE @]
    /\ todo' = HubSteps(unit')
    /\ UNCHANGED <<panel, tx, osr, stalled, dc_cs, st7789, shiftBy, hubPins, chain, lit>>

(* pio_sm_put_blocking, st7789_lcd_put. *)
PutWord ==
    /\ todo # <<>> /\ todo[1][1] = "put" /\ Len(tx[todo[1][2]]) < TxDepth
    /\ tx' = [tx EXCEPT ![todo[1][2]] = Append(@, todo[1][3])]
    /\ stalled' = [stalled EXCEPT ![todo[1][2]] = FALSE]
    /\ todo' = Tail(todo)
    /\ UNCHANGED <<panel, unit, osr, dc_cs, st7789, shiftBy, hubPins, chain, lit>>

(* lcd_set_dc_cs. *)
SetPins ==
    /\ todo # <<>> /\ todo[1][1] = "pins"
    /\ dc_cs' = <<todo[1][2], todo[1][3]>> /\ todo' = Tail(todo)
    /\ UNCHANGED <<panel, unit, tx, osr, stalled, st7789, shiftBy, hubPins, chain, lit>>

(* The stall flag is cleared and waited for: a stalled machine sets it again. *)
WaitStall ==
    /\ todo # <<>> /\ todo[1][1] = "wait" /\ stalled[todo[1][2]]
    /\ todo' = Tail(todo)
    /\ UNCHANGED <<panel, unit, tx, osr, stalled, dc_cs, st7789, shiftBy, hubPins, chain, lit>>

(* hub75_data_rgb888_set_shift. *)
SetShift ==
    /\ todo # <<>> /\ todo[1][1] = "shift" /\ shiftBy' = todo[1][2] /\ todo' = Tail(todo)
    /\ UNCHANGED <<panel, unit, tx, osr, stalled, dc_cs, st7789, hubPins, chain, lit>>

(* A state machine takes a word when it has used up the one before. *)
SmPulls(sm) ==
    /\ osr[sm] = <<>> /\ tx[sm] # <<>>
    /\ osr' = [osr EXCEPT ![sm] = <<Head(tx[sm])>>] /\ tx' = [tx EXCEPT ![sm] = Tail(@)]
    /\ UNCHANGED <<panel, unit, todo, stalled, dc_cs, st7789, shiftBy, hubPins, chain, lit>>

Used(sm) == /\ osr' = [osr EXCEPT ![sm] = <<>>]
            /\ stalled' = [stalled EXCEPT ![sm] = tx[sm] = <<>>]

(* The last bit of a byte reaches the LCD, which looks at D/C and CS then. *)
LcdByte ==
    /\ panel = "st7789" /\ osr["data"] # <<>> /\ Used("data")
    /\ st7789' = IF dc_cs[2] = 1 THEN st7789
              ELSE IF dc_cs[1] = 0 THEN [cmd |-> osr["data"][1], args |-> <<>>]
              ELSE [st7789 EXCEPT !.args = Append(@, osr["data"][1])]
    /\ UNCHANGED <<panel, unit, todo, tx, dc_cs, shiftBy, hubPins, chain, lit>>

BitsAt(w) == [c \in 1 .. 3 |-> (w[c] \div 2^shiftBy) % 2]
(* The upper lane's word of a pair, at the shift the program has then. *)
UpperLane ==
    /\ panel = "hub" /\ osr["data"] # <<>> /\ Len(hubPins) = 2
    /\ hubPins' = Append(hubPins, BitsAt(osr["data"][1])) /\ Used("data")
    /\ UNCHANGED <<panel, unit, todo, tx, dc_cs, st7789, shiftBy, chain, lit>>

(* An idle row machine latches within 16 cycles of its word, before the first pair of
   the next plane is clocked; a machine inside a pulse does not. *)
RowIdleOrPulsing == lit.pulse # 0 \/ (tx["row"] = <<>> /\ osr["row"] = <<>>)

(* The lower lane's: its clock edge first shifts in the pair before. *)
LowerLane ==
    /\ panel = "hub" /\ osr["data"] # <<>> /\ Len(hubPins) = 3 /\ RowIdleOrPulsing
    /\ chain' = [x \in 1 .. WIDTH |-> IF x < WIDTH THEN chain[x + 1] ELSE <<hubPins[1], hubPins[2]>>]
    /\ hubPins' = <<hubPins[3], BitsAt(osr["data"][1])>> /\ Used("data")
    /\ UNCHANGED <<panel, unit, todo, tx, dc_cs, st7789, shiftBy, lit>>

(* The row program: the row select, the latch; then the pulse. *)
RowLatch ==
    /\ panel = "hub" /\ osr["row"] # <<>> /\ lit.pulse = 0
    /\ lit' = [row |-> osr["row"][1].row, pulse |-> osr["row"][1].pulse, chain |-> chain]
    /\ UNCHANGED <<panel, unit, todo, tx, osr, stalled, dc_cs, st7789, shiftBy, hubPins, chain>>
RowPulse ==
    /\ panel = "hub" /\ lit.pulse # 0 /\ lit' = [lit EXCEPT !.pulse = 0] /\ Used("row")
    /\ UNCHANGED <<panel, unit, todo, tx, dc_cs, st7789, shiftBy, hubPins, chain>>

PioNext == NextLcdUnit \/ NextPlane \/ PutWord \/ SetPins \/ WaitStall \/ SetShift
           \/ (\E sm \in Sms : SmPulls(sm)) \/ LcdByte \/ UpperLane \/ LowerLane \/ RowLatch
           \/ RowPulse

-----------------------------------------------------------------------------
(* The command the LCD was sent, and for a frame its pixels: texel <<u, v>> of the
   rotated point, each coordinate the integer part modulo the image's size. *)
Texel(r, k) ==
    LET px == (k - 1) \div 2   x == px % SCREEN_WIDTH   y == px \div SCREEN_WIDTH
        u == (((r[1] * x) + (r[2] * y)) \div 65536) % IMAGE_SIZE
        v == (((r[3] * x) + (r[4] * y)) \div 65536) % IMAGE_SIZE
    IN raspberry_256x256[(2 * ((v * IMAGE_SIZE) + u)) + (k % 2)]
Meant == IF unit.no <= Len(st7789_init_seq)
         THEN [cmd |-> st7789_init_seq[unit.no][1], args |-> Tail(st7789_init_seq[unit.no])]
         ELSE [cmd |-> 44, args |-> [k \in 1 .. 2 * SCREEN_WIDTH * SCREEN_HEIGHT |->
                                        Texel(unit.rotate, k)]]
(* The LCD takes every byte as the command or the datum it was meant to be, so that each
   command has its arguments and a frame is the rotated picture; and whenever a row of
   the matrix is lit, it is lit by the plane whose weight the pulse has, of that row. *)
PanelsShow ==
    /\ panel = "st7789" /\ unit.no > 0 /\ todo = <<>> /\ stalled["data"] => st7789 = Meant
    /\ lit.pulse # 0 =>
         \E bit \in 0 .. 7 :
            /\ lit.pulse = 100 * 2^bit
            /\ \A x \in 1 .. WIDTH, l \in {0, 1}, c \in 1 .. 3 :
                  lit.chain[x][l + 1][c] = (gc_row(l, lit.row, x - 1)[c] \div 2^bit) % 2
=============================================================================
