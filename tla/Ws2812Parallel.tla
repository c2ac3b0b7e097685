--------------------------- MODULE Ws2812Parallel ----------------------------
(***************************************************************************)
(* The parallel LED strips (pio/ws2812/ws2812_parallel.c): the main loop     *)
(* draws a pattern, scales it, dithers it into one of two buffers and hands  *)
(* the buffer to a chain of two DMA channels; the DMA interrupt starts the   *)
(* reset delay whose alarm posts the semaphore the loop waits for.  A bit    *)
(* plane is the set of the strips whose bit is set.                          *)
(***************************************************************************)
EXTENDS Integers, Sequences, FiniteSetsExt

CONSTANTS NUM_PIXELS, FRAC_BITS, RoundLength, \* the code's 1000 frames of a round
          MaxRounds, Randoms                  \* the pixels rand() may give: <<b, r, g>>

VARIABLES wsPc, pat, dir, t, brightness, current, frame, round, strip, states,
          dma,      \* the chain: buf, the next fragment, on, asked, counted
          strands,     \* the 8-plane fragments the state machine got of this frame
          reset_delay_alarm_id, reset_delay_complete_sem,
          balance   \* light asked for minus light given, per value and strip

wsVars == <<wsPc, pat, dir, t, brightness, current, frame, round, strip, states, dma, strands,
            reset_delay_alarm_id, reset_delay_complete_sem, balance>>

VALUE_PLANE_COUNT == 8 + FRAC_BITS
Strips == {0, 1}
strip_frac_brightness == [s \in Strips |-> IF s = 0 THEN 64 ELSE 256]
NumValues == NUM_PIXELS * 4
ValueNos == 0 .. NumValues - 1
Planes == 0 .. VALUE_PLANE_COUNT - 1
Cleared == [v \in ValueNos |-> [q \in Planes |-> {}]]
Zeros == [v \in ValueNos |-> [s \in Strips |-> 0]]

urgb_u32(r, g, b) == <<b, r, g>>
Grey(k) == <<k, k, k>>
Black == Grey(0)

pattern_snakes(i) ==
    LET x == (i + ((t % 128) \div 2)) % 64
    IN IF x < 10 THEN urgb_u32(255, 0, 0)
       ELSE IF x >= 15 /\ x < 25 THEN urgb_u32(0, 255, 0)
       ELSE IF x >= 30 /\ x < 40 THEN urgb_u32(0, 0, 255) ELSE Black

(* t is unsigned there: a negative one is 2^32 larger, and 2^32 % 100 = 96. *)
pattern_greys(i) == Grey((t + (IF t < 0 THEN 96 ELSE 0) + i) % 100)

(* The pixels a pattern may put; none when it returns at once. *)
pattern_table ==
    [snakes  |-> {[i \in 0 .. NUM_PIXELS - 1 |-> pattern_snakes(i)]},
     random  |-> IF t % 8 # 0 THEN {} ELSE [0 .. NUM_PIXELS - 1 -> Randoms],
     sparkle |-> IF t % 8 # 0 THEN {} ELSE [0 .. NUM_PIXELS - 1 -> {Black, Grey(255)}],
     greys   |-> {[i \in 0 .. NUM_PIXELS - 1 |-> pattern_greys(i)]}]

(* The bytes of a strip: three a pixel, and a zero fourth on the RGBW strip. *)
put_pixel(s, px) ==
    LET w == IF s = 1 THEN 4 ELSE 3
    IN [k \in 0 .. NUM_PIXELS * w - 1 |->
           IF k % w = 3 THEN 0 ELSE px[k \div w][(k % w) + 1]]

(* The 8.4 fixed-point value of a byte of a strip at the current brightness. *)
Scaled(d, s, v) ==
    IF v \notin DOMAIN d[s] THEN 0
    ELSE (((d[s][v] * strip_frac_brightness[s]) \div 256) * brightness) \div 256

Bit(x, j) == (x \div 2^j) % 2 = 1
transform_strips(d) ==
    [v \in ValueNos |-> [q \in Planes |->
        {s \in Strips : Bit(Scaled(d, s, v), VALUE_PLANE_COUNT - 1 - q)}]]

Xor(a, b) == (a \cup b) \ (a \cap b)

(* The carry into plane q of s + the fractional planes of e. *)
Carry(s, e) ==
    LET c[q \in Planes] ==
          IF q = VALUE_PLANE_COUNT - 1 THEN {}
          ELSE LET z == q + 1
               IN IF z >= 8 THEN (e[z] \cap s[z]) \cup (c[z] \cap Xor(s[z], e[z]))
                  ELSE c[z] \cap s[z]
    IN c
AddsTooShort(s, e) == [q \in Planes |-> IF q >= 8 THEN Xor(s[q], e[q]) ELSE s[q]]
add_error(s, e) ==
    LET c == Carry(s, e)
    IN [q \in Planes |-> IF q >= 8 THEN Xor(Xor(e[q], s[q]), c[q]) ELSE Xor(s[q], c[q])]

dither_values(colors, old) == [v \in ValueNos |-> add_error(colors[v], old[v])]

WsInit ==
    /\ wsPc = "round" /\ pat = "snakes" /\ dir = 0 /\ t = 0 /\ brightness = 0
    /\ current = 0 /\ frame = 0 /\ round = 0
    /\ strip = [s \in Strips |-> put_pixel(s, [i \in 0 .. NUM_PIXELS - 1 |-> Black])]
    /\ states = [b \in {0, 1} |-> Cleared]
    /\ dma = [on |-> FALSE, buf |-> 0, fragment |-> 0, asked |-> Zeros, counted |-> FALSE]
    /\ strands = <<>> /\ balance = Zeros
    /\ reset_delay_alarm_id = 0 /\ reset_delay_complete_sem = 1

StartRound ==
    /\ wsPc = "round" /\ round < MaxRounds
    /\ pat' \in {"snakes", "random", "sparkle", "greys"} /\ dir' \in {-1, 0, 1}
    /\ brightness' = 0 /\ current' = 0 /\ frame' = 0 /\ round' = round + 1
    /\ wsPc' = "draw"
    /\ UNCHANGED <<t, strip, states, dma, strands, reset_delay_alarm_id,
                   reset_delay_complete_sem, balance>>

(* One pass up to the semaphore: the pattern on both strips, the planes, the dither. *)
Draw ==
    /\ wsPc = "draw" /\ wsPc' = "wait"
    /\ IF pattern_table[pat] = {} THEN UNCHANGED strip
       ELSE \E a, b \in pattern_table[pat] : strip' = [s \in Strips |->
                put_pixel(s, IF s = 0 THEN a ELSE b)]
    /\ states' = [states EXCEPT ![current] =
                     dither_values(transform_strips(strip'), states[1 - current])]
    /\ UNCHANGED <<pat, dir, t, brightness, current, frame, round, dma, strands,
                   reset_delay_alarm_id, reset_delay_complete_sem, balance>>

(* sem_acquire_blocking, then the fragment list and the trigger of its channel. *)
output_strips_dma ==
    /\ wsPc = "wait" /\ reset_delay_complete_sem > 0
    /\ reset_delay_complete_sem' = reset_delay_complete_sem - 1
    /\ dma' = [on |-> TRUE, buf |-> current, fragment |-> 0, counted |-> TRUE,
               asked |-> [v \in ValueNos |-> [s \in Strips |-> Scaled(strip, s, v)]]]
    /\ strands' = <<>>
    /\ current' = 1 - current /\ t' = t + dir /\ frame' = frame + 1
    /\ brightness' = (brightness + 1) % (32 * 2^FRAC_BITS)
    /\ wsPc' = IF frame' = RoundLength THEN "clear" ELSE "draw"
    /\ UNCHANGED <<pat, dir, round, strip, states, reset_delay_alarm_id, balance>>

(* The memset after a round; nothing waits for the last frame's DMA. *)
ClearStates ==
    /\ wsPc = "clear" /\ wsPc' = "round"
    /\ states' = [b \in {0, 1} |-> Cleared]
    /\ balance' = Zeros /\ dma' = [dma EXCEPT !.counted = FALSE]
    /\ UNCHANGED <<pat, dir, t, brightness, current, frame, round, strip, strands,
                   reset_delay_alarm_id, reset_delay_complete_sem>>

(* The chain channel points the main one at a fragment, whose first 8 planes go out. *)
DmaFragment ==
    /\ dma.on /\ dma.fragment < NumValues
    /\ strands' = Append(strands, [q \in 0 .. 7 |-> states[dma.buf][dma.fragment][q]])
    /\ dma' = [dma EXCEPT !.fragment = @ + 1]
    /\ UNCHANGED <<wsPc, pat, dir, t, brightness, current, frame, round, strip, states,
                   reset_delay_alarm_id, reset_delay_complete_sem, balance>>

Shown(v, s) == MapThenSumSet(LAMBDA q : 2^(7 - q), {q \in 0 .. 7 : s \in strands[v + 1][q]})

(* The NULL of the list is the null trigger that raises the quiet channel's interrupt. *)
dma_complete_handler ==
    /\ dma.on /\ dma.fragment = NumValues
    /\ dma' = [dma EXCEPT !.on = FALSE]
    /\ reset_delay_alarm_id' = 1
    /\ balance' = IF ~dma.counted THEN balance
                  ELSE [v \in ValueNos |-> [s \in Strips |->
                          balance[v][s] + dma.asked[v][s] - (2^FRAC_BITS * Shown(v, s))]]
    /\ UNCHANGED <<wsPc, pat, dir, t, brightness, current, frame, round, strip, states, strands,
                   reset_delay_complete_sem>>

reset_delay_complete ==
    /\ reset_delay_alarm_id # 0 /\ reset_delay_alarm_id' = 0
    /\ reset_delay_complete_sem' = 1
    /\ UNCHANGED <<wsPc, pat, dir, t, brightness, current, frame, round, strip, states, dma,
                   strands, balance>>

WsNext == StartRound \/ Draw \/ output_strips_dma \/ ClearStates \/ DmaFragment
          \/ dma_complete_handler \/ reset_delay_complete

(* What the eye adds up: over the frames of a round the light a LED gave is what was
   asked for but for less than one step of its 8 bits, whatever the interleaving of
   the drawing with the DMA: no frame is torn and the dither loses no error. *)
LightIsConserved ==
    \A v \in ValueNos, s \in Strips : balance[v][s] \in 0 .. (2^FRAC_BITS - 1)
=============================================================================
