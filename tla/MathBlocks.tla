------------------------------ MODULE MathBlocks -----------------------------
(***************************************************************************)
(* The arithmetic hardware of a core: the interpolator of                    *)
(* interp/hello_interp and the divider of divider/hello_divider.  Both keep  *)
(* their registers from one function to the next, so every function stands   *)
(* on what the ones before it have left.                                     *)
(* A register is its value as a signed 32-bit integer; the lanes' shift,     *)
(* mask, sign, blend and clamp are external.                                 *)
(***************************************************************************)
EXTENDS Integers, Sequences, SequencesExt

VARIABLES interp0, interp1,   \* accum, base and the configuration of both lanes
          cfg,                \* the configuration being built
          fn, i,              \* the function main is in, its loop counter
          shown               \* what the function has printed

interpVars == <<interp0, interp1, cfg, fn, i, shown>>

interp_default_config ==
    [shift |-> 0, lsb |-> 0, msb |-> 31, signed |-> FALSE, cross_input |-> FALSE,
     cross_result |-> FALSE, add_raw |-> FALSE, blend |-> FALSE, clamp |-> FALSE]

Reset == [accum |-> <<0, 0>>, base |-> <<0, 0, 0>>,
          lane |-> <<interp_default_config, interp_default_config>>]

Source(p, l) == p.accum[IF p.lane[l].cross_input THEN 3 - l ELSE l]
(* A lane's accumulator, shifted, masked and sign-extended. *)
Raw(p, l) ==
    LET c == p.lane[l]
        shifted == Source(p, l) \div 2 ^ c.shift
        kept == IF c.msb = 31 THEN shifted ELSE shifted % 2 ^ (c.msb + 1)
        masked == (kept \div 2 ^ c.lsb) * 2 ^ c.lsb
    IN  IF c.signed /\ c.msb < 31 /\ (kept \div 2 ^ c.msb) % 2 = 1
        THEN masked - 2 ^ (c.msb + 1) ELSE masked
Summand(p, l) == IF p.lane[l].add_raw THEN Source(p, l) ELSE Raw(p, l)
Alpha(p) == Raw(p, 2) % 256
Blend(p) == p.base[1] + (Alpha(p) * (p.base[2] - p.base[1])) \div 256
Clamp(p) == IF Raw(p, 1) < p.base[1] THEN p.base[1]
            ELSE IF Raw(p, 1) > p.base[2] THEN p.base[2] ELSE Raw(p, 1)
LaneResult(p, l) ==
    IF l = 3 THEN p.base[3] + Raw(p, 1) + (IF p.lane[1].blend THEN 0 ELSE Raw(p, 2))
    ELSE IF p.lane[1].blend THEN (IF l = 1 THEN Alpha(p) ELSE Blend(p))
    ELSE IF p.lane[1].clamp /\ l = 1 THEN Clamp(p)
    ELSE p.base[l] + Summand(p, l)
(* A pop reads a result and writes both lanes' results back, crossed where configured. *)
Popped(p) == [p EXCEPT !.accum = [l \in {1, 2} |->
                  LaneResult(p, IF p.lane[l].cross_result THEN 3 - l ELSE l)]]

(* Both values of a blend whose bases are unsigned: the top byte and the rest. *)
BlendUnsigned(p) ==
    LET low == Blend(p)
        Negative(v) == IF v < 0 THEN 1 ELSE 0
    IN  <<(low \div 2 ^ 24 + Alpha(p) * (Negative(p.base[2]) - Negative(p.base[1]))) % 256,
          low % 2 ^ 24>>

-----------------------------------------------------------------------------
Order == <<"times_table", "moving_mask", "masking_signed", "cross_lanes", "simple_blend1",
           "simple_blend2", "blend2_unsigned", "simple_blend3", "clamp", "linear_interpolation",
           "texture_mapping">>

InterpInit == /\ interp0 = Reset /\ interp1 = Reset /\ cfg = interp_default_config
              /\ fn = 1 /\ i = -1 /\ shown = <<>>

In(name) == fn <= Len(Order) /\ Order[fn] = name
Show(v) == shown' = Append(shown, v)
Enter == i = -1 /\ i' = 0 /\ shown' = <<>> /\ UNCHANGED fn
Loop(n) == i \in 0 .. n - 1 /\ i' = i + 1 /\ UNCHANGED fn
(* main calls the next function when a loop has run. *)
Leaves(name, n) == In(name) /\ i = n
DivReturn ==
    /\ \/ Leaves("times_table", 10) \/ Leaves("moving_mask", 8) \/ Leaves("masking_signed", 8)
       \/ Leaves("cross_lanes", 10) \/ Leaves("simple_blend1", 7) \/ Leaves("simple_blend2", 7)
       \/ Leaves("blend2_unsigned", 7) \/ Leaves("simple_blend3", 3) \/ Leaves("clamp", 9)
       \/ Leaves("linear_interpolation", 16) \/ Leaves("texture_mapping", 12)
    /\ fn' = fn + 1 /\ i' = -1 /\ shown' = <<>> /\ UNCHANGED <<interp0, interp1, cfg>>

times_table ==
    /\ In("times_table") /\ UNCHANGED <<interp1, cfg>>
    /\ \/ /\ Enter /\ interp0' = [interp0 EXCEPT !.accum[1] = 0, !.base[1] = 9,
                                                 !.lane[1] = interp_default_config]
       \/ Loop(10) /\ Show(LaneResult(interp0, 1)) /\ interp0' = Popped(interp0)

moving_mask ==
    /\ In("moving_mask") \/ In("masking_signed")
    /\ \/ /\ Enter /\ UNCHANGED interp1
          /\ cfg' = IF In("moving_mask") THEN interp_default_config ELSE [cfg EXCEPT !.signed = TRUE]
          /\ interp0' = IF In("moving_mask") THEN [interp0 EXCEPT !.accum[1] = 305441741] ELSE interp0
       \/ /\ Loop(8) /\ cfg' = [cfg EXCEPT !.lsb = i * 4, !.msb = i * 4 + 3]
          /\ interp0' = [interp0 EXCEPT !.lane[1] = cfg'] /\ Show(Raw(interp0', 1))
          /\ UNCHANGED interp1

cross_lanes ==
    /\ In("cross_lanes") /\ UNCHANGED interp1
    /\ \/ /\ Enter /\ cfg' = [interp_default_config EXCEPT !.cross_result = TRUE]
          /\ interp0' = [interp0 EXCEPT !.lane = <<cfg', cfg'>>, !.accum = <<123, 456>>,
                                        !.base[1] = 1, !.base[2] = 0]
       \/ /\ Loop(10) /\ interp0' = Popped(interp0) /\ UNCHANGED cfg
          /\ \E peeked \in {interp0, interp0'} :     \* printf's arguments come in any order
                shown' = <<LaneResult(peeked, 1), LaneResult(interp0, 2)>>

BlendLane == [interp_default_config EXCEPT !.blend = TRUE]

simple_blend1 ==
    /\ In("simple_blend1") /\ UNCHANGED interp1
    /\ \/ /\ Enter /\ cfg' = interp_default_config
          /\ interp0' = [interp0 EXCEPT !.lane = <<BlendLane, cfg'>>, !.base[1] = 500, !.base[2] = 1000]
       \/ /\ Loop(7) /\ interp0' = [interp0 EXCEPT !.accum[2] = (255 * i) \div 6]
          /\ Show(LaneResult(interp0', 2)) /\ UNCHANGED cfg

(* print_simple_blend2_results, signed and then unsigned. *)
print_simple_blend2_results(is_signed) ==
    /\ UNCHANGED <<interp1, cfg>>
    /\ \/ Enter /\ interp0' = [interp0 EXCEPT
              !.lane = <<BlendLane, [interp_default_config EXCEPT !.signed = is_signed]>>,
              !.base[1] = -1000, !.base[2] = 1000]
       \/ /\ Loop(7) /\ interp0' = [interp0 EXCEPT !.accum[2] = (255 * i) \div 6]
          /\ IF is_signed THEN Show(LaneResult(interp0', 2)) ELSE Show(BlendUnsigned(interp0'))
simple_blend2 == \/ In("simple_blend2") /\ print_simple_blend2_results(TRUE)
                 \/ In("blend2_unsigned") /\ print_simple_blend2_results(FALSE)

(* A write to base01: the halves, sign-extended when lane 1 is signed. *)
base01(p, high, low) ==
    LET Extended(v) == IF p.lane[2].signed /\ v >= 2 ^ 15 THEN v - 2 ^ 16 ELSE v
    IN  [p EXCEPT !.base[1] = Extended(low), !.base[2] = Extended(high)]
simple_blend3 ==
    /\ In("simple_blend3") /\ UNCHANGED interp1
    /\ \/ /\ Enter /\ cfg' = interp_default_config
          /\ interp0' = [interp0 EXCEPT !.lane = <<BlendLane, cfg'>>, !.accum[2] = 128]
       \/ /\ Loop(3) /\ cfg' = [cfg EXCEPT !.signed = i = 2]
          /\ LET p == [interp0 EXCEPT !.lane[2] = cfg']
             IN  interp0' = IF i = 0 THEN base01(p, 12288, 20480) ELSE base01(p, 57344, 61440)
          /\ Show(LaneResult(interp0', 2))

clamp ==
    /\ In("clamp") /\ UNCHANGED interp0
    /\ \/ /\ Enter /\ cfg' = [interp_default_config EXCEPT !.clamp = TRUE, !.shift = 2, !.msb = 29,
                                                           !.signed = TRUE]
          /\ interp1' = [interp1 EXCEPT !.lane[1] = cfg', !.base[1] = 0, !.base[2] = 255]
       \/ /\ Loop(9) /\ interp1' = [interp1 EXCEPT !.accum[1] = -1024 + 256 * i]
          /\ Show(LaneResult(interp1', 1)) /\ UNCHANGED cfg

samples == <<0, 10, -20, -1000, 500>>
uv_fractional_bits == 12

LaneNotDoubled == [BlendLane EXCEPT !.shift = uv_fractional_bits, !.lsb = 1,
                                    !.msb = 32 - uv_fractional_bits]
(* Lane 0: the whole part of accum 0, times two for the size of a sample. *)
SampleLane == [BlendLane EXCEPT !.shift = uv_fractional_bits - 1, !.lsb = 1,
                                !.msb = 32 - uv_fractional_bits]
linear_interpolation ==
    /\ In("linear_interpolation") /\ UNCHANGED interp1
    /\ \/ /\ Enter
          /\ cfg' = [interp_default_config EXCEPT !.shift = uv_fractional_bits - 8, !.signed = TRUE,
                                                  !.cross_input = TRUE]
          /\ interp0' = [interp0 EXCEPT !.lane = <<SampleLane, cfg'>>, !.accum[1] = 0, !.base[3] = 0]
       \/ /\ Loop(16) /\ UNCHANGED cfg
          /\ LET at == LaneResult(interp0, 3)      \* a byte offset: two per sample
                 p == [interp0 EXCEPT !.base[1] = samples[at \div 2 + 1],
                                      !.base[2] = samples[at \div 2 + 2]]
             IN  /\ Show(LaneResult(p, 2))
                 /\ interp0' = [p EXCEPT !.accum[1] = @ + 2 ^ uv_fractional_bits \div 4]

texture_mapping_setup(w, h, uv) ==
    [interp0 EXCEPT !.lane = <<[interp_default_config EXCEPT !.add_raw = TRUE, !.shift = uv, !.msb = w - 1],
                               [interp_default_config EXCEPT !.add_raw = TRUE, !.shift = uv - w,
                                                             !.lsb = w, !.msb = w + h - 1]>>,
                    !.base[3] = 0]
(* Each pop gives the address of a pixel and steps u and v. *)
texture_mapped_span ==
    /\ In("texture_mapping") /\ UNCHANGED <<interp1, cfg>>
    /\ \/ Enter /\ interp0' = [texture_mapping_setup(2, 2, 16) EXCEPT
                      !.accum = <<0, 0>>, !.base[1] = 65536 \div 2, !.base[2] = 65536 \div 3]
       \/ Loop(12) /\ Show(LaneResult(interp0, 3)) /\ interp0' = Popped(interp0)

InterpNext == \/ times_table \/ moving_mask \/ cross_lanes \/ simple_blend1 \/ simple_blend2
              \/ simple_blend3 \/ clamp \/ linear_interpolation \/ texture_mapped_span \/ DivReturn

-----------------------------------------------------------------------------
(* What the functions are to print, without the hardware. *)
Within(v, want, slack) == v - want <= slack /\ want - v <= slack
Nibble(k) == (305441741 \div 16 ^ (k - 1)) % 16
LinearAt(k) == LET a == (k - 1) \div 4 IN 4 * samples[a + 1] + (samples[a + 2] - samples[a + 1]) * ((k - 1) % 4)
Whole(step, k) == (((k - 1) * step) \div 65536) % 4

(* Every function prints its reference: the table, the nibbles with and without their sign,
   blends within a 128th of the exact ones, the clamped values, the points between the samples,
   the wrapped pixels, whatever the functions before it left in the registers. *)
InterpPrints ==
    \A k \in DOMAIN shown : LET v == shown[k] IN
        /\ In("times_table") => v = 9 * k
        /\ In("moving_mask") => v = Nibble(k) * 16 ^ (k - 1)
        /\ In("masking_signed") =>
               v = (IF k < 8 /\ Nibble(k) >= 8 THEN Nibble(k) - 16 ELSE Nibble(k)) * 16 ^ (k - 1)
        /\ In("cross_lanes") /\ k = 2 =>              \* the popped lane alternates
               v = IF i % 2 = 1 THEN 456 + i \div 2 ELSE 123 + i \div 2
        /\ In("simple_blend1") => Within(6 * v, 6 * 500 + 500 * (k - 1), 6 * (500 \div 128))
        /\ In("simple_blend2") => Within(6 * v, -6000 + 2000 * (k - 1), 6 * (2000 \div 128))
        /\ In("blend2_unsigned") /\ k > 1 => v[1] < shown[k - 1][1]
        /\ In("simple_blend3") => 2 * v = <<12288 + 20480, 57344 + 61440, -8192 - 4096>>[k]
        /\ In("clamp") => LET q == (256 * (k - 5)) \div 4
                          IN  v = IF q < 0 THEN 0 ELSE IF q > 255 THEN 255 ELSE q
        /\ In("linear_interpolation") => LinearAt(k) - 4 * v \in 0 .. 3
        /\ In("texture_mapping") => v = 4 * Whole(21845, k) + Whole(32768, k)

-----------------------------------------------------------------------------
(* The divider: a division runs for eight cycles; its registers are one set, which a nested
   division saves and restores. *)
VARIABLES divider, divPc, saved, results

divVars == <<divider, divPc, saved, results>>

MagnitudeOf(n) == IF n < 0 THEN 0 - n ELSE n
SignOf(n) == IF n < 0 THEN 0 - 1 ELSE 1
(* Rounds towards zero; the remainder has the sign of the dividend. *)
divmod_s32(a, b) == LET q == SignOf(a) * SignOf(b) * (MagnitudeOf(a) \div MagnitudeOf(b)) IN <<q, a - q * b>>
dividend == 123456
divisor == -321

DivInit == /\ divider = [a |-> 0, b |-> 1, cycles |-> 0] /\ divPc = 1 /\ saved = <<>>
           /\ results = <<>>

DivStart(a, b) == divider' = [a |-> a, b |-> b, cycles |-> 8]
Quotient == divmod_s32(divider.a, divider.b)
DivAt(k) == divPc = k /\ divPc' = k + 1

Cycle == /\ divider.cycles > 0 /\ divider' = [divider EXCEPT !.cycles = @ - 1]
         /\ UNCHANGED <<divPc, saved, results>>

(* The three divisions of the first part: signed, unsigned, asynchronous. *)
StartDivision ==
    /\ \/ DivAt(1) /\ DivStart(dividend, divisor)
       \/ DivAt(3) /\ DivStart(dividend, 0 - divisor)
       \/ DivAt(5) /\ DivStart(dividend, divisor)
    /\ UNCHANGED <<saved, results>>
(* hw_divider_result_wait. *)
TakeResult ==
    /\ DivAt(2) \/ DivAt(4) \/ DivAt(6)
    /\ divider.cycles = 0 /\ results' = Append(results, Quotient) /\ UNCHANGED <<divider, saved>>

(* The outer division is started, saved, interrupted by an inner one and restored. *)
StartOuter == DivAt(7) /\ DivStart(dividend, divisor) /\ UNCHANGED <<saved, results>>
hw_divider_save_state == /\ DivAt(8) /\ divider.cycles = 0 /\ saved' = <<divider>>
                         /\ UNCHANGED <<divider, results>>
StartInner == DivAt(9) /\ DivStart(123, 7) /\ UNCHANGED <<saved, results>>
TakeInner == /\ DivAt(10) /\ divider.cycles = 0 /\ results' = Append(results, Quotient)
             /\ UNCHANGED <<divider, saved>>
hw_divider_restore_state == DivAt(11) /\ divider' = saved[1] /\ UNCHANGED <<saved, results>>
TakeOuter == /\ DivAt(12) /\ divider.cycles = 0 /\ results' = Append(results, Quotient)
             /\ UNCHANGED <<divider, saved>>

DivNext == \/ Cycle \/ StartDivision \/ TakeResult \/ StartOuter \/ hw_divider_save_state
           \/ StartInner \/ TakeInner \/ hw_divider_restore_state \/ TakeOuter

(* "Working backwards": every result multiplied out gives its dividend, the nested division's
   and, after the restore, the interrupted one's. *)
Operands == <<<<dividend, divisor>>, <<dividend, 0 - divisor>>, <<dividend, divisor>>, <<123, 7>>,
              <<dividend, divisor>>>>
DivisionsHold == \A k \in DOMAIN results :
    LET a == Operands[k][1]
        b == Operands[k][2]
    IN  results[k][1] * b + results[k][2] = a /\ MagnitudeOf(results[k][2]) < MagnitudeOf(b)

(* The arithmetic blocks give what the programs say they compute. *)
MathIsRight == InterpPrints /\ DivisionsHold
=============================================================================
