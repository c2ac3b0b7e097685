------------------------------- MODULE Sensors -------------------------------
(***************************************************************************)
(* The register-file sensors of the I2C and SPI examples: a driver points   *)
(* the chip at a register, reads the bytes of a value in one or in several  *)
(* transactions, and converts them, while the chip goes on sampling.  The   *)
(* chip is external: how it lays a sample out in its registers (Encode) and *)
(* that a burst, or block data update, freezes the registers of a value.    *)
(* Values are in the unit of the sensor's last bit.                         *)
(***************************************************************************)
EXTENDS Integers, Sequences, FiniteSets

CONSTANT MaxSamples    \* new samples while one value is read

Shr(x, n) == x \div 2 ^ n      \* the arithmetic shift
Signed(u, w) == IF u >= 2 ^ (w - 1) THEN u - 2 ^ w ELSE u

(* The values tried: the ends of each range, and around zero. *)
Edges(w) == {-(2 ^ (w - 1)), -257, -256, -17, -1, 0, 1, 15, 16, 255, 256, 2 ^ (w - 1) - 1}
Values(f) ==
    CASE f = "bmp280" -> {0, 1, 15, 16, 4095, 4096, 519888, 2 ^ 20 - 1}
      [] f = "altitude" -> Edges(20)
      [] f = "celsius" -> Edges(12)
      [] f = "mcp9808" -> Edges(13)
      [] f = "mma8451" -> Edges(14)
      [] f \in {"lis3dh", "mpu"} -> Edges(16)
      [] f = "pcf8523" -> {0, 9, 10, 39, 59}

Encode(f, v) ==
    CASE f \in {"bmp280", "altitude"} ->
             LET u == v % 2 ^ 20 IN <<u \div 4096, (u \div 16) % 256, (u % 16) * 16>>
      [] f = "celsius" -> LET u == v % 2 ^ 12 IN <<u \div 16, (u % 16) * 16>>
      [] f = "mcp9808" -> LET u == v % 2 ^ 13 IN <<(u \div 256) + 224, u % 256>>
      [] f = "mma8451" -> LET u == v % 2 ^ 14 IN <<u \div 64, (u % 64) * 4>>
      [] f = "lis3dh" -> LET u == v % 2 ^ 16 IN <<u % 256, u \div 256>>
      [] f = "mpu" -> LET u == v % 2 ^ 16 IN <<u \div 256, u % 256>>
      [] f = "pcf8523" -> <<128 + (v \div 10) * 16 + (v % 10)>>

-----------------------------------------------------------------------------
(* The conversions, one per driver. *)
bmp280_read_raw(b) == b[1] * 4096 + b[2] * 16 + Shr(b[3], 4)

(* float(h) / 65536 of the three bytes at the top of a signed word, in 1/16 m *)
altitude(b) == (Signed(b[1], 8) * 65536 + b[2] * 256 + b[3]) \div 16
celsius(b) == Signed(b[1] * 256 + b[2], 16) \div 16

(* The flags are masked off; below zero the magnitude is returned (256 - ...). *)
mcp9808_convert_temp(b) ==
    LET upper == b[1] % 32
    IN  IF upper >= 16 THEN 4096 - ((upper % 16) * 256 + b[2]) ELSE upper * 256 + b[2]

mma8451_convert_accel(b) ==
    LET raw == b[1] * 64 + Shr(b[2], 2)
    IN  IF raw >= 8192 THEN -8192 + (raw % 8192) ELSE raw

lis3dh_calc_value(b) == Signed(b[2] * 256 + b[1], 16)
mpu_read_raw(b) == Signed(b[1] * 256 + b[2], 16)
pcf8520_convert_time(b) == 10 * (Shr(b[1], 4) % 8) + (b[1] % 16)

Convert(f, b) ==
    CASE f = "bmp280" -> bmp280_read_raw(b)
      [] f = "altitude" -> altitude(b)
      [] f = "celsius" -> celsius(b)
      [] f = "mcp9808" -> mcp9808_convert_temp(b)
      [] f = "mma8451" -> mma8451_convert_accel(b)
      [] f = "lis3dh" -> lis3dh_calc_value(b)
      [] f = "mpu" -> mpu_read_raw(b)
      [] f = "pcf8523" -> pcf8520_convert_time(b)

-----------------------------------------------------------------------------
VARIABLES sensor,    \* the value being read
          bdu,       \* block data update is on (LIS3DH, CTRL_REG_4)
          sample,    \* the chip's current sample
          frozen,    \* <<>>, or the sample whose registers are frozen
          bytes,     \* what the driver has read
          result,    \* <<>>, or the converted value
          during     \* history: the samples current since the read began

sensorVars == <<sensor, bdu, sample, frozen, bytes, result, during>>

Fields == {"bmp280", "altitude", "celsius", "mcp9808", "mma8451", "lis3dh", "mpu", "pcf8523"}

InitNoBdu == bdu = FALSE

lis3dh_init == bdu = TRUE

SensorInit ==
    /\ sensor \in Fields /\ lis3dh_init
    /\ sample \in Values(sensor)
    /\ frozen = <<>> /\ bytes = <<>> /\ result = <<>> /\ during = {sample}

NewSample ==
    /\ result = <<>> /\ Cardinality(during) <= MaxSamples
    /\ sample' \in Values(sensor) \ {sample}
    /\ during' = during \union {sample'}
    /\ UNCHANGED <<sensor, bdu, frozen, bytes, result>>

(* The byte comes from the frozen registers if there are any. *)
ByteOf(i) == Encode(sensor, IF frozen = <<>> THEN sample ELSE frozen[1])[i]

(* One transaction reads all the bytes. *)
BurstRead ==
    /\ sensor # "lis3dh" /\ bytes = <<>>
    /\ bytes' = Encode(sensor, sample)
    /\ UNCHANGED <<sensor, bdu, sample, frozen, result, during>>

(* Two transactions of one byte each: the low byte, then register | 1. *)
lis3dh_read_data ==
    /\ sensor = "lis3dh" /\ Len(bytes) < 2
    /\ bytes' = Append(bytes, ByteOf(Len(bytes) + 1))
    /\ frozen' = IF bdu /\ bytes = <<>> THEN <<sample>> ELSE <<>>
    /\ UNCHANGED <<sensor, bdu, sample, result, during>>

ConvertRead ==
    /\ result = <<>> /\ Len(bytes) = Len(Encode(sensor, sample))
    /\ result' = <<Convert(sensor, bytes)>>
    /\ UNCHANGED <<sensor, bdu, sample, frozen, bytes, during>>

(* The loop of main: the next reading. *)
NextReading ==
    /\ result # <<>>
    /\ bytes' = <<>> /\ frozen' = <<>> /\ result' = <<>> /\ during' = {sample}
    /\ UNCHANGED <<sensor, bdu, sample>>

SensorNext == NewSample \/ BurstRead \/ lis3dh_read_data \/ ConvertRead \/ NextReading

(* What a driver reports is a sample the chip had while it was read: no mix of
   the bytes of two samples, every sign and every range kept.  The MCP9808 is
   held to it above zero only. *)
SensorValueWhole ==
    result # <<>> => \/ result[1] \in during
                     \/ sensor = "mcp9808" /\ -result[1] \in during

SensorSpec == SensorInit /\ [][SensorNext]_sensorVars

-----------------------------------------------------------------------------
(***************************************************************************)
(* The compensation of the BMP280 (i2c/bmp280_i2c) and BME280               *)
(* (spi/bme280_spi) readings in 32-bit fixed point, and the order in which  *)
(* the two main loops apply it: the BMP280's computes the fine temperature  *)
(* anew for every value, the BME280's keeps it in the global t_fine.  Both  *)
(* first read the calibration from the chip, whose registers are external.  *)
(* TLC's integers are 32 bits wide: a signed overflow would stop the run.   *)
(***************************************************************************)
CONSTANTS RawTemps, RawPressures, RawHumidities,
          nvm,         \* the chip's own calibration parameters, by name
          Leftover     \* bytes that an uninitialised one may hold

VARIABLES chip,     \* which of the two programs runs
          dig,      \* the calibration parameters as they were read
          boschPc,
          raw,      \* the raw reading: t, p, h
          t_fine,   \* the BME280's global
          lastRaw,     \* history: the raw reading before this one, <<>> at first
          out       \* what is printed: t, p, h

boschVars == <<chip, dig, boschPc, raw, t_fine, lastRaw, out>>

Sar(x, n) == x \div 2 ^ n

(* The chip's registers from 0x88 and from 0xE1 (data sheet), low byte first; H4 and
   H5 are twelve bits and share the byte at 0xE5, the one behind H6 is reserved. *)
Bytes(n) == <<n % 256, (n \div 256) % 256>>
Words88 == <<"T1", "T2", "T3", "P1", "P2", "P3", "P4", "P5", "P6", "P7", "P8", "P9">>
Register88(k) == Bytes(nvm[Words88[(k \div 2) + 1]])[(k % 2) + 1]
RegisterE1 ==
    Bytes(nvm.H2) \o <<nvm.H3 % 256, (nvm.H4 \div 16) % 256, (nvm.H4 % 16) + 16 * (nvm.H5 % 16),
                      (nvm.H5 \div 16) % 256, nvm.H6 % 256, 0>>

(* The first of each group is unsigned. *)
Int16(n) == IF n >= 32768 THEN n - 65536 ELSE n
Int8(n) == IF n >= 128 THEN n - 256 ELSE n
bmp280_get_calib_params ==
    [name \in {Words88[i] : i \in 1..12} |->
        LET i == CHOOSE j \in 1..12 : Words88[j] = name
            word == Register88(2 * (i - 1) + 1) * 256 + Register88(2 * (i - 1))
        IN  IF name \in {"T1", "P1"} THEN word ELSE Int16(word)]

(* read_registers fetches 24 bytes, buffer[25] is none of them; H5 and H6 are taken one
   byte too far. *)
read_compensation_parameters(left) ==
    LET b == RegisterE1
        h == [H1 |-> left, H2 |-> Int16(b[1] + b[2] * 256), H3 |-> b[3],
              H4 |-> (b[4] * 16) + (b[5] % 16), H5 |-> (b[6] \div 16) + (b[7] * 16), H6 |-> Int8(b[8])]
        tp == bmp280_get_calib_params
    IN  [name \in DOMAIN tp \cup DOMAIN h |-> IF name \in DOMAIN h THEN h[name] ELSE tp[name]]

ConvertUnscaled(temp) ==
    LET var1 == Sar((Sar(temp, 3) - dig.T1) * dig.T2, 11)
        d == Sar(temp, 4) - dig.T1
        var2 == Sar(Sar(d * d, 12) * dig.T3, 14)
    IN  var1 + var2

bmp280_convert(temp) ==
    LET var1 == Sar((Sar(temp, 3) - 2 * dig.T1) * dig.T2, 11)
        d == Sar(temp, 4) - dig.T1
        var2 == Sar(Sar(d * d, 12) * dig.T3, 14)
    IN  var1 + var2

bmp280_convert_temp(temp) == Sar(bmp280_convert(temp) * 5 + 128, 8)

(* Twice a number below 2^32 divided by var1, as the two branches compute it. *)
TwiceOver(p, var1) == 2 * (p \div var1) + ((2 * (p % var1)) \div var1)

Pressure(pressure, fine) ==
    LET a == Sar(fine, 1) - 64000
        q == Sar(a, 2) * Sar(a, 2)
        b == Sar(Sar(q, 11) * dig.P6 + 2 * (a * dig.P5), 2) + dig.P4 * 65536
        c == Sar((32768 + Sar(Sar(dig.P3 * Sar(q, 13), 3) + Sar(dig.P2 * a, 1), 18)) * dig.P1, 15)
        p == TwiceOver((1048576 - pressure - Sar(b, 12)) * 3125, c)
        v1 == Sar(dig.P9 * Sar(Sar(p, 3) * Sar(p, 3), 13), 12)
        v2 == Sar(Sar(p, 2) * dig.P8, 13)
    IN  IF c = 0 THEN 0 ELSE p + Sar(v1 + v2 + dig.P7, 4)

bmp280_convert_pressure(pressure, temp) == Pressure(pressure, bmp280_convert(temp))

compensate_temp(adc_T) == t_fine' = bmp280_convert(adc_T)
                          /\ out' = [out EXCEPT !.t = Sar(t_fine' * 5 + 128, 8)]

compensate_pressure(adc_P) == Pressure(adc_P, t_fine)

compensate_humidity(adc_H) ==
    LET v == t_fine - 76800
        x == Sar(adc_H * 16384 - dig.H4 * 1048576 - dig.H5 * v + 16384, 15)
        y == Sar((Sar(Sar(v * dig.H6, 10) * (Sar(v * dig.H3, 11) + 32768), 10) + 2097152)
                     * dig.H2 + 8192, 14)
        z == (x * y) - Sar(Sar(Sar(x * y, 15) * Sar(x * y, 15), 7) * dig.H1, 4)
    IN  Sar(IF z < 0 THEN 0 ELSE IF z > 419430400 THEN 419430400 ELSE z, 12)

BoschInit ==
    /\ chip \in {"bmp280", "bme280"} /\ boschPc = "calibrate" /\ dig = <<>>
    /\ raw = <<>> /\ t_fine = 0 /\ lastRaw = <<>> /\ out = [t |-> 0, p |-> 0, h |-> 0]

Calibrate ==
    /\ boschPc = "calibrate" /\ boschPc' = "read"
    /\ \/ chip = "bmp280" /\ dig' = bmp280_get_calib_params
       \/ chip = "bme280" /\ \E left \in Leftover : dig' = read_compensation_parameters(left)
    /\ UNCHANGED <<chip, raw, t_fine, lastRaw, out>>

ReadRaw ==
    /\ boschPc = "read"
    /\ lastRaw' = raw
    /\ raw' \in [t : RawTemps, p : RawPressures, h : RawHumidities]
    /\ boschPc' = "pressure"
    /\ UNCHANGED <<chip, dig, t_fine, out>>

BmpConverts ==
    /\ chip = "bmp280" /\ boschPc = "pressure" /\ boschPc' = "printed"
    /\ out' = [out EXCEPT !.t = bmp280_convert_temp(raw.t),
                          !.p = bmp280_convert_pressure(raw.p, raw.t)]
    /\ UNCHANGED <<chip, dig, raw, t_fine, lastRaw>>

(* The pressure first, with the t_fine of the reading before. *)
BmePressure ==
    /\ chip = "bme280" /\ boschPc = "pressure" /\ boschPc' = "temp"
    /\ out' = [out EXCEPT !.p = compensate_pressure(raw.p)]
    /\ UNCHANGED <<chip, dig, raw, t_fine, lastRaw>>

BmeTemp ==
    /\ boschPc = "temp" /\ boschPc' = "humidity"
    /\ compensate_temp(raw.t)
    /\ UNCHANGED <<chip, dig, raw, lastRaw>>

BmeHumidity ==
    /\ boschPc = "humidity" /\ boschPc' = "printed"
    /\ out' = [out EXCEPT !.h = compensate_humidity(raw.h)]
    /\ UNCHANGED <<chip, dig, raw, t_fine, lastRaw>>

Printed ==
    /\ boschPc = "printed" /\ boschPc' = "read"
    /\ UNCHANGED <<chip, dig, raw, t_fine, lastRaw, out>>

BoschNext == Calibrate \/ ReadRaw \/ BmpConverts \/ BmePressure \/ BmeTemp \/ BmeHumidity \/ Printed

(* The pressure that is printed is the one of its own reading, compensated with
   the temperature of the same reading: always for the BMP280, for the BME280
   from the second reading on and while the temperature stands still.  A higher
   raw value is a higher temperature, a lower pressure and a higher humidity,
   and the printed values are physical: -40 to 85 degrees, 300 to 1100 hPa,
   at most 100 percent.  The parameters of temperature and pressure, and H2 to H4,
   are the chip's. *)
Compensated ==
    /\ \A name \in DOMAIN dig \ {"H1", "H5", "H6"} : dig[name] = nvm[name]
    /\ boschPc = "printed" /\ (chip = "bmp280" \/ (lastRaw # <<>> /\ lastRaw.t = raw.t)) =>
           /\ out.p = Pressure(raw.p, bmp280_convert(raw.t))
           /\ \A t \in RawTemps : t > raw.t => bmp280_convert_temp(t) > out.t
           /\ \A p \in RawPressures : p > raw.p => bmp280_convert_pressure(p, raw.t) < out.p
           /\ chip = "bme280" => \A h \in RawHumidities : h > raw.h => compensate_humidity(h) >= out.h
           /\ out.t \in -4000 .. 8500 /\ out.p \in 30000 .. 110000 /\ out.h <= 102400

-----------------------------------------------------------------------------
(***************************************************************************)
(* The GPS example (i2c/pa1010d_i2c): the split of a sentence into fields   *)
(* by pa1010d_parse_string.  gps_data has no_of_fields rows of max_len      *)
(* characters; the loop bounds the row by max_len and the column by         *)
(* no_of_fields.  A buffer is the sentence from its protocol name on,       *)
(* followed by zeros, as pa1010d_read_raw leaves it in the cleared array.   *)
(***************************************************************************)
CONSTANTS no_of_fields, max_len,
          Sentences      \* what may follow the '$': letters, ",", "*"

VARIABLES output, p, n, m, parsed, gps_data, nmeaPc

nmeaVars == <<output, p, n, m, parsed, gps_data, nmeaPc>>

Rows == 0 .. no_of_fields - 1
Columns == 0 .. max_len - 1

NmeaInit ==
    /\ output \in Sentences
    /\ p = 1 /\ n = 0 /\ m = 0 /\ parsed = FALSE /\ nmeaPc = "find"
    /\ gps_data = [r \in Rows |-> [c \in Columns |-> "nul"]]

Char(i) == IF i <= Len(output) THEN output[i] ELSE "nul"

(* strstr.  Where the name is not in the buffer, as in an answer of another protocol,  *)
(* it returns NULL and the walk runs from address zero: "nowhere", of which the C     *)
(* standard says nothing and no step is modelled.                                    *)
FindProtocol == /\ nmeaPc = "find" /\ nmeaPc' \in {"parse", "nowhere"}
                /\ UNCHANGED <<output, p, n, m, parsed, gps_data>>

NextField ==
    /\ nmeaPc = "parse" /\ Char(p) \in {",", "*"} /\ n < max_len /\ ~parsed
    /\ n' = n + 1 /\ m' = 0 /\ p' = p + 1
    /\ UNCHANGED <<output, parsed, gps_data, nmeaPc>>

FillsTooLong(c) ==
    /\ gps_data' = [gps_data EXCEPT ![n][m] = c]
    /\ m' = m + 1 /\ UNCHANGED parsed

(* A character of the field; a field that has used its row ends the parse. *)
FillField(c) ==
    /\ gps_data' = [gps_data EXCEPT ![n][m] = c]
    /\ IF m < no_of_fields THEN m' = m + 1 /\ UNCHANGED parsed
       ELSE parsed' = TRUE /\ UNCHANGED m

FieldChar ==
    /\ nmeaPc = "parse" /\ Char(p) \notin {",", "*", "$"} /\ n < max_len /\ ~parsed
    /\ IF n \in Rows /\ m \in Columns
       THEN FillField(Char(p)) /\ UNCHANGED nmeaPc
       ELSE nmeaPc' = "outside" /\ UNCHANGED <<gps_data, m, parsed>>
    /\ p' = p + 1
    /\ UNCHANGED <<output, n>>

ParseEnds ==
    /\ nmeaPc = "parse" /\ (Char(p) = "$" \/ n >= max_len \/ parsed)
    /\ nmeaPc' = "done"
    /\ UNCHANGED <<output, p, n, m, parsed, gps_data>>

NmeaNext == FindProtocol \/ NextField \/ FieldChar \/ ParseEnds

Seps == {i \in DOMAIN output : output[i] \in {",", "*"}}
ReaderStart(r) == IF r = 0 THEN 1 ELSE (CHOOSE i \in Seps : Cardinality({j \in Seps : j <= i}) = r) + 1
(* A sentence that has the protocol's name and at most no_of_fields fields, each
   shorter than a row, is split into exactly its fields, and no write leaves the array. *)
SentenceSplit ==
    Cardinality(Seps) < no_of_fields =>
        /\ nmeaPc # "outside"
        /\ nmeaPc = "done" =>
             \A r \in 0 .. Cardinality(Seps) :
                 \A i \in DOMAIN output : ReaderStart(r) <= i /\ (\A j \in ReaderStart(r) .. i : j \notin Seps)
                    => gps_data[r][i - ReaderStart(r)] = output[i]
=============================================================================
