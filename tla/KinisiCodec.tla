----------------------------- MODULE KinisiCodec -----------------------------
(***************************************************************************)
(* The packed values of a frame: little-endian integers, binary64 values   *)
(* on a board whose double is narrower, and the telemetry samples made of  *)
(* both.  Bytes, the wire format and the native format have parameters for *)
(* sizes; a number is kept as an odd significand and a power of two, and   *)
(* native arithmetic rounds to nearest, ties to even, as IEEE 754 has it.  *)
(***************************************************************************)
EXTENDS KinisiTypes, Sequences, FiniteSetsExt

CONSTANTS
  ByteBits,                            \* of a byte, 8
  WireExponentBits, WireFractionBits,  \* binary64: 11 and 52
  ExponentBits, FractionBits           \* native double, binary32: 8 and 23

DoubleBytes == 8

\* 1 << k.
Pow2[k \in Nat] == IF k = 0 THEN 1 ELSE 2 * Pow2[k - 1]

ByteBase == Pow2[ByteBits]

\* f[1] + ... + f[n].
Total(f, n) ==
  LET sum[k \in 0 .. n] == IF k = 0 THEN 0 ELSE sum[k - 1] + f[k]
  IN sum[n]

\* A wire double fills its bytes; every native number is a normal number of the
\* wire; a wire fraction, as an integer and scaled to less than 1, is in the
\* normal range of the native format.
ASSUME FormatAssumption ==
  /\ {ByteBits, WireExponentBits, WireFractionBits, ExponentBits, FractionBits}
        \subseteq Nat \ {0}
  /\ DoubleBytes * ByteBits = 1 + WireExponentBits + WireFractionBits
  /\ Pow2[ExponentBits - 1] + FractionBits <= Pow2[WireExponentBits - 1]
  /\ FractionBits < WireFractionBits
  /\ WireFractionBits < Pow2[ExponentBits - 1] - 2

----------------------------------------------------------------------------
(* Integers *)

\* readUnsigned(data + offset, size).
ReadUnsigned(data, offset, size) ==
  Total([i \in 1 .. size |-> data[offset + i - 1] * Pow2[ByteBits * (i - 1)]], size)

\* writeUnsigned: the size bytes, the first one at 0.
WriteUnsigned(value, size) ==
  [i \in 0 .. size - 1 |-> (value \div Pow2[ByteBits * i]) % ByteBase]

----------------------------------------------------------------------------
(* Numbers *)

Infinite == [kind |-> "infinite", negative |-> FALSE, m |-> 0, e |-> 0]
NotANumber == [kind |-> "nan", negative |-> FALSE, m |-> 0, e |-> 0]

\* The number m * 2^e.
Number(m, e) ==
  LET twos == IF m = 0 THEN 0 ELSE Max({k \in 0 .. WireFractionBits + 1 : m % Pow2[k] = 0})
  IN [kind |-> "finite", negative |-> FALSE, m |-> m \div Pow2[twos],
      e |-> IF m = 0 THEN 0 ELSE e + twos]

\* The position of the leading one of m > 0.
Leading(m) == Max({k \in 0 .. WireFractionBits + 1 : Pow2[k] <= m})

Bias(exponentBits) == Pow2[exponentBits - 1] - 1

\* What IEEE 754 says a pattern of a format denotes.
Denoted(exponentBits, fractionBits, bits) ==
  LET exponent == (bits \div Pow2[fractionBits]) % Pow2[exponentBits]
      fraction == bits % Pow2[fractionBits]
      least == 1 - Bias(exponentBits) - fractionBits
      magnitude ==
        CASE exponent = Pow2[exponentBits] - 1 -> IF fraction # 0 THEN NotANumber ELSE Infinite
          [] exponent = 0 -> Number(fraction, least)
          [] OTHER -> Number(Pow2[fractionBits] + fraction, least + exponent - 1)
  IN [magnitude EXCEPT !.negative = bits \div Pow2[exponentBits + fractionBits] = 1]

OnWire(bits) == Denoted(WireExponentBits, WireFractionBits, bits)

\* A native operation with the exact result x >= 0.
Rounded(x) ==
  LET last == Max({Leading(x.m) + x.e, 1 - Bias(ExponentBits)}) - FractionBits
      drop == last - x.e
      kept == x.m \div Pow2[drop]
      rest == x.m % Pow2[drop]
      up == 2 * rest > Pow2[drop] \/ (2 * rest = Pow2[drop] /\ kept % 2 = 1)
      y == CASE drop <= 0 -> x
             [] drop > Leading(x.m) + 1 -> Number(0, 0)
             [] OTHER -> Number(IF up THEN kept + 1 ELSE kept, last)
  IN IF x.kind # "finite" \/ x.m = 0 THEN x
     ELSE IF y.m # 0 /\ Leading(y.m) + y.e > Bias(ExponentBits) THEN Infinite ELSE y

Ldexp(x, k) == IF x.m = 0 THEN x ELSE Rounded([x EXCEPT !.e = @ + k])

\* 1 + x for 0 <= x <= 1.
OnePlus(x) == Rounded(Number(Pow2[-x.e] + x.m, x.e))

----------------------------------------------------------------------------
(* Doubles *)

WireSign == Pow2[WireExponentBits + WireFractionBits]
WireInfinity == (Pow2[WireExponentBits] - 1) * Pow2[WireFractionBits]

\* Mutant of WriteDouble: the exponent is taken for that of a subnormal too,
\* without frexp() having normalised it.
WriteDoubleUnnormalised(x) ==
  LET top == Max({Leading(x.m) + x.e, 1 - Bias(ExponentBits)})
  IN (IF x.negative THEN WireSign ELSE 0)
     + CASE x.kind = "nan" -> WireInfinity + Pow2[WireFractionBits - 1]
         [] x.kind = "infinite" -> WireInfinity
         [] x.kind = "finite" /\ x.m = 0 -> 0
         [] OTHER -> (top + Bias(WireExponentBits)) * Pow2[WireFractionBits]
                     + (x.m - Pow2[Leading(x.m)]) * Pow2[WireFractionBits - Leading(x.m)]

\* writeDouble on a narrow board: the bits for native x.  frexp() gives the
\* exponent top + 1 and the fraction m / 2^(leading + 1).
WriteDouble(x) ==
  LET leading == Leading(x.m)
      top == leading + x.e
  IN (IF x.negative THEN WireSign ELSE 0)
     + CASE x.kind = "nan" -> WireInfinity + Pow2[WireFractionBits - 1]
         [] x.kind = "infinite" -> WireInfinity
         [] x.kind = "finite" /\ x.m = 0 -> 0
         [] OTHER -> (top + Bias(WireExponentBits)) * Pow2[WireFractionBits]
                     + (x.m - Pow2[leading]) * Pow2[WireFractionBits - leading]

\* The fields of a pattern.
WireExponent(bits) == (bits \div Pow2[WireFractionBits]) % Pow2[WireExponentBits]
WireFraction(bits) == bits % Pow2[WireFractionBits]

\* ldexp(double(fraction), power): the fraction rounds, and the result again.
ScaledFraction(bits, power) == Ldexp(Rounded(Number(WireFraction(bits), 0)), power)

\* Mutant of ReadMagnitude: the exponent is rebiased in the width of the native
\* field.
ReadMagnitudeMasked(bits) ==
  LET power == WireExponent(bits) - Bias(WireExponentBits)
      masked == ((power + Bias(ExponentBits)) % Pow2[ExponentBits]) - Bias(ExponentBits)
  IN CASE WireExponent(bits) = Pow2[WireExponentBits] - 1 ->
            IF WireFraction(bits) # 0 THEN NotANumber ELSE Infinite
       [] WireExponent(bits) = 0 -> Number(0, 0)
       [] OTHER -> Ldexp(OnePlus(ScaledFraction(bits, - WireFractionBits)), masked)

\* Mutant of ReadMagnitude: the fraction is scaled by one bit too many, and an
\* exponent of zero is not told from others.
ReadMagnitudeNormal(bits) ==
  IF WireExponent(bits) = Pow2[WireExponentBits] - 1
  THEN IF WireFraction(bits) # 0 THEN NotANumber ELSE Infinite
  ELSE Ldexp(OnePlus(ScaledFraction(bits, - WireFractionBits - 1)),
             WireExponent(bits) - Bias(WireExponentBits))

\* readDouble on a narrow board, but for the sign: native arithmetic on exponent
\* and fraction, with a rounding in double(fraction), in the sum and in the last
\* ldexp().
ReadMagnitude(bits) ==
  CASE WireExponent(bits) = Pow2[WireExponentBits] - 1 ->
         IF WireFraction(bits) # 0 THEN NotANumber ELSE Infinite
    [] WireExponent(bits) = 0 ->
         ScaledFraction(bits, 1 - Bias(WireExponentBits) - WireFractionBits)
    [] OTHER -> Ldexp(OnePlus(ScaledFraction(bits, - WireFractionBits)),
                      WireExponent(bits) - Bias(WireExponentBits))

\* Mutant of ReadDouble: the sign bit is left behind.
ReadDoubleUnsigned(narrow, bits) ==
  IF narrow THEN ReadMagnitude(bits) ELSE OnWire(bits)

\* readDouble: with 64-bit doubles the bits are copied.
ReadDouble(narrow, bits) ==
  IF narrow THEN [ReadMagnitude(bits) EXCEPT !.negative = bits \div WireSign = 1]
            ELSE OnWire(bits)

ReadDoubleAt(narrow, data, offset) ==
  ReadDouble(narrow, ReadUnsigned(data, offset, DoubleBytes))

----------------------------------------------------------------------------
(* Telemetry *)

\* The structs encoder_odometry_sample ... motor_fault_sample: their fields after
\* timestamp_us, clock_mode and clock_quality, in the order they are packed.
SampleFields ==
  [ENCODER_ODOMETRY |-> <<"angle">>,
   PLATFORM_ODOMETRY |-> <<"x", "y", "t">>,
   TEMPERATURE |-> <<"celsius">>,
   IMU |-> <<"acceleration_x", "acceleration_y", "acceleration_z",
             "angular_velocity_x", "angular_velocity_y", "angular_velocity_z">>,
   MOTOR_CURRENT |-> <<"amps">>,
   MOTOR_FAULTS |-> <<"sleep_requested", "status_valid", "fault_active",
                      "overtemperature_warning", "undervoltage",
                      "charge_pump_undervoltage", "overcurrent",
                      "overtemperature_shutdown", "open_load", "current_regulation">>]

\* Mutant of PlatformOffsets: an offset counted for fields of seven bytes.
PlatformOffsetsShort == [x |-> 10, y |-> 17, t |-> 26]

PlatformOffsets == [x |-> 10, y |-> 18, t |-> 26]

\* Where kinisiDecodeTelemetry() reads them.
Offsets ==
  [ENCODER_ODOMETRY |-> [angle |-> 10],
   PLATFORM_ODOMETRY |-> PlatformOffsets,
   TEMPERATURE |-> [celsius |-> 10],
   IMU |-> [acceleration_x |-> 10, acceleration_y |-> 18, acceleration_z |-> 26,
            angular_velocity_x |-> 34, angular_velocity_y |-> 42, angular_velocity_z |-> 50],
   MOTOR_CURRENT |-> [amps |-> 10],
   MOTOR_FAULTS |-> [sleep_requested |-> 10, status_valid |-> 11, fault_active |-> 12,
                     overtemperature_warning |-> 13, undervoltage |-> 14,
                     charge_pump_undervoltage |-> 15, overcurrent |-> 16,
                     overtemperature_shutdown |-> 17, open_load |-> 18,
                     current_regulation |-> 19]]

Refused == [decoded |-> FALSE]

\* x < 0 in C++.
Negative(x) == x.negative /\ x.kind # "nan" /\ (x.kind = "finite" => x.m # 0)

DoubleAccepted(topic, x) ==
  x.kind = "finite" /\ (topic = "MOTOR_CURRENT" => ~Negative(x))

\* kinisiDecodeTelemetry: the sample, or Refused.
DecodeTelemetry(narrow, topic, index, payload) ==
  LET at == Offsets[topic]
      flags == topic = "MOTOR_FAULTS"
      Field(f) == IF flags THEN payload[at[f]] ELSE ReadDoubleAt(narrow, payload, at[f])
      Accepted(x) == IF flags THEN x <= 1 ELSE DoubleAccepted(topic, x)
      sample == [decoded |-> TRUE, topic |-> topic, index |-> index,
                 timestamp_us |-> ReadUnsigned(payload, 0, 8),
                 clock_mode |-> payload[8], clock_quality |-> payload[9],
                 data |-> [f \in DOMAIN at |-> Field(f)]]
  IN IF /\ TopicInfoValid(topic, index) /\ DOMAIN payload = 0 .. TopicSize[topic] - 1
        /\ sample.clock_mode <= 1 /\ sample.clock_quality \in 1 .. 2
        /\ \A f \in DOMAIN at : Accepted(sample.data[f])
     THEN sample ELSE Refused
=============================================================================
