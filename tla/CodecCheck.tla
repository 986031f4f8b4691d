----------------------------- MODULE CodecCheck -----------------------------
(***************************************************************************)
(* Three uses of the codec on a board with a narrow double.  A double that *)
(* the controller sends is read and sent back.  A telemetry sample is      *)
(* packed by the controller and decoded, next to a board with 64-bit       *)
(* doubles; then a sketch asks for the same data with a command.  A        *)
(* command goes to the controller with its arguments, and its results come *)
(* back.                                                                   *)
(***************************************************************************)
EXTENDS KinisiMethods

CONSTANTS
  Samples,            \* samples the controller sends: [topic, index, timestamp_us,
                      \* clock_mode, clock_quality, data], where data has the bits
                      \* of a double or the byte of a flag for every field
  Commands            \* calls of methods: [command, arguments, results]

VARIABLES
  use,                \* "double", "sample" or "command"
  step,               \* what has been done with the input
  input,              \* the bits of a double, a sample or a call
  native,             \* what the narrow board makes of a double or a sample; the
                      \* arguments that reach the controller
  result              \* the bits sent back, what a wide board decodes, what a
                      \* method returns

vars == <<use, step, input, native, result>>

Bits == 0 .. 2 * WireSign - 1

Fields(topic) == {SampleFields[topic][i] : i \in DOMAIN SampleFields[topic]}

\* What the packed structs of the samples can hold.
ASSUME SamplesAssumption ==
  \A s \in Samples :
    /\ s.topic \in Topics
    /\ s.timestamp_us \in 0 .. Pow2[8 * ByteBits] - 1
    /\ {s.clock_mode, s.clock_quality} \subseteq 0 .. ByteBase - 1
    /\ DOMAIN s.data = Fields(s.topic)
    /\ \A f \in Fields(s.topic) :
         s.data[f] \in IF s.topic = "MOTOR_FAULTS" THEN 0 .. ByteBase - 1 ELSE Bits

\* What the packed structs of the calls can hold, as the sketch has it: the doubles
\* of a narrow board are those its patterns denote.
NativeDoubles ==
  {Denoted(ExponentBits, FractionBits, bits) :
     bits \in 0 .. Pow2[1 + ExponentBits + FractionBits] - 1}

Values(type) ==
  CASE type = "bool" -> {0, 1}
    [] type = "i8" -> - (ByteBase \div 2) .. ByteBase \div 2 - 1
    [] type = "double" -> NativeDoubles
    [] OTHER -> 0 .. Pow2[ByteBits * SizeOf(type)] - 1

Typed(types, values) ==
  /\ values = [i \in DOMAIN types |-> values[i]]
  /\ \A i \in DOMAIN types : values[i] \in Values(types[i])

\* Results that request() does not refuse as malformed.
Proper(command, results) ==
  /\ command \in {"GET_TEMPERATURE", "GET_IMU", "GET_MOTOR_CURRENT"} =>
       \A i \in DOMAIN results : results[i].kind = "finite"
  /\ command = "GET_MOTOR_CURRENT" => ~Negative(results[1])
  /\ command \in {"GET_MOTOR_CURRENT_LIMIT", "SET_MOTOR_CURRENT_LIMIT"} => results[2] # 0

ASSUME CommandsAssumption ==
  \A call \in Commands :
    /\ call.command \in DOMAIN Arguments /\ Typed(Arguments[call.command], call.arguments)
    /\ call.command \in DOMAIN Results =>
         Typed(Results[call.command], call.results) /\ Proper(call.command, call.results)

Nothing == 0

Init ==
  /\ step = "received" /\ native = Nothing /\ result = Nothing
  /\ \/ use = "double" /\ input \in Bits
     \/ use = "sample" /\ input \in Samples
     \/ use = "command" /\ input \in Commands

----------------------------------------------------------------------------
(* A double *)

Read ==
  /\ use = "double" /\ step = "received" /\ step' = "read"
  /\ native' = ReadDouble(TRUE, input)
  /\ UNCHANGED <<use, input, result>>

Resend ==
  /\ use = "double" /\ step = "read" /\ step' = "resent"
  /\ result' = WriteDouble(native)
  /\ UNCHANGED <<use, input, native>>

----------------------------------------------------------------------------
(* A sample *)

\* The packed struct of a sample, one field after the other.
Packed(sample) ==
  LET fields == SampleFields[sample.topic]
      width == IF sample.topic = "MOTOR_FAULTS" THEN 1 ELSE DoubleBytes
      Field(i) == sample.data[fields[i]]
  IN [i \in 0 .. 9 + width * Len(fields) |->
        CASE i <= 7 -> WriteUnsigned(sample.timestamp_us, 8)[i]
          [] i = 8 -> sample.clock_mode
          [] i = 9 -> sample.clock_quality
          [] OTHER -> WriteUnsigned(Field((i - 10) \div width + 1), width)[(i - 10) % width]]

Decode ==
  /\ use = "sample" /\ step = "received" /\ step' = "read"
  /\ native' = DecodeTelemetry(TRUE, input.topic, input.index, Packed(input))
  /\ result' = DecodeTelemetry(FALSE, input.topic, input.index, Packed(input))
  /\ UNCHANGED <<use, input>>

\* The commands for the data of a topic.  Only odometry comes with its time.
Getter == [ENCODER_ODOMETRY |-> "GET_ENCODER_ODOMETRY", PLATFORM_ODOMETRY |-> "GET_PLATFORM_ODOMETRY",
           TEMPERATURE |-> "GET_TEMPERATURE", IMU |-> "GET_IMU",
           MOTOR_CURRENT |-> "GET_MOTOR_CURRENT", MOTOR_FAULTS |-> "GET_MOTOR_FAULTS"]

Timed(topic) == topic \in {"ENCODER_ODOMETRY", "PLATFORM_ODOMETRY"}

Response(sample) ==
  LET skipped == IF Timed(sample.topic) THEN 0 ELSE 10
  IN [b \in 0 .. TopicSize[sample.topic] - skipped - 1 |-> Packed(sample)[b + skipped]]

Get ==
  /\ use = "sample" /\ step = "read" /\ step' = "got"
  /\ result' = Reading(TRUE, Getter[input.topic], Response(input))
  /\ UNCHANGED <<use, input, native>>

----------------------------------------------------------------------------
(* A command *)

\* The controller takes the fields of a packed struct one after the other.
Unpacked(types, payload) ==
  LET width == [i \in DOMAIN types |-> IF types[i] = "double" THEN 8 ELSE SizeOf(types[i])]
      Field(i) == ReadUnsigned(payload, Total(width, i - 1), width[i])
  IN [i \in DOMAIN types |-> IF types[i] = "double" THEN OnWire(Field(i)) ELSE Field(i)]

Execute ==
  /\ use = "command" /\ step = "received" /\ step' = "executed"
  /\ native' = Unpacked(Arguments[input.command], Payload(input.command, input.arguments))
  /\ UNCHANGED <<use, input, result>>

\* The controller packs its results the same way.
Return ==
  /\ use = "command" /\ step = "executed" /\ step' = "returned"
  /\ input.command \in DOMAIN Results
  /\ result' = Reading(TRUE, input.command,
                  PackInto(Shapes[input.command][2], Results[input.command], input.results))
  /\ UNCHANGED <<use, input, native>>

Next == Read \/ Resend \/ Decode \/ Get \/ Execute \/ Return

Spec == Init /\ [][Next]_vars

----------------------------------------------------------------------------
(* Doubles *)

\* x has a significand of at most FractionBits + 1 bits, and fewer below the
\* least normal number, and its exponent is in the native range.
Representable(x) ==
  x.kind = "finite" /\ x.m # 0 =>
    /\ x.e >= 1 - Bias(ExponentBits) - FractionBits
    /\ Leading(x.m) <= FractionBits
    /\ Leading(x.m) + x.e <= Bias(ExponentBits)

\* |x| <= |y|, neither of them a NaN.
AtMost(x, y) ==
  LET top(z) == Leading(z.m) + z.e
      aligned(z) == z.m * Pow2[WireFractionBits + 1 - Leading(z.m)]
  IN \/ y.kind = "infinite"
     \/ x.kind = "finite" /\ x.m = 0
     \/ /\ x.kind = "finite" /\ y.m # 0
        /\ \/ top(x) < top(y)
           \/ top(x) = top(y) /\ aligned(x) <= aligned(y)

\* A value the board's double can hold is what the sketch reads, and the sketch
\* sends the same bits back: normal numbers, subnormal ones, signed zeros and
\* infinities survive the detour through frexp() and ldexp() in both directions.
\* A NaN stays a NaN.
RepresentableExact ==
  use = "double" /\ Representable(OnWire(input)) =>
    /\ step # "received" => native = OnWire(input)
    /\ step = "resent" => result = input \/ (native.kind = "nan" /\ OnWire(result) = native)

\* What is read is a native number and what is sent back denotes it, though the
\* three roundings of readDouble() meet at the edges of the format.
ResentIsRead ==
  use = "double" /\ step = "resent" => Representable(native) /\ OnWire(result) = native

\* The three roundings never turn the order of two values around, and leave the
\* sign alone: with RepresentableExact, what is read is one of the two native
\* neighbours of what was sent.
OrderKept ==
  use = "double" /\ step # "received" /\ OnWire(input).kind # "nan" =>
    LET next == ReadDouble(TRUE, input + 1)
    IN /\ native.negative = OnWire(input).negative
       /\ OnWire(input).kind = "finite" => AtMost(native, next)

\* A value too large for the board's double is read as infinity and never as
\* some large number: the test for finite values then keeps it from the sketch.
BeyondRangeInfinite ==
  use = "double" /\ step # "received" /\ OnWire(input).kind = "finite" /\ OnWire(input).m # 0 =>
    LET top == Leading(OnWire(input).m) + OnWire(input).e
    IN /\ top > Bias(ExponentBits) => native.kind = "infinite"
       /\ top < Bias(ExponentBits) => native.kind = "finite"

----------------------------------------------------------------------------
(* Telemetry samples *)

\* What a sample says, on a board whose double can hold its values.
Meant(sample) ==
  [decoded |-> TRUE, topic |-> sample.topic, index |-> sample.index,
   timestamp_us |-> sample.timestamp_us,
   clock_mode |-> sample.clock_mode, clock_quality |-> sample.clock_quality,
   data |-> [f \in DOMAIN sample.data |->
               IF sample.topic = "MOTOR_FAULTS" THEN sample.data[f]
               ELSE OnWire(sample.data[f])]]

\* The source exists, the clock is one the library knows, a flag is 0 or 1, a value is finite, a
\* current is not negative.
Valid(sample) ==
  /\ TopicInfoValid(sample.topic, sample.index)
  /\ sample.clock_mode \in {0, 1} /\ sample.clock_quality \in {1, 2}
  /\ \A f \in DOMAIN sample.data :
       LET x == Meant(sample).data[f]
       IN IF sample.topic = "MOTOR_FAULTS" THEN x \in {0, 1}
          ELSE x.kind = "finite" /\ (sample.topic = "MOTOR_CURRENT" => x.m = 0 \/ ~x.negative)

Exact(sample) ==
  sample.topic # "MOTOR_FAULTS" =>
    \A f \in DOMAIN sample.data : Representable(OnWire(sample.data[f]))

\* Every field of a valid sample arrives as it was sent, from the struct the
\* controller packs through the offsets, sizes and tests of the generated decoder,
\* and a sample that is not valid is refused whole.
SampleArrives ==
  use = "sample" /\ step = "read" /\ Exact(input) =>
    native = IF Valid(input) THEN Meant(input) ELSE Refused

\* The width of double decides about a sample in two cases only: a value beyond
\* the narrow range makes the frame malformed there, and a negative current that
\* vanishes in the narrow format passes as -0.
WidthDecides ==
  use = "sample" /\ step = "read" /\ native.decoded # result.decoded =>
    IF result.decoded
    THEN \E f \in DOMAIN input.data :
           LET x == OnWire(input.data[f])
           IN ~Representable(x) /\ Leading(x.m) + x.e >= Bias(ExponentBits)
    ELSE /\ input.topic = "MOTOR_CURRENT"
         /\ native.data["amps"] = [Number(0, 0) EXCEPT !.negative = TRUE]

\* A sensor that is read and one that is subscribed to agree: the checks written
\* into request() refuse a reading exactly where the generated decoder refuses the
\* same data as a sample, and both take the same values from it.  An odometry
\* reading is never refused.
ReadingAgreesWithSample ==
  use = "sample" /\ step = "got" /\ TopicInfoValid(input.topic, input.index)
  /\ input.clock_mode <= 1 /\ input.clock_quality \in {1, 2} =>
    LET fields == SampleFields[input.topic]
        first == IF Timed(input.topic) THEN Len(Timestamp) ELSE 0
    IN /\ result.decoded <=> (native.decoded \/ Timed(input.topic))
       /\ native.decoded =>
            /\ \A i \in DOMAIN fields : result.values[first + i] = native.data[fields[i]]
            /\ Timed(input.topic) =>
                 SubSeq(result.values, 1, first)
                   = <<native.timestamp_us, native.clock_mode, native.clock_quality>>

----------------------------------------------------------------------------
(* Commands *)

\* Every argument of every method reaches the controller, and also request(), which
\* looks into the payload at offsets of its own; every result reaches the sketch.
CallArrives ==
  use = "command" =>
    /\ step # "received" =>
         /\ native = input.arguments
         /\ input.command \in DOMAIN RequestReads =>
              \A i \in DOMAIN RequestReads[input.command] :
                LET at == RequestReads[input.command][i]
                IN ReadUnsigned(Payload(input.command, input.arguments), at[1], at[2])
                     = input.arguments[i]
    /\ step = "returned" => result = [decoded |-> TRUE, values |-> input.results]
=============================================================================
