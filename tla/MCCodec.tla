------------------------------ MODULE MCCodec ------------------------------
(***************************************************************************)
(* Every pattern of a 16-bit wire double on a board with 9-bit doubles;    *)
(* samples in which one field takes each of the values at an edge of       *)
(* either format while the others differ from each other; and calls of     *)
(* every method in which one argument or result does.                      *)
(***************************************************************************)
EXTENDS CodecCheck

\* The least and the largest numbers of both formats, a number of the wire
\* between two native ones, the least that rounds to the range, and what is not
\* finite.
Edges ==
  LET scale == Pow2[WireFractionBits]
      NativeLeast == WriteDouble(Number(1, 1 - Bias(ExponentBits) - FractionBits))
      NativeLargest ==
        WriteDouble(Number(Pow2[FractionBits + 1] - 1, Bias(ExponentBits) - FractionBits))
      magnitudes ==
        {0, 1, scale, NativeLeast - scale, NativeLeast - scale + 1, NativeLeast, NativeLeast + 1,
         WriteDouble(Number(1, 0)) + 1, NativeLargest, NativeLargest + 1,
         NativeLargest + scale, WireInfinity - 1, WireInfinity, WireInfinity + 1}
  IN magnitudes \cup {WireSign + b : b \in magnitudes}

Defaults(topic) ==
  [f \in {SampleFields[topic][i] : i \in DOMAIN SampleFields[topic]} |->
     LET i == CHOOSE k \in DOMAIN SampleFields[topic] : SampleFields[topic][k] = f
     IN IF topic = "MOTOR_FAULTS" THEN i % 2 ELSE WriteDouble(Number(i, 0))]

Data(topic) ==
  {[Defaults(topic) EXCEPT ![f] = v] :
     f \in DOMAIN Defaults(topic),
     v \in IF topic = "MOTOR_FAULTS" THEN 0 .. ByteBase - 1 ELSE Edges}

EdgeSamples ==
  UNION {[topic : {t}, index : {0, 3, 4}, timestamp_us : {1, 4 ^ 8 - 2},
          clock_mode : {0, 1, 2}, clock_quality : {0, 1, 2, 3}, data : Data(t)] : t \in Topics}

\* The values at the edges of a type, of doubles those a narrow board has.
Limits(type) ==
  LET bytes == Pow2[ByteBits * SizeOf(type)]
      NativeEdges == {x \in {OnWire(b) : b \in Edges} : x.kind = "finite" /\ Representable(x)}
  IN CASE type = "bool" -> {0, 1}
       [] type = "i8" -> {-2, -1, 0, 1}
       [] type = "double" -> NativeEdges
       [] type = "u64" -> {0, ByteBase, bytes - 1}
       [] OTHER -> {0, 1, ByteBase - 1, bytes - 1}

\* Values of these types that differ, and those where one of them is at an edge.
Distinct(types) ==
  [i \in DOMAIN types |->
     CASE types[i] = "double" -> Number(i, 0)
       [] types[i] \in {"bool", "i8"} -> i % 2
       [] OTHER -> 1 + (i % (Pow2[ByteBits * SizeOf(types[i])] - 1))]

OneAtEdge(types) ==
  {Distinct(types)} \cup
    UNION {{[Distinct(types) EXCEPT ![i] = v] : v \in Limits(types[i])} : i \in DOMAIN types}

Returned(command) == IF command \in DOMAIN Results THEN Results[command] ELSE <<>>

EdgeCommands ==
  UNION {[command : {c}, arguments : OneAtEdge(Arguments[c]), results : {Distinct(Returned(c))}]
         \cup [command : {c}, arguments : {Distinct(Arguments[c])},
                results : {r \in OneAtEdge(Returned(c)) : Proper(c, r)}] : c \in DOMAIN Arguments}
=============================================================================
