----------------------------- MODULE RecordData -----------------------------
(***************************************************************************)
(* What the CAN device supports do with addresses and with the bytes of a  *)
(* message (drvTip810.c canIoParse; dev*Can.c, devSiWiener.c).             *)
(*                                                                         *)
(* An address string is its bus name and the numbers after it, each with   *)
(* the character in front of it: "CAN1/20:0126+4.1 0xff" is                *)
(* [bus |-> "CAN1", parts |-> <</ 20, : 86, + 4, . 1, space 255>>].  The   *)
(* data of a message is a function from byte numbers to bytes, defined     *)
(* where the sender wrote it: a byte nobody wrote is an error in TLC.      *)
(* Floating-point numbers take one opaque "byte": 0 is zero, 1 too small   *)
(* for a float, 2 an ordinary number, 3 too large for a float.             *)
(***************************************************************************)
EXTENDS Integers, FiniteSets, FiniteSetsExt, Sequences

CONSTANT BusNames   \* the busses that t810Create has registered

Inputs  == {"ai", "bi", "mbbi", "mbbiDirect", "si"}
Outputs == {"ao", "bo", "mbbo", "mbboDirect"}
BitKinds == (Inputs \cup Outputs) \ {"ai", "ao", "si"}

-----------------------------------------------------------------------------
(* Addresses.                                                              *)

\* canOpen(): the bus is found by its name.
CanOpen(bus) == bus \in BusNames

\* The parts: a timeout perhaps, the colon's number and those added to it, an
\* offset perhaps, and the parameter last.
Separator(a, i) == IF i \in DOMAIN a.parts THEN a.parts[i].sep ELSE "end"

ColonAt(a) == IF Separator(a, 1) = "/" THEN 2 ELSE 1

Added(a) == {i \in DOMAIN a.parts :
               i > ColonAt(a) /\ \A j \in ColonAt(a) + 1 .. i : Separator(a, j) = "+"}

DotAt(a) == ColonAt(a) + Cardinality(Added(a)) + 1

HasOffset(a) == Separator(a, DotAt(a)) = "."

LastAt(a) == IF HasOffset(a) THEN DotAt(a) + 1 ELSE DotAt(a)

Malformed(a) == \/ Separator(a, ColonAt(a)) # ":"
                \/ HasOffset(a) /\ a.parts[DotAt(a)].num >= 8
                \/ Separator(a, LastAt(a)) # " "
                \/ ~CanOpen(a.bus)

\* The identifier is 16 bits wide; no number left out is read: it is 0.
CanIoParse(a) ==
  IF Malformed(a)
  THEN [good |-> FALSE]
  ELSE [good |-> TRUE,
        timeout |-> IF ColonAt(a) = 2 THEN a.parts[1].num ELSE -1,
        identifier |-> SumFunctionOnSet([i \in DOMAIN a.parts |-> a.parts[i].num], {ColonAt(a)} \cup Added(a)) % 65536,
        offset |-> IF HasOffset(a) THEN a.parts[DotAt(a)].num ELSE 0,
        parameter |-> a.parts[LastAt(a)].num,
        paramStr |-> a.parts[LastAt(a)].str]

\* The check each init routine makes of its parameter besides.
ParameterGood(kind, n) == kind \in BitKinds => n \in 0 .. 7

-----------------------------------------------------------------------------
(* Analogue records.                                                       *)

Powers == {2 ^ k : k \in 0 .. 30}   \* bound: the code has 32 bits

Fsd(n) == LET a == IF n < 0 THEN -n ELSE n IN IF a \in Powers THEN a - 1 ELSE a

AnalogueMask(io) == IF io.parameter = 0 THEN 0
                    ELSE Min({m \in Powers : m >= Fsd(io.parameter)}) - 1

AnalogueSign(io) ==
  CASE io.parameter < 0 -> AnalogueMask(io) \div 2 + 1
    [] io.parameter > 0 -> 0
    [] OTHER -> IF io.paramStr = "float" THEN 4 ELSE IF io.paramStr = "double" THEN 8 ELSE 0

\* How many bytes hold a value of this mask.
Width(mask) == IF mask <= 255 THEN 1 ELSE IF mask <= 65535 THEN 2
               ELSE IF mask <= 16777215 THEN 3 ELSE 4

\* aiMessage(): what the private structure holds of the message.
AiMessage(io, data) ==
  LET mask == AnalogueMask(io)
      w == Width(mask)
  IN  IF mask = 0
      THEN CASE AnalogueSign(io) = 4 -> data[io.offset]
             [] AnalogueSign(io) = 8 -> data[0]
             [] OTHER -> 0
      ELSE SumFunction([i \in 0 .. w - 1 |-> data[io.offset + i] * 256 ^ (w - 1 - i)])

\* Mutant: the sign bit is dropped.
AiValueUnsigned(io, data) == IF AnalogueMask(io) = 0 THEN data ELSE data % (AnalogueMask(io) + 1)

\* read_ai(): the value of the record; data & mask, with the bits above the
\* mask set when the sign bit is.
AiValue(io, data) ==
  LET mask == AnalogueMask(io)
      sign == AnalogueSign(io)
      rval == data % (mask + 1)
  IN  IF mask = 0 /\ sign # 0 THEN data
      ELSE IF sign # 0 /\ rval >= sign THEN rval - (mask + 1) ELSE rval

\* write_ao(): refuses what is too large for a float.
AoRefused(io, v) == AnalogueMask(io) = 0 /\ AnalogueSign(io) = 4 /\ v = 3

AoMessage(io, v) ==
  LET mask == AnalogueMask(io)
      w == Width(mask)
  IN  IF mask = 0
      THEN CASE AnalogueSign(io) = 4 -> [i \in {0} |-> IF v = 1 THEN 0 ELSE v]
             [] AnalogueSign(io) = 8 -> [i \in {0} |-> v]
             [] OTHER -> [i \in {} |-> 0]
      ELSE [i \in 0 .. w - 1 |-> ((v % (mask + 1)) \div 256 ^ (w - 1 - i)) % 256]

-----------------------------------------------------------------------------
(* Binary and multi-bit records: a field of n bits from bit p.             *)

Field(byte, n, p) == (byte \div 2 ^ p) % 2 ^ n

BiMessage(io, data) == data[io.offset]

MbbiMessage(io, data) == data[io.offset]

MbbiDirectMessage(io, data) == data[io.offset]

\* read_bi(): the record support makes any rval but 0 a 1.
BiValue(io, byte) == Field(byte, 1, io.parameter)

\* read_mbbi(), read_mbbiDirect(): the record support shifts by SHFT, the parameter.
MbbiValue(io, nobt, byte) == Field(byte, nobt, io.parameter)

MbbiDirectValue(io, nobt, byte) == Field(byte, nobt, io.parameter)

\* write_bo(), write_mbbo(), write_mbboDirect(): the byte at the offset; those
\* before it go out as they are on the stack.
BoMessage(io, v) == [i \in {io.offset} |-> v * 2 ^ io.parameter]

MbboMessage(io, nobt, v) == [i \in {io.offset} |-> (Field(v, nobt, 0) * 2 ^ io.parameter) % 256]

MbboDirectMessage(io, nobt, v) == [i \in {io.offset} |-> (Field(v, nobt, 0) * 2 ^ io.parameter) % 256]

-----------------------------------------------------------------------------
(* Wiener strings: with an offset of 1, byte 0 says which string it is.    *)

SiAccepts(io, data) == io.offset = 1 => data[0] = io.parameter

SiMessage(io, data) == [i \in 0 .. 7 - io.offset |-> data[i + io.offset]]

-----------------------------------------------------------------------------
(* What an address and a value have to be, to mean what their writer meant *)
(* by them: the theorems about records assume it of their databases.       *)

\* The identifier that an address gives, as it is written.
Identifier(a) ==
  SumFunction([i \in DOMAIN a.parts |-> IF a.parts[i].sep \in {":", "+"} THEN a.parts[i].num ELSE 0])

\* A parameter that the analogue device supports can make a mask of.
AnalogueAddress(io) ==
  /\ io.parameter \in Int /\ io.parameter >= -1073741824 /\ io.parameter <= 1073741824
  /\ io.paramStr \in {"float", "double"} => io.parameter = 0

\* The values that the bits of the mask, or the floating-point format, can hold.
AnalogueFits(io, v) ==
  LET mask == AnalogueMask(io)
      sign == AnalogueSign(io)
  IN  IF mask = 0 THEN v \in IF sign \in {4, 8} THEN 0 .. 3 ELSE {0}
      ELSE v \in Int /\ IF sign = 0 THEN 0 <= v /\ v <= mask ELSE -sign <= v /\ v < sign

\* The values that a field of that many bits can hold.
FieldWidth(kind, nobt) == IF kind \in {"bi", "bo"} THEN 1 ELSE nobt

FieldFits(width, io, v) == width \in 1 .. 8 /\ io.parameter + width <= 8 /\ v \in 0 .. 2 ^ width - 1

\* An entry e of a database that the device support accepts ...
Attaches(e) == LET io == CanIoParse(e.addr) IN
               e.instIo /\ io.good /\ ParameterGood(e.kind, io.parameter)

\* ... with its own identifier, and values that it can carry (outputs begin with 0).
Proper(e) ==
  LET io == CanIoParse(e.addr)
      values == IF e.kind \in Outputs THEN e.values \cup {0} ELSE e.values
  IN  /\ e.kind \in Inputs \cup Outputs
      /\ io.identifier = Identifier(e.addr) /\ io.offset \in 0 .. 7
      /\ e.kind \in {"ai", "ao"} => /\ AnalogueAddress(io)
                                   /\ \A v \in values : AnalogueFits(io, v)
      /\ e.kind = "ai" => (io.paramStr = "double" => io.offset = 0)
      /\ e.kind \in BitKinds => \A v \in values : FieldFits(FieldWidth(e.kind, e.nobt), io, v)
      /\ e.kind = "si" => io.parameter \in Int /\ values \subseteq Int

\* The bytes of a message that hold the value of an analogue or bit record.
BytesOf(e) ==
  LET io == CanIoParse(e.addr)
      n  == IF e.kind \in BitKinds THEN 1
            ELSE IF AnalogueMask(io) = 0 THEN AnalogueSign(io) ELSE Width(AnalogueMask(io))
  IN  io.offset .. io.offset + n - 1

\* Two inputs with the same identifier: their bytes, or their bits of a byte,
\* are not the same; a message with a string is for one of them.
Apart(e, f) ==
  LET a == CanIoParse(e.addr)
      b == CanIoParse(f.addr)
  IN  IF e.kind = "si" \/ f.kind = "si"
      THEN e.kind = f.kind /\ a.offset = 1 /\ b.offset = 1 /\ a.parameter # b.parameter
      ELSE \/ BytesOf(e) \cap BytesOf(f) = {}
           \/ /\ e.kind \in BitKinds /\ f.kind \in BitKinds
              /\ \/ a.parameter + FieldWidth(e.kind, e.nobt) <= b.parameter
                 \/ b.parameter + FieldWidth(f.kind, f.nobt) <= a.parameter

=============================================================================
