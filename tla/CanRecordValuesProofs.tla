----------------------- MODULE CanRecordValuesProofs -----------------------
(***************************************************************************)
(* Theorems about the values that the records of CanRecords have, for any  *)
(* set of records and any bounds, when the database is a legal one: inputs *)
(* read what was meant for them, outputs send what inputs would read.      *)
(***************************************************************************)
EXTENDS CanRecordsProofs, RecordDataProofs

-----------------------------------------------------------------------------
(* Messages.  In a legal database a record reads from a message the value  *)
(* that its sender meant for it.                                           *)

\* The records are those of a database, with their addresses as written.
Registered ==
  /\ \E c \in Configs : rec = c.db
  /\ \A r \in Records : attached[r] = "ok" => Attaches(rec[r]) /\ inp[r] = CanIoParse(rec[r].addr)

\* The value that an input record reads from its private data.
Value(r, d) ==
  CASE Kind(r) = "ai" -> AiValue(inp[r], d)
    [] Kind(r) = "bi" -> BiValue(inp[r], d)
    [] Kind(r) = "mbbi" -> MbbiValue(inp[r], rec[r].nobt, d)
    [] Kind(r) = "mbbiDirect" -> MbbiDirectValue(inp[r], rec[r].nobt, d)
    [] Kind(r) = "si" -> d

\* A message to the records of S, which share an identifier, with the values v.
Message(S, v) ==
  /\ S \in SUBSET Records
  /\ \A q \in S : /\ attached[q] = "ok" /\ IsInput(q) /\ v[q] \in rec[q].values
                  /\ Kind(q) = "si" => S = {q}
                  /\ \A r \in S : MeantFor(q) = MeantFor(r)

LEMMA Entries ==
  ASSUME LegalDatabases, Registered, NEW r \in Records, attached[r] = "ok"
  PROVE  /\ Attaches(rec[r]) /\ Proper(rec[r]) /\ inp[r] = CanIoParse(rec[r].addr)
         /\ inp[r].identifier = MeantFor(r) /\ inp[r].offset \in 0 .. 7
         /\ Kind(r) \in BitKinds => inp[r].parameter \in 0 .. 7
         /\ \A q \in Records \ {r} :
              attached[q] = "ok" /\ IsInput(r) /\ IsInput(q) /\ MeantFor(q) = MeantFor(r) => Apart(rec[r], rec[q])
<1>1. PICK c \in Configs : rec = c.db
  BY DEF Registered
<1>2. Attaches(rec[r]) /\ inp[r] = CanIoParse(rec[r].addr)
  BY DEF Registered
<1>3. /\ Proper(rec[r])
      /\ \A q \in Records \ {r} :
           /\ Attaches(rec[q]) /\ {rec[r].kind, rec[q].kind} \subseteq Inputs
           /\ Identifier(rec[r].addr) = Identifier(rec[q].addr)
           => Apart(rec[r], rec[q])
  BY <1>1, <1>2 DEF LegalDatabases
<1>4. inp[r].identifier = MeantFor(r) /\ inp[r].offset \in 0 .. 7
  BY <1>2, <1>3 DEF Proper, MeantFor
<1>5. Kind(r) \in BitKinds => inp[r].parameter \in 0 .. 7
  BY <1>2 DEF Attaches, ParameterGood, Kind
<1>6. ASSUME NEW q \in Records \ {r}, attached[q] = "ok", IsInput(r), IsInput(q), MeantFor(q) = MeantFor(r)
      PROVE  Apart(rec[r], rec[q])
  <2>1. Attaches(rec[q])
    BY <1>6 DEF Registered
  <2> QED BY <1>3, <1>6, <2>1 DEF IsInput, Kind, MeantFor
<1> QED BY <1>2, <1>3, <1>4, <1>5, <1>6

\* The bits that tell a binary or multi-bit record its value.
WidthOf(r) == FieldWidth(Kind(r), rec[r].nobt)

LEMMA TellsBits ==
  ASSUME LegalDatabases, Registered, NEW r \in Records, attached[r] = "ok", IsInput(r), Kind(r) \in BitKinds,
         NEW v \in rec[r].values
  PROVE  /\ FieldFits(WidthOf(r), inp[r], v) /\ inp[r].parameter \in 0 .. 7
         /\ DOMAIN Tells(r, v) = {inp[r].offset}
         /\ Tells(r, v)[inp[r].offset] = v * 2 ^ inp[r].parameter
<1>1. FieldFits(WidthOf(r), inp[r], v) /\ inp[r].parameter \in 0 .. 7
  BY Entries DEF Proper, WidthOf, Kind
<1>2. (Field(v, WidthOf(r), 0) * 2 ^ inp[r].parameter) % 256 = v * 2 ^ inp[r].parameter
  BY <1>1, FieldMessage
<1>3. Kind(r) \in {"bi", "mbbi", "mbbiDirect"}
  BY DEF BitKinds, IsInput, Inputs, Outputs
<1>4. Tells(r, v) = [i \in {inp[r].offset} |-> v * 2 ^ inp[r].parameter]
  <2>1. CASE Kind(r) = "bi"
    BY <2>1 DEF Tells, BoMessage
  <2>2. CASE Kind(r) = "mbbi"
    BY <1>2, <2>2 DEF Tells, MbboMessage, WidthOf, FieldWidth
  <2>3. CASE Kind(r) = "mbbiDirect"
    BY <1>2, <2>3 DEF Tells, MbboDirectMessage, WidthOf, FieldWidth
  <2> QED BY <1>3, <2>1, <2>2, <2>3
<1> QED BY <1>1, <1>4

LEMMA TellsAnalogue ==
  ASSUME LegalDatabases, Registered, NEW r \in Records, attached[r] = "ok", Kind(r) = "ai",
         NEW v \in rec[r].values
  PROVE  LET d == AoMessage(inp[r], v) IN
         /\ AnalogueAddress(inp[r]) /\ AnalogueFits(inp[r], v)
         /\ \A j \in DOMAIN d : /\ inp[r].offset + j \in DOMAIN Tells(r, v)
                                /\ Tells(r, v)[inp[r].offset + j] = d[j] /\ d[j] \in Int
         /\ DOMAIN Tells(r, v) \subseteq BytesOf(rec[r])
<1> DEFINE io == inp[r]
           d == AoMessage(io, v)
<1>1. io = CanIoParse(rec[r].addr) /\ io.offset \in 0 .. 7 /\ AnalogueAddress(io) /\ AnalogueFits(io, v)
  BY Entries DEF Proper, Kind, Outputs
<1>2. Tells(r, v) = [i \in {j + io.offset : j \in DOMAIN d} |-> d[i - io.offset]]
  BY DEF Tells
<1>3. \A j \in DOMAIN d : d[j] \in Int /\ j \in Int
  BY <1>1, AnalogueBytes
<1>4. \A j \in DOMAIN d : j + io.offset \in BytesOf(rec[r])
  <2>1. BytesOf(rec[r]) = io.offset .. io.offset + (IF AnalogueMask(io) = 0 THEN AnalogueSign(io)
                                                   ELSE Width(AnalogueMask(io))) - 1
    BY <1>1 DEF BytesOf, BitKinds, Kind
  <2>2. io.offset \in Int
    BY <1>1
  <2> QED BY <1>1, <2>1, <2>2, AnalogueBytes
<1> HIDE DEF d, io
<1>5. \A j \in DOMAIN d : /\ io.offset + j \in DOMAIN Tells(r, v)
                          /\ Tells(r, v)[io.offset + j] = d[j]
  <2> TAKE j \in DOMAIN d
  <2>1. io.offset + j = j + io.offset /\ (io.offset + j) - io.offset = j
    BY <1>1, <1>3
  <2> QED BY <1>2, <2>1
<1>6. DOMAIN Tells(r, v) \subseteq BytesOf(rec[r])
  BY <1>2, <1>4
<1> QED BY <1>1, <1>3, <1>5, <1>6 DEF d, io

\* What record q has in byte i of a message.
Share(S, v, i) == [q \in S |-> IF i \in DOMAIN Tells(q, v[q]) THEN Tells(q, v[q])[i] ELSE 0]

LEMMA WireByte ==
  ASSUME NEW S, NEW v, NEW r \in S, NEW i \in DOMAIN Tells(r, v[r])
  PROVE  Wire(S, v)[i] = SumFunctionOnSet(Share(S, v, i), S)
<1>1. i \in UNION {DOMAIN Tells(q, v[q]) : q \in S}
  OBVIOUS
<1>2. Wire(S, v)[i] = SumFunction(Share(S, v, i))
  BY <1>1 DEF Wire, Share
<1>3. DOMAIN Share(S, v, i) = S
  BY DEF Share
<1> QED BY <1>2, <1>3 DEF SumFunction

\* A byte that only one record uses.
LEMMA WireAlone ==
  ASSUME NEW S, IsFiniteSet(S), NEW v, NEW r \in S, NEW i \in DOMAIN Tells(r, v[r]),
         Tells(r, v[r])[i] \in Int, \A q \in S \ {r} : i \notin DOMAIN Tells(q, v[q])
  PROVE  Wire(S, v)[i] = Tells(r, v[r])[i]
<1>1. /\ Share(S, v, i)[r] = Tells(r, v[r])[i]
      /\ \A q \in S \ {r} : Share(S, v, i)[q] = 0
  BY DEF Share
<1>2. SumFunctionOnSet(Share(S, v, i), S) = Tells(r, v[r])[i]
  BY <1>1, SumOfOne
<1> QED BY <1>2, WireByte

\* What a message with values for several records has for each of them.
LEMMA MessageParts ==
  ASSUME LegalDatabases, Registered, NEW S, NEW v, Message(S, v), NEW r \in S, NEW q \in S \ {r}
  PROVE  /\ Kind(r) \in Inputs \ {"si"} /\ Kind(q) \in Inputs \ {"si"}
         /\ \/ BytesOf(rec[r]) \cap BytesOf(rec[q]) = {}
            \/ /\ Kind(r) \in BitKinds /\ Kind(q) \in BitKinds
               /\ \/ inp[r].parameter + WidthOf(r) <= inp[q].parameter
                  \/ inp[q].parameter + WidthOf(q) <= inp[r].parameter
<1>1. /\ r \in Records /\ q \in Records \ {r} /\ attached[r] = "ok" /\ attached[q] = "ok"
      /\ IsInput(r) /\ IsInput(q) /\ MeantFor(q) = MeantFor(r) /\ Kind(r) # "si" /\ Kind(q) # "si"
  BY DEF Message
<1>2. Apart(rec[r], rec[q])
  BY <1>1, Entries
<1>3. inp[r] = CanIoParse(rec[r].addr) /\ inp[q] = CanIoParse(rec[q].addr)
  BY <1>1, Entries
<1> QED BY <1>1, <1>2, <1>3 DEF Apart, IsInput, Kind, WidthOf

LEMMA TellsWhere ==
  ASSUME LegalDatabases, Registered, NEW S, NEW v, Message(S, v), NEW q \in S, Kind(q) # "si"
  PROVE  DOMAIN Tells(q, v[q]) \subseteq BytesOf(rec[q])
<1>1. q \in Records /\ attached[q] = "ok" /\ IsInput(q) /\ v[q] \in rec[q].values
  BY DEF Message
<1>2. CASE Kind(q) = "ai"
  BY <1>1, <1>2, TellsAnalogue
<1>3. CASE Kind(q) \in BitKinds
  <2>1. DOMAIN Tells(q, v[q]) = {inp[q].offset}
    BY <1>1, <1>3, TellsBits
  <2>2. inp[q] = CanIoParse(rec[q].addr) /\ inp[q].offset \in 0 .. 7
    BY <1>1, Entries
  <2>3. inp[q].offset \in BytesOf(rec[q])
    BY <1>3, <2>2 DEF BytesOf, Kind
  <2> QED BY <2>1, <2>3
<1> QED BY <1>1, <1>2, <1>3 DEF BitKinds, IsInput, Inputs, Outputs

LEMMA AnalogueUnderstood ==
  ASSUME LegalDatabases, Registered, NEW S, NEW v, Message(S, v), NEW r \in S, Kind(r) = "ai"
  PROVE  Value(r, Stored(r, Wire(S, v))) = Meaning(r, v[r])
<1> DEFINE io == inp[r]
           d == AoMessage(io, v[r])
<1>0. r \in Records /\ attached[r] = "ok" /\ v[r] \in rec[r].values /\ IsFiniteSet(S)
  BY RecordsAssumption, FS_Subset DEF RecordsAssumption, Message
<1>1. /\ AnalogueAddress(io) /\ AnalogueFits(io, v[r])
      /\ \A j \in DOMAIN d : /\ io.offset + j \in DOMAIN Tells(r, v[r])
                             /\ Tells(r, v[r])[io.offset + j] = d[j] /\ d[j] \in Int
      /\ DOMAIN Tells(r, v[r]) \subseteq BytesOf(rec[r])
  BY <1>0, TellsAnalogue
<1>2. ASSUME NEW i \in DOMAIN Tells(r, v[r]), NEW q \in S \ {r} PROVE i \notin DOMAIN Tells(q, v[q])
  <2>1. BytesOf(rec[r]) \cap BytesOf(rec[q]) = {} /\ Kind(q) # "si"
    BY MessageParts DEF BitKinds
  <2>2. DOMAIN Tells(q, v[q]) \subseteq BytesOf(rec[q])
    BY <2>1, TellsWhere
  <2> QED BY <1>1, <2>1, <2>2
<1> HIDE DEF io, d
<1>3. \A j \in DOMAIN d : Wire(S, v)[io.offset + j] = d[j]
  <2> TAKE j \in DOMAIN d
  <2> DEFINE i == io.offset + j
  <2>1. i \in DOMAIN Tells(r, v[r]) /\ Tells(r, v[r])[i] = d[j] /\ d[j] \in Int
    BY <1>1
  <2> HIDE DEF i
  <2>2. Wire(S, v)[i] = Tells(r, v[r])[i]
    BY <1>0, <1>2, <2>1, WireAlone
  <2> QED BY <2>1, <2>2 DEF i
<1>4. io.offset \in Int /\ (AnalogueMask(io) = 0 => (AnalogueSign(io) = 8 => io.offset = 0))
  <2>1. io.offset \in 0 .. 7 /\ (io.paramStr = "double" => io.offset = 0)
    BY <1>0, Entries DEF Proper, Kind, io
  <2>2. ASSUME AnalogueMask(io) = 0, AnalogueSign(io) = 8 PROVE io.paramStr = "double"
    <3>1. CASE io.parameter < 0
      BY <2>2, <3>1 DEF AnalogueSign
    <3>2. CASE io.parameter > 0
      BY <2>2, <3>2 DEF AnalogueSign
    <3>3. CASE io.parameter = 0
      BY <2>2, <3>3 DEF AnalogueSign
    <3> QED BY <1>1, <3>1, <3>2, <3>3 DEF AnalogueAddress
  <2> QED BY <2>1, <2>2
<1>5. AiValue(io, AiMessage(io, Wire(S, v))) = AnalogueRead(io, v[r])
  BY <1>1, <1>3, <1>4, AnalogueRoundTrip DEF d
<1> QED BY <1>5 DEF Value, Stored, Meaning, AnalogueRead, io

LEMMA BitsUnderstood ==
  ASSUME LegalDatabases, Registered, NEW S, NEW v, Message(S, v), NEW r \in S, Kind(r) \in BitKinds
  PROVE  Value(r, Stored(r, Wire(S, v))) = Meaning(r, v[r])
<1> DEFINE i == inp[r].offset
           g == Share(S, v, i)
           T == {q \in S : i \in DOMAIN Tells(q, v[q])}
           p == [q \in S |-> inp[q].parameter]
           n == [q \in S |-> WidthOf(q)]
<1>0. /\ r \in Records /\ attached[r] = "ok" /\ IsInput(r) /\ v[r] \in rec[r].values /\ IsFiniteSet(S)
      /\ i \in 0 .. 7
  <2>1. r \in Records /\ attached[r] = "ok" /\ IsInput(r) /\ v[r] \in rec[r].values /\ IsFiniteSet(S)
    BY RecordsAssumption, FS_Subset DEF RecordsAssumption, Message
  <2> QED BY <2>1, Entries
<1>1. DOMAIN Tells(r, v[r]) = {i} /\ r \in T
  BY <1>0, TellsBits
<1>2. ASSUME NEW q \in T
      PROVE  /\ FieldFits(n[q], inp[q], v[q]) /\ p[q] \in 0 .. 7 /\ p[q] = inp[q].parameter
             /\ g[q] = v[q] * 2 ^ p[q] /\ g[q] \in Int /\ Kind(q) \in BitKinds
  <2>1. q \in Records /\ attached[q] = "ok" /\ IsInput(q) /\ v[q] \in rec[q].values
    BY DEF Message
  <2>2. Kind(q) \in BitKinds
    <3>1. CASE q = r
      BY <3>1
    <3>2. CASE q # r
      <4>1. Kind(q) # "si"
        BY <3>2, MessageParts
      <4>2. i \in BytesOf(rec[r]) /\ i \in BytesOf(rec[q])
        BY <1>1, <4>1, TellsWhere DEF BitKinds
      <4> QED BY <3>2, <4>2, MessageParts
    <3> QED BY <3>1, <3>2
  <2>3. /\ FieldFits(n[q], inp[q], v[q]) /\ inp[q].parameter \in 0 .. 7
        /\ DOMAIN Tells(q, v[q]) = {inp[q].offset}
        /\ Tells(q, v[q])[inp[q].offset] = v[q] * 2 ^ inp[q].parameter
    BY <2>1, <2>2, TellsBits
  <2>4. g[q] = v[q] * 2 ^ p[q]
    BY <2>3 DEF Share
  <2>5. v[q] * 2 ^ inp[q].parameter \in Int
    BY <2>3, FieldMessage
  <2> QED BY <2>2, <2>3, <2>4, <2>5
<1>3. \A q \in S \ T : g[q] = 0
  BY DEF Share
<1>4. Layout(T, p, n, v)
  <2>1. ASSUME NEW q \in T, NEW s \in T \ {q}
        PROVE  p[s] + n[s] <= p[q] \/ p[q] + n[q] <= p[s]
    <3>1. Kind(q) # "si" /\ Kind(s) # "si"
      BY <1>2 DEF BitKinds
    <3>2. i \in BytesOf(rec[q]) /\ i \in BytesOf(rec[s])
      BY <3>1, TellsWhere
    <3> QED BY <3>2, MessageParts
  <2> HIDE DEF T, p, n, g
  <2> QED BY <1>2, <2>1 DEF Layout, FieldFits
<1>5. IsFiniteSet(T) /\ T \in SUBSET S /\ IsFiniteSet(S \ T)
  BY <1>0, FS_Subset
<1> DEFINE sum(X) == SumFunctionOnSet(g, X)
<1>6. sum(S) = sum(T)
  <2>1. \A q \in S : g[q] \in Int
    BY <1>2, <1>3
  <2>2. sum(S) = sum(T) + sum(S \ T)
    BY <1>0, <1>5, <2>1, SumSplit
  <2>3. sum(S \ T) = 0
    BY <1>3, <1>5, SumZero
  <2>4. sum(T) \in Int
    BY <1>5, <2>1, SumFacts
  <2> QED BY <2>2, <2>3, <2>4
<1>7. Field(sum(T), n[r], p[r]) = v[r]
  <2> HIDE DEF T, p, n, g
  <2> QED BY <1>1, <1>2, <1>4, <1>5, FieldOfSum
<1>8. Wire(S, v)[i] = sum(S)
  BY <1>1, WireByte
<1>9. Field(Wire(S, v)[i], WidthOf(r), inp[r].parameter) = v[r]
  BY <1>6, <1>7, <1>8
<1>10. Kind(r) \in {"bi", "mbbi", "mbbiDirect"}
  BY <1>0 DEF BitKinds, IsInput, Inputs, Outputs
<1>11. CASE Kind(r) = "bi"
  BY <1>9, <1>11 DEF Value, Stored, Meaning, BiValue, BiMessage, WidthOf, FieldWidth
<1>12. CASE Kind(r) = "mbbi"
  BY <1>9, <1>12 DEF Value, Stored, Meaning, MbbiValue, MbbiMessage, WidthOf, FieldWidth
<1>13. CASE Kind(r) = "mbbiDirect"
  BY <1>9, <1>13 DEF Value, Stored, Meaning, MbbiDirectValue, MbbiDirectMessage, WidthOf, FieldWidth
<1> QED BY <1>10, <1>11, <1>12, <1>13

LEMMA StringWire ==
  ASSUME LegalDatabases, Registered, NEW S, NEW v, Message(S, v), NEW r \in S, Kind(r) = "si"
  PROVE  /\ S = {r} /\ inp[r].offset \in 0 .. 7
         /\ \A i \in 0 .. 7 : Wire(S, v)[i] = IF i < inp[r].offset THEN inp[r].parameter ELSE v[r]
<1>1. r \in Records /\ attached[r] = "ok" /\ v[r] \in rec[r].values /\ S = {r} /\ IsFiniteSet(S)
  BY RecordsAssumption, FS_Subset DEF RecordsAssumption, Message
<1>2. inp[r].offset \in 0 .. 7 /\ inp[r].parameter \in Int /\ v[r] \in Int
  BY <1>1, Entries DEF Proper, Kind, Outputs
<1>3. Tells(r, v[r]) = [i \in 0 .. 7 |-> IF i < inp[r].offset THEN inp[r].parameter ELSE v[r]]
  BY DEF Tells
<1>4. ASSUME NEW i \in 0 .. 7 PROVE Wire(S, v)[i] = Tells(r, v[r])[i]
  <2>1. i \in DOMAIN Tells(r, v[r]) /\ Tells(r, v[r])[i] \in Int
    BY <1>2, <1>3
  <2> QED BY <1>1, <2>1, WireAlone
<1> QED BY <1>1, <1>2, <1>3, <1>4

LEMMA Understood ==
  ASSUME LegalDatabases, Registered, NEW S, NEW v, Message(S, v), NEW r \in S
  PROVE  Value(r, Stored(r, Wire(S, v))) = Meaning(r, v[r])
<1>1. CASE Kind(r) = "si"
  <2>1. /\ inp[r].offset \in 0 .. 7
        /\ \A i \in 0 .. 7 : Wire(S, v)[i] = IF i < inp[r].offset THEN inp[r].parameter ELSE v[r]
    BY <1>1, StringWire
  <2>2. \A i \in 0 .. 7 - inp[r].offset : Wire(S, v)[i + inp[r].offset] = v[r]
    BY <2>1
  <2> QED BY <1>1, <2>2 DEF Value, Stored, Meaning, SiMessage
<1> QED BY <1>1, AnalogueUnderstood, BitsUnderstood DEF Message, IsInput, BitKinds, Inputs, Outputs

\* The handlers of the driver are those of the records with an identifier.
Handled ==
  /\ handlers \in Seq(Records)
  /\ \A i \in DOMAIN handlers : attached[handlers[i]] = "ok"
  /\ \A r \in Records : attached[r] = "ok" /\ inp[r].identifier < 2048 => \E i \in DOMAIN handlers : handlers[i] = r

\* Who takes a message is who it is for.
LEMMA Takers ==
  ASSUME LegalDatabases, Registered, Handled, NEW S, NEW v, Message(S, v), NEW r \in S, NEW id, id = MeantFor(r),
         id < 2048, Kind(r) # "si" => S = SameMessage(r)
  PROVE  {q \in Records : Takes(q, id, Wire(S, v))} = S
<1>0. r \in Records /\ attached[r] = "ok" /\ IsInput(r)
  BY DEF Message
<1>1. ASSUME NEW q \in Records
      PROVE  q \in Handlers(id) <=> attached[q] = "ok" /\ MeantFor(q) = id
  <2>1. ASSUME q \in Handlers(id) PROVE attached[q] = "ok" /\ MeantFor(q) = id
    <3>1. PICK i \in DOMAIN handlers : handlers[i] = q /\ inp[q].identifier = id
      BY <2>1 DEF Handlers
    <3>2. attached[q] = "ok"
      BY <3>1 DEF Handled
    <3> QED BY <3>1, <3>2, Entries
  <2>2. ASSUME attached[q] = "ok", MeantFor(q) = id PROVE q \in Handlers(id)
    <3>1. inp[q].identifier = id
      BY <2>2, Entries
    <3>2. PICK i \in DOMAIN handlers : handlers[i] = q
      BY <2>2, <3>1 DEF Handled
    <3> QED BY <3>1, <3>2 DEF Handlers
  <2> QED BY <2>1, <2>2
<1>2. CASE Kind(r) = "si"
  <2>1. /\ S = {r} /\ inp[r].offset \in 0 .. 7
        /\ \A i \in 0 .. 7 : Wire(S, v)[i] = IF i < inp[r].offset THEN inp[r].parameter ELSE v[r]
    BY <1>2, StringWire
  <2>2. SiAccepts(inp[r], Wire(S, v))
    BY <2>1 DEF SiAccepts
  <2>3. ASSUME NEW q \in Records \ {r}, Takes(q, id, Wire(S, v)) PROVE FALSE
    <3>1. attached[q] = "ok" /\ IsInput(q) /\ MeantFor(q) = MeantFor(r)
      BY <1>1, <2>3 DEF Takes
    <3>2. Apart(rec[r], rec[q])
      BY <1>0, <3>1, Entries
    <3>3. Kind(q) = "si" /\ inp[r].offset = 1 /\ inp[q].offset = 1 /\ inp[r].parameter # inp[q].parameter
      BY <1>0, <1>2, <3>1, <3>2, Entries DEF Apart, Kind
    <3>4. Wire(S, v)[0] = inp[q].parameter
      BY <2>3, <3>3 DEF Takes, SiAccepts
    <3>5. Wire(S, v)[0] = inp[r].parameter
      BY <2>1, <3>3
    <3> QED BY <3>3, <3>4, <3>5
  <2>4. Takes(r, id, Wire(S, v))
    BY <1>0, <1>1, <2>2 DEF Takes
  <2> QED BY <1>0, <2>1, <2>3, <2>4
<1>3. CASE Kind(r) # "si"
  <2>1. ASSUME NEW q \in S PROVE q \in Records /\ Takes(q, id, Wire(S, v))
    <3>1. q \in Records /\ attached[q] = "ok" /\ IsInput(q) /\ MeantFor(q) = id
      BY DEF Message
    <3>2. Kind(q) # "si"
      BY <1>3 DEF Message
    <3> QED BY <1>1, <3>1, <3>2 DEF Takes
  <2>2. ASSUME NEW q \in Records, Takes(q, id, Wire(S, v)) PROVE q \in S
    BY <1>1, <1>3, <2>2 DEF Takes, SameMessage
  <2> QED BY <2>1, <2>2
<1> QED BY <1>2, <1>3

-----------------------------------------------------------------------------
(* Outputs: what they send is what an input would read.                    *)

\* What an output record sends for the value v.
MessageOf(r, v) ==
  CASE Kind(r) = "ao" -> AoMessage(inp[r], v)
    [] Kind(r) = "bo" -> BoMessage(inp[r], v)
    [] Kind(r) = "mbbo" -> MbboMessage(inp[r], rec[r].nobt, v)
    [] Kind(r) = "mbboDirect" -> MbboDirectMessage(inp[r], rec[r].nobt, v)

LEMMA SentUnderstood ==
  ASSUME LegalDatabases, Registered, NEW r \in Records, attached[r] = "ok", ~IsInput(r),
         NEW v \in rec[r].values \cup {0}
  PROVE  ReadBack(r, MessageOf(r, v)) = Rounded(r, v)
<1>1. /\ Attaches(rec[r]) /\ Proper(rec[r]) /\ inp[r] = CanIoParse(rec[r].addr) /\ inp[r].offset \in 0 .. 7
      /\ Kind(r) \in BitKinds => inp[r].parameter \in 0 .. 7
  BY Entries
<1>2. Kind(r) \in Outputs /\ inp[r].good
  BY <1>1 DEF Proper, Kind, IsInput, Attaches
<1>3. \A n : LET io == [inp[r] EXCEPT !.offset = n] IN
             io.offset = n /\ io.parameter = inp[r].parameter /\ io.paramStr = inp[r].paramStr
  BY <1>1, <1>2, InputFields
<1>4. CASE Kind(r) = "ao"
  <2> DEFINE io == [inp[r] EXCEPT !.offset = 0]
             d == AoMessage(inp[r], v)
  <2>1. io.offset = 0 /\ io.parameter = inp[r].parameter /\ io.paramStr = inp[r].paramStr
    BY <1>3
  <2> HIDE DEF io
  <2>2. AnalogueMask(io) = AnalogueMask(inp[r])
    BY <2>1 DEF AnalogueMask
  <2>3. AnalogueSign(io) = AnalogueSign(inp[r])
    BY <2>1, <2>2 DEF AnalogueSign
  <2>4. AnalogueAddress(inp[r]) /\ AnalogueFits(inp[r], v)
    BY <1>1, <1>4 DEF Proper, Kind, Outputs
  <2>5. AnalogueAddress(io) /\ AnalogueFits(io, v)
    BY <2>1, <2>2, <2>3, <2>4 DEF AnalogueAddress, AnalogueFits
  <2>6. AoMessage(io, v) = d
    BY <2>2, <2>3 DEF AoMessage
  <2>7. io.offset \in Int /\ \A j \in DOMAIN d : d[io.offset + j] = d[j]
    <3>1. \A j \in DOMAIN d : j \in Int
      BY <2>1, <2>5, <2>6, AnalogueBytes
    <3> HIDE DEF d
    <3> QED BY <2>1, <3>1
  <2>8. AiValue(io, AiMessage(io, d)) = AnalogueRead(io, v)
    BY <2>1, <2>5, <2>6, <2>7, AnalogueRoundTrip
  <2>9. MessageOf(r, v) = d
    BY <1>4 DEF MessageOf
  <2> HIDE DEF d
  <2> QED BY <1>4, <2>1, <2>8, <2>9 DEF ReadBack, Rounded, AnalogueRead, io
<1>5. CASE Kind(r) # "ao"
  <2> DEFINE io == [inp[r] EXCEPT !.offset = inp[r].offset]
             byte == v * 2 ^ inp[r].parameter
  <2>1. io.offset = inp[r].offset /\ io.parameter = inp[r].parameter
    BY <1>3
  <2> HIDE DEF io
  <2>2. FieldFits(WidthOf(r), inp[r], v) /\ inp[r].parameter \in 0 .. 7
    BY <1>1, <1>2, <1>5 DEF Proper, Kind, Outputs, Inputs, BitKinds, WidthOf
  <2>3. /\ (Field(v, WidthOf(r), 0) * 2 ^ inp[r].parameter) % 256 = byte
        /\ Field(byte, WidthOf(r), inp[r].parameter) = v
    BY <2>2, FieldMessage
  <2>4. Rounded(r, v) = v
    BY <1>5 DEF Rounded
  <2>5. MessageOf(r, v) = [i \in {inp[r].offset} |-> byte]
    BY <1>2, <1>5, <2>3 DEF MessageOf, BoMessage, MbboMessage, MbboDirectMessage, WidthOf, FieldWidth, Outputs
  <2> HIDE DEF byte
  <2>6. MessageOf(r, v)[io.offset] = byte
    BY <2>1, <2>5
  <2>7. ReadBack(r, MessageOf(r, v)) = IF Kind(r) = "bo" THEN BiValue(io, BiMessage(io, MessageOf(r, v)))
                                       ELSE MbbiValue(io, rec[r].nobt, MbbiMessage(io, MessageOf(r, v)))
    BY <1>5 DEF ReadBack, io
  <2> QED BY <1>2, <2>1, <2>3, <2>4, <2>6, <2>7 DEF BiValue, BiMessage, MbbiValue, MbbiMessage, WidthOf, FieldWidth,
                                                    Outputs, byte
<1> QED BY <1>4, <1>5

-----------------------------------------------------------------------------
(* The inductive invariant.                                                *)

\* The lists that the driver and the busses keep hold attached records only.
Listed == /\ \A k \in Kinds : \A i \in DOMAIN privates[k] : attached[privates[k][i]] = "ok"
          /\ \A i \in DOMAIN walk : attached[walk[i]] = "ok"

Shapes == DOMAIN inp = Records /\ DOMAIN val = Records /\ DOMAIN sent = Records

Known == Registered /\ Handled /\ Listed /\ Shapes

\* A record that is not attached is as it was, and is refused when it is scanned.
Silent ==
  \A r \in Records : attached[r] # "ok" =>
    /\ ~timer[r] /\ queued[r] = 0 /\ ioQueued[r] = 0
    /\ data[r] = <<>> /\ meant[r] = <<>> /\ sent[r] = <<>> /\ val[r] = IF IsInput(r) THEN <<>> ELSE <<0>>
    /\ attached[r] = "silenced" => pact[r]
    /\ \A t \in Tasks : on[t] = r => pc[t] = "dbProcess" /\ attached[r] = "silenced"

\* Only inputs that are not scanned by I/O Intr ask and wait.
Asks(r) == IsInput(r) /\ ~rec[r].ioEvent

Waits ==
  /\ \A r \in Records : attached[r] = "ok" /\ pact[r] => Asks(r)
  /\ \A t \in Tasks : pc[t] \in {"request", "timer"} => Asks(on[t])
  /\ \A t \in Tasks : pc[t] = "idle" => on[t] = None
  /\ \A r \in Records : status[r] = "TIMEOUT" => Asks(r)

\* A record whose wait is over has had an answer or the recovery of the bus.
Answered ==
  \A r \in Records : attached[r] = "ok" /\ pact[r] /\ status[r] = "NO_ALARM" => reply[r] # "none"

\* The private data of an input is what the last message meant.
MeantData ==
  \A r \in Records : attached[r] = "ok" /\ IsInput(r) =>
    meant[r] = IF data[r] = <<>> THEN <<>> ELSE <<Value(r, data[r][1])>>

\* OutputOrAlarm, also while a task is about to raise the alarm.
Sending ==
  \A r \in Records : attached[r] = "ok" /\ ~IsInput(r) =>
    /\ \E v \in rec[r].values \cup {0} : val[r] = <<v>>
    /\ sent[r] # <<>> => \/ sevr[r] \/ ReadBack(r, sent[r][1]) = Rounded(r, val[r][1])
                         \/ \E t \in Tasks : on[t] = r /\ pc[t] = "alarm"

\* How many times a record is going to be read.
Reader(t, r) == IF on[t] = r /\ pc[t] \in {"process", "dbProcess"} THEN 1 ELSE 0
Reads(r) == ioQueued[r] + Reader("scan", r) + Reader("callback", r) + Reader("bus", r)

\* An I/O Intr input without its latest value is going to be read, and once more
\* when a bus error is going to take the place of a read.
Coming ==
  \A r \in Records :
    attached[r] = "ok" /\ IsInput(r) /\ rec[r].ioEvent /\ val[r] # meant[r] =>
      /\ Reads(r) >= 1
      /\ status[r] # "NO_ALARM" => Reads(r) >= 2 \/ \E t \in Tasks : on[t] = r /\ pc[t] = "alarm"

ValuesInv == Known /\ Silent /\ Waits /\ Answered /\ MeantData /\ Sending /\ Coming

-----------------------------------------------------------------------------
(* What the steps do to values.                                            *)

\* A task reads an input.
ReadStep(t) ==
  LET r == on[t] IN
  /\ Locks(t) /\ IsInput(r)
  /\ \/ /\ status[r] # "NO_ALARM"
        /\ Go(t, r, "alarm") /\ UNCHANGED <<pact, sevr, val>>
     \/ /\ status[r] = "NO_ALARM" /\ (pact[r] \/ rec[r].ioEvent)
        /\ val' = [val EXCEPT ![r] = IF data[r] = <<>> THEN <<>> ELSE <<Value(r, data[r][1])>>]
        /\ Complete(t, FALSE)
     \/ /\ status[r] = "NO_ALARM" /\ ~pact[r] /\ ~rec[r].ioEvent
        /\ Go(t, r, "request") /\ UNCHANGED <<pact, sevr, val>>
  /\ UNCHANGED <<config, lists, private, queues, sent, busVars, ghosts>>

LEMMA ReadSteps ==
  ASSUME NEW t \in Tasks, ReadInput(t)
  PROVE  ReadStep(t)
<1>1. CASE ReadAi(t)
  BY <1>1 DEF ReadAi, Read, ReadStep, Value, IsInput, Inputs
<1>2. CASE ReadBi(t)
  BY <1>2 DEF ReadBi, Read, ReadStep, Value, IsInput, Inputs
<1>3. CASE ReadMbbi(t)
  BY <1>3 DEF ReadMbbi, Read, ReadStep, Value, IsInput, Inputs
<1>4. CASE ReadMbbiDirect(t)
  BY <1>4 DEF ReadMbbiDirect, Read, ReadStep, Value, IsInput, Inputs
<1>5. CASE ReadSi(t)
  BY <1>5 DEF ReadSi, Read, ReadStep, Value, IsInput, Inputs
<1> QED BY <1>1, <1>2, <1>3, <1>4, <1>5 DEF ReadInput

\* A task writes an output.
WriteStep(t) ==
  LET r == on[t] IN
  /\ Locks(t) /\ ~IsInput(r) /\ NewValue(t, r)
  /\ \/ status[r] # "NO_ALARM" /\ Go(t, r, "alarm") /\ UNCHANGED <<pact, sevr, sent>>
     \/ sent' = [sent EXCEPT ![r] = <<MessageOf(r, val'[r][1])>>] /\ Complete(t, FALSE)
     \/ Complete(t, TRUE) /\ UNCHANGED sent
  /\ UNCHANGED <<config, lists, private, queues, busVars, ghosts>>

LEMMA WriteSteps ==
  ASSUME NEW t \in Tasks, WriteOutput(t)
  PROVE  WriteStep(t)
<1> DEFINE r == on[t]
<1>2. CASE WriteAo(t)
  <2>1. AoMessage(inp[r], val'[r][1]) = MessageOf(r, val'[r][1])
    BY <1>2 DEF WriteAo, Write, MessageOf
  <2>2. /\ Locks(t) /\ ~IsInput(r) /\ NewValue(t, r)
        /\ UNCHANGED <<config, lists, private, queues, busVars, ghosts>>
    BY <1>2 DEF WriteAo, Write, IsInput, Inputs
  <2>3. \/ status[r] # "NO_ALARM" /\ Go(t, r, "alarm") /\ UNCHANGED <<pact, sevr, sent>>
        \/ sent' = [sent EXCEPT ![r] = <<AoMessage(inp[r], val'[r][1])>>] /\ Complete(t, FALSE)
        \/ Complete(t, TRUE) /\ UNCHANGED sent
    BY <1>2 DEF WriteAo, Write, Go, Complete
  <2> QED BY <2>1, <2>2, <2>3 DEF WriteStep
<1>3. CASE WriteBo(t)
  <2>1. BoMessage(inp[r], val'[r][1]) = MessageOf(r, val'[r][1])
    BY <1>3 DEF WriteBo, Write, MessageOf
  <2>2. /\ Locks(t) /\ ~IsInput(r) /\ NewValue(t, r)
        /\ UNCHANGED <<config, lists, private, queues, busVars, ghosts>>
    BY <1>3 DEF WriteBo, Write, IsInput, Inputs
  <2>3. \/ status[r] # "NO_ALARM" /\ Go(t, r, "alarm") /\ UNCHANGED <<pact, sevr, sent>>
        \/ sent' = [sent EXCEPT ![r] = <<BoMessage(inp[r], val'[r][1])>>] /\ Complete(t, FALSE)
        \/ Complete(t, TRUE) /\ UNCHANGED sent
    BY <1>3 DEF WriteBo, Write, Go, Complete
  <2> QED BY <2>1, <2>2, <2>3 DEF WriteStep
<1>4. CASE WriteMbbo(t)
  <2>1. MbboMessage(inp[r], rec[r].nobt, val'[r][1]) = MessageOf(r, val'[r][1])
    BY <1>4 DEF WriteMbbo, Write, MessageOf
  <2>2. /\ Locks(t) /\ ~IsInput(r) /\ NewValue(t, r)
        /\ UNCHANGED <<config, lists, private, queues, busVars, ghosts>>
    BY <1>4 DEF WriteMbbo, Write, IsInput, Inputs
  <2>3. \/ status[r] # "NO_ALARM" /\ Go(t, r, "alarm") /\ UNCHANGED <<pact, sevr, sent>>
        \/ sent' = [sent EXCEPT ![r] = <<MbboMessage(inp[r], rec[r].nobt, val'[r][1])>>] /\ Complete(t, FALSE)
        \/ Complete(t, TRUE) /\ UNCHANGED sent
    BY <1>4 DEF WriteMbbo, Write, Go, Complete
  <2> QED BY <2>1, <2>2, <2>3 DEF WriteStep
<1>5. CASE WriteMbboDirect(t)
  <2>1. MbboDirectMessage(inp[r], rec[r].nobt, val'[r][1]) = MessageOf(r, val'[r][1])
    BY <1>5 DEF WriteMbboDirect, Write, MessageOf
  <2>2. /\ Locks(t) /\ ~IsInput(r) /\ NewValue(t, r)
        /\ UNCHANGED <<config, lists, private, queues, busVars, ghosts>>
    BY <1>5 DEF WriteMbboDirect, Write, IsInput, Inputs
  <2>3. \/ status[r] # "NO_ALARM" /\ Go(t, r, "alarm") /\ UNCHANGED <<pact, sevr, sent>>
        \/ sent' = [sent EXCEPT ![r] = <<MbboDirectMessage(inp[r], rec[r].nobt, val'[r][1])>>] /\ Complete(t, FALSE)
        \/ Complete(t, TRUE) /\ UNCHANGED sent
    BY <1>5 DEF WriteMbboDirect, Write, Go, Complete
  <2> QED BY <2>1, <2>2, <2>3 DEF WriteStep
<1> QED BY <1>2, <1>3, <1>4, <1>5 DEF WriteOutput

-----------------------------------------------------------------------------
(* What is known of the records and the lists.                             *)

LEMMA KnownStays ==
  ASSUME Known, UNCHANGED <<rec, attached, inp, privates, handlers, walk>>,
         DOMAIN val' = DOMAIN val, DOMAIN sent' = DOMAIN sent
  PROVE  Known'
<1>1. Registered'
  BY DEF Known, Registered
<1>2. Handled'
  BY DEF Known, Handled
<1>3. Listed' /\ Shapes'
  BY DEF Known, Listed, Shapes
<1> QED BY <1>1, <1>2, <1>3 DEF Known

LEMMA KnownAttach ==
  ASSUME Inv, Known, NEW r \in Records, NEW k \in Kinds, Attach(r, k)
  PROVE  Known'
<1> USE DEF Attach, config
<1>1. /\ rec' = rec /\ attached[r] = "new" /\ Kind(r) = k /\ attached \in [Records -> {"new", "ok", "silenced", "failed"}]
      /\ DOMAIN inp = Records /\ inp' = [inp EXCEPT ![r] = CanIoParse(rec[r].addr)]
      /\ UNCHANGED <<walk, val, sent>>
  BY Parts DEF RecordTypes, Known, Shapes, busVars
<1>2. /\ \A q \in Records \ {r} : attached'[q] = attached[q] /\ inp'[q] = inp[q]
      /\ inp'[r] = CanIoParse(rec[r].addr)
  BY <1>1
<1>3. CASE rec[r].instIo /\ inp'[r].good /\ ParameterGood(k, inp'[r].parameter)
  <2>1. /\ attached' = [attached EXCEPT ![r] = "ok"] /\ attached'[r] = "ok"
        /\ privates' = [privates EXCEPT ![k] = <<r>> \o @]
        /\ handlers' = IF inp'[r].identifier < 2048 THEN Append(handlers, r) ELSE handlers
    BY <1>1, <1>3
  <2> HIDE DEF Attach
  <2>2. Registered'
    BY <1>1, <1>2, <1>3, <2>1 DEF Known, Registered, Attaches, Kind
  <2>3. Handled'
    <3>1. handlers \in Seq(Records) /\ handlers' \in Seq(Records)
      BY <2>1 DEF Known, Handled
    <3>2. ASSUME NEW i \in DOMAIN handlers' PROVE attached'[handlers'[i]] = "ok"
      <4>1. \/ i \in DOMAIN handlers /\ handlers'[i] = handlers[i]
            \/ handlers'[i] = r
        BY <2>1, <3>1
      <4> QED BY <1>1, <1>2, <2>1, <3>1, <4>1 DEF Known, Handled
    <3>3. ASSUME NEW q \in Records, attached'[q] = "ok", inp'[q].identifier < 2048
          PROVE  \E i \in DOMAIN handlers' : handlers'[i] = q
      <4>1. CASE q = r
        <5>1. handlers' = Append(handlers, r)
          BY <2>1, <3>3, <4>1
        <5>2. Len(handlers) + 1 \in DOMAIN handlers' /\ handlers'[Len(handlers) + 1] = r
          BY <3>1, <5>1
        <5> QED BY <4>1, <5>2
      <4>2. CASE q # r
        <5>1. PICK i \in DOMAIN handlers : handlers[i] = q
          BY <1>2, <3>3, <4>2 DEF Known, Handled
        <5>2. i \in DOMAIN handlers' /\ handlers'[i] = q
          BY <2>1, <3>1, <5>1
        <5> QED BY <5>2
      <4> QED BY <4>1, <4>2
    <3> QED BY <3>1, <3>2, <3>3 DEF Handled
  <2>4. Listed'
    <3>1. privates \in [Kinds -> Seq(Records)]
      BY Parts DEF Setup
    <3>2. ASSUME NEW j \in Kinds, NEW i \in DOMAIN privates'[j] PROVE attached'[privates'[j][i]] = "ok"
      <4>1. CASE j = k
        <5>1. privates'[j] = <<r>> \o privates[j] /\ privates[j] \in Seq(Records)
          BY <2>1, <3>1, <4>1
        <5>2. privates'[j][i] = r \/ \E m \in DOMAIN privates[j] : privates'[j][i] = privates[j][m]
          <6>1. CASE i = 1
            BY <5>1, <6>1
          <6>2. CASE i # 1
            <7>1. i - 1 \in DOMAIN privates[j] /\ privates'[j][i] = privates[j][i - 1]
              BY <3>2, <5>1, <6>2
            <7> QED BY <7>1
          <6> QED BY <6>1, <6>2
        <5> QED BY <1>1, <2>1, <5>1, <5>2 DEF Known, Listed
      <4>2. CASE j # k
        <5>1. privates'[j] = privates[j]
          BY <2>1, <3>1, <4>2
        <5> QED BY <1>1, <2>1, <3>2, <5>1 DEF Known, Listed
      <4> QED BY <4>1, <4>2
    <3>3. \A i \in DOMAIN walk : attached'[walk[i]] = "ok"
      <4>1. walk \in Seq(Records)
        BY Parts DEF BusTypes
      <4> QED BY <1>1, <2>1, <4>1 DEF Known, Listed
    <3> QED BY <1>1, <3>2, <3>3 DEF Listed
  <2> QED BY <1>1, <2>2, <2>3, <2>4 DEF Known, Shapes
<1>4. CASE ~(rec[r].instIo /\ inp'[r].good /\ ParameterGood(k, inp'[r].parameter))
  <2>1. /\ \E s \in {"silenced", "failed"} : attached' = [attached EXCEPT ![r] = s]
        /\ UNCHANGED <<privates, handlers>>
    BY <1>4
  <2> HIDE DEF Attach
  <2>2. attached'[r] # "ok"
    BY <1>1, <2>1
  <2>3. Registered'
    BY <1>1, <1>2, <2>2 DEF Known, Registered
  <2>4. \A q \in Records : attached[q] = "ok" => q # r /\ attached'[q] = "ok"
    BY <1>1, <1>2
  <2>5. Handled'
    BY <1>2, <2>1, <2>2, <2>4 DEF Known, Handled
  <2>6. Listed'
    <3>1. privates \in [Kinds -> Seq(Records)] /\ walk \in Seq(Records)
      BY Parts DEF Setup, BusTypes
    <3> QED BY <1>1, <2>1, <2>4, <3>1 DEF Known, Listed
  <2> QED BY <1>1, <2>3, <2>5, <2>6 DEF Known, Shapes
<1> QED BY <1>3, <1>4

\* What a step of a task leaves alone.
LEMMA ProcessLeaves ==
  ASSUME NEW t \in Tasks, Process(t)
  PROVE  UNCHANGED <<config, lists, data, queued, ioQueued, busVars, meant>>
<1> USE DEF private, queues, record, ghosts
<1>1. CASE ReadInput(t)
  BY <1>1, ReadSteps DEF ReadStep
<1>2. CASE WriteOutput(t)
  BY <1>2, WriteSteps DEF WriteStep
<1>3. CASE Refused(t)
  BY <1>3 DEF Refused
<1>4. CASE RaiseAlarm(t)
  BY <1>4 DEF RaiseAlarm
<1>5. CASE Suspend(t)
  BY <1>5 DEF Suspend
<1>6. CASE SendRequest(t)
  BY <1>6 DEF SendRequest
<1> QED BY <1>1, <1>2, <1>3, <1>4, <1>5, <1>6 DEF Process

LEMMA ProcessDomains ==
  ASSUME NEW t \in Tasks, Process(t)
  PROVE  DOMAIN val' = DOMAIN val /\ DOMAIN sent' = DOMAIN sent
<1> USE DEF record
<1>1. CASE ReadInput(t)
  BY <1>1, ReadSteps DEF ReadStep
<1>2. CASE WriteOutput(t)
  <2>1. DOMAIN val' = DOMAIN val
    BY <1>2, WriteSteps DEF WriteStep, NewValue
  <2>2. DOMAIN sent' = DOMAIN sent
    BY <1>2, WriteSteps DEF WriteStep
  <2> QED BY <2>1, <2>2
<1>3. CASE Refused(t) \/ RaiseAlarm(t) \/ Suspend(t) \/ SendRequest(t)
  BY <1>3 DEF Refused, RaiseAlarm, Suspend, SendRequest
<1> QED BY <1>1, <1>2, <1>3 DEF Process

LEMMA KnownNext ==
  ASSUME Inv, Known, Next
  PROVE  Known'
<1> USE DEF config, lists, record, busVars
<1>1. ASSUME NEW r \in Records, InitRecord(r)
      PROVE  Known'
  BY <1>1, KnownAttach DEF InitRecord, InitAi, InitBi, InitMbbi, InitMbbiDirect, InitSi, InitAo, InitBo,
                           InitMbbo, InitMbboDirect, Kinds, Inputs, Outputs
<1>2. ASSUME NEW r \in Records, Scan(r) \/ TakeCallback(r) \/ TakeIoScan(r) \/ TimerExpires(r) \/ ReceiveRequest(r)
      PROVE  Known'
  BY <1>2, KnownStays DEF Scan, TakeCallback, TakeIoScan, TimerExpires, ReceiveRequest
<1>3. CASE AcceptInterrupts
  BY <1>3, KnownStays DEF AcceptInterrupts
<1>4. CASE ReceiveData
  BY <1>4, KnownStays DEF ReceiveData, Receive
<1>5. CASE busCallback
  <2>1. walk # <<>> /\ walk' = Tail(walk) /\ walk \in Seq(Records)
        /\ UNCHANGED <<rec, attached, inp, privates, handlers, val, sent>>
    BY <1>5, Parts DEF busCallback, BusTypes
  <2>2. Registered' /\ Handled' /\ Shapes'
    BY <2>1 DEF Known, Registered, Handled, Shapes
  <2>3. ASSUME NEW i \in DOMAIN walk' PROVE attached'[walk'[i]] = "ok"
    <3>1. i + 1 \in DOMAIN walk /\ walk'[i] = walk[i + 1]
      BY <2>1
    <3> QED BY <2>1, <3>1 DEF Known, Listed
  <2> QED BY <2>1, <2>2, <2>3 DEF Known, Listed
<1>6. ASSUME NEW k \in Kinds, TakeBusCallback(k)
      PROVE  Known'
  <2>1. walk' = privates[k] /\ UNCHANGED <<rec, attached, inp, privates, handlers, val, sent>>
    BY <1>6 DEF TakeBusCallback
  <2>2. Registered' /\ Handled' /\ Shapes'
    BY <2>1 DEF Known, Registered, Handled, Shapes
  <2> QED BY <2>1, <2>2 DEF Known, Listed
<1>7. ASSUME NEW s \in Signals, BusSignal(s)
      PROVE  Known'
  BY <1>7, KnownStays DEF BusSignal
<1>8. ASSUME NEW t \in Tasks, Process(t)
      PROVE  Known'
  BY <1>8, KnownStays, ProcessLeaves, ProcessDomains
<1> QED BY <1>1, <1>2, <1>3, <1>4, <1>5, <1>6, <1>7, <1>8 DEF Next

\* A step of a task concerns its record alone.
LEMMA ProcessOthers ==
  ASSUME Inv, Known, NEW t \in Tasks, Process(t)
  PROVE  /\ on[t] \in Records /\ pc[t] # "idle"
         /\ \A u \in Tasks \ {t} : pc'[u] = pc[u] /\ on'[u] = on[u]
         /\ \/ pc'[t] = "idle" /\ on'[t] = None
            \/ pc'[t] \in {"alarm", "request", "timer"} /\ on'[t] = on[t]
         /\ \A q \in Records \ {on[t]} :
              /\ pact'[q] = pact[q] /\ sevr'[q] = sevr[q] /\ status'[q] = status[q] /\ timer'[q] = timer[q]
              /\ reply'[q] = reply[q] /\ val'[q] = val[q] /\ sent'[q] = sent[q]
<1> USE DEF private, queues, record, ghosts
<1>1. TaskTypes /\ RecordTypes /\ QueueTypes /\ StatusTypes /\ ReplyTypes /\ Shapes
  BY Parts DEF Known
<1>2. CASE ReadInput(t)
  <2>1. ReadStep(t)
    BY <1>2, ReadSteps
  <2>2. \A q \in Records \ {on[t]} : val'[q] = val[q]
    BY <1>1, <2>1 DEF ReadStep, Shapes
  <2>3. on[t] \in Records /\ pc[t] # "idle" /\ UNCHANGED <<private, queues, sent, ghosts>>
    BY <1>1, <2>1 DEF ReadStep, Locks, TaskTypes
  <2>4. \/ Go(t, on[t], "alarm") /\ UNCHANGED <<pact, sevr>>
        \/ Go(t, on[t], "request") /\ UNCHANGED <<pact, sevr>>
        \/ Complete(t, FALSE)
    BY <2>1 DEF ReadStep, Go, Complete
  <2> QED BY <1>1, <2>2, <2>3, <2>4 DEF Go, Complete, TaskTypes, RecordTypes
<1>3. CASE WriteOutput(t)
  <2>1. WriteStep(t)
    BY <1>3, WriteSteps
  <2>2. \A q \in Records \ {on[t]} : val'[q] = val[q]
    BY <1>1, <2>1 DEF WriteStep, NewValue, Shapes
  <2>3. \A q \in Records \ {on[t]} : sent'[q] = sent[q]
    BY <1>1, <2>1 DEF WriteStep, Shapes
  <2>4. on[t] \in Records /\ pc[t] # "idle" /\ UNCHANGED <<private, queues, ghosts>>
    BY <1>1, <2>1 DEF WriteStep, Locks, TaskTypes
  <2>5. \/ Go(t, on[t], "alarm") /\ UNCHANGED <<pact, sevr>>
        \/ Complete(t, FALSE) \/ Complete(t, TRUE)
    BY <2>1 DEF WriteStep, Go, Complete
  <2> QED BY <1>1, <2>2, <2>3, <2>4, <2>5 DEF Go, Complete, TaskTypes, RecordTypes
<1>4. CASE Refused(t)
  BY <1>1, <1>4 DEF Refused, Go, TaskTypes
<1>5. CASE RaiseAlarm(t)
  BY <1>1, <1>5 DEF RaiseAlarm, Go, Complete, TaskTypes, RecordTypes, StatusTypes
<1>6. CASE Suspend(t)
  BY <1>1, <1>6 DEF Suspend, Go, TaskTypes, RecordTypes, StatusTypes, ReplyTypes
<1>7. CASE SendRequest(t)
  BY <1>1, <1>7 DEF SendRequest, Go, TaskTypes, QueueTypes
<1> QED BY <1>2, <1>3, <1>4, <1>5, <1>6, <1>7 DEF Process

\* A record that is not attached is only ever refused.
LEMMA ProcessAttached ==
  ASSUME Inv, Known, Silent, NEW t \in Tasks, Process(t), attached[on[t]] # "ok"
  PROVE  Refused(t)
<1>1. on[t] \in Records
  BY ProcessOthers
<1>2. pc[t] = "dbProcess" /\ pact[on[t]]
  BY <1>1 DEF Silent
<1>3. ~Locks(t)
  BY <1>2 DEF Locks
<1>4. ~ReadInput(t)
  BY <1>3, ReadSteps DEF ReadStep
<1>5. ~WriteOutput(t)
  BY <1>3, WriteSteps DEF WriteStep
<1> QED BY <1>2, <1>4, <1>5 DEF Process, RaiseAlarm, Suspend, SendRequest

\* Only attached records take a message.
LEMMA HandlersAttached ==
  ASSUME Known, NEW id
  PROVE  Handlers(id) \subseteq {r \in Records : attached[r] = "ok"}
  BY DEF Known, Handled, Handlers

LEMMA HandleOthers ==
  ASSUME Inv, Known, NEW id, NEW d, Handle(id, d), NEW r \in Records, attached[r] # "ok"
  PROVE  data'[r] = data[r] /\ ioQueued'[r] = ioQueued[r] /\ queued'[r] = queued[r] /\ timer'[r] = timer[r]
<1>1. ~Takes(r, id, d)
  BY HandlersAttached DEF Takes
<1>2. timer[r] \in BOOLEAN
  BY Parts DEF QueueTypes
<1> QED BY <1>1, <1>2 DEF Handle

LEMMA SilentStays ==
  ASSUME Silent, UNCHANGED <<rec, attached, pact, pc, on>>,
         \A r \in Records : attached[r] # "ok" =>
           /\ timer'[r] = timer[r] /\ queued'[r] = queued[r] /\ ioQueued'[r] = ioQueued[r]
           /\ data'[r] = data[r] /\ meant'[r] = meant[r] /\ sent'[r] = sent[r] /\ val'[r] = val[r]
  PROVE  Silent'
  BY DEF Silent, IsInput, Kind

\* A task takes up an attached record, or one that refuses it.
LEMMA SilentStarts ==
  ASSUME Inv, Silent, NEW t \in Tasks, NEW r \in Records,
         \/ attached[r] = "ok" /\ Go(t, r, "process")
         \/ attached[r] \in {"ok", "silenced"} /\ Go(t, r, "dbProcess"),
         UNCHANGED <<rec, attached, pact, timer, data, meant, sent, val>>,
         \A q \in Records : attached[q] # "ok" => queued'[q] = queued[q] /\ ioQueued'[q] = ioQueued[q]
  PROVE  Silent'
<1>1. TaskTypes
  BY Parts
<1>2. ASSUME NEW q \in Records, attached[q] # "ok", NEW u \in Tasks, on'[u] = q
      PROVE  pc'[u] = "dbProcess" /\ attached[q] = "silenced"
  <2>1. CASE u = t
    BY <1>1, <1>2, <2>1 DEF Go, TaskTypes
  <2>2. CASE u # t
    BY <1>1, <1>2, <2>2 DEF Go, TaskTypes, Silent
  <2> QED BY <2>1, <2>2
<1> QED BY <1>2 DEF Silent, IsInput, Kind

LEMMA SilentNext ==
  ASSUME Inv, Known, Silent, Next
  PROVE  Silent'
<1> USE DEF config, lists, private, queues, record, busVars, taskVars, ghosts
<1>1. ASSUME NEW r \in Records, InitRecord(r)
      PROVE  Silent'
  <2>1. PICK k \in Kinds : Attach(r, k)
    BY <1>1 DEF InitRecord, InitAi, InitBi, InitMbbi, InitMbbiDirect, InitSi, InitAo, InitBo,
                InitMbbo, InitMbboDirect, Kinds, Inputs, Outputs
  <2>2. RecordTypes /\ attached[r] = "new" /\ rec' = rec
        /\ UNCHANGED <<timer, queued, ioQueued, data, meant, sent, val, pc, on>>
    BY <2>1, Parts DEF Attach
  <2>3. /\ \A q \in Records \ {r} : attached'[q] = attached[q] /\ pact'[q] = pact[q]
        /\ attached'[r] = "silenced" => pact'[r]
    BY <2>1, <2>2 DEF Attach, RecordTypes
  <2>4. \A t \in Tasks : on[t] # r
    BY <2>2 DEF Silent
  <2> QED BY <2>2, <2>3, <2>4 DEF Silent, IsInput, Kind
<1>2. ASSUME NEW r \in Records, Scan(r)
      PROVE  Silent'
  <2>1. attached[r] = "ok" \/ attached[r] = "silenced"
    BY <1>2, Parts DEF Scan, Setup, RecordTypes
  <2> QED BY <1>2, <2>1, SilentStarts DEF Scan, Tasks
<1>3. ASSUME NEW r \in Records, TakeCallback(r)
      PROVE  Silent'
  <2>1. attached[r] = "ok"
    BY <1>3 DEF TakeCallback, Silent
  <2>2. \A q \in Records \ {r} : queued'[q] = queued[q]
    BY <1>3, Parts DEF TakeCallback, QueueTypes
  <2>3. Go("callback", r, "process") /\ UNCHANGED <<rec, attached, pact, timer, ioQueued, data, meant, sent, val>>
    BY <1>3 DEF TakeCallback
  <2> QED BY <2>1, <2>2, <2>3, SilentStarts DEF Tasks
<1>4. ASSUME NEW r \in Records, TakeIoScan(r)
      PROVE  Silent'
  <2>1. attached[r] = "ok"
    BY <1>4 DEF TakeIoScan, Silent
  <2>2. \A q \in Records \ {r} : ioQueued'[q] = ioQueued[q]
    BY <1>4, Parts DEF TakeIoScan, QueueTypes
  <2> QED BY <1>4, <2>1, <2>2, SilentStarts DEF TakeIoScan, Tasks
<1>5. ASSUME NEW r \in Records, TimerExpires(r)
      PROVE  Silent'
  <2>1. attached[r] = "ok"
    BY <1>5 DEF TimerExpires, Silent
  <2>2. \A q \in Records \ {r} : queued'[q] = queued[q] /\ timer'[q] = timer[q]
    BY <1>5, Parts DEF TimerExpires, QueueTypes
  <2> QED BY <1>5, <2>1, <2>2, SilentStays DEF TimerExpires
<1>6. ASSUME NEW r \in Records, ReceiveRequest(r)
      PROVE  Silent'
  <2>1. \A q \in Records : attached[q] # "ok" => ioQueued'[q] = ioQueued[q]
    BY <1>6, HandlersAttached DEF ReceiveRequest
  <2> QED BY <1>6, <2>1, SilentStays DEF ReceiveRequest
<1>7. CASE AcceptInterrupts
  BY <1>7, SilentStays DEF AcceptInterrupts
<1>8. CASE ReceiveData
  <2>1. PICK S, v : Receive(S, v) /\ \A q \in S : attached[q] = "ok"
    BY <1>8 DEF ReceiveData, SameMessage
  <2>2. \A q \in Records : attached[q] # "ok" => meant'[q] = meant[q]
    BY <2>1 DEF Receive
  <2>3. PICK id, d : Handle(id, d)
    BY <2>1 DEF Receive
  <2> QED BY <2>1, <2>2, <2>3, HandleOthers, SilentStays DEF Receive
<1>9. CASE busCallback
  <2>1. walk \in Seq(Records) /\ walk # <<>> /\ Go("bus", Head(walk), "process")
        /\ UNCHANGED <<rec, attached, pact, timer, queued, ioQueued, data, meant, sent, val>>
    BY <1>9, Parts DEF busCallback, BusTypes
  <2>2. Head(walk) \in Records /\ attached[Head(walk)] = "ok"
    BY <2>1 DEF Known, Listed
  <2> DEFINE r == Head(walk)
  <2>3. r \in Records /\ attached[r] = "ok" /\ Go("bus", r, "process")
    BY <2>1, <2>2
  <2> HIDE DEF r
  <2> QED BY <2>1, <2>3, SilentStarts DEF Tasks
<1>10. ASSUME NEW k \in Kinds, TakeBusCallback(k)
       PROVE  Silent'
  BY <1>10, SilentStays DEF TakeBusCallback
<1>11. ASSUME NEW s \in Signals, BusSignal(s)
       PROVE  Silent'
  BY <1>11, SilentStays DEF BusSignal
<1>12. ASSUME NEW t \in Tasks, Process(t)
       PROVE  Silent'
  <2>1. UNCHANGED <<rec, attached, data, meant, queued, ioQueued>>
    BY <1>12, ProcessLeaves
  <2>2. ASSUME NEW q \in Records, attached[q] # "ok"
        PROVE  /\ timer'[q] = timer[q] /\ sent'[q] = sent[q] /\ val'[q] = val[q] /\ pact'[q] = pact[q]
               /\ \A u \in Tasks : on'[u] = q => pc'[u] = pc[u] /\ on[u] = q
    <3>1. CASE q = on[t]
      <4>1. Refused(t)
        BY <1>12, <2>2, <3>1, ProcessAttached
      <4> QED BY <2>2, <4>1, Parts, RecordsAssumption DEF Refused, Go, TaskTypes, RecordsAssumption
    <3>2. CASE q # on[t]
      BY <1>12, <3>2, ProcessOthers, RecordsAssumption DEF RecordsAssumption
    <3> QED BY <3>1, <3>2
  <2> QED BY <2>1, <2>2 DEF Silent, IsInput, Kind
<1> QED BY <1>1, <1>2, <1>3, <1>4, <1>5, <1>6, <1>7, <1>8, <1>9, <1>10, <1>11, <1>12 DEF Next

LEMMA WaitsStays ==
  ASSUME Waits, UNCHANGED <<rec, attached, pact, pc, on>>,
         \A r \in Records : status'[r] = "TIMEOUT" => status[r] = "TIMEOUT"
  PROVE  Waits'
  BY DEF Waits, Asks, IsInput, Kind

LEMMA WaitsStarts ==
  ASSUME Inv, Waits, NEW t \in Tasks, NEW r \in Records, Go(t, r, "process") \/ Go(t, r, "dbProcess"),
         UNCHANGED <<rec, attached, pact>>,
         \A q \in Records : status'[q] = "TIMEOUT" => status[q] = "TIMEOUT"
  PROVE  Waits'
<1>1. TaskTypes
  BY Parts
<1>2. \A u \in Tasks \ {t} : pc'[u] = pc[u] /\ on'[u] = on[u]
  BY <1>1 DEF Go, TaskTypes
<1>3. pc'[t] \in {"process", "dbProcess"}
  BY <1>1 DEF Go, TaskTypes
<1> QED BY <1>2, <1>3 DEF Waits, Asks, IsInput, Kind

LEMMA WaitsProcess ==
  ASSUME Inv, Known, Silent, Waits, NEW t \in Tasks, Process(t)
  PROVE  Waits'
<1> DEFINE r == on[t]
<1> USE DEF private, queues, record, ghosts
<1>1. UNCHANGED <<rec, attached>>
  BY ProcessLeaves DEF config, lists
<1>2. TaskTypes /\ RecordTypes /\ StatusTypes /\ r \in Records
  BY Parts, ProcessOthers
<1>3. /\ pact'[r] => pact[r] \/ Suspend(t)
      /\ status'[r] = "TIMEOUT" => status[r] = "TIMEOUT" \/ Suspend(t)
      /\ pc'[t] \in {"request", "timer"} => Asks(r)
      /\ Suspend(t) => Asks(r)
  <2>1. CASE ReadInput(t)
    <3>1. ReadStep(t)
      BY <2>1, ReadSteps
    <3>2. ~Suspend(t)
      BY <3>1 DEF ReadStep, Locks, Suspend
    <3>3. /\ pact'[r] => pact[r]
          /\ status'[r] = status[r]
          /\ pc'[t] \in {"request", "timer"} => Asks(r)
      BY <1>2, <3>1 DEF ReadStep, Go, Complete, TaskTypes, RecordTypes, Asks
    <3> QED BY <3>2, <3>3
  <2>2. CASE WriteOutput(t)
    <3>1. WriteStep(t)
      BY <2>2, WriteSteps
    <3>2. ~Suspend(t)
      BY <3>1 DEF WriteStep, Locks, Suspend
    <3>3. \/ Go(t, r, "alarm") /\ UNCHANGED <<pact, sevr>>
          \/ Complete(t, FALSE) \/ Complete(t, TRUE)
      BY <3>1 DEF WriteStep, Go, Complete
    <3>4. status' = status
      BY <3>1 DEF WriteStep
    <3> QED BY <1>2, <3>2, <3>3, <3>4 DEF Go, Complete, TaskTypes, RecordTypes
  <2>3. CASE Refused(t)
    BY <1>2, <2>3 DEF Refused, Go, TaskTypes, Suspend
  <2>4. CASE RaiseAlarm(t)
    BY <1>2, <2>4 DEF RaiseAlarm, Go, Complete, TaskTypes, RecordTypes, StatusTypes, Suspend
  <2>5. CASE Suspend(t)
    BY <1>2, <2>5 DEF Suspend, Waits
  <2>6. CASE SendRequest(t)
    BY <1>2, <2>6 DEF SendRequest, Go, TaskTypes, Suspend
  <2> QED BY <2>1, <2>2, <2>3, <2>4, <2>5, <2>6 DEF Process
<1>4. /\ \A q \in Records \ {r} : pact'[q] = pact[q] /\ status'[q] = status[q]
      /\ \A u \in Tasks \ {t} : pc'[u] = pc[u] /\ on'[u] = on[u]
      /\ \/ pc'[t] = "idle" /\ on'[t] = None
         \/ pc'[t] \in {"alarm", "request", "timer"} /\ on'[t] = r
  BY ProcessOthers
<1>5. \A q \in Records : Asks(q)' = Asks(q)
  BY <1>1 DEF Asks, IsInput, Kind
<1>6. ASSUME NEW q \in Records, (attached'[q] = "ok" /\ pact'[q]) \/ status'[q] = "TIMEOUT" PROVE Asks(q)'
  BY <1>1, <1>3, <1>4, <1>5, <1>6 DEF Waits
<1>7. ASSUME NEW u \in Tasks, pc'[u] \in {"request", "timer"} PROVE Asks(on[u])'
  BY <1>1, <1>3, <1>4, <1>7 DEF Waits, Asks, IsInput, Kind
<1>8. ASSUME NEW u \in Tasks, pc'[u] = "idle" PROVE on'[u] = None
  BY <1>4, <1>8 DEF Waits
<1> HIDE DEF Asks
<1> QED BY <1>6, <1>7, <1>8 DEF Waits

LEMMA WaitsNext ==
  ASSUME Inv, Known, Silent, Waits, Next
  PROVE  Waits'
<1> USE DEF config, lists, private, queues, record, busVars, taskVars, ghosts
<1>1. ASSUME NEW r \in Records, InitRecord(r)
      PROVE  Waits'
  <2>1. PICK k \in Kinds : Attach(r, k)
    BY <1>1 DEF InitRecord, InitAi, InitBi, InitMbbi, InitMbbiDirect, InitSi, InitAo, InitBo,
                InitMbbo, InitMbboDirect, Kinds, Inputs, Outputs
  <2>2. UNCHANGED <<rec, status, pc, on>> /\ ~pact[r]
    BY <2>1, Parts DEF Attach, Setup
  <2>3. /\ \A q \in Records \ {r} : attached'[q] = attached[q] /\ pact'[q] = pact[q]
        /\ attached'[r] = "ok" => pact' = pact
    BY <2>1, <2>2, Parts DEF Attach, RecordTypes
  <2> QED BY <2>2, <2>3 DEF Waits, Asks, IsInput, Kind
<1>2. ASSUME NEW r \in Records, Scan(r) \/ TakeCallback(r) \/ TakeIoScan(r)
      PROVE  Waits'
  BY <1>2, WaitsStarts DEF Scan, TakeCallback, TakeIoScan, Tasks
<1>3. ASSUME NEW r \in Records, TimerExpires(r) \/ ReceiveRequest(r)
      PROVE  Waits'
  <2>1. \A q \in Records : status'[q] = "TIMEOUT" => status[q] = "TIMEOUT"
    BY <1>3 DEF TimerExpires, ReceiveRequest
  <2> QED BY <1>3, <2>1, WaitsStays DEF TimerExpires, ReceiveRequest
<1>4. CASE AcceptInterrupts
  BY <1>4, WaitsStays DEF AcceptInterrupts
<1>5. CASE ReceiveData
  <2>1. PICK S, v : Receive(S, v)
    BY <1>5 DEF ReceiveData
  <2>2. PICK id, d : Handle(id, d)
    BY <2>1 DEF Receive
  <2>3. \A q \in Records : status'[q] = "TIMEOUT" => status[q] = "TIMEOUT"
    BY <2>2 DEF Handle
  <2> QED BY <2>1, <2>3, WaitsStays DEF Receive
<1>6. CASE busCallback
  <2>1. walk \in Seq(Records) /\ walk # <<>> /\ walking \in Kinds /\ busStatus \in [Kinds -> {"NO_ALARM", "COMM"}]
    BY <1>6, Parts DEF busCallback, BusTypes
  <2> DEFINE r == Head(walk)
  <2>2. r \in Records /\ Go("bus", r, "process") /\ UNCHANGED <<rec, attached, pact>>
    BY <1>6, <2>1 DEF busCallback
  <2>3. \A q \in Records : status'[q] = "TIMEOUT" => status[q] = "TIMEOUT"
    BY <1>6, <2>1, <2>2, Parts DEF busCallback, StatusTypes
  <2> HIDE DEF r
  <2> QED BY <2>2, <2>3, WaitsStarts DEF Tasks
<1>7. ASSUME NEW k \in Kinds, TakeBusCallback(k)
      PROVE  Waits'
  BY <1>7, WaitsStays DEF TakeBusCallback
<1>8. ASSUME NEW s \in Signals, BusSignal(s)
      PROVE  Waits'
  BY <1>8, WaitsStays DEF BusSignal
<1>9. ASSUME NEW t \in Tasks, Process(t)
      PROVE  Waits'
  BY <1>9, WaitsProcess
<1> QED BY <1>1, <1>2, <1>3, <1>4, <1>5, <1>6, <1>7, <1>8, <1>9 DEF Next

LEMMA AnsweredNext ==
  ASSUME Inv, Known, Silent, Waits, Answered, Next
  PROVE  Answered'
<1> USE DEF config, lists, private, queues, record, busVars, taskVars, ghosts
<1>1. ASSUME NEW r \in Records, InitRecord(r)
      PROVE  Answered'
  <2>1. PICK k \in Kinds : Attach(r, k)
    BY <1>1 DEF InitRecord, InitAi, InitBi, InitMbbi, InitMbbiDirect, InitSi, InitAo, InitBo,
                InitMbbo, InitMbboDirect, Kinds, Inputs, Outputs
  <2>2. UNCHANGED <<status, reply>> /\ ~pact[r]
    BY <2>1, Parts DEF Attach, Setup
  <2>3. /\ \A q \in Records \ {r} : attached'[q] = attached[q] /\ pact'[q] = pact[q]
        /\ attached'[r] = "ok" => pact' = pact
    BY <2>1, <2>2, Parts DEF Attach, RecordTypes
  <2> QED BY <2>2, <2>3 DEF Answered
<1>2. ASSUME NEW r \in Records, Scan(r) \/ TakeCallback(r) \/ TakeIoScan(r) \/ TimerExpires(r)
      PROVE  Answered'
  BY <1>2 DEF Scan, TakeCallback, TakeIoScan, TimerExpires, Answered
<1>3. ASSUME NEW r \in Records, ReceiveRequest(r)
      PROVE  Answered'
  <2>1. \A q \in Records : attached[q] = "ok" /\ pact[q] => status'[q] = status[q]
    BY <1>3 DEF ReceiveRequest, Waits, Asks
  <2> QED BY <1>3, <2>1 DEF ReceiveRequest, Answered
<1>4. CASE AcceptInterrupts
  BY <1>4 DEF AcceptInterrupts, Answered
<1>5. CASE ReceiveData
  <2>1. PICK S, v : Receive(S, v)
    BY <1>5 DEF ReceiveData
  <2>2. PICK id, d : Handle(id, d)
    BY <2>1 DEF Receive
  <2>3. \A q \in Records : attached[q] = "ok" /\ pact[q] =>
           \/ status'[q] = status[q] /\ reply'[q] = reply[q]
           \/ reply'[q] = "message"
    BY <2>2 DEF Handle, Waits, Asks
  <2> QED BY <2>1, <2>3 DEF Receive, Answered
<1>6. CASE busCallback
  <2> DEFINE r == Head(walk)
  <2>1. /\ status' = [status EXCEPT ![r] = busStatus[walking]]
        /\ reply' = [reply EXCEPT ![r] = IF pact[r] /\ busStatus[walking] = "NO_ALARM" THEN "recovery" ELSE @]
        /\ UNCHANGED <<attached, pact>>
    BY <1>6 DEF busCallback
  <2>2. StatusTypes /\ ReplyTypes
    BY Parts
  <2> HIDE DEF r
  <2> QED BY <2>1, <2>2 DEF Answered, StatusTypes, ReplyTypes
<1>7. ASSUME NEW k \in Kinds, TakeBusCallback(k)
      PROVE  Answered'
  BY <1>7 DEF TakeBusCallback, Answered
<1>8. ASSUME NEW s \in Signals, BusSignal(s)
      PROVE  Answered'
  BY <1>8 DEF BusSignal, Answered
<1>9. ASSUME NEW t \in Tasks, Process(t)
      PROVE  Answered'
  <2> DEFINE r == on[t]
  <2>1. /\ r \in Records /\ attached' = attached
        /\ \A q \in Records \ {r} : pact'[q] = pact[q] /\ status'[q] = status[q] /\ reply'[q] = reply[q]
    BY <1>9, ProcessOthers, ProcessLeaves
  <2>2. RecordTypes /\ StatusTypes
    BY Parts
  <2>3. \/ (pact'[r] => pact[r]) /\ UNCHANGED <<status, reply>>
        \/ pact'[r] = FALSE \/ status'[r] = "TIMEOUT"
    <3>1. CASE ReadInput(t)
      BY <2>1, <2>2, <3>1, ReadSteps DEF ReadStep, Complete, RecordTypes
    <3>2. CASE WriteOutput(t)
      BY <2>1, <2>2, <3>2, WriteSteps DEF WriteStep, Complete, RecordTypes
    <3>3. CASE RaiseAlarm(t)
      BY <2>1, <2>2, <3>3 DEF RaiseAlarm, Complete, RecordTypes
    <3>4. CASE Suspend(t)
      BY <2>1, <2>2, <3>4 DEF Suspend, StatusTypes
    <3>5. CASE Refused(t) \/ SendRequest(t)
      BY <3>5 DEF Refused, SendRequest
    <3> QED BY <1>9, <3>1, <3>2, <3>3, <3>4, <3>5 DEF Process
  <2> HIDE DEF r
  <2> QED BY <2>1, <2>3 DEF Answered
<1> QED BY <1>1, <1>2, <1>3, <1>4, <1>5, <1>6, <1>7, <1>8, <1>9 DEF Next

LEMMA MeantStays ==
  ASSUME MeantData, UNCHANGED <<rec, attached, inp, data, meant>>
  PROVE  MeantData'
<1>1. \A r \in Records : \A d : Value(r, d)' = Value(r, d)
  BY DEF Value, Kind
<1> QED BY <1>1 DEF MeantData, IsInput, Kind

\* A message is taken by those whom it is for, and they read what it says.
LEMMA Received ==
  ASSUME LegalDatabases, Inv, Known, ReceiveData
  PROVE  \E S \in SUBSET Records : \E v, d, id :
           /\ \A q \in S : attached[q] = "ok" /\ Value(q, Stored(q, d)) = Meaning(q, v[q])
           /\ Handle(id, d) /\ {q \in Records : Takes(q, id, d)} = S
           /\ meant' = [q \in Records |-> IF q \in S THEN <<Meaning(q, v[q])>> ELSE meant[q]]
           /\ UNCHANGED <<config, lists, record, busVars, taskVars>>
<1>1. PICK p, S, v :
        /\ p \in Records /\ attached[p] = "ok" /\ IsInput(p) /\ Receive(S, v)
        /\ S = IF Kind(p) = "si" THEN {p} ELSE SameMessage(p)
  BY DEF ReceiveData
<1>2. Registered /\ Handled
  BY DEF Known
<1>3. Message(S, v)
  <2>1. S \in SUBSET Records /\ \A q \in S : attached[q] = "ok" /\ IsInput(q) /\ MeantFor(q) = MeantFor(p)
    BY <1>1 DEF SameMessage
  <2>2. \A q \in S : v[q] \in rec[q].values
    BY <1>1 DEF Receive
  <2>3. ASSUME NEW q \in S, Kind(q) = "si" PROVE S = {q}
    <3>1. CASE q = p
      BY <1>1, <2>3, <3>1
    <3>2. CASE q # p
      <4>1. Kind(p) # "si"
        BY <1>1, <3>2
      <4>2. Apart(rec[p], rec[q])
        BY <1>1, <1>2, <2>1, <3>2, Entries
      <4> QED BY <2>3, <4>1, <4>2 DEF Apart, Kind
    <3> QED BY <3>1, <3>2
  <2> QED BY <2>1, <2>2, <2>3 DEF Message
<1> DEFINE w == CHOOSE r \in S : TRUE
           id == MeantFor(w)
           d == Wire(S, v)
<1>4. p \in S /\ w \in S
  <2>1. p \in S
    BY <1>1 DEF SameMessage
  <2> QED BY <2>1
<1>5. id < 2048 /\ Handle(id, d)
  BY <1>1 DEF Receive
<1>6. {q \in Records : Takes(q, id, d)} = S
  <2>1. ASSUME Kind(w) # "si" PROVE S = SameMessage(w)
    <3>1. Kind(p) # "si"
      BY <1>1, <1>4, <2>1
    <3>2. MeantFor(w) = MeantFor(p)
      BY <1>3, <1>4 DEF Message
    <3> QED BY <1>1, <3>1, <3>2 DEF SameMessage
  <2> HIDE DEF w
  <2> QED BY <1>2, <1>3, <1>4, <1>5, <2>1, Takers
<1>7. /\ meant' = [q \in Records |-> IF q \in S THEN <<Meaning(q, v[q])>> ELSE meant[q]]
      /\ UNCHANGED <<config, lists, record, busVars, taskVars>>
  BY <1>1 DEF Receive
<1>8. S \in SUBSET Records /\ \A q \in S : attached[q] = "ok"
  BY <1>3 DEF Message
<1>9. \A q \in S : Value(q, Stored(q, d)) = Meaning(q, v[q])
  BY <1>2, <1>3, Understood
<1> HIDE DEF d, id, w
<1> QED BY <1>5, <1>6, <1>7, <1>8, <1>9

LEMMA MeantReceived ==
  ASSUME LegalDatabases, Inv, Known, MeantData, ReceiveData
  PROVE  MeantData'
<1>1. PICK S, v, d, id :
        /\ S \in SUBSET Records
        /\ \A q \in S : attached[q] = "ok" /\ Value(q, Stored(q, d)) = Meaning(q, v[q])
        /\ Handle(id, d) /\ {q \in Records : Takes(q, id, d)} = S
        /\ meant' = [q \in Records |-> IF q \in S THEN <<Meaning(q, v[q])>> ELSE meant[q]]
        /\ UNCHANGED <<config, lists, record, busVars, taskVars>>
  BY Received
<1>2. data' = [r \in Records |-> IF r \in S THEN <<Stored(r, d)>> ELSE data[r]]
  <2>1. data' = [r \in Records |-> IF r \in {q \in Records : Takes(q, id, d)} THEN <<Stored(r, d)>> ELSE data[r]]
    BY <1>1 DEF Handle
  <2> QED BY <1>1, <2>1
<1>3. UNCHANGED <<rec, attached, inp>>
  BY <1>1 DEF config, lists
<1>4. \A r \in Records : \A x : Value(r, x)' = Value(r, x)
  BY <1>3 DEF Value, Kind
<1> SUFFICES ASSUME NEW r \in Records, attached[r] = "ok", IsInput(r)
             PROVE  meant'[r] = IF data'[r] = <<>> THEN <<>> ELSE <<Value(r, data'[r][1])>>
  BY <1>3, <1>4 DEF MeantData, IsInput, Kind
<1> QED BY <1>1, <1>2 DEF MeantData

LEMMA MeantNext ==
  ASSUME LegalDatabases, Inv, Known, Silent, MeantData, Next
  PROVE  MeantData'
<1> USE DEF config, lists, private, ghosts
<1>1. ASSUME NEW r \in Records, InitRecord(r)
      PROVE  MeantData'
  <2>1. PICK k \in Kinds : Attach(r, k)
    BY <1>1 DEF InitRecord, InitAi, InitBi, InitMbbi, InitMbbiDirect, InitSi, InitAo, InitBo,
                InitMbbo, InitMbboDirect, Kinds, Inputs, Outputs
  <2>2. UNCHANGED <<rec, data, meant>> /\ data[r] = <<>> /\ meant[r] = <<>>
    BY <2>1 DEF Attach, Silent
  <2>3. \A q \in Records \ {r} : attached'[q] = attached[q] /\ inp'[q] = inp[q]
    <3>1. inp' = [inp EXCEPT ![r] = CanIoParse(rec[r].addr)] /\ DOMAIN inp = Records
      BY <2>1 DEF Attach, Known, Shapes
    <3>2. \A q \in Records \ {r} : attached'[q] = attached[q]
      BY <2>1, Parts DEF Attach, RecordTypes
    <3> QED BY <3>1, <3>2
  <2>4. \A q \in Records \ {r} : \A d : Value(q, d)' = Value(q, d)
    BY <2>2, <2>3 DEF Value, Kind
  <2> QED BY <2>2, <2>3, <2>4 DEF MeantData, IsInput, Kind
<1>2. CASE ReceiveData
  BY <1>2, MeantReceived
<1>3. ASSUME NEW r \in Records, Scan(r) \/ TakeCallback(r) \/ TakeIoScan(r) \/ TimerExpires(r) \/ ReceiveRequest(r)
      PROVE  MeantData'
  BY <1>3, MeantStays DEF Scan, TakeCallback, TakeIoScan, TimerExpires, ReceiveRequest
<1>4. CASE AcceptInterrupts \/ busCallback
  BY <1>4, MeantStays DEF AcceptInterrupts, busCallback
<1>5. ASSUME NEW k \in Kinds, TakeBusCallback(k)
      PROVE  MeantData'
  BY <1>5, MeantStays DEF TakeBusCallback
<1>6. ASSUME NEW s \in Signals, BusSignal(s)
      PROVE  MeantData'
  BY <1>6, MeantStays DEF BusSignal
<1>7. ASSUME NEW t \in Tasks, Process(t)
      PROVE  MeantData'
  BY <1>7, MeantStays, ProcessLeaves
<1> QED BY <1>1, <1>2, <1>3, <1>4, <1>5, <1>6, <1>7 DEF Next

LEMMA SendingStays ==
  ASSUME Sending, UNCHANGED <<rec, attached, inp, val, sevr, sent>>,
         \A t \in Tasks : pc[t] = "alarm" => pc'[t] = "alarm" /\ on'[t] = on[t]
  PROVE  Sending'
<1>1. ASSUME NEW r \in Records PROVE /\ \A d : ReadBack(r, d)' = ReadBack(r, d)
                                     /\ \A v : Rounded(r, v)' = Rounded(r, v)
  BY DEF ReadBack, Rounded, Kind
<1> QED BY <1>1 DEF Sending, IsInput, Kind

LEMMA SendingWrite ==
  ASSUME LegalDatabases, Inv, Known, Sending, NEW t \in Tasks, WriteOutput(t), attached[on[t]] = "ok"
  PROVE  LET r == on[t] IN
         /\ \E v \in rec[r].values \cup {0} : val'[r] = <<v>>
         /\ sent'[r] # <<>> => \/ sevr'[r] \/ ReadBack(r, sent'[r][1]) = Rounded(r, val'[r][1])
                               \/ on'[t] = r /\ pc'[t] = "alarm"
<1> DEFINE r == on[t]
<1>1. WriteStep(t)
  BY WriteSteps
<1>2. r \in Records /\ ~IsInput(r) /\ TaskTypes /\ RecordTypes /\ Shapes /\ Registered
  BY <1>1, Parts DEF WriteStep, Locks, TaskTypes, Known
<1>3. PICK v \in rec[r].values \cup {0} : val'[r] = <<v>>
  <2>1. CASE UNCHANGED val
    BY <1>2, <2>1 DEF Sending
  <2>2. CASE \E v \in rec[r].values : val' = [val EXCEPT ![r] = <<v>>]
    BY <1>2, <2>2 DEF Shapes
  <2> QED BY <1>1, <2>1, <2>2 DEF WriteStep, NewValue
<1>4. CASE Go(t, r, "alarm")
  BY <1>2, <1>3, <1>4 DEF Go, TaskTypes
<1>5. CASE Complete(t, TRUE)
  BY <1>2, <1>3, <1>5 DEF Complete, RecordTypes
<1>6. CASE sent' = [sent EXCEPT ![r] = <<MessageOf(r, val'[r][1])>>]
  <2>1. sent'[r] = <<MessageOf(r, v)>>
    BY <1>2, <1>3, <1>6 DEF Shapes
  <2>2. ReadBack(r, MessageOf(r, v)) = Rounded(r, v)
    BY <1>2, SentUnderstood
  <2> QED BY <1>3, <2>1, <2>2
<1> QED BY <1>1, <1>4, <1>5, <1>6 DEF WriteStep

LEMMA SendingNext ==
  ASSUME LegalDatabases, Inv, Known, Silent, Waits, Sending, Next
  PROVE  Sending'
<1> USE DEF config, lists, private, queues, record, busVars, taskVars, ghosts
<1>1. ASSUME NEW r \in Records, InitRecord(r)
      PROVE  Sending'
  <2>1. PICK k \in Kinds : Attach(r, k)
    BY <1>1 DEF InitRecord, InitAi, InitBi, InitMbbi, InitMbbiDirect, InitSi, InitAo, InitBo,
                InitMbbo, InitMbboDirect, Kinds, Inputs, Outputs
  <2>2. /\ UNCHANGED <<rec, val, sevr, sent, pc, on>> /\ sent[r] = <<>>
        /\ val[r] = IF IsInput(r) THEN <<>> ELSE <<0>>
    BY <2>1 DEF Attach, Silent
  <2>3. \A q \in Records \ {r} : attached'[q] = attached[q] /\ inp'[q] = inp[q]
    <3>1. inp' = [inp EXCEPT ![r] = CanIoParse(rec[r].addr)] /\ DOMAIN inp = Records
      BY <2>1 DEF Attach, Known, Shapes
    <3>2. \A q \in Records \ {r} : attached'[q] = attached[q]
      BY <2>1, Parts DEF Attach, RecordTypes
    <3> QED BY <3>1, <3>2
  <2>4. ASSUME NEW q \in Records \ {r} PROVE /\ \A d : ReadBack(q, d)' = ReadBack(q, d)
                                             /\ \A v : Rounded(q, v)' = Rounded(q, v)
    BY <2>2, <2>3 DEF ReadBack, Rounded, Kind
  <2> QED BY <2>2, <2>3, <2>4 DEF Sending, IsInput, Kind
<1>2. ASSUME NEW r \in Records, NEW t \in Tasks, NEW p, Go(t, r, p), pc[t] = "idle",
             UNCHANGED <<rec, attached, inp, val, sevr, sent>>
      PROVE  Sending'
  BY <1>2, SendingStays, Parts DEF Go, TaskTypes
<1>3. ASSUME NEW r \in Records, Scan(r) \/ TakeCallback(r) \/ TakeIoScan(r)
      PROVE  Sending'
  BY <1>2, <1>3 DEF Scan, TakeCallback, TakeIoScan, Tasks
<1>4. ASSUME NEW r \in Records, TimerExpires(r) \/ ReceiveRequest(r)
      PROVE  Sending'
  BY <1>4, SendingStays DEF TimerExpires, ReceiveRequest
<1>5. CASE AcceptInterrupts \/ ReceiveData
  BY <1>5, SendingStays DEF AcceptInterrupts, ReceiveData, Receive
<1>6. CASE busCallback
  <2>1. Head(walk) \in Records
    BY <1>6, Parts DEF busCallback, BusTypes
  <2> QED BY <1>2, <1>6, <2>1 DEF busCallback, Tasks
<1>7. ASSUME NEW k \in Kinds, TakeBusCallback(k)
      PROVE  Sending'
  BY <1>7, SendingStays DEF TakeBusCallback
<1>8. ASSUME NEW s \in Signals, BusSignal(s)
      PROVE  Sending'
  BY <1>8, SendingStays DEF BusSignal
<1>9. ASSUME NEW t \in Tasks, Process(t)
      PROVE  Sending'
  <2> DEFINE r == on[t]
  <2>1. /\ r \in Records /\ UNCHANGED <<rec, attached, inp>>
        /\ \A u \in Tasks \ {t} : pc'[u] = pc[u] /\ on'[u] = on[u]
        /\ \A q \in Records \ {r} : sevr'[q] = sevr[q] /\ val'[q] = val[q] /\ sent'[q] = sent[q]
    BY <1>9, ProcessOthers, ProcessLeaves
  <2>2. ASSUME NEW q \in Records PROVE /\ \A d : ReadBack(q, d)' = ReadBack(q, d)
                                       /\ \A v : Rounded(q, v)' = Rounded(q, v)
                                       /\ IsInput(q)' = IsInput(q)
    BY <2>1 DEF ReadBack, Rounded, Kind, IsInput
  <2> SUFFICES ASSUME NEW q \in Records, attached[q] = "ok", ~IsInput(q)
               PROVE  /\ \E v \in rec[q].values \cup {0} : val'[q] = <<v>>
                      /\ sent'[q] # <<>> => \/ sevr'[q] \/ ReadBack(q, sent'[q][1]) = Rounded(q, val'[q][1])
                                            \/ \E u \in Tasks : on'[u] = q /\ pc'[u] = "alarm"
    BY <2>1, <2>2 DEF Sending
  <2>3. CASE q # r
    BY <2>1, <2>3 DEF Sending
  <2>4. CASE q = r /\ WriteOutput(t)
    BY <2>4, SendingWrite
  <2>5. CASE q = r /\ RaiseAlarm(t)
    <3>1. sevr'[r] = TRUE
      BY <2>1, <2>5, Parts DEF RaiseAlarm, Complete, RecordTypes
    <3>2. UNCHANGED <<val, sent>>
      BY <2>5 DEF RaiseAlarm
    <3> QED BY <2>5, <3>1, <3>2 DEF Sending
  <2>6. CASE q = r /\ Refused(t)
    <3>1. UNCHANGED <<val, sevr, sent>> /\ pc[t] = "dbProcess"
      BY <2>6 DEF Refused
    <3> QED BY <2>1, <2>6, <3>1 DEF Sending
  <2>7. q = r => ~ReadInput(t)
    BY ReadSteps DEF ReadStep
  <2>8. q = r => ~Suspend(t) /\ ~SendRequest(t)
    BY DEF Suspend, SendRequest, Waits, Asks
  <2> QED BY <1>9, <2>3, <2>4, <2>5, <2>6, <2>7, <2>8 DEF Process
<1> QED BY <1>1, <1>3, <1>4, <1>5, <1>6, <1>7, <1>8, <1>9 DEF Next

LEMMA ReaderTypes ==
  ASSUME NEW t, NEW r
  PROVE  Reader(t, r) \in {0, 1}
  BY DEF Reader

\* Only one task or queue changes how often a record is going to be read.
LEMMA ReadsOf ==
  ASSUME QueueTypes, QueueTypes', NEW r \in Records, NEW t \in Tasks,
         \A u \in Tasks \ {t} : on'[u] = on[u] /\ pc'[u] = pc[u]
  PROVE  /\ Reads(r) \in Nat
         /\ Reads(r)' = Reads(r) + ioQueued'[r] - ioQueued[r] + Reader(t, r)' - Reader(t, r)
<1>1. /\ ioQueued[r] \in Nat /\ ioQueued'[r] \in Nat
      /\ \A u \in Tasks : Reader(u, r) \in {0, 1} /\ Reader(u, r)' \in {0, 1}
  BY ReaderTypes DEF QueueTypes, Reader
<1>2. \A u \in Tasks \ {t} : Reader(u, r)' = Reader(u, r)
  BY DEF Reader
<1>3. Reads(r) = ioQueued[r] + Reader("scan", r) + Reader("callback", r) + Reader("bus", r)
  BY DEF Reads
<1>4. Reads(r)' = ioQueued'[r] + Reader("scan", r)' + Reader("callback", r)' + Reader("bus", r)'
  BY DEF Reads
<1>5. CASE t = "scan"
  BY <1>1, <1>2, <1>3, <1>4, <1>5 DEF Tasks
<1>6. CASE t = "callback"
  BY <1>1, <1>2, <1>3, <1>4, <1>6 DEF Tasks
<1>7. CASE t = "bus"
  BY <1>1, <1>2, <1>3, <1>4, <1>7 DEF Tasks
<1> QED BY <1>5, <1>6, <1>7 DEF Tasks

LEMMA ReadsSame ==
  ASSUME NEW r \in Records, ioQueued'[r] = ioQueued[r], UNCHANGED <<pc, on>>
  PROVE  Reads(r)' = Reads(r)
  BY DEF Reads, Reader

\* What Coming says of one record.
Comes(r) ==
  attached[r] = "ok" /\ IsInput(r) /\ rec[r].ioEvent /\ val[r] # meant[r] =>
    /\ Reads(r) >= 1
    /\ status[r] # "NO_ALARM" => Reads(r) >= 2 \/ \E t \in Tasks : on[t] = r /\ pc[t] = "alarm"

LEMMA ComingStays ==
  ASSUME Coming, UNCHANGED <<rec, attached, val, pc, on>>,
         NEW r \in Records, meant'[r] = meant[r], ioQueued'[r] = ioQueued[r], status'[r] = status[r]
  PROVE  Comes(r)'
  BY ReadsSame DEF Coming, Comes, IsInput, Kind

\* A task takes up a record.
LEMMA ComingStarts ==
  ASSUME Inv, QueueTypes', Coming, NEW t \in Tasks, pc[t] = "idle", NEW r \in Records,
         Go(t, r, "process") \/ Go(t, r, "dbProcess"), UNCHANGED <<rec, attached, val, meant>>,
         NEW q \in Records, ioQueued'[q] = ioQueued[q] \/ (q = r /\ ioQueued'[q] = ioQueued[q] - 1),
         status'[q] = status[q] \/ (q = r /\ ioQueued'[q] = ioQueued[q])
  PROVE  Comes(q)'
<1>1. TaskTypes /\ QueueTypes
  BY Parts
<1>2. /\ \A u \in Tasks \ {t} : on'[u] = on[u] /\ pc'[u] = pc[u]
      /\ on'[t] = r /\ pc'[t] \in {"process", "dbProcess"}
  BY <1>1 DEF Go, TaskTypes
<1>3. Reader(t, q) = 0 /\ Reader(t, q)' = IF q = r THEN 1 ELSE 0
  BY <1>2 DEF Reader
<1>4. /\ Reads(q) \in Nat
      /\ Reads(q)' = Reads(q) + ioQueued'[q] - ioQueued[q] + Reader(t, q)' - Reader(t, q)
  BY <1>1, <1>2, ReadsOf
<1>5. ioQueued[q] \in Nat /\ ioQueued'[q] \in Nat
  BY <1>1 DEF QueueTypes
<1>6. /\ Reads(q)' >= Reads(q) /\ Reads(q)' \in Int
      /\ status'[q] = status[q] \/ Reads(q)' = Reads(q) + 1
  BY <1>3, <1>4, <1>5
<1>7. \A u \in Tasks : on[u] = q /\ pc[u] = "alarm" => on'[u] = q /\ pc'[u] = "alarm"
  BY <1>2
<1> SUFFICES ASSUME attached[q] = "ok", IsInput(q), rec[q].ioEvent, val[q] # meant[q]
             PROVE  /\ Reads(q)' >= 1
                    /\ status'[q] # "NO_ALARM" => Reads(q)' >= 2 \/ \E u \in Tasks : on'[u] = q /\ pc'[u] = "alarm"
  BY DEF Comes, IsInput, Kind
<1>8. /\ Reads(q) >= 1
      /\ status[q] # "NO_ALARM" => Reads(q) >= 2 \/ \E u \in Tasks : on[u] = q /\ pc[u] = "alarm"
  BY DEF Coming
<1> QED BY <1>4, <1>6, <1>7, <1>8

\* A task reads the record, or gives up an alarm's place to the next read.
LEMMA ComingProcess ==
  ASSUME Inv, QueueTypes', Known, Silent, Waits, MeantData, Coming, NEW t \in Tasks, Process(t), NEW q \in Records
  PROVE  Comes(q)'
<1> DEFINE r == on[t]
<1> USE DEF private, queues, record, ghosts
<1>1. /\ r \in Records /\ UNCHANGED <<rec, attached, data, meant, ioQueued>>
      /\ \A u \in Tasks \ {t} : pc'[u] = pc[u] /\ on'[u] = on[u]
      /\ \/ pc'[t] = "idle" /\ on'[t] = None
         \/ pc'[t] \in {"alarm", "request", "timer"} /\ on'[t] = r
      /\ \A p \in Records \ {r} : status'[p] = status[p] /\ val'[p] = val[p]
  BY ProcessOthers, ProcessLeaves DEF config, lists
<1>2. TaskTypes /\ QueueTypes /\ QueueTypes' /\ RecordTypes /\ StatusTypes /\ Shapes
  BY Parts DEF Known
<1>3. /\ Reads(q) \in Nat
      /\ Reads(q)' = Reads(q) + Reader(t, q)' - Reader(t, q)
      /\ Reader(t, q)' = 0 /\ Reader(t, q) \in {0, 1}
  <2>1. Reader(t, q)' = 0
    BY <1>1 DEF Reader
  <2>2. ioQueued[q] \in Nat /\ ioQueued'[q] = ioQueued[q]
    BY <1>1, <1>2 DEF QueueTypes
  <2> QED BY <1>1, <1>2, <2>1, <2>2, ReadsOf, ReaderTypes
<1> SUFFICES ASSUME attached[q] = "ok", IsInput(q), rec[q].ioEvent, val'[q] # meant[q]
             PROVE  /\ Reads(q)' >= 1
                    /\ status'[q] # "NO_ALARM" => Reads(q)' >= 2 \/ \E u \in Tasks : on'[u] = q /\ pc'[u] = "alarm"
  BY <1>1 DEF Comes, IsInput, Kind
<1>4. val[q] # meant[q] =>
        /\ Reads(q) >= 1
        /\ status[q] # "NO_ALARM" => Reads(q) >= 2 \/ \E u \in Tasks : on[u] = q /\ pc[u] = "alarm"
  BY DEF Coming
<1>5. CASE q # r
  <2>1. Reader(t, q) = 0
    BY <1>5 DEF Reader
  <2> QED BY <1>1, <1>3, <1>4, <1>5, <2>1
<1>6. CASE q = r
  <2>1. ~Asks(q)
    BY DEF Asks
  <2>2. ~pact[q] /\ ~Suspend(t) /\ ~SendRequest(t)
    BY <1>6, <2>1 DEF Waits, Suspend, SendRequest
  <2>3. ~Refused(t)
    BY <1>6, <2>2 DEF Refused
  <2>4. ~WriteOutput(t)
    BY <1>6, WriteSteps DEF WriteStep
  <2>5. CASE RaiseAlarm(t)
    <3>1. status'[q] = "NO_ALARM" /\ val' = val /\ pc[t] = "alarm"
      BY <1>2, <1>6, <2>5 DEF RaiseAlarm, StatusTypes
    <3>2. Reader(t, q) = 0
      BY <3>1 DEF Reader
    <3> QED BY <1>3, <1>4, <3>1, <3>2
  <2>6. CASE ReadInput(t)
    <3>1. ReadStep(t)
      BY <2>6, ReadSteps
    <3>2. status'[q] = status[q] /\ \A u \in Tasks : ~(on[u] = q /\ pc[u] = "alarm")
      BY <1>6, <3>1 DEF ReadStep, Locks, Unlocked, Holds
    <3>3. CASE status[q] # "NO_ALARM"
      <4>1. val' = val /\ Go(t, q, "alarm")
        BY <1>6, <3>1, <3>3 DEF ReadStep
      <4>2. on'[t] = q /\ pc'[t] = "alarm"
        BY <1>2, <4>1 DEF Go, TaskTypes
      <4> QED BY <1>3, <1>4, <3>2, <3>3, <4>1, <4>2
    <3>4. CASE status[q] = "NO_ALARM"
      <4>1. val' = [val EXCEPT ![q] = IF data[q] = <<>> THEN <<>> ELSE <<Value(q, data[q][1])>>]
        BY <1>6, <3>1, <3>4 DEF ReadStep
      <4>2. val'[q] = IF data[q] = <<>> THEN <<>> ELSE <<Value(q, data[q][1])>>
        BY <1>2, <4>1 DEF Shapes
      <4>3. val'[q] = meant[q]
        BY <4>2 DEF MeantData
      <4> QED BY <4>3
    <3> QED BY <3>3, <3>4
  <2> QED BY <2>2, <2>3, <2>4, <2>5, <2>6 DEF Process
<1> QED BY <1>5, <1>6

LEMMA ComingNext ==
  ASSUME LegalDatabases, Inv, QueueTypes', Known, Silent, Waits, MeantData, Coming, Next
  PROVE  Coming'
<1> USE DEF config, lists, private, queues, record, busVars, taskVars, ghosts
<1>0. TaskTypes /\ QueueTypes /\ QueueTypes' /\ RecordTypes
  BY Parts
<1> SUFFICES ASSUME NEW q \in Records PROVE Comes(q)'
  BY DEF Coming, Comes
<1>1. ASSUME NEW r \in Records, InitRecord(r)
      PROVE  Comes(q)'
  <2>1. PICK k \in Kinds : Attach(r, k)
    BY <1>1 DEF InitRecord, InitAi, InitBi, InitMbbi, InitMbbiDirect, InitSi, InitAo, InitBo,
                InitMbbo, InitMbboDirect, Kinds, Inputs, Outputs
  <2>2. /\ UNCHANGED <<rec, val, meant, status, ioQueued, pc, on>> /\ meant[r] = <<>>
        /\ val[r] = IF IsInput(r) THEN <<>> ELSE <<0>>
    BY <2>1 DEF Attach, Silent
  <2>3. \A p \in Records \ {r} : attached'[p] = attached[p]
    BY <1>0, <2>1 DEF Attach, RecordTypes
  <2>4. Reads(q)' = Reads(q)
    BY <2>2, ReadsSame
  <2> QED BY <2>2, <2>3, <2>4 DEF Coming, Comes, IsInput, Kind
<1>2. ASSUME NEW r \in Records, Scan(r)
      PROVE  Comes(q)'
  BY <1>0, <1>2, ComingStarts DEF Scan, Tasks
<1>3. ASSUME NEW r \in Records, TakeCallback(r)
      PROVE  Comes(q)'
  BY <1>0, <1>3, ComingStarts DEF TakeCallback, Tasks
<1>4. ASSUME NEW r \in Records, TakeIoScan(r)
      PROVE  Comes(q)'
  <2>1. ioQueued'[q] = ioQueued[q] \/ (q = r /\ ioQueued'[q] = ioQueued[q] - 1)
    BY <1>0, <1>4 DEF TakeIoScan, QueueTypes
  <2> QED BY <1>0, <1>4, <2>1, ComingStarts DEF TakeIoScan, Tasks
<1>5. ASSUME NEW r \in Records, TimerExpires(r)
      PROVE  Comes(q)'
  BY <1>5, ComingStays DEF TimerExpires
<1>6. ASSUME NEW r \in Records, ReceiveRequest(r)
      PROVE  Comes(q)'
  <2>1. CASE IsInput(q)
    <3>1. ioQueued'[q] = ioQueued[q] /\ status'[q] = status[q]
      BY <1>6, <2>1 DEF ReceiveRequest
    <3> QED BY <1>6, <3>1, ComingStays DEF ReceiveRequest
  <2>2. CASE ~IsInput(q)
    BY <1>6, <2>2 DEF ReceiveRequest, Comes, IsInput, Kind
  <2> QED BY <2>1, <2>2
<1>7. CASE AcceptInterrupts
  BY <1>7, ComingStays DEF AcceptInterrupts
<1>8. CASE ReceiveData
  <2>1. PICK S, v, d, id :
          /\ S \in SUBSET Records
          /\ Handle(id, d) /\ {p \in Records : Takes(p, id, d)} = S
          /\ meant' = [p \in Records |-> IF p \in S THEN <<Meaning(p, v[p])>> ELSE meant[p]]
          /\ UNCHANGED <<config, lists, record, busVars, taskVars>>
    BY <1>8, Received
  <2>2. q \in S <=> Takes(q, id, d)
    BY <2>1
  <2>3. CASE q \notin S
    <3>1. ioQueued'[q] = ioQueued[q] /\ status'[q] = status[q] /\ meant'[q] = meant[q]
      BY <2>1, <2>2, <2>3 DEF Handle
    <3> QED BY <2>1, <3>1, ComingStays
  <2>4. CASE q \in S /\ rec[q].ioEvent
    <3>1. status'[q] = "NO_ALARM" /\ ioQueued'[q] = ioQueued[q] + 1
      BY <2>1, <2>2, <2>4 DEF Handle
    <3>2. /\ Reads(q) \in Nat /\ ioQueued[q] \in Nat
          /\ Reads(q)' = Reads(q) + ioQueued'[q] - ioQueued[q] + Reader("scan", q)' - Reader("scan", q)
          /\ Reader("scan", q)' = Reader("scan", q) /\ Reader("scan", q) \in {0, 1}
      BY <1>0, <2>1, ReadsOf, ReaderTypes DEF Tasks, QueueTypes, Reader
    <3>3. Reads(q)' >= 1
      BY <3>1, <3>2
    <3> QED BY <3>1, <3>3 DEF Comes
  <2>5. CASE ~rec[q].ioEvent
    BY <2>1, <2>5 DEF Comes
  <2> QED BY <2>3, <2>4, <2>5
<1>9. CASE busCallback
  <2>1. walk \in Seq(Records) /\ walk # <<>>
    BY <1>9, Parts DEF busCallback, BusTypes
  <2> DEFINE r == Head(walk)
  <2>2. r \in Records /\ Go("bus", r, "process") /\ pc["bus"] = "idle" /\ UNCHANGED <<rec, attached, val, meant, ioQueued>>
    BY <1>9, <2>1 DEF busCallback
  <2>3. status'[q] = status[q] \/ q = r
    BY <1>9, Parts DEF busCallback, StatusTypes
  <2> HIDE DEF r
  <2> QED BY <1>0, <2>2, <2>3, ComingStarts DEF Tasks
<1>10. ASSUME NEW k \in Kinds, TakeBusCallback(k)
       PROVE  Comes(q)'
  BY <1>10, ComingStays DEF TakeBusCallback
<1>11. ASSUME NEW s \in Signals, BusSignal(s)
       PROVE  Comes(q)'
  BY <1>11, ComingStays DEF BusSignal
<1>12. ASSUME NEW t \in Tasks, Process(t)
       PROVE  Comes(q)'
  BY <1>12, ComingProcess
<1> QED BY <1>1, <1>2, <1>3, <1>4, <1>5, <1>6, <1>7, <1>8, <1>9, <1>10, <1>11, <1>12 DEF Next

-----------------------------------------------------------------------------
(* The theorems.                                                           *)

LEMMA InitValues == LegalDatabases /\ Init => ValuesInv
<1> SUFFICES ASSUME LegalDatabases, Init PROVE ValuesInv
  OBVIOUS
<1>1. Known
  <2>1. Registered
    BY DEF Init, Registered
  <2>2. Handled
    BY DEF Init, Handled
  <2>3. Listed
    BY DEF Init, Listed
  <2>4. Shapes
    BY DEF Init, Shapes
  <2> QED BY <2>1, <2>2, <2>3, <2>4 DEF Known
<1>2. Silent
  BY RecordsAssumption DEF Init, Silent, RecordsAssumption
<1>3. Waits /\ Answered
  BY DEF Init, Waits, Answered
<1>4. MeantData /\ Sending /\ Coming
  BY DEF Init, MeantData, Sending, Coming
<1> QED BY <1>1, <1>2, <1>3, <1>4 DEF ValuesInv

LEMMA StutterValues == ValuesInv /\ UNCHANGED vars => ValuesInv'
<1> SUFFICES ASSUME ValuesInv, UNCHANGED vars PROVE ValuesInv'
  OBVIOUS
<1> USE DEF ValuesInv
<1>1. UNCHANGED <<rec, running, attached, inp, privates, handlers, status, data, pact, timer, queued, ioQueued,
                  val, sevr, pc, on, walk, sent, meant, reply>>
  BY DEF vars, config, lists, private, queues, record, busVars, taskVars, ghosts
<1>2. Known'
  BY <1>1, KnownStays
<1>3. Silent'
  BY <1>1, SilentStays
<1>4. Waits'
  BY <1>1, WaitsStays
<1>5. Answered'
  BY <1>1 DEF Answered
<1>6. MeantData'
  BY <1>1, MeantStays
<1>7. Sending'
  BY <1>1, SendingStays
<1>8. Coming'
  <2>1. \A r \in Records : Comes(r)'
    BY <1>1, ComingStays
  <2> QED BY <2>1 DEF Coming, Comes
<1> QED BY <1>2, <1>3, <1>4, <1>5, <1>6, <1>7, <1>8

LEMMA NextValues ==
  ASSUME LegalDatabases, Inv, ValuesInv, [Next]_vars
  PROVE  ValuesInv'
<1>1. CASE Next
  <2>1. Inv'
    BY NextInv
  <2>2. QueueTypes'
    BY <2>1 DEF Inv, TypeOK, QueueTypes
  <2> QED BY <1>1, <2>2, KnownNext, SilentNext, WaitsNext, AnsweredNext, MeantNext, SendingNext, ComingNext
          DEF ValuesInv
<1>2. CASE UNCHANGED vars
  BY <1>2, StutterValues
<1> QED BY <1>1, <1>2

\* What the invariant says to somebody who looks at the records.
LEMMA ValuesLatest == ValuesInv => LatestValue
<1> SUFFICES ASSUME ValuesInv, NEW r \in Records, attached[r] = "ok", IsInput(r), rec[r].ioEvent, ioQueued[r] = 0,
                    \A t \in Tasks : on[t] # r
             PROVE  val[r] = meant[r]
  BY DEF LatestValue
<1>1. Reader("scan", r) = 0 /\ Reader("callback", r) = 0 /\ Reader("bus", r) = 0
  BY DEF Reader, Tasks
<1>2. Reads(r) = 0
  BY <1>1 DEF Reads
<1> QED BY <1>2 DEF ValuesInv, Coming

LEMMA ValuesSent == ValuesInv => OutputOrAlarm
  BY DEF ValuesInv, Sending, OutputOrAlarm, Holds

\* In a legal database an I/O Intr input has the value that the last message meant
\* for it whenever nobody processes it, whatever the number of records, messages,
\* clients and bus errors (aiMessage, read_ai, busCallback and their like).
THEOREM InputsHaveLatestValue == LegalDatabases => (Spec => []LatestValue)
<1> SUFFICES ASSUME LegalDatabases PROVE Spec => []LatestValue
  OBVIOUS
<1>1. Init => Inv /\ ValuesInv
  BY InitInv, InitValues
<1>2. Inv /\ ValuesInv /\ [Next]_vars => Inv' /\ ValuesInv'
  BY NextInv, NextValues
<1> QED BY <1>1, <1>2, ValuesLatest, PTL DEF Spec

\* In a legal database an output that nobody processes has sent its value as an
\* input with the same address reads it, or is in alarm; no order of clients, bus
\* errors and requests loses both (write_ao, canWrite, busCallback and their like).
THEOREM OutputsSentOrInAlarm == LegalDatabases => (Spec => []OutputOrAlarm)
<1> SUFFICES ASSUME LegalDatabases PROVE Spec => []OutputOrAlarm
  OBVIOUS
<1>1. Init => Inv /\ ValuesInv
  BY InitInv, InitValues
<1>2. Inv /\ ValuesInv /\ [Next]_vars => Inv' /\ ValuesInv'
  BY NextInv, NextValues
<1> QED BY <1>1, <1>2, ValuesSent, PTL DEF Spec

\* A record that stops waiting without an alarm has had an answer or the recovery
\* of the bus, and after an answer its value is the one of the last message.
LEMMA FreshStep ==
  ASSUME Inv, ValuesInv, Next, NEW r \in Records, pact[r], ~pact'[r], ~sevr'[r]
  PROVE  reply[r] # "none" /\ (reply[r] = "message" => val'[r] = meant[r])
<1> USE DEF config, lists, private, queues, record, busVars, taskVars, ghosts, ValuesInv
<1>1. PICK t \in Tasks : Process(t)
  <2>1. \A q \in Records : ~InitRecord(q)
    <3>1. ASSUME NEW q \in Records, NEW k \in Kinds, Attach(q, k) PROVE FALSE
      BY <3>1, Parts DEF Attach, Setup, RecordTypes
    <3> QED BY <3>1 DEF InitRecord, InitAi, InitBi, InitMbbi, InitMbbiDirect, InitSi, InitAo, InitBo,
                        InitMbbo, InitMbboDirect, Kinds, Inputs, Outputs
  <2>2. \A q \in Records : ~(Scan(q) \/ TakeCallback(q) \/ TakeIoScan(q) \/ TimerExpires(q) \/ ReceiveRequest(q))
    BY DEF Scan, TakeCallback, TakeIoScan, TimerExpires, ReceiveRequest
  <2>3. ~AcceptInterrupts /\ ~ReceiveData /\ ~busCallback
    BY DEF AcceptInterrupts, ReceiveData, Receive, busCallback
  <2>4. ~(\E k \in Kinds : TakeBusCallback(k)) /\ ~(\E s \in Signals : BusSignal(s))
    BY DEF TakeBusCallback, BusSignal
  <2> QED BY <2>1, <2>2, <2>3, <2>4 DEF Next
<1>2. RecordTypes /\ Shapes /\ on[t] \in Records
  BY <1>1, ProcessOthers, Parts DEF Known
<1>3. r = on[t]
  BY <1>1, ProcessOthers
<1>4. attached[r] = "ok"
  <2>1. ~Refused(t)
    BY DEF Refused
  <2> QED BY <1>1, <1>3, <2>1, ProcessAttached
<1>5. Asks(r)
  BY <1>4 DEF Waits
<1>6. ReadStep(t)
  <2>1. ~WriteOutput(t)
    BY <1>3, <1>5, WriteSteps DEF WriteStep, Asks
  <2>2. ~Refused(t) /\ ~SendRequest(t)
    BY DEF Refused, SendRequest
  <2>3. ~Suspend(t)
    BY <1>2, <1>3 DEF Suspend, RecordTypes
  <2>4. ~RaiseAlarm(t)
    BY <1>2, <1>3 DEF RaiseAlarm, Complete, RecordTypes
  <2> QED BY <1>1, <2>1, <2>2, <2>3, <2>4, ReadSteps DEF Process
<1>7. /\ status[r] = "NO_ALARM"
      /\ val' = [val EXCEPT ![r] = IF data[r] = <<>> THEN <<>> ELSE <<Value(r, data[r][1])>>]
  BY <1>3, <1>6 DEF ReadStep
<1>8. val'[r] = IF data[r] = <<>> THEN <<>> ELSE <<Value(r, data[r][1])>>
  BY <1>2, <1>7 DEF Shapes
<1>9. val'[r] = meant[r]
  BY <1>4, <1>5, <1>8 DEF MeantData, Asks
<1>10. reply[r] # "none"
  BY <1>4, <1>7 DEF Answered
<1> QED BY <1>9, <1>10

\* In a legal database no record that waits ends its wait without an alarm, unless
\* an answer or the recovery of the bus came since it asked, and then with the
\* value of the last message; a stale value is never taken for an answer, however
\* answers, timeouts and bus errors cross (read_ai, aiMessage, busCallback).
THEOREM WaitsEndWithFreshData == LegalDatabases => (Spec => FreshData)
<1> SUFFICES ASSUME LegalDatabases PROVE Spec => FreshData
  OBVIOUS
<1>1. Init => Inv /\ ValuesInv
  BY InitInv, InitValues
<1>2. Inv /\ ValuesInv /\ [Next]_vars => Inv' /\ ValuesInv'
  BY NextInv, NextValues
<1>3. Inv /\ ValuesInv /\ [Next]_vars
        => [\A r \in Records : pact[r] /\ ~pact'[r] /\ ~sevr'[r] =>
              reply[r] # "none" /\ (reply[r] = "message" => val'[r] = meant[r])]_vars
  BY FreshStep
<1> QED BY <1>1, <1>2, <1>3, PTL DEF Spec, FreshData

=============================================================================
