---------------------------- MODULE MCCanRecords ----------------------------
(* Databases of one or two records for CanRecords.                         *)
EXTENDS CanRecords, TLC

CONSTANTS r1, r2

P(sep, num) == [sep |-> sep, num |-> num, str |-> ""]
S(str) == [sep |-> " ", num |-> 0, str |-> str]
At(parts) == [bus |-> "CAN1", parts |-> parts]
Rec(kind, addr, nobt, ioEvent, values) ==
  [kind |-> kind, instIo |-> TRUE, addr |-> addr, nobt |-> nobt, ioEvent |-> ioEvent, values |-> values]

Other == [Rec("bi", At(<<>>), 1, FALSE, {0}) EXCEPT !.instIo = FALSE]
Pair(a, b) == [db |-> r1 :> a @@ r2 :> b, silence |-> FALSE]
Alone(a) == Pair(a, Other)
Bad(a, silent) == [Alone(Rec("bo", a, 1, FALSE, {0, 1})) EXCEPT !.silence = silent]

\* The identifier 7 in different forms.
Plain(n)  == At(<<P(":", 7), P(" ", n)>>)
Timed(off, n) == At(<<P("/", 20), P(":", 4), P("+", 2), P("+", 1), P(".", off), P(" ", n)>>)
Text(str) == At(<<P(":", 7), S(str)>>)

MCConfigs ==
  \* inputs that ask for their value
  {Alone(Rec("ai", Timed(3, -4096), 0, FALSE, {-2048, 2047})),
   Alone(Rec("bi", Timed(1, 3), 1, FALSE, {1})),
   Alone(Rec("si", Timed(1, 5), 0, FALSE, {65}))}
  \* inputs that take what comes: every width of an analogue value; two fields of a byte
  \cup {Alone(Rec("ai", Plain(n), 0, TRUE, {Fsd(n)})) : n \in {255, 256, 1999, 4194304, 33554432}}
  \cup {Alone(Rec("ai", Plain(n), 0, TRUE, {-(Fsd(n) \div 2), Fsd(n) \div 2})) : n \in {-255, -65536}}
  \cup {Alone(Rec("ai", Text(s), 0, TRUE, {0, 2})) : s \in {"float", "double"}}
  \cup {Pair(Rec("mbbi", Timed(2, 4), 4, TRUE, {9}), Rec("mbbi", Timed(2, 0), 4, TRUE, {5})),
        Alone(Rec("mbbiDirect", Timed(0, 5), 2, TRUE, {1, 2})),
        Alone(Rec("bi", Timed(7, 7), 1, TRUE, {0, 1})),
        Alone(Rec("si", Timed(1, 5), 0, TRUE, {65, 66}))}
  \* outputs
  \cup {Alone(Rec("ao", Plain(n), 0, FALSE, {0, Fsd(n)})) : n \in {255, 65536, 99999, 16777217}}
  \cup {Alone(Rec("ao", Timed(3, -4096), 0, TRUE, {-1, 2047}))}
  \cup {Alone(Rec("ao", Text(s), 0, FALSE, {0, 1, 2, 3})) : s \in {"float", "double"}}
  \cup {Alone(Rec("bo", Timed(1, 7), 1, io, {0, 1})) : io \in BOOLEAN}
  \cup {Alone(Rec(k, Timed(4, 4), 4, TRUE, {0, 13})) : k \in {"mbbo", "mbboDirect"}}
  \* bad parameters, offsets, identifiers, names and forms
  \cup {Bad(a, silent) : silent \in BOOLEAN,
                         a \in {Plain(8), Timed(8, 1), At(<<P(":", 2048), P(" ", 1)>>), At(<<P(" ", 1)>>),
                                [bus |-> "CAN2", parts |-> <<P(":", 7), P(" ", 1)>>]}}

\* What the theorems about values ask of a database.
ASSUME MCConfigsAreLegal == LegalDatabases

=============================================================================
