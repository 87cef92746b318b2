--------------------------- MODULE StartupProofs ---------------------------
(***************************************************************************)
(* Theorems about Startup, for any machines and scripts that are legal.    *)
(***************************************************************************)
EXTENDS Startup, FiniteSetTheorems, SequenceTheorems, WellFoundedInduction, TLAPS

-----------------------------------------------------------------------------
(* Induction, in a form without a predicate: over a set of numbers.        *)

Less == {p \in Nat \X Nat : p[1] < p[2]}

LEMMA LessWellFounded == IsWellFoundedOn(Less, Nat)
  BY NatLessThanWellFounded DEF OpToRel, Less

LEMMA InductionOverNat ==
  ASSUME NEW S, 0 \in S, \A n \in Nat : n \in S => n + 1 \in S
  PROVE  Nat \subseteq S
<1> DEFINE T == Nat \ S
<1>1. SUFFICES ASSUME T # {} PROVE FALSE
  OBVIOUS
<1>2. PICK x \in T : \A y \in T : ~(<<y, x>> \in Less)
  <2>1. T \subseteq Nat
    OBVIOUS
  <2> HIDE DEF T
  <2> QED BY <1>1, <2>1, LessWellFounded, WFMin
<1>3. x \in Nat /\ x # 0
  OBVIOUS
<1>4. x - 1 \in Nat /\ x - 1 < x /\ (x - 1) + 1 = x
  BY <1>3
<1>5. <<x - 1, x>> \in Less
  BY <1>3, <1>4 DEF Less
<1>6. x - 1 \in S
  BY <1>2, <1>4, <1>5
<1> QED BY <1>4, <1>6

\* Up to a bound.
LEMMA InductionUpTo ==
  ASSUME NEW m \in Nat, NEW S, 0 \in S, \A n \in 0 .. m - 1 : n \in S => n + 1 \in S
  PROVE  0 .. m \subseteq S
<1> DEFINE T == {n \in Nat : n <= m => n \in S}
<1>1. 0 \in T
  OBVIOUS
<1>2. \A n \in Nat : n \in T => n + 1 \in T
  OBVIOUS
<1>3. Nat \subseteq T
  <2> HIDE DEF T
  <2> QED BY <1>1, <1>2, InductionOverNat
<1> QED BY <1>3

-----------------------------------------------------------------------------
(* The initialise routines, step by step.                                  *)

\* f is what the steps st of p have done, one after the other.
Runs(f, p, st, m) == f = [n \in 0 .. m |-> IF n = 0 THEN Begun(p) ELSE Step(p, f[n - 1], st[n])]

LEMMA RunExists ==
  ASSUME NEW p, NEW st, NEW m \in Nat
  PROVE  \E f : Runs(f, p, st, m)
<1> DEFINE Good == {n \in Nat : \E f : Runs(f, p, st, n)}
<1>1. 0 \in Good
  <2>1. Runs([n \in 0 .. 0 |-> Begun(p)], p, st, 0)
    BY DEF Runs
  <2> QED BY <2>1
<1>2. \A n \in Nat : n \in Good => n + 1 \in Good
  <2> TAKE n \in Nat
  <2> HAVE n \in Good
  <2>1. PICK f : Runs(f, p, st, n)
    OBVIOUS
  <2> DEFINE g == [k \in 0 .. n + 1 |-> IF k = n + 1 THEN Step(p, f[n], st[n + 1]) ELSE f[k]]
  <2>2. \A k \in 0 .. n : f[k] = IF k = 0 THEN Begun(p) ELSE Step(p, f[k - 1], st[k])
    BY <2>1 DEF Runs
  <2>3. \A k \in 0 .. n + 1 : g[k] = IF k = 0 THEN Begun(p) ELSE Step(p, g[k - 1], st[k])
    <3> TAKE k \in 0 .. n + 1
    <3>1. CASE k = n + 1
      <4>1. k # 0 /\ k - 1 = n /\ g[n] = f[n] /\ g[k] = Step(p, f[n], st[n + 1])
        BY <3>1
      <4> HIDE DEF g
      <4> QED BY <3>1, <4>1
    <3>2. CASE k # n + 1 /\ k # 0
      <4>1. k \in 0 .. n /\ k - 1 \in 0 .. n /\ g[k] = f[k] /\ g[k - 1] = f[k - 1]
        BY <3>2
      <4> HIDE DEF g
      <4> QED BY <2>2, <3>2, <4>1
    <3>3. CASE k = 0
      <4>1. k \in 0 .. n /\ g[k] = f[k]
        BY <3>3
      <4> HIDE DEF g
      <4> QED BY <2>2, <3>3, <4>1
    <3> QED BY <3>1, <3>2, <3>3
  <2>4. Runs(g, p, st, n + 1)
    <3>1. g = [k \in 0 .. n + 1 |-> g[k]]
      OBVIOUS
    <3> HIDE DEF g
    <3> QED BY <2>3, <3>1 DEF Runs
  <2> QED BY <2>4
<1>3. Nat \subseteq Good
  <2> HIDE DEF Good
  <2> QED BY <1>1, <1>2, InductionOverNat
<1> QED BY <1>3

LEMMA InitialisedRuns ==
  ASSUME NEW p, Len(initialise(p)) \in Nat
  PROVE  \E f : Runs(f, p, initialise(p), Len(initialise(p))) /\ Initialised(p) = f[Len(initialise(p))]
<1> DEFINE st == initialise(p)
           F == CHOOSE f : Runs(f, p, st, Len(st))
<1>1. Runs(F, p, st, Len(st))
  BY RunExists
<1>2. Initialised(p) = F[Len(st)]
  BY DEF Initialised, Runs
<1> QED BY <1>1, <1>2

IsBoard(b) == DOMAIN b = {"level", "on", "gie", "edge", "fast"} /\ DOMAIN b.level = Lines /\ b.gie \in BOOLEAN

IsIpic(i) == DOMAIN i = {"mem", "men", "initialised"}

IsAcc(a) ==
  /\ DOMAIN a = {"ok", "regions", "board", "cpu", "reset", "hook", "ipic"}
  /\ a.ok \in BOOLEAN /\ IsBoard(a.board) /\ IsIpic(a.ipic)

Dos == {"pass", "fail", "claim", "drop", "levels", "reset", "quiet", "clear", "option", "arm", "list"}

Region(s) == [am |-> s.am, at |-> s.at, size |-> s.size]

\* What a step leaves alone.
LEMMA ProgramFacts ==
  ASSUME NEW p, NEW a, IsAcc(a), NEW s, s.do \in Dos \ {"pass", "fail", "claim", "drop"}
  PROVE  LET b == Program(p, a, s) IN
         /\ IsAcc(b) /\ b.ok = a.ok /\ b.regions = a.regions
         /\ b.ipic.initialised = a.ipic.initialised
         /\ a.hook \subseteq b.hook \/ b.hook = {<<"board", IoBase(p)>>}
         /\ b.hook \subseteq a.hook \cup {<<"board", IoBase(p)>>}
         /\ b.board.gie => a.board.gie \/ <<"board", IoBase(p)>> \in b.hook
<1>1. CASE s.do = "levels"
  BY <1>1 DEF Program, IsAcc, IsBoard, IsIpic
<1>2. CASE s.do = "reset"
  BY <1>2 DEF Program, IsAcc, IsBoard, IsIpic
<1>3. CASE s.do = "quiet"
  BY <1>3 DEF Program, IsAcc, IsBoard, IsIpic
<1>4. CASE s.do = "clear"
  BY <1>4 DEF Program, IsAcc, IsBoard, IsIpic, ColdBoard
<1>5. CASE s.do = "option"
  <2>1. Program(p, a, s) = Option(a, s.o)
    BY <1>5 DEF Program
  <2>2. LET b == Option(a, s.o) IN IsAcc(b) /\ b.ok = a.ok /\ b.regions = a.regions /\ b.hook = a.hook
                                   /\ b.board.gie = a.board.gie /\ b.ipic.initialised = a.ipic.initialised
    BY DEF Option, IsAcc, IsBoard, IsIpic
  <2> QED BY <2>1, <2>2
<1>6. CASE s.do = "arm"
  BY <1>6 DEF Program, IsAcc, IsBoard, IsIpic
<1>7. CASE s.do = "list"
  BY <1>7 DEF Program, IsAcc, IsBoard, IsIpic
<1> QED BY <1>1, <1>2, <1>3, <1>4, <1>5, <1>6, <1>7 DEF Dos
\* What step s of p does, from a to b.
StepDoes(p, a, s, b) ==
  /\ IsAcc(b) /\ b.ipic.initialised = a.ipic.initialised
  /\ b.ok => a.ok /\ s.do # "fail"
  /\ ~a.ok => b = a
  /\ a.hook \subseteq b.hook \/ b.hook = {<<"board", IoBase(p)>>}
  /\ b.hook \subseteq a.hook \cup {<<"board", IoBase(p)>>}
  /\ b.board.gie => a.board.gie \/ <<"board", IoBase(p)>> \in b.hook
  /\ b.ok /\ s.do = "claim" => Claimable(a.regions, Region(s)) /\ b.regions = a.regions \cup {Region(s)}
  /\ s.do = "claim" => b.regions = a.regions \/ (Claimable(a.regions, Region(s)) /\ b.regions = a.regions \cup {Region(s)})
  /\ s.do = "drop" => b.regions = a.regions \/ b.regions = {r \in a.regions : r.am # s.am \/ r.at # s.at}
  /\ s.do \notin {"claim", "drop"} => b.regions = a.regions
  /\ a.ok /\ s.do \in Dos \ {"fail", "pass", "claim", "drop"} => b = Program(p, a, s)

LEMMA StepFacts ==
  ASSUME NEW p, NEW a, IsAcc(a), NEW s, s.do \in Dos
  PROVE  StepDoes(p, a, s, Step(p, a, s))
<1> USE DEF StepDoes
<1>1. CASE ~a.ok \/ s.do = "pass"
  <2>1. Step(p, a, s) = a
    BY <1>1 DEF Step
  <2> QED BY <1>1, <2>1
<1>2. CASE a.ok /\ s.do = "fail"
  BY <1>2 DEF Step, IsAcc, IsBoard, IsIpic
<1>3. CASE a.ok /\ s.do = "claim"
  <2>1. Step(p, a, s) = IF Claimable(a.regions, Region(s)) THEN [a EXCEPT !.regions = @ \cup {Region(s)}]
                        ELSE [a EXCEPT !.ok = FALSE]
    BY <1>3 DEF Step, Region
  <2> HIDE DEF Region
  <2> QED BY <1>3, <2>1 DEF IsAcc, IsBoard, IsIpic
<1>4. CASE a.ok /\ s.do = "drop"
  BY <1>4 DEF Step, IsAcc, IsBoard, IsIpic
<1>5. CASE a.ok /\ s.do \in Dos \ {"pass", "fail", "claim", "drop"}
  <2>1. Step(p, a, s) = Program(p, a, s)
    BY <1>5 DEF Step
  <2> QED BY <1>5, <2>1, ProgramFacts
<1> QED BY <1>1, <1>2, <1>3, <1>4, <1>5 DEF IsAcc

\* What holds of the first n steps of a run.
Prefix(p, f, st, n) ==
  /\ IsAcc(f[n]) /\ f[n].ipic.initialised = ipic.initialised
  /\ f[n].hook \subseteq {<<"board", IoBase(p)>>}
  /\ f[n].board.gie => boards[IoBase(p)].gie \/ <<"board", IoBase(p)>> \in f[n].hook
  /\ f[n].ok => Begun(p).ok

LEMMA SoFar ==
  ASSUME NEW p, NEW st, NEW m \in Nat, \A i \in 1 .. m : st[i].do \in Dos,
         IsBoard(boards[IoBase(p)]), IsIpic(ipic), NEW f, Runs(f, p, st, m)
  PROVE  /\ f[0] = Begun(p)
         /\ \A n \in 1 .. m : f[n] = Step(p, f[n - 1], st[n]) /\ StepDoes(p, f[n - 1], st[n], f[n])
         /\ \A n \in 0 .. m : Prefix(p, f, st, n)
<1>1. f[0] = Begun(p) /\ \A n \in 1 .. m : f[n] = Step(p, f[n - 1], st[n])
  <2>1. \A n \in 0 .. m : f[n] = IF n = 0 THEN Begun(p) ELSE Step(p, f[n - 1], st[n])
    BY DEF Runs
  <2> QED BY <2>1
<1> DEFINE S == {n \in 0 .. m : Prefix(p, f, st, n)}
<1>2. 0 \in S
  <2>1. IsAcc(Begun(p)) /\ Begun(p).hook = {} /\ Begun(p).board = boards[IoBase(p)] /\ Begun(p).ipic = ipic
    BY DEF Begun, IsAcc
  <2> QED BY <1>1, <2>1 DEF Prefix
<1>3. \A n \in 0 .. m - 1 : n \in S => n + 1 \in S
  <2> TAKE n \in 0 .. m - 1
  <2> HAVE n \in S
  <2>1. n + 1 \in 1 .. m /\ (n + 1) - 1 = n /\ n + 1 \in 0 .. m
    OBVIOUS
  <2>2. Prefix(p, f, st, n) /\ f[n + 1] = Step(p, f[n], st[n + 1]) /\ st[n + 1].do \in Dos
    BY <1>1, <2>1
  <2>3. IsAcc(f[n])
    BY <2>2 DEF Prefix
  <2>4. /\ IsAcc(f[n + 1]) /\ f[n + 1].ipic.initialised = f[n].ipic.initialised
        /\ f[n + 1].ok => f[n].ok
        /\ f[n].hook \subseteq f[n + 1].hook \/ f[n + 1].hook = {<<"board", IoBase(p)>>}
        /\ f[n + 1].hook \subseteq f[n].hook \cup {<<"board", IoBase(p)>>}
        /\ f[n + 1].board.gie => f[n].board.gie \/ <<"board", IoBase(p)>> \in f[n + 1].hook
    <3>1. StepDoes(p, f[n], st[n + 1], f[n + 1])
      BY <2>2, <2>3, StepFacts
    <3> QED BY <3>1 DEF StepDoes
  <2>5. Prefix(p, f, st, n + 1)
    BY <2>2, <2>4 DEF Prefix
  <2> QED BY <2>1, <2>5
<1>4. 0 .. m \subseteq S
  <2> HIDE DEF S
  <2> QED BY <1>2, <1>3, InductionUpTo
<1>5. \A n \in 1 .. m : StepDoes(p, f[n - 1], st[n], f[n])
  <2> TAKE n \in 1 .. m
  <2>1. n - 1 \in 0 .. m
    OBVIOUS
  <2>2. IsAcc(f[n - 1]) /\ st[n].do \in Dos /\ f[n] = Step(p, f[n - 1], st[n])
    BY <1>1, <1>4, <2>1 DEF Prefix
  <2> QED BY <2>2, StepFacts
<1> QED BY <1>1, <1>4, <1>5

\* A run that ends well: every step has succeeded.
LEMMA GoodRuns ==
  ASSUME NEW p, NEW st, NEW m \in Nat, \A i \in 1 .. m : st[i].do \in Dos,
         IsBoard(boards[IoBase(p)]), IsIpic(ipic), NEW f, Runs(f, p, st, m), f[m].ok
  PROVE  /\ Begun(p).ok /\ \A n \in 0 .. m : f[n].ok
         /\ \A i \in 1 .. m : st[i].do # "fail"
<1> DEFINE S == {n \in 0 .. m : f[m - n].ok}
<1>1. 0 \in S
  OBVIOUS
<1>2. /\ f[0] = Begun(p)
      /\ \A n \in 1 .. m : StepDoes(p, f[n - 1], st[n], f[n])
  BY SoFar
<1>3. \A n \in 1 .. m : f[n].ok => f[n - 1].ok /\ st[n].do # "fail"
  BY <1>2 DEF StepDoes
<1>4. \A n \in 0 .. m - 1 : n \in S => n + 1 \in S
  <2> TAKE n \in 0 .. m - 1
  <2> HAVE n \in S
  <2>1. m - n \in 1 .. m /\ (m - n) - 1 = m - (n + 1) /\ n + 1 \in 0 .. m
    OBVIOUS
  <2>2. f[(m - n) - 1].ok
    BY <1>3, <2>1
  <2> QED BY <2>1, <2>2
<1>5. 0 .. m \subseteq S
  <2> HIDE DEF S
  <2> QED BY <1>1, <1>4, InductionUpTo
<1>6. \A n \in 0 .. m : f[n].ok
  <2> TAKE n \in 0 .. m
  <2>1. m - n \in S /\ m - (m - n) = n
    BY <1>5
  <2> QED BY <2>1
<1>7. \A n \in 1 .. m : n \in 0 .. m
  OBVIOUS
<1>8. 0 \in 0 .. m
  OBVIOUS
<1> QED BY <1>2, <1>3, <1>6, <1>7, <1>8

-----------------------------------------------------------------------------
(* The sequences of steps of the carrier drivers.                          *)

Sound(p) == \A i \in 1 .. Len(initialise(p)) : initialise(p)[i].do # "fail"

ClaimsOf(p) == {Region(initialise(p)[i]) : i \in {j \in 1 .. Len(initialise(p)) : initialise(p)[j].do = "claim"}}

IsRange(r) == r.at \in Int /\ r.size \in Int /\ (r.am = "A16" => r.size > 0)

\* A driver gives back only what it has just claimed, and fails then.
Shaped(p) ==
  LET st == initialise(p) IN
  /\ Len(st) \in Nat
  /\ \A i \in 1 .. Len(st) : st[i].do \in Dos
  /\ \A i \in 1 .. Len(st) : st[i].do = "claim" => IsRange(Region(st[i]))
  /\ \A i \in 1 .. Len(st) : st[i].do = "drop" =>
       /\ i # 1 /\ st[i - 1].do = "claim" /\ st[i].am = "A16"
       /\ st[i - 1].am = st[i].am /\ st[i - 1].at = st[i].at
       /\ ~Sound(p)

LEMMA PowerTypes ==
  ASSUME NEW k \in 0 .. 15
  PROVE  2 ^ k \in Nat
<1>1. k = 0 => 2 ^ k \in Nat  BY SMT
<1>2. k = 1 => 2 ^ k \in Nat  BY SMT
<1>3. k = 2 => 2 ^ k \in Nat  BY SMT
<1>4. k = 3 => 2 ^ k \in Nat  BY SMT
<1>5. k = 4 => 2 ^ k \in Nat  BY SMT
<1>6. k = 5 => 2 ^ k \in Nat  BY SMT
<1>7. k = 6 => 2 ^ k \in Nat  BY SMT
<1>8. k = 7 => 2 ^ k \in Nat  BY SMT
<1>9. k = 8 => 2 ^ k \in Nat  BY SMT
<1>10. k = 9 => 2 ^ k \in Nat  BY SMT
<1>11. k = 10 => 2 ^ k \in Nat  BY SMT
<1>12. k = 11 => 2 ^ k \in Nat  BY SMT
<1>13. k = 12 => 2 ^ k \in Nat  BY SMT
<1>14. k = 13 => 2 ^ k \in Nat  BY SMT
<1>15. k = 14 => 2 ^ k \in Nat  BY SMT
<1>16. k = 15 => 2 ^ k \in Nat  BY SMT
<1> QED BY <1>1, <1>2, <1>3, <1>4, <1>5, <1>6, <1>7, <1>8, <1>9, <1>10, <1>11, <1>12, <1>13, <1>14, <1>15, <1>16

\* f is the sum of the first members of T, for the first of them.
Sums(f, T, m) == f = [b \in 0 .. m |-> IF b = 0 THEN 0 ELSE f[b - 1] + T[b]]

LEMMA SumExists ==
  ASSUME NEW k \in Nat, NEW T \in [1 .. k -> Int]
  PROVE  \E f : Sums(f, T, k) /\ \A b \in 0 .. k : f[b] \in Int
<1> DEFINE Typed(f, n) == \A b \in 0 .. n : f[b] \in Int
           Good == {n \in Nat : n <= k => \E f : Sums(f, T, n) /\ Typed(f, n)}
<1>1. 0 \in Good
  <2>1. Sums([b \in 0 .. 0 |-> 0], T, 0) /\ Typed([b \in 0 .. 0 |-> 0], 0)
    BY DEF Sums
  <2> QED BY <2>1
<1>2. \A n \in Nat : n \in Good => n + 1 \in Good
  <2> SUFFICES ASSUME NEW n \in Nat, n \in Good, n + 1 <= k
               PROVE  \E f : Sums(f, T, n + 1) /\ Typed(f, n + 1)
    OBVIOUS
  <2>1. PICK f : Sums(f, T, n) /\ Typed(f, n)
    OBVIOUS
  <2> DEFINE g == [b \in 0 .. n + 1 |-> IF b = n + 1 THEN f[n] + T[n + 1] ELSE f[b]]
  <2>2. f[n] \in Int /\ T[n + 1] \in Int /\ \A b \in 0 .. n : f[b] = IF b = 0 THEN 0 ELSE f[b - 1] + T[b]
    BY <2>1 DEF Sums
  <2>3. Typed(g, n + 1)
    <3> TAKE b \in 0 .. n + 1
    <3> QED BY <2>1, <2>2
  <2>4. \A b \in 0 .. n + 1 : g[b] = IF b = 0 THEN 0 ELSE g[b - 1] + T[b]
    <3> TAKE b \in 0 .. n + 1
    <3>1. CASE b = n + 1
      <4>1. b # 0 /\ b - 1 = n /\ g[n] = f[n] /\ g[b] = f[n] + T[n + 1]
        BY <3>1
      <4> HIDE DEF g
      <4> QED BY <3>1, <4>1
    <3>2. CASE b # n + 1 /\ b # 0
      <4>1. b \in 0 .. n /\ g[b] = f[b] /\ g[b - 1] = f[b - 1]
        BY <3>2
      <4> HIDE DEF g
      <4> QED BY <2>2, <3>2, <4>1
    <3>3. CASE b = 0
      <4>1. b \in 0 .. n /\ g[b] = f[b]
        BY <3>3
      <4> HIDE DEF g
      <4> QED BY <2>2, <3>3, <4>1
    <3> QED BY <3>1, <3>2, <3>3
  <2>5. Sums(g, T, n + 1)
    <3>1. g = [b \in 0 .. n + 1 |-> g[b]]
      OBVIOUS
    <3> HIDE DEF g
    <3> QED BY <2>4, <3>1 DEF Sums
  <2> HIDE DEF g, Typed
  <2> QED BY <2>3, <2>5
<1>3. Nat \subseteq Good
  <2> HIDE DEF Good
  <2> QED BY <1>1, <1>2, InductionOverNat
<1> QED BY <1>3

LEMMA AndNotType ==
  ASSUME NEW n, NEW m
  PROVE  AndNot(n, m) \in Int
<1> DEFINE T == [b \in 1 .. 16 |-> IF Bit(n, b - 1) /\ ~Bit(m, b - 1) THEN 2 ^ (b - 1) ELSE 0]
           F == CHOOSE f : f = [b \in 0 .. 16 |->
                  IF b = 0 THEN 0 ELSE f[b - 1] + IF Bit(n, b - 1) /\ ~Bit(m, b - 1) THEN 2 ^ (b - 1) ELSE 0]
<1>1. T \in [1 .. 16 -> Int]
  <2>1. \A b \in 1 .. 16 : 2 ^ (b - 1) \in Int
    <3> TAKE b \in 1 .. 16
    <3>1. b - 1 \in 0 .. 15
      OBVIOUS
    <3>2. 2 ^ (b - 1) \in Nat
      BY <3>1, PowerTypes
    <3> QED BY <3>2
  <2> QED BY <2>1
<1>2. PICK g : Sums(g, T, 16) /\ \A b \in 0 .. 16 : g[b] \in Int
  <2> HIDE DEF T
  <2> QED BY <1>1, SumExists
<1>3. \A f : Sums(f, T, 16) <=> f = [b \in 0 .. 16 |->
                  IF b = 0 THEN 0 ELSE f[b - 1] + IF Bit(n, b - 1) /\ ~Bit(m, b - 1) THEN 2 ^ (b - 1) ELSE 0]
  <2> TAKE f
  <2>1. [b \in 0 .. 16 |-> IF b = 0 THEN 0 ELSE f[b - 1] + T[b]] = [b \in 0 .. 16 |->
                  IF b = 0 THEN 0 ELSE f[b - 1] + IF Bit(n, b - 1) /\ ~Bit(m, b - 1) THEN 2 ^ (b - 1) ELSE 0]
    <3>1. \A b \in 0 .. 16 : b # 0 => b \in 1 .. 16
      OBVIOUS
    <3>2. \A b \in 1 .. 16 : T[b] = IF Bit(n, b - 1) /\ ~Bit(m, b - 1) THEN 2 ^ (b - 1) ELSE 0
      OBVIOUS
    <3> HIDE DEF T
    <3> QED BY <3>1, <3>2
  <2> QED BY <2>1 DEF Sums
<1>4. Sums(F, T, 16)
  BY <1>2, <1>3
<1>5. AndNot(n, m) = F[16]
  BY DEF AndNot
<1>6. \A b \in 0 .. 16 : F[b] \in Int
  <2> DEFINE S == {b \in 0 .. 16 : F[b] \in Int}
  <2>1. F[0] = 0 /\ \A b \in 0 .. 15 : F[b + 1] = F[b] + T[b + 1]
    <3> HIDE DEF T, F
    <3>1. \A b \in 0 .. 16 : F[b] = IF b = 0 THEN 0 ELSE F[b - 1] + T[b]
      BY <1>4 DEF Sums
    <3> QED BY <3>1
  <2>2. \A b \in 0 .. 15 : T[b + 1] \in Int
    <3> HIDE DEF T
    <3> QED BY <1>1
  <2> HIDE DEF T, F
  <2>3. 0 \in S
    BY <2>1
  <2>4. \A b \in 0 .. 16 - 1 : b \in S => b + 1 \in S
    BY <2>1, <2>2
  <2>5. 0 .. 16 \subseteq S
    <3> HIDE DEF S
    <3> QED BY <2>3, <2>4, InductionUpTo
  <2> QED BY <2>5
<1> HIDE DEF F
<1> QED BY <1>5, <1>6

VmeKinds == Kinds \ {"MVME162", "ATC40"}

\* A carrier on the VMEbus claims the registers it is named by.
ClaimsBase(p) ==
  /\ IoBase(p) = At("A16", IoBase(p).at) /\ IoBase(p).at \in Int
  /\ \E n \in {512, 1024, 2048} : /\ [am |-> "A16", at |-> IoBase(p).at, size |-> n] \in ClaimsOf(p)
                                  /\ 256 * numberSlots(p.kind) <= n

LEMMA ClaimedIn ==
  ASSUME NEW p, NEW i \in 1 .. Len(initialise(p)), initialise(p)[i].do = "claim"
  PROVE  Region(initialise(p)[i]) \in ClaimsOf(p)
  BY DEF ClaimsOf

IsVipc(p, s1, io, n, m, k) ==
  /\ IoBase(p) = At("A16", io) /\ io \in Int
  /\ m.am # "A16" /\ m.base \in Int /\ m.size \in Int
  /\ 256 * numberSlots(p.kind) <= n
  /\ initialise(p) = <<s1, Claim("A16", io, n)>> \o ClaimMemory(m, k)

ClaimsMemory(p, m, k) ==
  m.size # 0 => [am |-> m.am, at |-> m.base, size |-> Origin(m, k) + m.size * k - m.base] \in ClaimsOf(p)

\* A carrier claims the registers it is named by before it does anything to its
\* board, and one that arms its board does no more than claim memory afterwards.
EarlyAt(p, j, n) ==
  /\ initialise(p)[j].do = "claim" /\ Region(initialise(p)[j]) = [am |-> "A16", at |-> IoBase(p).at, size |-> n]
  /\ \A i \in 1 .. j - 1 : initialise(p)[i].do \in {"pass", "fail"}
Early(p) == \E j \in 1 .. Len(initialise(p)), n \in {512, 1024, 2048} : EarlyAt(p, j, n)
ArmsAt(p, j) ==
  /\ initialise(p)[j].do = "arm"
  /\ \A i \in j + 1 .. Len(initialise(p)) : initialise(p)[i].do \in {"pass", "fail", "claim"}
Arms(p) == \E j \in 1 .. Len(initialise(p)) : ArmsAt(p, j)

LEMMA VipcShape ==
  ASSUME NEW p, NEW s1, s1.do \in {"pass", "fail"}, NEW io, NEW n \in {512, 1024, 2048}, NEW m, NEW k \in Int,
         IsVipc(p, s1, io, n, m, k)
  PROVE  /\ Shaped(p) /\ Early(p)
         /\ Sound(p) => /\ s1.do = "pass" /\ ClaimsBase(p) /\ ClaimsMemory(p, m, k)
<1>0. /\ IoBase(p) = At("A16", io) /\ io \in Int
      /\ m.am # "A16" /\ m.base \in Int /\ m.size \in Int
      /\ initialise(p) = <<s1, Claim("A16", io, n)>> \o ClaimMemory(m, k)
  BY DEF IsVipc
<1> USE <1>0
<1> DEFINE st == initialise(p)
           s2 == Claim("A16", io, n)
           z == Origin(m, k) + m.size * k - m.base
           s3 == Claim(m.am, m.base, z)
<1>1. s2.do = "claim" /\ s3.do = "claim"
  BY DEF Claim
<1>2. Region(s2) = [am |-> "A16", at |-> io, size |-> n] /\ Region(s3) = [am |-> m.am, at |-> m.base, size |-> z]
  BY DEF Region, Claim
<1>3. z \in Int
  <2>1. Origin(m, k) \in Int
    BY AndNotType DEF Origin
  <2>2. m.size * k \in Int
    OBVIOUS
  <2> QED BY <2>1, <2>2
<1> HIDE DEF z
<1>4. IsRange(Region(s2)) /\ IsRange(Region(s3))
  BY <1>2, <1>3 DEF IsRange
<1>5. Region(s2) \in ClaimsOf(p) => ClaimsBase(p)
  BY <1>2 DEF ClaimsBase, At, IsVipc
<1>8. ASSUME Len(st) \in {2, 3}, st[1] = s1, st[2] = s2 PROVE Early(p)
  <2>1. IoBase(p).at = io
    BY DEF At
  <2> HIDE DEF s2
  <2>2. \A i \in 1 .. 2 - 1 : i = 1
    OBVIOUS
  <2>3. EarlyAt(p, 2, n)
    BY <1>1, <1>2, <1>8, <2>1, <2>2 DEF EarlyAt
  <2> QED BY <1>8, <2>3 DEF Early
<1>6. CASE m.size # 0
  <2>1. st = <<s1, s2>> \o <<s3>>
    BY <1>6 DEF ClaimMemory, Steps, z
  <2> HIDE DEF s2, s3, st
  <2>2. Len(st) = 3 /\ st[1] = s1 /\ st[2] = s2 /\ st[3] = s3
    BY <2>1
  <2>3. \A i \in 1 .. Len(st) : i = 1 \/ i = 2 \/ i = 3
    BY <2>2
  <2>4. Shaped(p)
    BY <1>1, <1>4, <2>2, <2>3 DEF Shaped, Dos, st
  <2>5. Sound(p) => s1.do = "pass"
    BY <1>1, <2>2 DEF Sound, st
  <2>6. Region(s2) \in ClaimsOf(p) /\ Region(s3) \in ClaimsOf(p)
    <3>1. 2 \in 1 .. Len(st) /\ 3 \in 1 .. Len(st)
      BY <2>2
    <3>2. st[2].do = "claim" /\ st[3].do = "claim"
      BY <1>1, <2>2
    <3> USE DEF st
    <3>3. Region(st[2]) \in ClaimsOf(p) /\ Region(st[3]) \in ClaimsOf(p)
      BY <3>1, <3>2, ClaimedIn
    <3> QED BY <2>2, <3>3
  <2>7. Early(p)
    BY <1>1, <1>8, <2>2, <2>3
  <2> QED BY <1>2, <1>5, <2>4, <2>5, <2>6, <2>7 DEF z, ClaimsMemory
<1>7. CASE m.size = 0
  <2>1. st = <<s1, s2>> \o <<>>
    BY <1>7 DEF ClaimMemory, Steps
  <2> HIDE DEF s2, s3, st
  <2>2. Len(st) = 2 /\ st[1] = s1 /\ st[2] = s2
    BY <2>1
  <2>3. \A i \in 1 .. Len(st) : i = 1 \/ i = 2
    BY <2>2
  <2>4. Shaped(p)
    BY <1>1, <1>4, <2>2, <2>3 DEF Shaped, Dos, st
  <2>5. Sound(p) => s1.do = "pass"
    BY <1>1, <2>2 DEF Sound, st
  <2>6. Region(s2) \in ClaimsOf(p)
    BY <1>1, <2>2 DEF ClaimsOf, st
  <2>7. Early(p)
    BY <1>1, <1>8, <2>2, <2>3
  <2> QED BY <1>5, <1>7, <2>4, <2>5, <2>6, <2>7 DEF ClaimsMemory
<1> QED BY <1>6, <1>7

LEMMA VipcIoType ==
  ASSUME NEW p, p.kind \in VipcKinds, Parameters(p)
  PROVE  VipcIo(p) \in Int /\ p.args \in 0 .. 3 /\ p.mem \in Int /\ p.size \in Int
  BY DEF Parameters, VipcIo

LEMMA Shape310 ==
  ASSUME NEW p, p.kind = "VIPC310", Parameters(p)
  PROVE  Shaped(p) /\ Early(p) /\ (Sound(p) => ClaimsBase(p) /\ ClaimsMemory(p, Memory310(p), 2))
<1>1. VipcIo(p) \in Int /\ p.args \in 0 .. 3 /\ p.mem \in Int /\ p.size \in Int
  BY VipcIoType DEF VipcKinds
<1> DEFINE m == Memory310(p)
           c == p.args = 0 \/ (VipcIo(p) <= 65024 /\ VipcIo(p) % 512 = 0 /\ SizeLegal(Size24(p, 2)))
<1>2. m.am # "A16" /\ m.base \in Int /\ m.size \in Int
  BY <1>1 DEF Memory310, Memory, Size24
<1> DEFINE s1 == Need(c)
<1>0. s1.do \in {"pass", "fail"}
  BY DEF Need
<1>3. initialise(p) = <<s1, Claim("A16", VipcIo(p), 512)>> \o ClaimMemory(m, 2)
  BY DEF initialise, Init310
<1>4. IoBase(p) = At("A16", VipcIo(p))
  BY DEF IoBase
<1> HIDE DEF m, c, s1
<1>5. 512 \in {512, 1024, 2048} /\ 1024 \in {512, 1024, 2048} /\ 2 \in Int /\ 4 \in Int
  OBVIOUS
<1>6. IsVipc(p, s1, VipcIo(p), 512, m, 2)
  <2>1. 256 * numberSlots(p.kind) <= 512
    BY DEF numberSlots
  <2> QED BY <1>1, <1>2, <1>3, <1>4, <2>1 DEF IsVipc
<1> QED BY <1>0, <1>5, <1>6, VipcShape DEF m

LEMMA Shape610 ==
  ASSUME NEW p, p.kind \in {"VIPC610", "VIPC610-01"}, Parameters(p)
  PROVE  Shaped(p) /\ Early(p) /\ (Sound(p) => ClaimsBase(p) /\ ClaimsMemory(p, Memory610(p), 4))
<1>1. VipcIo(p) \in Int /\ p.args \in 0 .. 3 /\ p.mem \in Int /\ p.size \in Int
  BY VipcIoType DEF VipcKinds
<1> DEFINE m == Memory610(p)
           c == p.args = 0 \/ (VipcIo(p) <= 64512 /\ VipcIo(p) % 512 = 0 /\ SizeLegal(Size24(p, 2)))
<1>2. m.am # "A16" /\ m.base \in Int /\ m.size \in Int /\ Io610(p) \in Int
  BY <1>1 DEF Memory610, Memory, Size24, Io610
<1> DEFINE s1 == Need(c)
<1>0. s1.do \in {"pass", "fail"}
  BY DEF Need
<1>3. initialise(p) = <<s1, Claim("A16", Io610(p), 1024)>> \o ClaimMemory(m, 4)
  BY DEF initialise, Init610
<1>4. IoBase(p) = At("A16", Io610(p))
  BY DEF IoBase
<1> HIDE DEF m, c, s1
<1>5. 512 \in {512, 1024, 2048} /\ 1024 \in {512, 1024, 2048} /\ 2 \in Int /\ 4 \in Int
  OBVIOUS
<1>6. IsVipc(p, s1, Io610(p), 1024, m, 4)
  <2>1. 256 * numberSlots(p.kind) <= 1024
    BY DEF numberSlots
  <2> QED BY <1>1, <1>2, <1>3, <1>4, <2>1 DEF IsVipc
<1> QED BY <1>0, <1>5, <1>6, VipcShape DEF m

LEMMA Shape616 ==
  ASSUME NEW p, p.kind \in {"VIPC616", "VIPC616-01"}, Parameters(p)
  PROVE  Shaped(p) /\ Early(p) /\ (Sound(p) => ClaimsBase(p) /\ ClaimsMemory(p, Memory616(p), 4))
<1>1. VipcIo(p) \in Int /\ p.args \in 0 .. 3 /\ p.mem \in Int /\ p.size \in Int
  BY VipcIoType DEF VipcKinds
<1> DEFINE m == Memory616(p)
           c == p.args = 0 \/ (/\ VipcIo(p) <= 64512 /\ VipcIo(p) % 1024 = 0
                               /\ p.args = 2 => p.mem % 32768 = 0
                               /\ p.args = 3 => p.mem % 128 = 0 /\ p.mem < 16384
                               /\ SizeLegal(Size24(p, 3)))
<1>2. m.am # "A16" /\ m.base \in Int /\ m.size \in Int
  <2>1. p.args = 0 \/ p.args = 1 \/ p.args = 2 \/ p.args = 3
    BY <1>1
  <2> QED BY <1>1, <2>1 DEF Memory616, Memory
<1> DEFINE s1 == Need(c)
<1>0. s1.do \in {"pass", "fail"}
  BY DEF Need
<1>3. initialise(p) = <<s1, Claim("A16", VipcIo(p), 1024)>> \o ClaimMemory(m, 4)
  BY DEF initialise, Init616
<1>4. IoBase(p) = At("A16", VipcIo(p))
  BY DEF IoBase
<1> HIDE DEF m, c, s1
<1>5. 512 \in {512, 1024, 2048} /\ 1024 \in {512, 1024, 2048} /\ 2 \in Int /\ 4 \in Int
  OBVIOUS
<1>6. IsVipc(p, s1, VipcIo(p), 1024, m, 4)
  <2>1. 256 * numberSlots(p.kind) <= 1024
    BY DEF numberSlots
  <2> QED BY <1>1, <1>2, <1>3, <1>4, <2>1 DEF IsVipc
<1> QED BY <1>0, <1>5, <1>6, VipcShape DEF m

LEMMA ShapeAtc40 ==
  ASSUME NEW p, p.kind = "ATC40"
  PROVE  /\ Shaped(p)
         /\ Len(initialise(p)) = 3 /\ initialise(p)[3] = Do("list")
<1> DEFINE st == initialise(p)
           c1 == p.args < 2 \/ p.size = 16384
           c2 == p.args < 3 \/ p.irq \in 0 .. 15
<1>1. st = <<Need(c1), Need(c2), Do("list")>>
  BY DEF initialise, InitAtc40
<1>2. Need(c1).do \in {"pass", "fail"} /\ Need(c2).do \in {"pass", "fail"} /\ Do("list").do = "list"
  BY DEF Need, Do
<1> HIDE DEF c1, c2, st
<1>3. Len(st) = 3 /\ st[1] = Need(c1) /\ st[2] = Need(c2) /\ st[3] = Do("list")
  BY <1>1
<1>4. \A i \in 1 .. Len(st) : i = 1 \/ i = 2 \/ i = 3
  BY <1>3
<1> QED BY <1>2, <1>3, <1>4 DEF Shaped, Dos, st

LEMMA TvmeTypes ==
  ASSUME NEW p, p.kind = "TVME200", Parameters(p)
  PROVE  /\ TvmeIo(p) \in Int
         /\ TvmeMemory(p).am # "A16" /\ TvmeMemory(p).base \in Int /\ TvmeMemory(p).size \in Nat
<1>1. /\ p.s[1] \in 0 .. 15 /\ p.s[2] \in 0 .. 15 /\ p.s[4] \in 0 .. 15
      /\ p.s[5] \in 0 .. 15 /\ p.s[6] \in 0 .. 15
  BY DEF Parameters
<1>2. TvmeIo(p) \in Int
  BY <1>1 DEF TvmeIo
<1> DEFINE base == (p.s[5] * 16 + p.s[6]) * 64
<1>3. base \in Int /\ base * 256 \in Int
  BY <1>1
<1>4. p.s[4] \in 1 .. 7 => 2 ^ p.s[4] \in Nat /\ 16 * 2 ^ p.s[4] \in Nat
  <2> SUFFICES ASSUME p.s[4] \in 1 .. 7 PROVE 2 ^ p.s[4] \in Nat /\ 16 * 2 ^ p.s[4] \in Nat
    OBVIOUS
  <2>1. 2 ^ p.s[4] \in Nat
    BY <1>1, PowerTypes
  <2> QED BY <2>1
<1>5. TvmeMemory(p) = CASE p.s[4] = 0 -> Memory("A24", base, 0)
                        [] p.s[4] \in 1 .. 7 -> Memory("A24", base, 16 * 2 ^ p.s[4])
                        [] p.s[4] = 15 -> Memory("A32", base * 256, 8192)
                        [] OTHER -> Memory("none", 0, 0)
  BY DEF TvmeMemory
<1> DEFINE size == 16 * 2 ^ p.s[4]
<1> HIDE DEF base, size
<1>6. \/ p.s[4] = 0 /\ TvmeMemory(p) = Memory("A24", base, 0)
      \/ p.s[4] \in 1 .. 7 /\ TvmeMemory(p) = Memory("A24", base, size)
      \/ TvmeMemory(p) = Memory("A32", base * 256, 8192)
      \/ TvmeMemory(p) = Memory("none", 0, 0)
  BY <1>1, <1>5 DEF size
<1>7. p.s[4] \in 1 .. 7 => size \in Nat
  BY <1>4 DEF size
<1>8. TvmeMemory(p).am # "A16" /\ TvmeMemory(p).base \in Int /\ TvmeMemory(p).size \in Nat
  BY <1>3, <1>6, <1>7 DEF Memory
<1> QED BY <1>2, <1>8

LEMMA ShapeTvme200 ==
  ASSUME NEW p, p.kind = "TVME200", Parameters(p)
  PROVE  /\ Shaped(p) /\ Early(p)
         /\ Sound(p) => /\ ClaimsBase(p) /\ TvmeMemory(p).am # "none"
                        /\ TvmeMemory(p).size # 0 =>
                             [am |-> TvmeMemory(p).am, at |-> TvmeMemory(p).base, size |-> TvmeMemory(p).size * 4] \in ClaimsOf(p)
<1> DEFINE st == initialise(p)
           m == TvmeMemory(p)
           s1 == Need(Len(p.s) = 6)
           s2 == Need(p.s[2] % 4 = 0 /\ p.s[3] < 5)
           s3 == Claim("A16", TvmeIo(p), 1024)
           s4 == Do("levels")
           s5 == Need(m.am # "none")
           s6 == Need(m.size # 0 => m.base % (m.size * 4) = 0)
           s7 == Claim(m.am, m.base, m.size * 4)
<1>1. TvmeIo(p) \in Int /\ m.am # "A16" /\ m.base \in Int /\ m.size \in Nat
  BY TvmeTypes
<1>2. st = <<s1, s2, s3, s4, s5, s6>> \o Steps(<<s7>>, m.size # 0)
  BY DEF initialise, InitTvme200
<1>3. /\ {s1.do, s2.do, s5.do, s6.do} \subseteq {"pass", "fail"}
      /\ s3.do = "claim" /\ s7.do = "claim" /\ s4.do = "levels"
  BY DEF Need, Claim, Do
<1>10. s5.do # "fail" => m.am # "none"
  BY DEF Need
<1> HIDE DEF m
<1>4. Region(s3) = [am |-> "A16", at |-> TvmeIo(p), size |-> 1024] /\ Region(s7) = [am |-> m.am, at |-> m.base, size |-> m.size * 4]
  BY DEF Region, Claim
<1>5. IsRange(Region(s3)) /\ IsRange(Region(s7))
  <2>1. m.size * 4 \in Int
    BY <1>1
  <2> HIDE DEF s3, s7
  <2> QED BY <1>1, <1>4, <2>1 DEF IsRange
<1>6. Region(s3) \in ClaimsOf(p) => ClaimsBase(p)
  <2>1. IoBase(p) = At("A16", TvmeIo(p)) /\ numberSlots(p.kind) = 4
    BY DEF IoBase, numberSlots
  <2> HIDE DEF s3
  <2> QED BY <1>1, <1>4, <2>1 DEF ClaimsBase, At
<1>11. IoBase(p).at = TvmeIo(p)
  BY DEF IoBase, At
<1> HIDE DEF s1, s2, s3, s4, s5, s6, s7, st
<1>9. ASSUME Len(st) \in {6, 7}, st[1] = s1, st[2] = s2, st[3] = s3, st[5] = s5
      PROVE  Early(p) /\ (Sound(p) => m.am # "none")
  <2>1. \A i \in 1 .. 3 - 1 : i = 1 \/ i = 2
    OBVIOUS
  <2>2. EarlyAt(p, 3, 1024)
    BY <1>3, <1>4, <1>9, <1>11, <2>1 DEF EarlyAt, st
  <2>3. Sound(p) => s5.do # "fail"
    BY <1>9 DEF Sound, st
  <2> QED BY <1>9, <1>10, <2>2, <2>3 DEF Early, st
<1>7. CASE m.size # 0
  <2>1. st = <<s1, s2, s3, s4, s5, s6>> \o <<s7>>
    BY <1>2, <1>7 DEF Steps
  <2>2. /\ Len(st) = 7 /\ st[1] = s1 /\ st[2] = s2 /\ st[3] = s3 /\ st[4] = s4
        /\ st[5] = s5 /\ st[6] = s6 /\ st[7] = s7
    BY <2>1
  <2>3. \A i \in 1 .. Len(st) : i = 1 \/ i = 2 \/ i = 3 \/ i = 4 \/ i = 5 \/ i = 6 \/ i = 7
    BY <2>2
  <2>4. Shaped(p)
    BY <1>3, <1>5, <2>2, <2>3 DEF Shaped, Dos, st
  <2>5. 3 \in 1 .. Len(st) /\ 7 \in 1 .. Len(st) /\ st[3].do = "claim" /\ st[7].do = "claim"
    BY <1>3, <2>2
  <2>6. Region(st[3]) \in ClaimsOf(p) /\ Region(st[7]) \in ClaimsOf(p)
    BY <2>5, ClaimedIn DEF st
  <2> QED BY <1>4, <1>6, <1>9, <2>2, <2>4, <2>6 DEF m
<1>8. CASE m.size = 0
  <2>1. st = <<s1, s2, s3, s4, s5, s6>> \o <<>>
    BY <1>2, <1>8 DEF Steps
  <2>2. Len(st) = 6 /\ st[1] = s1 /\ st[2] = s2 /\ st[3] = s3 /\ st[4] = s4 /\ st[5] = s5 /\ st[6] = s6
    BY <2>1
  <2>3. \A i \in 1 .. Len(st) : i = 1 \/ i = 2 \/ i = 3 \/ i = 4 \/ i = 5 \/ i = 6
    BY <2>2
  <2>4. Shaped(p)
    BY <1>3, <1>5, <2>2, <2>3 DEF Shaped, Dos, st
  <2>5. 3 \in 1 .. Len(st) /\ st[3].do = "claim"
    BY <1>3, <2>2
  <2>6. Region(st[3]) \in ClaimsOf(p)
    BY <2>5, ClaimedIn DEF st
  <2> QED BY <1>6, <1>8, <1>9, <2>2, <2>4, <2>6 DEF m
<1> QED BY <1>7, <1>8

HyMemory(p) == [am |-> "A32", at |-> HyBase(p), size |-> p.ipmem * 4096]

LEMMA ShapeHy8002 ==
  ASSUME NEW p, p.kind = "Hy8002", Parameters(p)
  PROVE  /\ Shaped(p) /\ Early(p) /\ Arms(p)
         /\ Sound(p) => /\ ClaimsBase(p) /\ ScanParm(p) /\ HyBase(p) \in Int
                        /\ HyMemory(p) \in ClaimsOf(p)
<1> DEFINE st == initialise(p)
           s1 == Need(ScanParm(p))
           s2 == Need(~(p.ipmem = 2 /\ p.slot > 15))
           s3 == Need(~(p.ipmem = 4 /\ p.membase < 0))
           s4 == Claim("A16", p.slot * 2048, 2048)
           d1 == Drop("A16", p.slot * 2048)
           d2 == Need(FALSE)
           s5 == Claim("A24", p.slot * 512, 2)
           s6 == Need(p.membase >= 0 => p.membase % (p.ipmem * 64) = 0)
           s7 == Claim("A32", HyBase(p), p.ipmem * 4096)
           s8 == Do("quiet")
           s9 == Do("arm")
<1>1. p.slot \in Int /\ p.membase \in Int /\ p.ipmem \in Int
  BY DEF Parameters
<1>2. HyBase(p) \in Int
  <2> DEFINE k == CASE p.ipmem = 1 -> 4096 [] p.ipmem = 2 -> 8192 [] OTHER -> 131072
  <2>1. k \in Int
    OBVIOUS
  <2>2. HyBase(p) = IF p.membase >= 0 THEN p.membase * 64 ELSE p.slot * k
    BY DEF HyBase
  <2> HIDE DEF k
  <2> QED BY <1>1, <2>1, <2>2
<1>3. st = <<s1, s2, s3, s4>> \o Steps(<<d1, d2>>, ~CheckVMEprom(p)) \o <<s5, s6, s7, s8, s9>>
  BY DEF initialise, InitHy8002
<1>4. /\ s1.do = (IF ScanParm(p) THEN "pass" ELSE "fail") /\ {s2.do, s3.do, s6.do} \subseteq {"pass", "fail"} /\ d2.do = "fail"
      /\ s4.do = "claim" /\ s5.do = "claim" /\ s7.do = "claim" /\ d1.do = "drop" /\ s8.do = "quiet" /\ s9.do = "arm"
      /\ d1.am = "A16" /\ s4.am = "A16" /\ d1.at = s4.at
  BY DEF Need, Claim, Do, Drop
<1>5. /\ Region(s4) = [am |-> "A16", at |-> p.slot * 2048, size |-> 2048]
      /\ Region(s5) = [am |-> "A24", at |-> p.slot * 512, size |-> 2]
      /\ Region(s7) = [am |-> "A32", at |-> HyBase(p), size |-> p.ipmem * 4096]
  BY DEF Region, Claim
<1>6. IsRange(Region(s4)) /\ IsRange(Region(s5)) /\ IsRange(Region(s7))
  <2>1. p.slot * 2048 \in Int /\ p.slot * 512 \in Int /\ p.ipmem * 4096 \in Int
    BY <1>1
  <2> HIDE DEF s4, s5, s7
  <2> QED BY <1>2, <1>5, <2>1 DEF IsRange
<1>7. Region(s4) \in ClaimsOf(p) => ClaimsBase(p)
  <2>1. IoBase(p) = At("A16", p.slot * 2048) /\ numberSlots(p.kind) = 4
    BY DEF IoBase, numberSlots
  <2> HIDE DEF s4
  <2> QED BY <1>1, <1>5, <2>1 DEF ClaimsBase, At
<1>11. IoBase(p).at = p.slot * 2048
  BY DEF IoBase, At
<1> HIDE DEF s1, s2, s3, s4, s5, s6, s7, s8, s9, d1, d2, st
<1>10. ASSUME Len(st) \in {9, 11}, st[1] = s1, st[2] = s2, st[3] = s3, st[4] = s4, st[Len(st)] = s9
       PROVE  Early(p) /\ Arms(p)
  <2>1. \A i \in 1 .. 4 - 1 : i = 1 \/ i = 2 \/ i = 3
    OBVIOUS
  <2>2. EarlyAt(p, 4, 2048)
    <3>1. s1.do \in {"pass", "fail"}
      BY <1>4
    <3> QED BY <1>4, <1>5, <1>10, <1>11, <2>1, <3>1 DEF EarlyAt, st
  <2>3. ArmsAt(p, Len(st))
    <3>1. \A i \in Len(st) + 1 .. Len(st) : FALSE
      BY <1>10
    <3> QED BY <1>4, <1>10, <3>1 DEF ArmsAt, st
  <2> QED BY <1>10, <2>2, <2>3 DEF Early, Arms, st
<1>8. CASE CheckVMEprom(p)
  <2>1. st = <<s1, s2, s3, s4>> \o <<>> \o <<s5, s6, s7, s8, s9>>
    BY <1>3, <1>8 DEF Steps
  <2>2. /\ Len(st) = 9 /\ st[1] = s1 /\ st[2] = s2 /\ st[3] = s3 /\ st[4] = s4
        /\ st[5] = s5 /\ st[6] = s6 /\ st[7] = s7 /\ st[8] = s8 /\ st[9] = s9
    BY <2>1
  <2>3. \A i \in 1 .. Len(st) : i = 1 \/ i = 2 \/ i = 3 \/ i = 4 \/ i = 5 \/ i = 6 \/ i = 7 \/ i = 8 \/ i = 9
    BY <2>2
  <2>4. Shaped(p)
    BY <1>4, <1>6, <2>2, <2>3 DEF Shaped, Dos, st
  <2>5. 4 \in 1 .. Len(st) /\ 7 \in 1 .. Len(st) /\ st[4].do = "claim" /\ st[7].do = "claim"
    BY <1>4, <2>2
  <2>6. Region(st[4]) \in ClaimsOf(p) /\ Region(st[7]) \in ClaimsOf(p)
    BY <2>5, ClaimedIn DEF st
  <2>7. Sound(p) => ScanParm(p)
    BY <1>4, <2>2 DEF Sound, st
  <2>8. Early(p) /\ Arms(p)
    BY <1>10, <2>2
  <2> QED BY <1>2, <1>5, <1>7, <2>2, <2>4, <2>6, <2>7, <2>8 DEF HyMemory
<1>9. CASE ~CheckVMEprom(p)
  <2>1. st = <<s1, s2, s3, s4>> \o <<d1, d2>> \o <<s5, s6, s7, s8, s9>>
    BY <1>3, <1>9 DEF Steps
  <2>2. /\ Len(st) = 11 /\ st[1] = s1 /\ st[2] = s2 /\ st[3] = s3 /\ st[4] = s4 /\ st[5] = d1 /\ st[6] = d2
        /\ st[7] = s5 /\ st[8] = s6 /\ st[9] = s7 /\ st[10] = s8 /\ st[11] = s9
    BY <2>1
  <2>3. \A i \in 1 .. Len(st) : i = 1 \/ i = 2 \/ i = 3 \/ i = 4 \/ i = 5 \/ i = 6 \/ i = 7 \/ i = 8 \/ i = 9 \/ i = 10 \/ i = 11
    BY <2>2
  <2>4. ~Sound(p)
    <3>1. 6 \in 1 .. Len(st) /\ st[6].do = "fail"
      BY <1>4, <2>2
    <3> QED BY <3>1 DEF Sound, st
  <2>5. \A i \in 1 .. Len(st) : st[i].do \in Dos
    BY <1>4, <2>2, <2>3 DEF Dos
  <2>6. \A i \in 1 .. Len(st) : st[i].do = "claim" => IsRange(Region(st[i]))
    BY <1>4, <1>6, <2>2, <2>3
  <2>7. \A i \in 1 .. Len(st) : st[i].do = "drop" => i = 5
    BY <1>4, <2>2, <2>3
  <2>8. Shaped(p)
    BY <1>4, <2>2, <2>4, <2>5, <2>6, <2>7 DEF Shaped, st
  <2>9. Early(p) /\ Arms(p)
    BY <1>10, <2>2
  <2> QED BY <2>4, <2>8, <2>9
<1> QED BY <1>8, <1>9

LEMMA ShapeMvme162 ==
  ASSUME NEW p, p.kind = "MVME162", Parameters(p)
  PROVE  Shaped(p) /\ \A i \in 1 .. Len(initialise(p)) : initialise(p)[i].do # "claim"
<1> DEFINE st == initialise(p)
           n == Len(p.opts)
           Steps1(i) == Need(OptLegal(p.opts[i], p.top))
           Steps2(i) == [do |-> "option", o |-> p.opts[i]]
           T == [j \in 1 .. 2 * n |-> IF j % 2 = 1 THEN Steps1((j + 1) \div 2) ELSE Steps2(j \div 2)]
           S == {Need(TRUE), Need(FALSE), Do("reset"), Do("clear")} \cup {Steps2(i) : i \in Int}
           R == Steps(<<Do("reset")>>, p.reset)
<1>1. n \in Nat
  BY DEF Parameters
<1>2. st = <<Need(p.there)>> \o R \o <<Do("clear")>> \o T
  BY DEF initialise, InitMv162, TwoEach
<1>3. \A i \in Int : Steps1(i) \in S /\ Steps2(i) \in S
  BY DEF Need
<1>4. Need(p.there) \in S /\ Do("clear") \in S /\ Do("reset") \in S
  BY DEF Need
<1>5. \A s \in S : s.do \in {"pass", "fail", "reset", "clear", "option"}
  BY DEF Need, Do
<1> HIDE DEF S, Steps1, Steps2
<1>6. T \in Seq(S)
  <2>1. \A j \in 1 .. 2 * n : (j + 1) \div 2 \in Int /\ j \div 2 \in Int
    BY <1>1
  <2>2. T \in [1 .. 2 * n -> S]
    BY <1>3, <2>1
  <2>3. 2 * n \in Nat
    BY <1>1
  <2> HIDE DEF T, n
  <2> QED BY <2>2, <2>3, SeqDef
<1>7. R \in Seq(S)
  BY <1>4 DEF Steps
<1> HIDE DEF T, R, st
<1>8. st \in Seq(S)
  <2>1. <<Need(p.there)>> \in Seq(S) /\ <<Do("clear")>> \in Seq(S)
    BY <1>4
  <2>2. <<Need(p.there)>> \o R \in Seq(S)
    BY <1>7, <2>1
  <2>3. <<Need(p.there)>> \o R \o <<Do("clear")>> \in Seq(S)
    BY <2>1, <2>2
  <2> QED BY <1>2, <1>6, <2>3
<1>9. Len(st) \in Nat /\ \A i \in 1 .. Len(st) : st[i] \in S
  BY <1>8
<1>10. \A i \in 1 .. Len(st) : st[i].do \in {"pass", "fail", "reset", "clear", "option"}
  BY <1>5, <1>9
<1>11. \A i \in 1 .. Len(st) : st[i].do \in Dos /\ st[i].do # "claim" /\ st[i].do # "drop"
  BY <1>10 DEF Dos
<1> QED BY <1>9, <1>11 DEF Shaped, st

\* The memory an AVME carrier claims for its i-th setting.
XyRange(p, i) == [am |-> "A24", at |-> p.mem[i].base, size |-> p.mem[i].mb * 1024]

LEMMA ShapeAvme ==
  ASSUME NEW p, p.kind = "AVME96xx", Parameters(p)
  PROVE  /\ Shaped(p) /\ Early(p) /\ Arms(p)
         /\ Sound(p) =>
              /\ ClaimsBase(p)
              /\ \E k \in {7, 8} : \A i \in 1 .. Len(p.mem) :
                   /\ p.mem[i].mb \in {1, 2, 4, 8}
                   /\ k + 2 * i - 1 \in 1 .. Len(initialise(p)) /\ initialise(p)[k + 2 * i - 1].do = "claim"
                   /\ Region(initialise(p)[k + 2 * i - 1]) = XyRange(p, i)
<1> DEFINE st == initialise(p)
           n == Len(p.mem)
           Legal(i) == p.mem[i].mb \in {1, 2, 4, 8} /\ p.mem[i].base % (p.mem[i].mb * 1024) = 0
           Steps1(i) == Need(Legal(i))
           Steps2(i) == Claim("A24", p.mem[i].base, p.mem[i].mb * 1024)
           T == [j \in 1 .. 2 * n |-> IF j % 2 = 1 THEN Steps1((j + 1) \div 2) ELSE Steps2(j \div 2)]
           s1 == Need(p.given)
           s2 == Claim("A16", p.io, 1024)
           s3 == Need(p.level \in 0 .. 7)
           s4 == Need(p.there)
           s5 == Do("quiet")
           r == Do("reset")
           s6 == Do("arm")
<1>1. /\ n \in Nat /\ p.io \in Int
      /\ \A i \in 1 .. n : p.mem[i].mb \in Int /\ p.mem[i].base \in Int
  <2> DEFINE X == [slot : 0 .. 3, mb : Int, base : Int]
  <2>1. p.io \in Int /\ p.mem \in Seq(X)
    BY DEF Parameters
  <2> HIDE DEF X
  <2>2. n \in Nat /\ \A i \in 1 .. n : p.mem[i] \in X
    BY <2>1
  <2> HIDE DEF n
  <2> QED BY <2>1, <2>2 DEF X
<1>2. st = <<s1, s2, s3, s4, s5>> \o Steps(<<r>>, p.reset) \o <<s6>> \o T
  <2>1. initialise(p) = InitXy9660(p)
    BY DEF initialise
  <2>2. InitXy9660(p) = <<s1, s2, s3, s4, s5>> \o Steps(<<r>>, p.reset) \o <<s6>> \o T
    BY Zenon DEF InitXy9660, TwoEach
  <2> QED BY <2>1, <2>2
<1>3. /\ {s1.do, s3.do, s4.do} \subseteq {"pass", "fail"} /\ s2.do = "claim" /\ s5.do = "quiet" /\ r.do = "reset" /\ s6.do = "arm"
      /\ \A i \in 1 .. n : Steps2(i).do = "claim" /\ Steps1(i).do = (IF Legal(i) THEN "pass" ELSE "fail")
  BY DEF Need, Claim, Do
<1>4. /\ Region(s2) = [am |-> "A16", at |-> p.io, size |-> 1024]
      /\ \A i \in 1 .. n : Region(Steps2(i)) = XyRange(p, i)
  BY DEF Region, Claim, XyRange
<1>5. IsRange(Region(s2)) /\ \A i \in 1 .. n : IsRange(Region(Steps2(i)))
  <2>1. \A i \in 1 .. n : p.mem[i].mb * 1024 \in Int
    BY <1>1
  <2>2. \A i \in 1 .. n : IsRange(XyRange(p, i))
    BY <1>1, <2>1 DEF IsRange, XyRange
  <2> HIDE DEF s2, Steps2
  <2> QED BY <1>1, <1>4, <2>2 DEF IsRange
<1>6. Region(s2) \in ClaimsOf(p) => ClaimsBase(p)
  <2>1. IoBase(p) = At("A16", p.io) /\ numberSlots(p.kind) = 4
    BY DEF IoBase, numberSlots
  <2> HIDE DEF s2
  <2> QED BY <1>1, <1>4, <2>1 DEF ClaimsBase, At
<1>7. /\ DOMAIN T = 1 .. 2 * n /\ Len(T) = 2 * n /\ T \in Seq({T[j] : j \in 1 .. 2 * n})
      /\ \A i \in 1 .. n : 2 * i - 1 \in 1 .. 2 * n /\ 2 * i \in 1 .. 2 * n /\ T[2 * i - 1] = Steps1(i) /\ T[2 * i] = Steps2(i)
      /\ \A j \in 1 .. 2 * n : \E i \in 1 .. n : T[j] = Steps1(i) \/ T[j] = Steps2(i)
  <2>1. \A j \in 1 .. 2 * n : T[j] = IF j % 2 = 1 THEN Steps1((j + 1) \div 2) ELSE Steps2(j \div 2)
    OBVIOUS
  <2>2. DOMAIN T = 1 .. 2 * n /\ 2 * n \in Nat
    BY <1>1
  <2>3. \A j \in 1 .. 2 * n : (j % 2 = 1 => (j + 1) \div 2 \in 1 .. n) /\ (j % 2 # 1 => j \div 2 \in 1 .. n)
    BY <1>1
  <2>4. \A i \in 1 .. n : /\ 2 * i - 1 \in 1 .. 2 * n /\ 2 * i \in 1 .. 2 * n
                          /\ (2 * i - 1) % 2 = 1 /\ (2 * i) % 2 # 1 /\ ((2 * i - 1) + 1) \div 2 = i /\ (2 * i) \div 2 = i
    BY <1>1
  <2>7. T = [j \in 1 .. 2 * n |-> T[j]]
    OBVIOUS
  <2> HIDE DEF T, Steps1, Steps2, n
  <2>5. T \in Seq({T[j] : j \in 1 .. 2 * n}) /\ Len(T) = 2 * n
    <3>1. T \in [1 .. 2 * n -> {T[j] : j \in 1 .. 2 * n}]
      BY <2>7
    <3> QED BY <2>2, <3>1, SeqDef
  <2>6. \A j \in 1 .. 2 * n : \E i \in 1 .. n : T[j] = Steps1(i) \/ T[j] = Steps2(i)
    BY <2>1, <2>3
  <2> QED BY <2>1, <2>2, <2>4, <2>5, <2>6
<1>16. IoBase(p).at = p.io
  BY DEF IoBase, At
<1> HIDE DEF s1, s2, s3, s4, s5, s6, r, T, st, Steps1, Steps2, n, Legal
<1> DEFINE Leads(h, k) ==
             /\ Len(h) = k - 1 /\ st = h \o T /\ h[1] = s1 /\ h[2] = s2 /\ h[k - 1] = s6
             /\ \A i \in 1 .. k - 1 : h[i] \in {s1, s2, s3, s4, s5, s6, r}
<1>8. \E k \in {7, 8} : \E h : h \in Seq({s1, s2, s3, s4, s5, s6, r}) /\ Leads(h, k)
  <2> DEFINE S == {s1, s2, s3, s4, s5, s6, r}
  <2>1. CASE p.reset
    <3> DEFINE h == <<s1, s2, s3, s4, s5>> \o <<r>> \o <<s6>>
    <3>1. st = h \o T
      BY <1>2, <2>1 DEF Steps
    <3>2. Len(h) = 7 /\ h[1] = s1 /\ h[2] = s2 /\ h[3] = s3 /\ h[4] = s4 /\ h[5] = s5 /\ h[6] = r /\ h[7] = s6
      OBVIOUS
    <3>3. h \in Seq(S)
      OBVIOUS
    <3>4. \A i \in 1 .. 7 : i = 1 \/ i = 2 \/ i = 3 \/ i = 4 \/ i = 5 \/ i = 6 \/ i = 7
      OBVIOUS
    <3> HIDE DEF h
    <3>5. Leads(h, 8)
      BY <3>1, <3>2, <3>4
    <3> QED BY <3>3, <3>5
  <2>2. CASE ~p.reset
    <3> DEFINE h == <<s1, s2, s3, s4, s5>> \o <<>> \o <<s6>>
    <3>1. st = h \o T
      BY <1>2, <2>2 DEF Steps
    <3>2. Len(h) = 6 /\ h[1] = s1 /\ h[2] = s2 /\ h[3] = s3 /\ h[4] = s4 /\ h[5] = s5 /\ h[6] = s6
      OBVIOUS
    <3>3. h \in Seq(S)
      OBVIOUS
    <3>4. \A i \in 1 .. 6 : i = 1 \/ i = 2 \/ i = 3 \/ i = 4 \/ i = 5 \/ i = 6
      OBVIOUS
    <3> HIDE DEF h
    <3>5. Leads(h, 7)
      BY <3>1, <3>2, <3>4
    <3> QED BY <3>3, <3>5
  <2> QED BY <2>1, <2>2
<1>0. PICK k \in {7, 8} : \E h : h \in Seq({s1, s2, s3, s4, s5, s6, r}) /\ Leads(h, k)
  BY <1>8
<1>9. PICK h : h \in Seq({s1, s2, s3, s4, s5, s6, r}) /\ Leads(h, k)
  BY <1>0
<1>10. Len(st) = k - 1 + 2 * n /\ (\A i \in 1 .. k - 1 : st[i] = h[i]) /\ (\A j \in 1 .. 2 * n : st[k - 1 + j] = T[j])
  <2> DEFINE A == {s1, s2, s3, s4, s5, s6, r}
             B == {T[j] : j \in 1 .. 2 * n}
  <2>1. h \in Seq(A) /\ T \in Seq(B) /\ st = h \o T /\ Len(h) = k - 1 /\ Len(T) = 2 * n
    BY <1>7, <1>9
  <2> HIDE DEF A, B
  <2>2. Len(st) = Len(h) + Len(T) /\ (\A i \in 1 .. Len(h) : st[i] = h[i])
        /\ (\A j \in 1 .. Len(T) : st[Len(h) + j] = T[j])
    BY <2>1
  <2> QED BY <2>1, <2>2
<1>11. \A i \in 1 .. Len(st) : i \in 1 .. k - 1 \/ (i - (k - 1) \in 1 .. 2 * n /\ i = k - 1 + (i - (k - 1)))
  BY <1>1, <1>10
<1>12. \A i \in 1 .. Len(st) : st[i] \in {s1, s2, s3, s4, s5, s6, r} \/ \E l \in 1 .. n : st[i] = Steps1(l) \/ st[i] = Steps2(l)
  <2> TAKE i \in 1 .. Len(st)
  <2>1. CASE i \in 1 .. k - 1
    BY <1>9, <1>10, <2>1
  <2>2. CASE i - (k - 1) \in 1 .. 2 * n /\ i = k - 1 + (i - (k - 1))
    BY <1>7, <1>10, <2>2
  <2> QED BY <1>11, <2>1, <2>2
<1>13. Shaped(p)
  <2>1. Len(st) \in Nat
    BY <1>1, <1>10
  <2>2. \A i \in 1 .. Len(st) : st[i].do \in Dos /\ st[i].do # "drop" /\ (st[i].do = "claim" => IsRange(Region(st[i])))
    BY <1>3, <1>5, <1>12 DEF Dos
  <2> QED BY <2>1, <2>2 DEF Shaped, st
<1>17. Early(p)
  <2>1. 1 \in 1 .. k - 1 /\ 2 \in 1 .. k - 1 /\ 2 \in 1 .. Len(st) /\ \A i \in 1 .. 2 - 1 : i = 1
    BY <1>1, <1>10
  <2>2. st[1] = s1 /\ st[2] = s2
    BY <1>9, <1>10, <2>1
  <2>3. EarlyAt(p, 2, 1024)
    BY <1>3, <1>4, <1>16, <2>1, <2>2 DEF EarlyAt, st
  <2> QED BY <2>1, <2>3 DEF Early, st
<1>18. Arms(p)
  <2>1. k - 1 \in 1 .. k - 1 /\ k - 1 \in 1 .. Len(st)
    BY <1>1, <1>10
  <2>2. st[k - 1] = s6
    BY <1>9, <1>10, <2>1
  <2>3. \A i \in k - 1 + 1 .. Len(st) : st[i].do \in {"pass", "fail", "claim"}
    <3> TAKE i \in k - 1 + 1 .. Len(st)
    <3>1. i \in 1 .. Len(st) /\ i \notin 1 .. k - 1
      BY <1>1, <1>10
    <3>2. st[i] = T[i - (k - 1)] /\ i - (k - 1) \in 1 .. 2 * n
      BY <1>10, <1>11, <3>1
    <3>3. PICK l \in 1 .. n : T[i - (k - 1)] = Steps1(l) \/ T[i - (k - 1)] = Steps2(l)
      BY <1>7, <3>2
    <3> QED BY <1>3, <3>2, <3>3
  <2>4. ArmsAt(p, k - 1)
    BY <1>3, <2>2, <2>3 DEF ArmsAt, st
  <2> QED BY <2>1, <2>4 DEF Arms, st
<1>14. ASSUME Sound(p) PROVE ClaimsBase(p)
  <2>1. 2 \in 1 .. k - 1 /\ 2 \in 1 .. Len(st)
    BY <1>1, <1>10
  <2>2. st[2] = s2
    BY <1>9, <1>10, <2>1
  <2>3. Region(st[2]) \in ClaimsOf(p)
    BY <1>3, <2>1, <2>2, ClaimedIn DEF st
  <2> QED BY <1>6, <2>2, <2>3
<1>15. ASSUME Sound(p), NEW i \in 1 .. n
       PROVE  /\ p.mem[i].mb \in {1, 2, 4, 8}
              /\ k + 2 * i - 1 \in 1 .. Len(st) /\ st[k + 2 * i - 1].do = "claim"
              /\ Region(st[k + 2 * i - 1]) = XyRange(p, i)
  <2>1. /\ 2 * i - 1 \in 1 .. 2 * n /\ 2 * i \in 1 .. 2 * n /\ T[2 * i - 1] = Steps1(i) /\ T[2 * i] = Steps2(i)
        /\ k - 1 + (2 * i - 1) \in 1 .. Len(st) /\ k - 1 + 2 * i \in 1 .. Len(st) /\ k + 2 * i - 1 = k - 1 + 2 * i
    <3>1. /\ 2 * i - 1 \in 1 .. 2 * n /\ 2 * i \in 1 .. 2 * n /\ T[2 * i - 1] = Steps1(i) /\ T[2 * i] = Steps2(i)
      BY <1>7
    <3>2. i \in Int /\ k \in {7, 8} /\ Len(st) = k - 1 + 2 * n
      BY <1>10
    <3> DEFINE a == 2 * i
               b == 2 * n
               z == Len(st)
    <3>3. a \in Int /\ b \in Int /\ a - 1 \in 1 .. b /\ a \in 1 .. b /\ z = k - 1 + b
      BY <1>1, <3>1, <3>2
    <3> HIDE DEF a, b, z
    <3>4. k - 1 + (a - 1) \in 1 .. z /\ k - 1 + a \in 1 .. z /\ k + a - 1 = k - 1 + a
      BY <3>2, <3>3
    <3> QED BY <3>1, <3>4 DEF a, z
  <2>2. st[k - 1 + (2 * i - 1)] = Steps1(i) /\ st[k + 2 * i - 1] = Steps2(i)
    BY <1>10, <2>1
  <2>3. Steps1(i).do # "fail"
    BY <1>15, <2>1, <2>2 DEF Sound, st
  <2>4. Legal(i)
    BY <1>3, <2>3
  <2> QED BY <1>3, <1>4, <2>1, <2>2, <2>4 DEF Legal
<1> QED BY <1>13, <1>14, <1>15, <1>17, <1>18 DEF st, n

LEMMA Shapes ==
  ASSUME NEW p, p.kind \in Kinds, Parameters(p)
  PROVE  /\ Shaped(p)
         /\ Sound(p) /\ p.kind \in VmeKinds => ClaimsBase(p)
         /\ p.kind \in VmeKinds => Early(p)
         /\ p.kind \in {"AVME96xx", "Hy8002"} => Arms(p)
<1>1. CASE p.kind = "VIPC310"
  BY <1>1, Shape310
<1>2. CASE p.kind \in {"VIPC610", "VIPC610-01"}
  BY <1>2, Shape610
<1>3. CASE p.kind \in {"VIPC616", "VIPC616-01"}
  BY <1>3, Shape616
<1>4. CASE p.kind = "TVME200"
  BY <1>4, ShapeTvme200
<1>5. CASE p.kind = "MVME162"
  BY <1>5, ShapeMvme162 DEF VmeKinds
<1>6. CASE p.kind = "AVME96xx"
  BY <1>6, ShapeAvme
<1>7. CASE p.kind = "Hy8002"
  BY <1>7, ShapeHy8002
<1>8. CASE p.kind = "ATC40"
  BY <1>8, ShapeAtc40 DEF VmeKinds
<1> QED BY <1>1, <1>2, <1>3, <1>4, <1>5, <1>6, <1>7, <1>8 DEF Kinds, VipcKinds

-----------------------------------------------------------------------------
(* What an initialise routine does to the ranges claimed.                  *)

Ranges(rs) == \A r \in rs : IsRange(r)
Apart(rs) == \A r, s \in rs : r # s => ~Overlap(r, s)

\* f[n] is the state after n steps, st[i] the i-th of them.
RangesKept(f, n) == regions \subseteq f[n].regions /\ Ranges(f[n].regions) /\ Apart(f[n].regions)

LEMMA OverlapSymmetric ==
  ASSUME NEW r, NEW s, Overlap(r, s)
  PROVE  Overlap(s, r)
  BY DEF Overlap

LEMMA OneMore ==
  ASSUME NEW rs, NEW r, Ranges(rs), Apart(rs), IsRange(r), Claimable(rs, r)
  PROVE  Ranges(rs \cup {r}) /\ Apart(rs \cup {r})
<1>1. \A s \in rs : ~Overlap(r, s) /\ ~Overlap(s, r)
  BY OverlapSymmetric DEF Claimable
<1> QED BY <1>1 DEF Ranges, Apart

\* Nothing that was claimed is lost, and no two ranges ever overlap.
LEMMA RunsKeepRanges ==
  ASSUME NEW p, Shaped(p), NEW f, NEW st, NEW m, st = initialise(p), m = Len(st), Runs(f, p, st, m),
         IsBoard(boards[IoBase(p)]), IsIpic(ipic), Ranges(regions), Apart(regions)
  PROVE  \A n \in 0 .. m : RangesKept(f, n)
<1>1. /\ m \in Nat /\ \A i \in 1 .. m : st[i].do \in Dos
      /\ \A i \in 1 .. m : st[i].do = "claim" => IsRange(Region(st[i]))
      /\ \A i \in 1 .. m : st[i].do = "drop" =>
           /\ i # 1 /\ st[i - 1].do = "claim" /\ st[i].am = "A16"
           /\ st[i - 1].am = st[i].am /\ st[i - 1].at = st[i].at
  BY DEF Shaped
<1>2. /\ f[0] = Begun(p)
      /\ \A n \in 1 .. m : StepDoes(p, f[n - 1], st[n], f[n])
  BY <1>1, SoFar
<1>3. \A n \in 1 .. m :
        /\ f[n].ok => f[n - 1].ok
        /\ ~f[n - 1].ok => f[n] = f[n - 1]
        /\ f[n].ok /\ st[n].do = "claim" => /\ Claimable(f[n - 1].regions, Region(st[n]))
                                            /\ f[n].regions = f[n - 1].regions \cup {Region(st[n])}
        /\ st[n].do = "claim" => \/ f[n].regions = f[n - 1].regions
                                 \/ /\ Claimable(f[n - 1].regions, Region(st[n]))
                                    /\ f[n].regions = f[n - 1].regions \cup {Region(st[n])}
        /\ st[n].do = "drop" => \/ f[n].regions = f[n - 1].regions
                                \/ f[n].regions = {r \in f[n - 1].regions : r.am # st[n].am \/ r.at # st[n].at}
        /\ st[n].do \notin {"claim", "drop"} => f[n].regions = f[n - 1].regions
  BY <1>2 DEF StepDoes
<1> DEFINE S == {n \in 0 .. m : \A k \in 0 .. n : RangesKept(f, k)}
<1>4. 0 \in S
  <2>1. f[0].regions = regions
    BY <1>2 DEF Begun
  <2>2. RangesKept(f, 0)
    BY <2>1 DEF RangesKept
  <2> QED BY <1>1, <2>2
<1>5. \A n \in 0 .. m - 1 : n \in S => n + 1 \in S
  <2> SUFFICES ASSUME NEW n \in 0 .. m - 1, n \in S PROVE n + 1 \in S
    OBVIOUS
  <2>1. n + 1 \in 1 .. m /\ (n + 1) - 1 = n /\ n \in 0 .. n /\ n + 1 \in 0 .. m
    BY <1>1
  <2>2. RangesKept(f, n)
    BY <2>1
  <2>3. SUFFICES RangesKept(f, n + 1)
    BY <1>1, <2>1
  <2> HIDE DEF S
  <2>4. CASE f[n + 1].regions = f[n].regions
    BY <2>2, <2>4 DEF RangesKept
  <2>5. CASE st[n + 1].do = "claim" /\ Claimable(f[n].regions, Region(st[n + 1])) /\ f[n + 1].regions = f[n].regions \cup {Region(st[n + 1])}
    <3>1. IsRange(Region(st[n + 1]))
      BY <1>1, <2>1, <2>5
    <3> QED BY <2>2, <2>5, <3>1, OneMore DEF RangesKept
  <2>6. CASE st[n + 1].do = "drop" /\ f[n + 1].regions # f[n].regions
             /\ f[n + 1].regions = {r \in f[n].regions : r.am # st[n + 1].am \/ r.at # st[n + 1].at}
    <3>1. n \in 1 .. m /\ st[n].do = "claim" /\ st[n + 1].am = "A16" /\ st[n].am = "A16" /\ st[n].at = st[n + 1].at
      BY <1>1, <2>1, <2>6
    <3>2. n - 1 \in 0 .. n /\ RangesKept(f, n - 1)
      BY <1>1, <2>1, <3>1 DEF S
    <3>3. f[n].ok
      BY <1>3, <2>1, <2>6
    <3> DEFINE R == Region(st[n])
    <3>4. Claimable(f[n - 1].regions, R) /\ f[n].regions = f[n - 1].regions \cup {R}
      BY <1>3, <3>1, <3>3
    <3>5. R.am = "A16" /\ R.at = st[n].at /\ IsRange(R)
      BY <1>1, <3>1 DEF Region
    <3> HIDE DEF R
    <3>6. \A r \in f[n - 1].regions : r.am # "A16" \/ r.at # R.at
      <4> SUFFICES ASSUME NEW r \in f[n - 1].regions, r.am = "A16", r.at = R.at PROVE FALSE
        OBVIOUS
      <4>1. IsRange(r)
        BY <3>2 DEF RangesKept, Ranges
      <4>2. ~Overlap(R, r)
        BY <3>4 DEF Claimable
      <4> QED BY <3>5, <4>1, <4>2 DEF Overlap, IsRange
    <3>7. f[n - 1].regions \subseteq f[n + 1].regions /\ f[n + 1].regions \subseteq f[n].regions
      BY <2>6, <3>1, <3>4, <3>5, <3>6
    <3> QED BY <2>2, <3>2, <3>7 DEF RangesKept, Ranges, Apart
  <2>7. CASE st[n + 1].do = "claim"
    BY <1>3, <2>1, <2>4, <2>5, <2>7
  <2>8. CASE st[n + 1].do = "drop"
    BY <1>3, <2>1, <2>4, <2>6, <2>8
  <2>9. CASE st[n + 1].do \notin {"claim", "drop"}
    BY <1>3, <2>1, <2>4, <2>9
  <2> QED BY <2>7, <2>8, <2>9
<1>6. 0 .. m \subseteq S
  <2> HIDE DEF S
  <2> QED BY <1>1, <1>4, <1>5, InductionUpTo
<1>7. \A n \in 0 .. m : n \in 0 .. n
  BY <1>1
<1> QED BY <1>6, <1>7

Claims(p, i) == i \in 1 .. Len(initialise(p)) /\ initialise(p)[i].do = "claim"

\* The ranges a carrier claims do not meet.
SelfApart(p) ==
  \A i, j \in 1 .. Len(initialise(p)) :
    Claims(p, i) /\ Claims(p, j) /\ i # j => ~Overlap(Region(initialise(p)[i]), Region(initialise(p)[j]))

NewClaims(p) == \A r \in ClaimsOf(p), s \in regions : ~Overlap(r, s) /\ ~Overlap(s, r)

\* A routine that succeeds has claimed everything it wanted, and nothing of that
\* was anybody's before.
LEMMA GoodRunsClaim ==
  ASSUME NEW p, Shaped(p), NEW f, NEW st, NEW m, st = initialise(p), m = Len(st), Runs(f, p, st, m),
         IsBoard(boards[IoBase(p)]), IsIpic(ipic), f[m].ok
  PROVE  Sound(p) /\ SelfApart(p) /\ ClaimsOf(p) \subseteq f[m].regions /\ NewClaims(p)
<1>1. /\ m \in Nat /\ \A i \in 1 .. m : st[i].do \in Dos
      /\ \A i \in 1 .. m : st[i].do = "drop" => ~Sound(p)
  BY DEF Shaped
<1>2. /\ f[0] = Begun(p)
      /\ \A n \in 1 .. m : StepDoes(p, f[n - 1], st[n], f[n])
  BY <1>1, SoFar
<1>3. (\A n \in 0 .. m : f[n].ok) /\ (\A i \in 1 .. m : st[i].do # "fail")
  BY <1>1, GoodRuns
<1>4. Sound(p) /\ \A i \in 1 .. m : st[i].do # "drop"
  BY <1>1, <1>3 DEF Sound
<1>5. \A n \in 1 .. m : IF st[n].do = "claim"
                        THEN /\ Claimable(f[n - 1].regions, Region(st[n]))
                             /\ f[n].regions = f[n - 1].regions \cup {Region(st[n])}
                        ELSE f[n].regions = f[n - 1].regions
  <2> TAKE n \in 1 .. m
  <2>1. StepDoes(p, f[n - 1], st[n], f[n]) /\ f[n].ok /\ st[n].do # "drop"
    <3>1. n \in 0 .. m
      BY <1>1
    <3> QED BY <1>2, <1>3, <1>4, <3>1
  <2> QED BY <2>1 DEF StepDoes
<1> DEFINE R(i) == Region(st[i])
           Kept(n) == /\ regions \subseteq f[n].regions
                      /\ \A i \in 1 .. n : st[i].do = "claim" =>
                           /\ R(i) \in f[n].regions
                           /\ \A s \in regions : ~Overlap(R(i), s)
                           /\ \A j \in 1 .. i - 1 : st[j].do = "claim" => ~Overlap(R(i), R(j))
           S == {n \in 0 .. m : Kept(n)}
<1> HIDE DEF R
<1>6. 0 \in S
  BY <1>1, <1>2 DEF Begun
<1>7. \A n \in 0 .. m - 1 : n \in S => n + 1 \in S
  <2> SUFFICES ASSUME NEW n \in 0 .. m - 1, Kept(n) PROVE Kept(n + 1)
    BY <1>1
  <2>1. n + 1 \in 1 .. m /\ (n + 1) - 1 = n /\ \A i \in 1 .. n + 1 : i \in 1 .. n \/ i = n + 1
    BY <1>1
  <2>2. CASE st[n + 1].do = "claim"
    <3>1. Claimable(f[n].regions, R(n + 1)) /\ f[n + 1].regions = f[n].regions \cup {R(n + 1)}
      BY <1>5, <2>1, <2>2 DEF R
    <3>2. \A s \in f[n].regions : ~Overlap(R(n + 1), s)
      BY <3>1 DEF Claimable
    <3> QED BY <2>1, <3>1, <3>2
  <2>3. CASE st[n + 1].do # "claim"
    <3>1. f[n + 1].regions = f[n].regions
      BY <1>5, <2>1, <2>3
    <3> QED BY <2>1, <2>3, <3>1
  <2> QED BY <2>2, <2>3
<1>8. m \in S
  <2>1. 0 .. m \subseteq S
    <3> HIDE DEF S
    <3> QED BY <1>1, <1>6, <1>7, InductionUpTo
  <2> QED BY <1>1, <2>1
<1>9. Kept(m)
  BY <1>8
<1>10. ClaimsOf(p) \subseteq f[m].regions /\ NewClaims(p)
  <2>1. \A r \in ClaimsOf(p) : \E i \in 1 .. m : st[i].do = "claim" /\ r = R(i)
    BY DEF ClaimsOf, R
  <2> QED BY <1>9, <2>1, OverlapSymmetric DEF NewClaims
<1>11. SelfApart(p)
  <2> SUFFICES ASSUME NEW i \in 1 .. m, NEW j \in 1 .. m, st[i].do = "claim", st[j].do = "claim", i # j
               PROVE  ~Overlap(R(i), R(j))
    BY DEF SelfApart, Claims, R
  <2>1. CASE j < i
    <3>1. j \in 1 .. i - 1
      BY <2>1
    <3> QED BY <1>9, <3>1
  <2>2. CASE i < j
    <3>1. i \in 1 .. j - 1
      BY <2>2
    <3> QED BY <1>9, <3>1, OverlapSymmetric
  <2> QED BY <2>1, <2>2
<1> QED BY <1>4, <1>10, <1>11

OwnHook(p) == <<"board", IoBase(p)>>

\* What calling an initialise routine comes to.
Outcome(p, a) ==
  /\ IsAcc(a) /\ a.ipic.initialised = ipic.initialised
  /\ a.hook \subseteq {OwnHook(p)}
  /\ a.board.gie => boards[IoBase(p)].gie \/ OwnHook(p) \in a.hook
  /\ regions \subseteq a.regions /\ Ranges(a.regions) /\ Apart(a.regions)
  /\ a.ok => /\ p.kind = "MVME162" => ~ipic.initialised
             /\ Sound(p) /\ SelfApart(p) /\ ClaimsOf(p) \subseteq a.regions /\ NewClaims(p)
             /\ p.kind = "ATC40" => OwnHook(p) \in a.hook

LEMMA InitialisedOutcome ==
  ASSUME NEW p, p.kind \in Kinds, Parameters(p), IsBoard(boards[IoBase(p)]), IsIpic(ipic),
         Ranges(regions), Apart(regions)
  PROVE  Outcome(p, Initialised(p))
<1> DEFINE st == initialise(p)
           m == Len(st)
<1>1. Shaped(p)
  BY Shapes
<1>2. m \in Nat /\ \A i \in 1 .. m : st[i].do \in Dos
  BY <1>1 DEF Shaped
<1>3. PICK f : Runs(f, p, st, m) /\ Initialised(p) = f[m]
  BY <1>2, InitialisedRuns
<1> DEFINE a == f[m]
<1>4. 0 \in 0 .. m /\ m \in 0 .. m
  BY <1>2
<1>5. Prefix(p, f, st, m)
  <2>1. \A n \in 0 .. m : Prefix(p, f, st, n)
    <3> HIDE DEF st, m
    <3> QED BY <1>2, <1>3, SoFar
  <2> QED BY <1>4, <2>1
<1>6. RangesKept(f, m)
  BY <1>1, <1>3, <1>4, RunsKeepRanges
<1>7. a.ok => Sound(p) /\ SelfApart(p) /\ ClaimsOf(p) \subseteq a.regions /\ NewClaims(p)
  BY <1>1, <1>3, GoodRunsClaim
<1>8. a.ok => (p.kind = "MVME162" => ~ipic.initialised)
  BY <1>5 DEF Prefix, Begun
<1>9. ASSUME a.ok, p.kind = "ATC40" PROVE OwnHook(p) \in a.hook
  <2>1. m = 3 /\ st[3] = Do("list")
    BY <1>9, ShapeAtc40
  <2> HIDE DEF st, m
  <2>2. \A n \in 1 .. m : f[n] = Step(p, f[n - 1], st[n])
    BY <1>2, <1>3, SoFar
  <2>3. \A n \in 0 .. m : f[n].ok
    BY <1>2, <1>3, <1>9, GoodRuns
  <2>4. f[3] = Step(p, f[2], Do("list")) /\ f[2].ok
    BY <2>1, <2>2, <2>3
  <2>5. IsAcc(f[2])
    <3>1. \A n \in 0 .. m : Prefix(p, f, st, n)
      BY <1>2, <1>3, SoFar
    <3> QED BY <2>1, <3>1 DEF Prefix
  <2>6. f[3] = [f[2] EXCEPT !.board.gie = FALSE, !.hook = {OwnHook(p)}]
    BY <2>4 DEF Step, Program, Do, OwnHook
  <2> QED BY <2>1, <2>5, <2>6 DEF IsAcc
<1>10. /\ IsAcc(a) /\ a.ipic.initialised = ipic.initialised /\ a.hook \subseteq {OwnHook(p)}
       /\ a.board.gie => boards[IoBase(p)].gie \/ OwnHook(p) \in a.hook
  BY <1>5 DEF Prefix, OwnHook
<1>11. regions \subseteq a.regions /\ Ranges(a.regions) /\ Apart(a.regions)
  BY <1>6 DEF RangesKept
<1> HIDE DEF a
<1>12. Outcome(p, a)
  BY <1>7, <1>8, <1>9, <1>10, <1>11 DEF Outcome
<1> QED BY <1>3, <1>12 DEF a

-----------------------------------------------------------------------------
(* The interrupt commands.                                                 *)

LEMMA IrqFacts ==
  ASSUME NEW p, p.kind \in Kinds, NEW b, IsBoard(b), NEW l, NEW cmd
  PROVE  LET r == irqCmd(p, b, l, cmd) IN
         /\ IsBoard(r.board)
         /\ r.board.gie => b.gie \/ (p.kind = "ATC40" /\ cmd[1] = "Enable")
<1> DEFINE r == irqCmd(p, b, l, cmd)
<1>1. CASE p.kind \in VipcKinds
  <2>1. r = IrqVipc(p.kind, b, l, cmd)
    BY <1>1 DEF irqCmd, Irq610, Irq616, VipcKinds
  <2>2. r.board = b
    BY <2>1 DEF IrqVipc, Done, NotImplemented
  <2> QED BY <2>2
<1>2. CASE p.kind = "TVME200"
  <2>1. r = IrqTvme200(b, l, cmd)
    BY <1>2 DEF irqCmd
  <2>2. r.board = b \/ r.board = [b EXCEPT !.level[l] = cmd[2]]
    BY <2>1 DEF IrqTvme200, Done, NotImplemented
  <2> QED BY <2>2 DEF IsBoard
<1>3. CASE p.kind = "MVME162"
  <2>1. r = IrqMv162(b, l, cmd)
    BY <1>3 DEF irqCmd
  <2>2. \/ r.board = b \/ r.board = [b EXCEPT !.level[l] = cmd[2]]
        \/ r.board = [b EXCEPT !.on = @ \cup {l}] \/ r.board = [b EXCEPT !.on = @ \ {l}]
        \/ r.board = [b EXCEPT !.edge = @ \cup {l}] \/ r.board = [b EXCEPT !.edge = @ \ {l}]
    BY <2>1 DEF IrqMv162, Done, NotImplemented
  <2> QED BY <2>2 DEF IsBoard
<1>4. CASE p.kind = "AVME96xx"
  <2>1. r = IrqXy9660(b, l, cmd)
    BY <1>4 DEF irqCmd
  <2>2. r.board = b \/ r.board = [b EXCEPT !.on = @ \cup {l}] \/ r.board = [b EXCEPT !.on = @ \ {l}]
    BY <2>1 DEF IrqXy9660, Done, NotImplemented
  <2> QED BY <2>2 DEF IsBoard
<1>5. CASE p.kind = "Hy8002"
  <2>1. r = IrqHy8002(b, l, cmd)
    BY <1>5 DEF irqCmd
  <2>2. r.board = b \/ r.board = [b EXCEPT !.on = @ \cup {l}] \/ r.board = [b EXCEPT !.on = @ \ {l}]
    BY <2>1 DEF IrqHy8002, Done, NotImplemented
  <2> QED BY <2>2 DEF IsBoard
<1>6. CASE p.kind = "ATC40"
  <2>1. r = IrqAtc40(p, b, cmd)
    BY <1>6 DEF irqCmd
  <2>2. r.board = b \/ (cmd[1] = "Enable" /\ r.board = [b EXCEPT !.gie = TRUE])
    BY <2>1 DEF IrqAtc40, Done, NotImplemented
  <2> QED BY <1>6, <2>2 DEF IsBoard
<1> QED BY <1>1, <1>2, <1>3, <1>4, <1>5, <1>6 DEF Kinds

Start(b) == [board |-> b, cpu |-> {}, reset |-> {}]

\* f is what the first m commands of ns, given to a slot of p, come to.
Commands(f, p, slot, b, ns, m) ==
  f = [n \in 0 .. m |-> IF n = 0 THEN Start(b) ELSE Command(p, slot, f[n - 1], ns[n])]

LEMMA CommandsExists ==
  ASSUME NEW p, NEW slot, NEW b, NEW ns, NEW m \in Nat
  PROVE  \E f : Commands(f, p, slot, b, ns, m)
<1> DEFINE Good == {n \in Nat : \E f : Commands(f, p, slot, b, ns, n)}
<1>1. 0 \in Good
  <2>1. Commands([n \in 0 .. 0 |-> Start(b)], p, slot, b, ns, 0)
    BY DEF Commands
  <2> QED BY <2>1
<1>2. \A n \in Nat : n \in Good => n + 1 \in Good
  <2> SUFFICES ASSUME NEW n \in Nat, n \in Good PROVE \E g : Commands(g, p, slot, b, ns, n + 1)
    OBVIOUS
  <2>1. PICK f : Commands(f, p, slot, b, ns, n)
    OBVIOUS
  <2> DEFINE g == [k \in 0 .. n + 1 |-> IF k = n + 1 THEN Command(p, slot, f[n], ns[n + 1]) ELSE f[k]]
  <2>2. \A k \in 0 .. n : f[k] = IF k = 0 THEN Start(b) ELSE Command(p, slot, f[k - 1], ns[k])
    BY <2>1 DEF Commands
  <2>3. \A k \in 0 .. n + 1 : g[k] = IF k = 0 THEN Start(b) ELSE Command(p, slot, g[k - 1], ns[k])
    <3> TAKE k \in 0 .. n + 1
    <3>1. CASE k = n + 1
      <4>1. k # 0 /\ k - 1 = n /\ g[n] = f[n] /\ g[k] = Command(p, slot, f[n], ns[n + 1])
        BY <3>1
      <4> HIDE DEF g
      <4> QED BY <3>1, <4>1
    <3>2. CASE k # n + 1 /\ k # 0
      <4>1. k \in 0 .. n /\ k - 1 \in 0 .. n /\ g[k] = f[k] /\ g[k - 1] = f[k - 1]
        BY <3>2
      <4> HIDE DEF g
      <4> QED BY <2>2, <3>2, <4>1
    <3>3. CASE k = 0
      <4>1. k \in 0 .. n /\ g[k] = f[k]
        BY <3>3
      <4> HIDE DEF g
      <4> QED BY <2>2, <3>3, <4>1
    <3> QED BY <3>1, <3>2, <3>3
  <2>4. Commands(g, p, slot, b, ns, n + 1)
    <3>1. g = [k \in 0 .. n + 1 |-> g[k]]
      OBVIOUS
    <3> HIDE DEF g
    <3> QED BY <2>3, <3>1 DEF Commands
  <2> QED BY <2>4
<1>3. Nat \subseteq Good
  <2> HIDE DEF Good
  <2> QED BY <1>1, <1>2, InductionOverNat
<1> QED BY <1>3

LEMMA CommandedRuns ==
  ASSUME NEW card, NEW slot, NEW b, NEW ns, Len(ns) \in Nat
  PROVE  \E f : Commands(f, Info(card).p, slot, b, ns, Len(ns)) /\ Commanded(card, slot, b, ns) = f[Len(ns)]
<1> DEFINE F == CHOOSE f : Commands(f, Info(card).p, slot, b, ns, Len(ns))
<1>1. Commands(F, Info(card).p, slot, b, ns, Len(ns))
  BY CommandsExists
<1>2. Commanded(card, slot, b, ns) = F[Len(ns)]
  BY DEF Commanded, Commands, Start
<1> QED BY <1>1, <1>2

\* The board after any commands; only one command turns its interrupts on.
LEMMA CommandedBoard ==
  ASSUME NEW card, Info(card).p.kind \in Kinds, NEW slot, NEW b, IsBoard(b), NEW ns, Len(ns) \in Nat
  PROVE  /\ IsBoard(Commanded(card, slot, b, ns).board)
         /\ Commanded(card, slot, b, ns).board.gie =>
              b.gie \/ (Info(card).p.kind = "ATC40" /\ \E i \in 1 .. Len(ns) : ns[i][2][1] = "Enable")
<1> DEFINE p == Info(card).p
           m == Len(ns)
           May(n) == b.gie \/ (p.kind = "ATC40" /\ \E i \in 1 .. n : ns[i][2][1] = "Enable")
<1>1. PICK f : Commands(f, p, slot, b, ns, m) /\ Commanded(card, slot, b, ns) = f[m]
  BY CommandedRuns
<1>2. f[0] = Start(b) /\ \A n \in 1 .. m : f[n] = Command(p, slot, f[n - 1], ns[n])
  <2>1. \A n \in 0 .. m : f[n] = IF n = 0 THEN Start(b) ELSE Command(p, slot, f[n - 1], ns[n])
    BY <1>1 DEF Commands
  <2> QED BY <2>1
<1> HIDE DEF p, m
<1> DEFINE S == {n \in 0 .. m : IsBoard(f[n].board) /\ (f[n].board.gie => May(n))}
<1>3. m \in Nat
  BY DEF m
<1>4. 0 \in S
  BY <1>2, <1>3 DEF Start
<1>5. \A n \in 0 .. m - 1 : n \in S => n + 1 \in S
  <2> SUFFICES ASSUME NEW n \in 0 .. m - 1, n \in S PROVE n + 1 \in S
    OBVIOUS
  <2>1. n + 1 \in 1 .. m /\ (n + 1) - 1 = n /\ n + 1 \in 0 .. m
    BY <1>3
  <2> DEFINE c == ns[n + 1][2]
             r == irqCmd(p, f[n].board, <<slot, ns[n + 1][1]>>, c)
  <2>2. f[n + 1].board = r.board
    <3>1. f[n + 1] = Command(p, slot, f[n], ns[n + 1])
      BY <1>2, <2>1
    <3> QED BY <3>1 DEF Command
  <2>3. IsBoard(r.board) /\ (r.board.gie => f[n].board.gie \/ (p.kind = "ATC40" /\ c[1] = "Enable"))
    BY IrqFacts DEF p
  <2> HIDE DEF r
  <2>4. f[n].board.gie => May(n + 1)
    BY <2>1
  <2>5. p.kind = "ATC40" /\ c[1] = "Enable" => May(n + 1)
    BY <2>1
  <2> QED BY <2>1, <2>2, <2>3, <2>4, <2>5
<1>6. 0 .. m \subseteq S
  <2> HIDE DEF S
  <2> QED BY <1>3, <1>4, <1>5, InductionUpTo
<1>7. m \in S
  BY <1>3, <1>6
<1> QED BY <1>1, <1>7 DEF p, m

\* f is what the hook of a serial driver does for the first m entries of es.
Disables(f, es, m) == f = [n \in 0 .. m |-> IF n = 0 THEN boards ELSE DisableOne(f[n - 1], es[n])]

LEMMA DisablesExists ==
  ASSUME NEW es, NEW m \in Nat
  PROVE  \E f : Disables(f, es, m)
<1> DEFINE Good == {n \in Nat : \E f : Disables(f, es, n)}
<1>1. 0 \in Good
  <2>1. Disables([n \in 0 .. 0 |-> boards], es, 0)
    BY DEF Disables
  <2> QED BY <2>1
<1>2. \A n \in Nat : n \in Good => n + 1 \in Good
  <2> SUFFICES ASSUME NEW n \in Nat, n \in Good PROVE \E g : Disables(g, es, n + 1)
    OBVIOUS
  <2>1. PICK f : Disables(f, es, n)
    OBVIOUS
  <2> DEFINE g == [k \in 0 .. n + 1 |-> IF k = n + 1 THEN DisableOne(f[n], es[n + 1]) ELSE f[k]]
  <2>2. \A k \in 0 .. n : f[k] = IF k = 0 THEN boards ELSE DisableOne(f[k - 1], es[k])
    BY <2>1 DEF Disables
  <2>3. \A k \in 0 .. n + 1 : g[k] = IF k = 0 THEN boards ELSE DisableOne(g[k - 1], es[k])
    <3> TAKE k \in 0 .. n + 1
    <3>1. CASE k = n + 1
      <4>1. k # 0 /\ k - 1 = n /\ g[n] = f[n] /\ g[k] = DisableOne(f[n], es[n + 1])
        BY <3>1
      <4> HIDE DEF g
      <4> QED BY <3>1, <4>1
    <3>2. CASE k # n + 1 /\ k # 0
      <4>1. k \in 0 .. n /\ k - 1 \in 0 .. n /\ g[k] = f[k] /\ g[k - 1] = f[k - 1]
        BY <3>2
      <4> HIDE DEF g
      <4> QED BY <2>2, <3>2, <4>1
    <3>3. CASE k = 0
      <4>1. k \in 0 .. n /\ g[k] = f[k]
        BY <3>3
      <4> HIDE DEF g
      <4> QED BY <2>2, <3>3, <4>1
    <3> QED BY <3>1, <3>2, <3>3
  <2>4. Disables(g, es, n + 1)
    <3>1. g = [k \in 0 .. n + 1 |-> g[k]]
      OBVIOUS
    <3> HIDE DEF g
    <3> QED BY <2>3, <3>1 DEF Disables
  <2> QED BY <2>4
<1>3. Nat \subseteq Good
  <2> HIDE DEF Good
  <2> QED BY <1>1, <1>2, InductionOverNat
<1> QED BY <1>3

LEMMA DisabledRuns ==
  ASSUME NEW es, Len(es) \in Nat
  PROVE  \E f : Disables(f, es, Len(es)) /\ Disabled(es) = f[Len(es)]
<1> DEFINE F == CHOOSE f : Disables(f, es, Len(es))
<1>1. Disables(F, es, Len(es))
  BY DisablesExists
<1>2. Disabled(es) = F[Len(es)]
  BY DEF Disabled, Disables
<1> QED BY <1>1, <1>2

-----------------------------------------------------------------------------
(* The registry: carriers, the ranges they claim, their boards.            *)

\* What the steps of the specification do to the carrier layer.
BusChange ==
  \/ \E c \in world.script : AddCarrier(c)
  \/ /\ UNCHANGED <<carriers, latest, regions, ipic>>
     /\ \/ UNCHANGED boards
        \/ phase = "up" /\ \E card, slot, ns : Len(ns) \in Nat /\ ipmIrqCmd(card, slot, ns)
        \/ \E b \in DOMAIN world.boards : atc40ISR(b) \/ BoardHook(b)
        \/ phase # "up" /\ \E d \in Serial : \E es \in Visits(d) : boards' = Disabled(es)

LEMMA BusFrame ==
  ASSUME Next
  PROVE  world' = world /\ BusChange
<1>1. ASSUME NEW c \in world.script, Call(c)
      PROVE  world' = world /\ BusChange
  <2>1. CASE AddCarrier(c)
    BY <2>1 DEF AddCarrier, BusChange
  <2>2. CASE IrqCommand(c)
    <3>1. Len(<<c.n>>) \in Nat
      OBVIOUS
    <3> DEFINE ns == <<c.n>>
    <3>2. phase = "up" /\ ipmIrqCmd(c.card, c.slot, ns) /\ UNCHANGED <<world, carriers, latest, regions, ipic>>
      BY <2>2 DEF IrqCommand, Shell
    <3> HIDE DEF ns
    <3>3. Len(ns) \in Nat
      BY <3>1 DEF ns
    <3> QED BY <3>2, <3>3 DEF BusChange
  <2>3. CASE IntConnect(c)
    BY <2>3 DEF IntConnect, BusChange, busVars
  <2>4. CASE t810Create(c)
    BY <2>4 DEF t810Create, BusChange
  <2>5. CASE t810Initialise(c)
    BY <2>5 DEF t810Initialise, BusChange
  <2>6. CASE tyGSOctalDrv(c)
    BY <2>6 DEF tyGSOctalDrv, BusChange
  <2>7. CASE tyGSOctalModuleInit(c)
    <3>1. phase = "up" /\ UNCHANGED <<world, carriers, latest, regions, ipic>>
          /\ (UNCHANGED boards \/ ipmIrqCmd(c.card, c.slot, BothLines))
      BY <2>7 DEF tyGSOctalModuleInit, Shell
    <3>2. Len(BothLines) \in Nat
      BY DEF BothLines
    <3> QED BY <3>1, <3>2 DEF BusChange
  <2>8. CASE IP520Drv(c)
    BY <2>8 DEF IP520Drv, BusChange
  <2>9. CASE IP520ModuleInit(c)
    <3>1. phase = "up" /\ UNCHANGED <<world, carriers, latest, regions, ipic>>
          /\ (UNCHANGED boards \/ ipmIrqCmd(c.card, c.slot, BothLines))
      BY <2>9 DEF IP520ModuleInit, Shell
    <3>2. Len(BothLines) \in Nat
      BY DEF BothLines
    <3> QED BY <3>1, <3>2 DEF BusChange
  <2>10. CASE tyGSOctalDevCreate(c) \/ tyGSOctalDevCreateAll(c) \/ IP520DevCreate(c) \/ IP520DevCreateAll(c)
    BY <2>10 DEF tyGSOctalDevCreate, tyGSOctalDevCreateAll, IP520DevCreate, IP520DevCreateAll, FindModule, BusChange, busVars
  <2> QED BY <1>1, <2>1, <2>2, <2>3, <2>4, <2>5, <2>6, <2>7, <2>8, <2>9, <2>10 DEF Call
<1>2. CASE InitDevice
  <2>1. phase = "up" /\ UNCHANGED <<world, carriers, latest, regions, ipic>> /\ ipmIrqCmd(can[pc.mod].card, can[pc.mod].slot, EnableOne)
    BY <1>2 DEF InitDevice
  <2>2. Len(EnableOne) \in Nat
    BY DEF EnableOne
  <2> QED BY <2>1, <2>2 DEF BusChange
<1>3. CASE InitialiseDone \/ SkipPort \/ MarkCreated \/ Reboot \/ Down
  BY <1>3 DEF InitialiseDone, SkipPort, MarkCreated, Reboot, Down, BusChange, busVars
<1>4. CASE tyGSOctalInitChannel \/ IP520InitChannel
  BY <1>4 DEF tyGSOctalInitChannel, IP520InitChannel, InitChannel, BusChange
<1>5. ASSUME NEW b \in DOMAIN world.boards, atc40ISR(b)
      PROVE  world' = world /\ BusChange
  BY <1>5 DEF atc40ISR, BusChange
<1>6. CASE Hooks
  <2>1. ASSUME NEW b \in DOMAIN world.boards, BoardHook(b)
        PROVE  world' = world /\ BusChange
    BY <2>1 DEF BoardHook, BusChange
  <2>2. CASE t810Shutdown
    BY <2>2 DEF t810Shutdown, BusChange
  <2>3. CASE tyGSOctalRebootHook
    <3>1. /\ UNCHANGED <<world, carriers, latest, regions, ipic>> /\ phase # "up"
          /\ UNCHANGED boards \/ \E es \in Visits("octal") : boards' = Disabled(es)
      BY <2>3 DEF tyGSOctalRebootHook, Quiet, Hook, HookCrash
    <3>2. "octal" \in Serial
      BY DEF Serial
    <3> QED BY <3>1, <3>2 DEF BusChange
  <2>4. CASE IP520RebootHook
    <3>1. /\ UNCHANGED <<world, carriers, latest, regions, ipic>> /\ phase # "up"
          /\ UNCHANGED boards \/ \E es \in Visits("ip520") : boards' = Disabled(es)
      BY <2>4 DEF IP520RebootHook, Quiet, Hook, HookCrash
    <3>2. "ip520" \in Serial
      BY DEF Serial
    <3> QED BY <3>1, <3>2 DEF BusChange
  <2> QED BY <1>6, <2>1, <2>2, <2>3, <2>4 DEF Hooks
<1> QED BY <1>1, <1>2, <1>3, <1>4, <1>5, <1>6 DEF Next

\* A carrier whose initialise routine succeeded.
Works(k) == k \in 1 .. number /\ carriers[k].driver # "null"

CarrierRows == [driver : Kinds \cup {"null"}, p : {c.p : c \in {d \in world.script : d.op = "add"}}]

RegistryOK ==
  /\ world \in Worlds /\ carriers \in Seq(CarrierRows)
  /\ \A k \in 1 .. number : Works(k) => carriers[k].driver = carriers[k].p.kind

BoardsOK == DOMAIN boards = DOMAIN world.boards /\ IsIpic(ipic) /\ \A b \in DOMAIN boards : IsBoard(boards[b])

\* Every working carrier has claimed what it uses, and no two of them the same.
Owned1(k) ==
  /\ Sound(carriers[k].p) /\ SelfApart(carriers[k].p) /\ ClaimsOf(carriers[k].p) \subseteq regions
  /\ carriers[k].p.kind = "MVME162" => ipic.initialised
Owned2(k, l) ==
  /\ ~(carriers[k].p.kind = "MVME162" /\ carriers[l].p.kind = "MVME162")
  /\ \A r \in ClaimsOf(carriers[k].p), s \in ClaimsOf(carriers[l].p) : ~Overlap(r, s)
RangesOwned ==
  /\ Ranges(regions) /\ Apart(regions)
  /\ \A k \in 1 .. number : Works(k) => Owned1(k)
  /\ \A k, l \in 1 .. number : Works(k) /\ Works(l) /\ k # l => Owned2(k, l)

BusInv == RegistryOK /\ BoardsOK /\ RangesOwned

LEMMA BusInit ==
  ASSUME Init
  PROVE  BusInv
<1>1. world \in Worlds /\ carriers = <<>> /\ regions = {} /\ number = 0
  BY DEF Init, StartupInit, CarriersInit, number
<1>2. RegistryOK
  BY <1>1 DEF RegistryOK
<1>3. BoardsOK
  <2>1. IsBoard(ColdBoard)
    BY DEF IsBoard, ColdBoard
  <2>2. /\ boards = [b \in DOMAIN world.boards |-> ColdBoard]
        /\ ipic = [mem |-> [s \in 0 .. 3 |-> NULL], men |-> {}, initialised |-> FALSE]
    BY DEF Init, StartupInit, CarriersInit
  <2> QED BY <2>1, <2>2 DEF BoardsOK, IsIpic
<1>4. RangesOwned
  BY <1>1 DEF RangesOwned, Ranges, Apart
<1> QED BY <1>2, <1>3, <1>4 DEF BusInv

\* The parameters that the script adds a carrier with.
LEMMA AddedParameters ==
  ASSUME RegistryOK, NEW c \in world.script, c.op = "add", c.p.kind \in Kinds
  PROVE  Parameters(c.p) /\ IoBase(c.p) \in DOMAIN world.boards
<1>1. LegalWorld(world)
  BY WorldAssumption DEF RegistryOK
<1> QED BY <1>1 DEF LegalWorld

LEMMA WorkingParameters ==
  ASSUME RegistryOK, NEW k, Works(k)
  PROVE  LET p == carriers[k].p IN
         /\ p.kind = carriers[k].driver /\ p.kind \in Kinds
         /\ Parameters(p) /\ IoBase(p) \in DOMAIN world.boards
         /\ \E c \in world.script : c.op = "add" /\ c.p = p
<1>1. carriers[k] \in CarrierRows
  BY DEF RegistryOK, Works, number
<1>2. PICK c \in world.script : c.op = "add" /\ c.p = carriers[k].p
  BY <1>1 DEF CarrierRows
<1>3. carriers[k].p.kind = carriers[k].driver /\ carriers[k].driver \in Kinds
  BY <1>1 DEF RegistryOK, Works, CarrierRows
<1> QED BY <1>2, <1>3, AddedParameters

LEMMA LegalSlotWorks ==
  ASSUME RegistryOK, NEW card, NEW slot, LegalSlot(card, slot)
  PROVE  Works(card + 1) /\ Info(card) = carriers[card + 1] /\ slot \in 0 .. 3
<1>1. card + 1 \in 1 .. number /\ slot \in 0 .. numberSlots(Info(card).driver) - 1
  BY DEF LegalSlot, LegalCard, RegistryOK, number
<1>2. Info(card) = carriers[card + 1]
  BY DEF Info
<1>3. Info(card).driver # "null"
  BY <1>1 DEF numberSlots
<1>4. numberSlots(Info(card).driver) \in {2, 4}
  BY <1>3 DEF numberSlots
<1> QED BY <1>1, <1>2, <1>3, <1>4 DEF Works

\* Adding a carrier.
LEMMA AddKeepsBus ==
  ASSUME BusInv, NEW c \in world.script, AddCarrier(c)
  PROVE  BusInv'
<1> DEFINE p == c.p
<1>1. c.op = "add" /\ ipacAddCarrier(p) /\ world' = world
  BY DEF AddCarrier
<1> HIDE DEF p
<1>2. CASE UNCHANGED <<carriers, regions, boards, ipic>>
  BY <1>1, <1>2 DEF BusInv, RegistryOK, BoardsOK, RangesOwned, Works, number, CarrierRows, Owned1, Owned2, NewClaims
<1>3. ASSUME NEW d, d = "null" \/ (d = p.kind /\ p.kind \in Kinds), Number(d, p)
      PROVE  /\ RegistryOK' /\ number' = number + 1
             /\ carriers'[number + 1] = [driver |-> d, p |-> p]
             /\ \A k \in 1 .. number : carriers'[k] = carriers[k]
  <2>1. [driver |-> d, p |-> p] \in CarrierRows
    BY <1>1, <1>3 DEF CarrierRows, p
  <2>2. carriers \in Seq(CarrierRows) /\ CarrierRows' = CarrierRows
    BY <1>1 DEF BusInv, RegistryOK, CarrierRows
  <2>3. carriers' = Append(carriers, [driver |-> d, p |-> p])
    BY <1>3 DEF Number
  <2> HIDE DEF CarrierRows
  <2>4. /\ carriers' \in Seq(CarrierRows) /\ number' = number + 1 /\ number \in Nat
        /\ carriers'[number + 1] = [driver |-> d, p |-> p]
        /\ \A k \in 1 .. number : carriers'[k] = carriers[k]
    BY <2>1, <2>2, <2>3 DEF number
  <2>5. \A k \in 1 .. number' : Works(k)' => carriers'[k].driver = carriers'[k].p.kind
    <3> TAKE k \in 1 .. number'
    <3>1. k \in 1 .. number \/ k = number + 1
      BY <2>4
    <3>2. CASE k = number + 1
      BY <1>3, <2>4, <3>2 DEF Works
    <3>3. CASE k \in 1 .. number
      BY <2>4, <3>3 DEF Works, BusInv, RegistryOK
    <3> QED BY <3>1, <3>2, <3>3
  <2> QED BY <1>1, <2>2, <2>4, <2>5 DEF RegistryOK, BusInv
<1>4. ASSUME p.kind \notin Kinds, Number("null", p), UNCHANGED <<regions, boards, ipic>>
      PROVE  BusInv'
  <2>1. RegistryOK' /\ number' = number + 1 /\ carriers'[number + 1].driver = "null" /\ \A k \in 1 .. number : carriers'[k] = carriers[k]
    <3> DEFINE d == "null"
    <3>1. d = "null" /\ Number(d, p)
      BY <1>4
    <3> HIDE DEF d
    <3>2. /\ RegistryOK' /\ number' = number + 1
          /\ carriers'[number + 1] = [driver |-> d, p |-> p]
          /\ \A k \in 1 .. number : carriers'[k] = carriers[k]
      BY <1>3, <3>1
    <3> QED BY <3>1, <3>2
  <2>2. \A k \in 1 .. number' : Works(k)' => k \in 1 .. number /\ Works(k)
    <3>1. number \in Nat
      BY DEF BusInv, RegistryOK, number
    <3> QED BY <2>1, <3>1 DEF Works
  <2>3. BoardsOK'
    BY <1>1, <1>4 DEF BusInv, BoardsOK
  <2>4. RangesOwned'
    BY <1>4, <2>1, <2>2 DEF BusInv, RangesOwned, Owned1, Owned2
  <2> QED BY <2>1, <2>3, <2>4 DEF BusInv
<1>5. ASSUME p.kind \in Kinds, AddDriver(p)
      PROVE  BusInv'
  <2> DEFINE a == Initialised(p)
  <2>1. Parameters(p) /\ IoBase(p) \in DOMAIN boards /\ IsBoard(boards[IoBase(p)]) /\ IsIpic(ipic)
    <3>1. Parameters(p) /\ IoBase(p) \in DOMAIN world.boards
      BY <1>1, <1>5, AddedParameters DEF BusInv, p
    <3> QED BY <3>1 DEF BusInv, BoardsOK
  <2>2. Outcome(p, a)
    BY <1>5, <2>1, InitialisedOutcome DEF BusInv, RangesOwned
  <2>3. /\ Number(IF a.ok THEN p.kind ELSE "null", p)
        /\ regions' = a.regions /\ ipic' = [a.ipic EXCEPT !.initialised = @ \/ (a.ok /\ p.kind = "MVME162")]
        /\ boards' = [boards EXCEPT ![IoBase(p)] = a.board]
    BY <1>5 DEF AddDriver, Effects
  <2> HIDE DEF a
  <2> DEFINE d == IF a.ok THEN p.kind ELSE "null"
  <2>4. /\ RegistryOK' /\ number' = number + 1
        /\ carriers'[number + 1] = [driver |-> d, p |-> p]
        /\ \A k \in 1 .. number : carriers'[k] = carriers[k]
    <3>1. d = "null" \/ (d = p.kind /\ p.kind \in Kinds)
      BY <1>5
    <3>2. Number(d, p)
      BY <2>3
    <3> HIDE DEF d
    <3> QED BY <1>3, <3>1, <3>2
  <2>5. number \in Nat
    BY DEF BusInv, RegistryOK, number
  <2>6. BoardsOK'
    BY <1>1, <2>1, <2>2, <2>3 DEF BusInv, BoardsOK, Outcome, IsAcc, IsIpic
  <2>7. \A k \in 1 .. number' : Works(k)' => (k \in 1 .. number /\ Works(k)) \/ (k = number + 1 /\ a.ok /\ carriers'[k].p = p)
    BY <2>4, <2>5 DEF Works
  <2>8. regions \subseteq regions' /\ (ipic.initialised => ipic'.initialised) /\ Ranges(regions') /\ Apart(regions')
    BY <2>2, <2>3 DEF Outcome, IsAcc, IsIpic
  <2>9. a.ok => /\ Sound(p) /\ SelfApart(p) /\ ClaimsOf(p) \subseteq regions' /\ NewClaims(p)
                /\ p.kind = "MVME162" => ~ipic.initialised /\ ipic'.initialised
    BY <2>2, <2>3 DEF Outcome, IsAcc, IsIpic
  <2>10. \A k \in 1 .. number' : Works(k)' => Owned1(k)'
    <3> TAKE k \in 1 .. number'
    <3>1. CASE k \in 1 .. number /\ Works(k)
      BY <2>4, <2>8, <3>1 DEF BusInv, RangesOwned, Owned1
    <3>2. CASE k = number + 1 /\ a.ok /\ carriers'[k].p = p
      BY <2>9, <3>2 DEF Owned1
    <3> QED BY <2>7, <3>1, <3>2
  <2>11. \A k, l \in 1 .. number' : Works(k)' /\ Works(l)' /\ k # l => Owned2(k, l)'
    <3> SUFFICES ASSUME NEW k \in 1 .. number', NEW l \in 1 .. number', Works(k)', Works(l)', k # l
                 PROVE  Owned2(k, l)'
      OBVIOUS
    <3>1. CASE k \in 1 .. number /\ Works(k) /\ l \in 1 .. number /\ Works(l)
      BY <2>4, <3>1 DEF BusInv, RangesOwned, Owned2
    <3>2. ASSUME NEW i \in 1 .. number, Works(i), a.ok
          PROVE  /\ ~(carriers[i].p.kind = "MVME162" /\ p.kind = "MVME162")
                 /\ \A r \in ClaimsOf(carriers[i].p), s \in ClaimsOf(p) : ~Overlap(r, s) /\ ~Overlap(s, r)
      <4>1. Owned1(i)
        BY <3>2 DEF BusInv, RangesOwned
      <4> QED BY <2>9, <3>2, <4>1 DEF Owned1, NewClaims
    <3>3. CASE k \in 1 .. number /\ Works(k) /\ l = number + 1 /\ a.ok /\ carriers'[l].p = p
      BY <2>4, <3>2, <3>3 DEF Owned2
    <3>4. CASE l \in 1 .. number /\ Works(l) /\ k = number + 1 /\ a.ok /\ carriers'[k].p = p
      BY <2>4, <3>2, <3>4 DEF Owned2
    <3> QED BY <2>7, <3>1, <3>3, <3>4
  <2> QED BY <2>4, <2>6, <2>8, <2>10, <2>11 DEF BusInv, RangesOwned
<1> QED BY <1>1, <1>2, <1>4, <1>5 DEF ipacAddCarrier

\* The registry only grows.
Grown == world' = world /\ number' >= number /\ \A k \in 1 .. number : carriers'[k] = carriers[k]

LEMMA RegistryGrows ==
  ASSUME BusInv, Next
  PROVE  Grown
<1>1. number \in Nat
  BY DEF BusInv, RegistryOK, number
<1>2. world' = world /\ BusChange
  BY BusFrame
<1>3. CASE UNCHANGED carriers
  BY <1>1, <1>2, <1>3 DEF Grown, number
<1>4. ASSUME NEW c \in world.script, AddCarrier(c), ~UNCHANGED carriers
      PROVE  Grown
  <2>1. \E x : carriers' = Append(carriers, x)
    BY <1>4 DEF AddCarrier, ipacAddCarrier, Number, AddDriver
  <2>2. PICK x : carriers' = Append(carriers, x)
    BY <2>1
  <2>3. carriers \in Seq(CarrierRows)
    BY DEF BusInv, RegistryOK
  <2> HIDE DEF CarrierRows
  <2>4. Len(carriers') = Len(carriers) + 1 /\ \A k \in 1 .. Len(carriers) : carriers'[k] = carriers[k]
    BY <2>2, <2>3
  <2> QED BY <1>1, <1>2, <2>4 DEF Grown, number
<1> QED BY <1>2, <1>3, <1>4 DEF BusChange

-----------------------------------------------------------------------------
(* The tables of the module drivers.                                       *)

\* Driver d finds a module of its own at a place.
Accepts(d, card, slot) == \E x \in Types[d] : ipmValidate(card, slot, x[1], x[2]) = "OK"

LEMMA AcceptsMeans ==
  ASSUME NEW d \in Drivers, NEW card, NEW slot
  PROVE  Accepts(d, card, slot) <=>
           /\ LegalSlot(card, slot) /\ ModuleAt(card, slot) \in Modules
           /\ ipcCheckId(world.plugged[ModuleAt(card, slot)].prom)
           /\ \E x \in Types[d] : PromValid(world.plugged[ModuleAt(card, slot)].prom, x[1], x[2]) = "OK"
<1>1. ipmCheck(card, slot) = "OK" <=> /\ LegalSlot(card, slot) /\ ModuleAt(card, slot) \in Modules
                                      /\ ipcCheckId(world.plugged[ModuleAt(card, slot)].prom)
  BY DEF ipmCheck
<1> QED BY <1>1 DEF Accepts, ipmValidate

LEMMA StillLegal ==
  ASSUME BusInv, Grown, NEW card, NEW slot, LegalSlot(card, slot)
  PROVE  LegalSlot(card, slot)' /\ Info(card)' = Info(card)
<1>1. card + 1 \in 1 .. number /\ card \in Int
  BY DEF BusInv, RegistryOK, LegalSlot, LegalCard, number
<1>2. carriers'[card + 1] = carriers[card + 1] /\ number' >= number
  BY <1>1 DEF Grown
<1>3. number \in Nat /\ number' \in Nat
  BY DEF BusInv, RegistryOK, number, Grown
<1>4. Info(card)' = Info(card)
  BY <1>2 DEF Info
<1>5. LegalCard(card)'
  <2>1. card \in 0 .. number - 1
    BY DEF LegalSlot, LegalCard
  <2>2. \A x, y \in Int : card \in 0 .. x - 1 /\ y >= x => card \in 0 .. y - 1
    OBVIOUS
  <2>3. card \in 0 .. number' - 1
    BY <1>2, <1>3, <2>1, <2>2 DEF number
  <2> QED BY <2>3 DEF LegalCard
<1> QED BY <1>4, <1>5 DEF LegalSlot

LEMMA AcceptsStays ==
  ASSUME BusInv, Grown, NEW d \in Drivers, NEW card, NEW slot, Accepts(d, card, slot)
  PROVE  Accepts(d, card, slot)' /\ Info(card)' = Info(card)
<1>1. LegalSlot(card, slot) /\ ModuleAt(card, slot) \in Modules
      /\ ipcCheckId(world.plugged[ModuleAt(card, slot)].prom)
      /\ \E x \in Types[d] : PromValid(world.plugged[ModuleAt(card, slot)].prom, x[1], x[2]) = "OK"
  BY AcceptsMeans
<1>2. LegalSlot(card, slot)' /\ Info(card)' = Info(card) /\ world' = world
  BY <1>1, StillLegal DEF Grown
<1>3. ModuleAt(card, slot)' = ModuleAt(card, slot) /\ Modules' = Modules
  BY <1>2 DEF ModuleAt, Modules
<1>4. ipmCheck(card, slot)' = "OK"
  BY <1>1, <1>2, <1>3 DEF ipmCheck
<1> QED BY <1>1, <1>2, <1>3, <1>4 DEF Accepts, ipmValidate

\* No module is one of two drivers'.
LEMMA OneDriver ==
  ASSUME NEW d \in Drivers, NEW e \in Drivers, NEW c1, NEW s1, NEW c2, NEW s2,
         Accepts(d, c1, s1), Accepts(e, c2, s2), ModuleAt(c1, s1) = ModuleAt(c2, s2)
  PROVE  d = e
<1> DEFINE prom == world.plugged[ModuleAt(c1, s1)].prom
           Maker == IF Format1(prom) THEN Low(Word(prom, 4)) ELSE Low(Word(prom, 3)) * 65536 + Word(prom, 4)
<1>1. PICK x \in Types[d] : PromValid(prom, x[1], x[2]) = "OK"
  BY AcceptsMeans
<1>2. PICK y \in Types[e] : PromValid(prom, y[1], y[2]) = "OK"
  BY AcceptsMeans
<1>3. \A a, b : PromValid(prom, a, b) = "OK" => a = Maker
  BY DEF PromValid
<1>4. x[1] = y[1]
  BY <1>1, <1>2, <1>3
<1> QED BY <1>4 DEF Types, Drivers

Given == world.script
DeviceRows == [name : {c.name : c \in Given}, card : {c.card : c \in Given}, slot : {c.slot : c \in Given},
               vec : Int, ready : BOOLEAN]
TableRows == [id : {c.id : c \in Given} \cup {"NULL"}, card : {c.card : c \in Given} \cup {0},
              slot : {c.slot : c \in Given} \cup {0}, vec : Int, ready : BOOLEAN, created : SUBSET Ports]

\* What may be in them: modules that the driver has found, and blank entries.
Registered(card, slot) == \E c \in Given : c.op \in Registers /\ c.card = card /\ c.slot = slot
OwnDevices == {e \in DeviceRows : Accepts("can", e.card, e.slot) /\ Registered(e.card, e.slot)}
Own(d) ==
  {e \in TableRows : IF e.id = "NULL" THEN ~e.ready /\ e.created = {}
                     ELSE Accepts(d, e.card, e.slot) /\ Registered(e.card, e.slot)}

CanOK ==
  /\ can \in Seq(DeviceRows)
  /\ \A i \in 1 .. Len(can) : can[i] \in OwnDevices
  /\ \A i, j \in 1 .. Len(can) :
       i # j => can[i].name # can[j].name /\ (can[i].card # can[j].card \/ can[i].slot # can[j].slot)

\* An entry that is not counted is not ready and has no ports; no two that are
\* ready are for one module.
RowsOK(t) ==
  /\ \A i \in 1 .. Len(t.table) : i > t.last => ~t.table[i].ready /\ t.table[i].created = {}
  /\ \A i, j \in 1 .. Len(t.table) : i # j /\ t.table[i].ready /\ t.table[j].ready =>
       t.table[i].card # t.table[j].card \/ t.table[i].slot # t.table[j].slot

TableShape(t) ==
  /\ DOMAIN t = {"installed", "last", "table"} /\ t.installed \in BOOLEAN
  /\ t.table \in Seq(TableRows) /\ t.last \in Nat
  /\ ~t.installed => t.last = 0 /\ Len(t.table) = 0

TableOK(d) ==
  /\ TableShape(tty[d]) /\ RowsOK(tty[d])
  /\ \A i \in 1 .. Len(tty[d].table) : tty[d].table[i] \in Own(d)

PcOK ==
  /\ DOMAIN pc = {"drv", "mod", "port", "all", "hot"}
  /\ \/ pc.drv = "none"
     \/ pc.drv = "can" /\ pc.mod \in 1 .. Len(can) + 1 /\ started
     \/ /\ pc.drv \in Serial /\ pc.mod \in Counted(tty[pc.drv]) /\ tty[pc.drv].table[pc.mod].id # "NULL"
        /\ pc.port \in Ports

DeviceInv == CanOK /\ DOMAIN tty = Serial /\ (\A d \in Serial : TableOK(d)) /\ PcOK

LEMMA DeviceInit ==
  ASSUME Init
  PROVE  DeviceInv
<1>1. can = <<>> /\ tty = [d \in Serial |-> [installed |-> FALSE, last |-> 0, table |-> <<>>]] /\ pc = Idle
  BY DEF Init, StartupInit
<1>2. CanOK
  <2> HIDE DEF DeviceRows
  <2>1. <<>> \in Seq(DeviceRows) /\ Len(<<>>) = 0
    OBVIOUS
  <2> QED BY <1>1, <2>1 DEF CanOK
<1>3. DOMAIN tty = Serial /\ \A d \in Serial : TableOK(d)
  <2>1. DOMAIN tty = Serial
    BY <1>1
  <2>2. SUFFICES ASSUME NEW d \in Serial PROVE TableOK(d)
    BY <2>1
  <2>3. tty[d] = [installed |-> FALSE, last |-> 0, table |-> <<>>]
    BY <1>1
  <2> HIDE DEF TableRows
  <2>4. <<>> \in Seq(TableRows) /\ Len(<<>>) = 0
    OBVIOUS
  <2>5. 1 .. 0 = {} /\ 0 \in Nat
    OBVIOUS
  <2> QED BY <2>3, <2>4, <2>5 DEF TableOK, TableShape, RowsOK
<1>4. PcOK
  BY <1>1 DEF PcOK, Idle
<1> QED BY <1>2, <1>3, <1>4 DEF DeviceInv

\* What becomes of the table of one serial driver.
Enters(d, c, r) ==
  LET n == tty[d].last + 1 IN
  /\ phase = "up" /\ pc = Idle /\ tty[d].installed /\ n <= Len(tty[d].table)
  /\ c.op \in Registers \ {"t810Create"} /\ Accepts(d, c.card, c.slot) /\ ~Known(tty[d], c.card, c.slot)
  /\ tty'[d] = [tty[d] EXCEPT !.last = IF r THEN n ELSE @, !.table[n] = [NewEntry(c) EXCEPT !.ready = r]]

Installs(d, max) ==
  /\ phase = "up" /\ pc = Idle /\ ~tty[d].installed
  /\ tty'[d] = [installed |-> TRUE, last |-> 0, table |-> [i \in 1 .. max |-> Blank]]
  /\ hooks' = hooks \cup {<<d>>}

Counts(d) ==
  /\ phase = "up" /\ pc = Idle /\ tty[d].installed
  /\ tty'[d] = [tty[d] EXCEPT !.last = tty[d].last + 1]

Marks(d) ==
  /\ phase = "up" /\ pc.drv = d
  /\ tty'[d] = [tty[d] EXCEPT !.table[pc.mod].created = @ \cup {pc.port}]

TableChange(d) ==
  \/ tty'[d] = tty[d]
  \/ \E c \in world.script : c.op \in {"tyGSOctalDrv", "IP520Drv"} /\ Installs(d, c.max)
  \/ Counts(d)
  \/ \E c \in world.script, r \in BOOLEAN : Enters(d, c, r)
  \/ Marks(d)

LEMMA OctalAccepts ==
  ASSUME NEW c, c.type \in DOMAIN OctalModel, ipmValidate(c.card, c.slot, 240, OctalModel[c.type]) = "OK"
  PROVE  Accepts("octal", c.card, c.slot)
<1>1. OctalModel[c.type] \in {34, 42, 72}
  BY DEF OctalModel
<1> DEFINE m == OctalModel[c.type]
<1>2. <<240, m>> \in Types["octal"]
  BY <1>1 DEF Types
<1>3. ipmValidate(c.card, c.slot, 240, m) = "OK"
  OBVIOUS
<1> HIDE DEF m
<1>4. <<240, m>>[1] = 240 /\ <<240, m>>[2] = m
  OBVIOUS
<1> QED BY <1>2, <1>3, <1>4 DEF Accepts

LEMMA NewEntryIs ==
  ASSUME NEW c
  PROVE  NewEntry(c) = [id |-> c.id, card |-> c.card, slot |-> c.slot, vec |-> c.vec, ready |-> FALSE, created |-> {}]
<1> DEFINE e == NewEntry(c)
<1>1. DOMAIN e = {"id", "card", "slot", "vec", "ready", "created"}
  BY DEF NewEntry, Blank
<1>2. e.id = c.id 
  BY DEF NewEntry, Blank
<1>3. e.card = c.card 
  BY DEF NewEntry, Blank
<1>4. e.slot = c.slot 
  BY DEF NewEntry, Blank
<1>5. e.vec = c.vec 
  BY DEF NewEntry, Blank
<1>6. e.ready = FALSE
  BY DEF NewEntry, Blank
<1>7. e.created = {}
  BY DEF NewEntry, Blank
<1>8. e = [x \in {"id", "card", "slot", "vec", "ready", "created"} |-> e[x]]
  BY DEF NewEntry, Blank
<1> HIDE DEF e
<1>9. e = [id |-> c.id, card |-> c.card, slot |-> c.slot, vec |-> c.vec, ready |-> FALSE, created |-> {}]
  BY <1>1, <1>2, <1>3, <1>4, <1>5, <1>6, <1>7, <1>8
<1> QED BY <1>9 DEF e

LEMMA OctalTable ==
  ASSUME NEW c \in world.script, tyGSOctalModuleInit(c), DOMAIN tty = Serial, TableOK("octal")
  PROVE  DOMAIN tty' = Serial /\ tty'["ip520"] = tty["ip520"] /\ TableChange("octal")
<1> DEFINE t == tty["octal"]
           n == t.last + 1
           new == NewEntry(c)
           good == /\ t.installed /\ c.type \in DOMAIN OctalModel
                   /\ ipmValidate(c.card, c.slot, 240, OctalModel[c.type]) = "OK"
<1>1. c.op = "tyGSOctalModuleInit" /\ phase = "up" /\ pc = Idle /\ "octal" \in Serial /\ "ip520" \in Serial
  BY DEF tyGSOctalModuleInit, Shell, Serial
<1>2. \/ UNCHANGED tty
      \/ good /\ tty' = [tty EXCEPT !["octal"].last = n]
      \/ /\ good /\ n <= Len(t.table) /\ ~Known(t, c.card, c.slot)
         /\ \/ tty' = [tty EXCEPT !["octal"].last = n, !["octal"].table[n] = [new EXCEPT !.ready = TRUE]]
            \/ tty' = [tty EXCEPT !["octal"].table[n] = new]
  BY DEF tyGSOctalModuleInit
<1>3. good => Accepts("octal", c.card, c.slot)
  BY OctalAccepts
<1>4. CASE UNCHANGED tty
  BY <1>4 DEF TableChange
<1>5. CASE good /\ tty' = [tty EXCEPT !["octal"].last = n]
  <2>1. Counts("octal")
    BY <1>1, <1>5 DEF Counts
  <2> QED BY <1>1, <1>5, <2>1 DEF TableChange
<1>6. ASSUME good, n <= Len(t.table), ~Known(t, c.card, c.slot),
             tty' = [tty EXCEPT !["octal"].last = n, !["octal"].table[n] = [new EXCEPT !.ready = TRUE]]
      PROVE  DOMAIN tty' = Serial /\ tty'["ip520"] = tty["ip520"] /\ TableChange("octal")
  <2>1. tty'["octal"] = [tty["octal"] EXCEPT !.last = n, !.table[n] = [new EXCEPT !.ready = TRUE]]
    BY <1>1, <1>6
  <2>2. Enters("octal", c, TRUE)
    BY <1>1, <1>3, <1>6, <2>1 DEF Enters, Registers
  <2> QED BY <1>1, <1>6, <2>2 DEF TableChange
<1>7. ASSUME good, n <= Len(t.table), ~Known(t, c.card, c.slot), tty' = [tty EXCEPT !["octal"].table[n] = new]
      PROVE  DOMAIN tty' = Serial /\ tty'["ip520"] = tty["ip520"] /\ TableChange("octal")
  <2>1. tty'["octal"] = [tty["octal"] EXCEPT !.table[n] = new]
    BY <1>1, <1>7
  <2>2. new = [new EXCEPT !.ready = FALSE]
    BY NewEntryIs
  <2>3. DOMAIN tty["octal"] = {"installed", "last", "table"}
    BY DEF TableOK, TableShape
  <2>4. tty'["octal"] = [tty["octal"] EXCEPT !.last = tty["octal"].last, !.table[n] = [new EXCEPT !.ready = FALSE]]
    BY <2>1, <2>2, <2>3
  <2>5. Enters("octal", c, FALSE)
    BY <1>1, <1>3, <1>7, <2>4 DEF Enters, Registers
  <2> QED BY <1>1, <1>7, <2>5 DEF TableChange
<1> QED BY <1>2, <1>4, <1>5, <1>6, <1>7
LEMMA Ip520Table ==
  ASSUME NEW c \in world.script, IP520ModuleInit(c), DOMAIN tty = Serial, TableOK("ip520")
  PROVE  DOMAIN tty' = Serial /\ tty'["octal"] = tty["octal"] /\ TableChange("ip520")
<1> DEFINE t == tty["ip520"]
           n == t.last + 1
           r == ipmIntConnect(c.card, c.slot, c.vec, Routine("ip520", n))
           good == t.installed /\ c.type = "232" /\ ipmValidate(c.card, c.slot, 163, 36) = "OK"
<1>1. c.op = "IP520ModuleInit" /\ phase = "up" /\ pc = Idle /\ "octal" \in Serial /\ "ip520" \in Serial
  BY DEF IP520ModuleInit, Shell, Serial
<1>2. \/ UNCHANGED tty
      \/ good /\ tty' = [tty EXCEPT !["ip520"].last = n]
      \/ /\ good /\ n <= Len(t.table) /\ ~Known(t, c.card, c.slot)
         /\ tty' = [tty EXCEPT !["ip520"].last = IF r.status = "OK" THEN n ELSE @,
                               !["ip520"].table[n] = [NewEntry(c) EXCEPT !.ready = r.status = "OK"]]
  BY DEF IP520ModuleInit
<1>3. good => Accepts("ip520", c.card, c.slot)
  BY DEF Accepts, Types
<1> HIDE DEF r
<1>4. CASE UNCHANGED tty
  BY <1>4 DEF TableChange
<1>5. CASE good /\ tty' = [tty EXCEPT !["ip520"].last = n]
  <2>1. Counts("ip520")
    BY <1>1, <1>5 DEF Counts
  <2> QED BY <1>1, <1>5, <2>1 DEF TableChange
<1>6. ASSUME good, n <= Len(t.table), ~Known(t, c.card, c.slot), NEW ok \in BOOLEAN,
             tty' = [tty EXCEPT !["ip520"].last = IF ok THEN n ELSE @,
                                !["ip520"].table[n] = [NewEntry(c) EXCEPT !.ready = ok]]
      PROVE  DOMAIN tty' = Serial /\ tty'["octal"] = tty["octal"] /\ TableChange("ip520")
  <2>1. tty'["ip520"] = [tty["ip520"] EXCEPT !.last = IF ok THEN n ELSE @, !.table[n] = [NewEntry(c) EXCEPT !.ready = ok]]
    BY <1>1, <1>6
  <2>2. Enters("ip520", c, ok)
    BY <1>1, <1>3, <1>6, <2>1 DEF Enters, Registers
  <2> QED BY <1>1, <1>6, <2>2 DEF TableChange
<1> DEFINE ok == r.status = "OK"
<1>7. ok \in BOOLEAN
  OBVIOUS
<1>8. CASE /\ good /\ n <= Len(t.table) /\ ~Known(t, c.card, c.slot)
           /\ tty' = [tty EXCEPT !["ip520"].last = IF ok THEN n ELSE @,
                                 !["ip520"].table[n] = [NewEntry(c) EXCEPT !.ready = ok]]
  <2> HIDE DEF ok
  <2> QED BY <1>6, <1>7, <1>8
<1> QED BY <1>2, <1>4, <1>5, <1>8

LEMMA InstallTable ==
  ASSUME NEW d \in Serial, NEW c \in world.script, c.op \in {"tyGSOctalDrv", "IP520Drv"}, Shell, Install(d, c.max),
         DOMAIN tty = Serial
  PROVE  DOMAIN tty' = Serial /\ \A e \in Serial : TableChange(e)
<1>1. CASE UNCHANGED tty
  BY <1>1 DEF TableChange
<1>2. CASE /\ ~tty[d].installed
           /\ tty' = [tty EXCEPT ![d] = [installed |-> TRUE, last |-> 0, table |-> [i \in 1 .. c.max |-> Blank]]]
           /\ hooks' = hooks \cup {<<d>>}
  <2>1. tty'[d] = [installed |-> TRUE, last |-> 0, table |-> [i \in 1 .. c.max |-> Blank]]
    BY <1>2
  <2>2. Installs(d, c.max)
    BY <1>2, <2>1 DEF Installs, Shell
  <2>3. TableChange(d)
    BY <2>2 DEF TableChange
  <2>4. \A e \in Serial : e # d => tty'[e] = tty[e]
    BY <1>2
  <2> QED BY <1>2, <2>3, <2>4 DEF TableChange
<1> QED BY <1>1, <1>2 DEF Install

LEMMA TableFrame ==
  ASSUME Next, DOMAIN tty = Serial, \A d \in Serial : TableOK(d)
  PROVE  DOMAIN tty' = Serial /\ \A d \in Serial : TableChange(d)
<1>1. Serial = {"octal", "ip520"}
  BY DEF Serial
<1>2. CASE UNCHANGED tty
  BY <1>2 DEF TableChange
<1>3. ASSUME NEW c \in world.script, Call(c), ~UNCHANGED tty
      PROVE  DOMAIN tty' = Serial /\ \A d \in Serial : TableChange(d)
  <2>1. \/ tyGSOctalDrv(c) \/ IP520Drv(c) \/ tyGSOctalModuleInit(c) \/ IP520ModuleInit(c)
    BY <1>3 DEF Call, AddCarrier, IrqCommand, IntConnect, t810Create, t810Initialise, tyGSOctalDevCreate, tyGSOctalDevCreateAll,
         IP520DevCreate, IP520DevCreateAll, FindModule
  <2>2. CASE tyGSOctalDrv(c)
    BY <1>1, <2>2, InstallTable DEF tyGSOctalDrv
  <2>3. CASE IP520Drv(c)
    BY <1>1, <2>3, InstallTable DEF IP520Drv
  <2>4. CASE tyGSOctalModuleInit(c)
    <3>1. DOMAIN tty' = Serial /\ tty'["ip520"] = tty["ip520"] /\ TableChange("octal")
      BY <1>1, <2>4, OctalTable
    <3>2. TableChange("ip520")
      BY <3>1 DEF TableChange
    <3> QED BY <1>1, <3>1, <3>2
  <2>5. CASE IP520ModuleInit(c)
    <3>1. DOMAIN tty' = Serial /\ tty'["octal"] = tty["octal"] /\ TableChange("ip520")
      BY <1>1, <2>5, Ip520Table
    <3>2. TableChange("octal")
      BY <3>1 DEF TableChange
    <3> QED BY <1>1, <3>1, <3>2
  <2> QED BY <2>1, <2>2, <2>3, <2>4, <2>5
<1>4. CASE MarkCreated
  <2>1. pc.drv \in Serial /\ phase = "up" /\ tty' = [tty EXCEPT ![pc.drv].table[pc.mod].created = @ \cup {pc.port}]
    BY <1>4 DEF MarkCreated
  <2>2. tty'[pc.drv] = [tty[pc.drv] EXCEPT !.table[pc.mod].created = @ \cup {pc.port}]
    BY <2>1
  <2>3. Marks(pc.drv)
    BY <2>1, <2>2 DEF Marks
  <2>4. \A e \in Serial : e # pc.drv => tty'[e] = tty[e]
    BY <2>1
  <2>5. \A e \in Serial : TableChange(e)
    BY <2>3, <2>4 DEF TableChange
  <2> QED BY <2>1, <2>5
<1>5. \/ \E c \in world.script : Call(c)
      \/ UNCHANGED tty \/ MarkCreated
  BY DEF Next, InitDevice, InitialiseDone, SkipPort, tyGSOctalInitChannel, IP520InitChannel, InitChannel, atc40ISR, Reboot, Down,
     Hooks, tyGSOctalRebootHook, IP520RebootHook, Quiet, HookCrash, t810Shutdown, BoardHook
<1> QED BY <1>2, <1>3, <1>4, <1>5

\* The calls of a script are what the drivers take them for.
LEMMA GivenCalls ==
  ASSUME RegistryOK, NEW c \in world.script
  PROVE  /\ c.op \in Registers => c.vec \in Int
         /\ c.op \in {"tyGSOctalDrv", "IP520Drv"} => c.max \in Nat
         /\ c.op \in (Creates \cup Registers) \ {"t810Create"} => c.id # "NULL"
<1>1. LegalWorld(world)
  BY WorldAssumption DEF RegistryOK
<1> QED BY <1>1 DEF LegalWorld

LEMMA OwnStay ==
  ASSUME BusInv, Grown
  PROVE  OwnDevices \subseteq OwnDevices' /\ \A d \in Serial : Own(d) \subseteq Own(d)'
<1>1. DeviceRows' = DeviceRows /\ TableRows' = TableRows
  BY DEF Grown, DeviceRows, TableRows, Given
<1>0. \A card, slot : Registered(card, slot)' = Registered(card, slot)
  BY DEF Grown, Registered, Given
<1>2. OwnDevices \subseteq OwnDevices'
  <2> SUFFICES ASSUME NEW e \in OwnDevices PROVE e \in OwnDevices'
    OBVIOUS
  <2>1. e \in DeviceRows /\ Accepts("can", e.card, e.slot) /\ "can" \in Drivers /\ Registered(e.card, e.slot)
    BY DEF OwnDevices, Drivers
  <2>2. Accepts("can", e.card, e.slot)'
    BY <2>1, AcceptsStays
  <2>3. Registered(e.card, e.slot)'
    BY <1>0, <2>1
  <2> QED BY <1>1, <2>1, <2>2, <2>3 DEF OwnDevices
<1>3. ASSUME NEW d \in Serial PROVE Own(d) \subseteq Own(d)'
  <2> SUFFICES ASSUME NEW e \in Own(d) PROVE e \in Own(d)'
    OBVIOUS
  <2>1. /\ e \in TableRows /\ d \in Drivers
        /\ IF e.id = "NULL" THEN ~e.ready /\ e.created = {} ELSE Accepts(d, e.card, e.slot) /\ Registered(e.card, e.slot)
    BY DEF Own, Serial, Drivers
  <2>2. CASE e.id = "NULL"
    BY <1>1, <2>1, <2>2 DEF Own
  <2>3. CASE e.id # "NULL"
    <3>1. Accepts(d, e.card, e.slot)'
      BY <2>1, <2>3, AcceptsStays
    <3>2. Registered(e.card, e.slot)'
      BY <1>0, <2>1, <2>3
    <3> QED BY <1>1, <2>1, <2>3, <3>1, <3>2 DEF Own
  <2> QED BY <2>2, <2>3
<1> QED BY <1>2, <1>3

LEMMA TableStep ==
  ASSUME BusInv, Grown, DeviceInv, NEW d \in Serial, TableChange(d), DOMAIN tty' = Serial
  PROVE  TableOK(d)'
<1> DEFINE t == tty[d]
           n == t.last + 1
<1>1. TableRows' = TableRows
  BY DEF Grown, TableRows, Given
<1>2. TableShape(t) /\ RowsOK(t) /\ \A i \in 1 .. Len(t.table) : t.table[i] \in Own(d)
  BY DEF DeviceInv, TableOK
<1>3. /\ DOMAIN t = {"installed", "last", "table"} /\ t.installed \in BOOLEAN
      /\ t.table \in Seq(TableRows) /\ t.last \in Nat
      /\ ~t.installed => t.last = 0 /\ Len(t.table) = 0
  BY <1>2 DEF TableShape
<1>4. ASSUME NEW u, u = tty'[d], TableShape(u), RowsOK(u), \A i \in 1 .. Len(u.table) : u.table[i] \in Own(d)
      PROVE  TableOK(d)'
  <2>1. \A i \in 1 .. Len(u.table) : u.table[i] \in Own(d)'
    BY <1>4, OwnStay
  <2>2. TableShape(u)' /\ RowsOK(u)'
    BY <1>1, <1>4 DEF TableShape, RowsOK
  <2> QED BY <1>4, <2>1, <2>2 DEF TableOK, TableShape, RowsOK
<1>5. CASE tty'[d] = tty[d]
  BY <1>2, <1>4, <1>5
<1>6. ASSUME NEW c \in world.script, c.op \in {"tyGSOctalDrv", "IP520Drv"}, Installs(d, c.max)
      PROVE  TableOK(d)'
  <2>1. c.max \in Nat
    BY <1>6, GivenCalls DEF BusInv
  <2> DEFINE rows == [i \in 1 .. c.max |-> Blank]
             u == [installed |-> TRUE, last |-> 0, table |-> rows]
  <2>2. Blank \in Own(d) /\ Blank \in TableRows /\ ~Blank.ready /\ Blank.created = {}
    BY DEF Blank, Own, TableRows, Ports
  <2> HIDE DEF Own, TableRows, Blank
  <2>3. rows \in Seq(TableRows) /\ Len(rows) = c.max /\ \A i \in 1 .. c.max : rows[i] = Blank
    BY <2>1, <2>2
  <2> HIDE DEF rows
  <2>4. TableShape(u) /\ RowsOK(u) /\ \A i \in 1 .. Len(u.table) : u.table[i] \in Own(d)
    BY <2>1, <2>2, <2>3 DEF TableShape, RowsOK
  <2>5. u = tty'[d]
    BY <1>6 DEF Installs, rows
  <2> HIDE DEF u
  <2> QED BY <1>4, <2>4, <2>5
<1>7. CASE Counts(d)
  <2> DEFINE u == [t EXCEPT !.last = n]
  <2>1. u = tty'[d] /\ t.installed
    BY <1>7 DEF Counts
  <2>2. u.last = n /\ u.table = t.table /\ u.installed = t.installed /\ DOMAIN u = DOMAIN t
    BY <1>3
  <2>3. TableShape(u)
    <3>1. n \in Nat
      BY <1>3
    <3> HIDE DEF u, t, n, TableRows
    <3> QED BY <1>3, <2>1, <2>2, <3>1 DEF TableShape
  <2>4. RowsOK(u)
    <3>1. \A i \in 1 .. Len(t.table) : i > n => i > t.last
      BY <1>3
    <3> HIDE DEF u, t, n
    <3> QED BY <1>2, <2>2, <3>1 DEF RowsOK
  <2> HIDE DEF u
  <2> QED BY <1>2, <1>4, <2>1, <2>2, <2>3, <2>4
<1>8. ASSUME NEW c \in world.script, NEW r \in BOOLEAN, Enters(d, c, r)
      PROVE  TableOK(d)'
  <2> DEFINE e == [NewEntry(c) EXCEPT !.ready = r]
             u == [t EXCEPT !.last = IF r THEN n ELSE @, !.table[n] = e]
  <2>1. u = tty'[d] /\ n <= Len(t.table) /\ t.installed /\ Accepts(d, c.card, c.slot) /\ ~Known(t, c.card, c.slot)
        /\ c.op \in Registers \ {"t810Create"}
    BY <1>8 DEF Enters
  <2>2. e = [id |-> c.id, card |-> c.card, slot |-> c.slot, vec |-> c.vec, ready |-> r, created |-> {}]
    <3> DEFINE e0 == NewEntry(c)
    <3>1. e0 = [id |-> c.id, card |-> c.card, slot |-> c.slot, vec |-> c.vec, ready |-> FALSE, created |-> {}]
      BY NewEntryIs
    <3> HIDE DEF e0
    <3>2. [e0 EXCEPT !.ready = r] = [id |-> c.id, card |-> c.card, slot |-> c.slot, vec |-> c.vec, ready |-> r, created |-> {}]
      BY <3>1
    <3> QED BY <3>2 DEF e0
  <2> HIDE DEF e
  <2>3. e \in Own(d) /\ e \in TableRows
    <3>1. c.id # "NULL" /\ c.vec \in Int
      BY <2>1, GivenCalls DEF BusInv
    <3>2. e \in TableRows
      BY <2>2, <3>1 DEF TableRows, Given
    <3>3. Registered(c.card, c.slot)
      BY <2>1 DEF Registered, Given
    <3>4. e.id # "NULL" /\ Accepts(d, e.card, e.slot) /\ Registered(e.card, e.slot)
      BY <2>1, <2>2, <3>1, <3>3
    <3> QED BY <3>2, <3>4 DEF Own
  <2>4. n \in 1 .. Len(t.table)
    BY <1>3, <2>1
  <2>5. /\ u.last = IF r THEN n ELSE t.last
        /\ u.table = [t.table EXCEPT ![n] = e] /\ u.installed = t.installed /\ DOMAIN u = DOMAIN t
    BY <1>3
  <2> HIDE DEF u
  <2> HIDE DEF TableRows
  <2>6. u.table \in Seq(TableRows) /\ Len(u.table) = Len(t.table) /\ u.table[n] = e
        /\ \A i \in 1 .. Len(t.table) : i # n => u.table[i] = t.table[i]
    BY <1>3, <2>3, <2>4, <2>5
  <2>7. TableShape(u)
    BY <1>3, <2>1, <2>4, <2>5, <2>6 DEF TableShape
  <2>8. RowsOK(u)
    <3>1. \A i \in 1 .. Len(u.table) : i > u.last => ~u.table[i].ready /\ u.table[i].created = {}
      BY <1>2, <1>3, <2>2, <2>5, <2>6 DEF RowsOK
    <3>2. \A i \in 1 .. Len(t.table) : t.table[i].ready => t.table[i].card # c.card \/ t.table[i].slot # c.slot
      <4>1. \A i \in 1 .. Len(t.table) : t.table[i].ready => i \in Counted(t)
        BY <1>2, <1>3 DEF RowsOK, Counted
      <4> QED BY <2>1, <4>1 DEF Known
    <3>3. e.card = c.card /\ e.slot = c.slot
      BY <2>2
    <3>4. \A i, j \in 1 .. Len(u.table) : i # j /\ u.table[i].ready /\ u.table[j].ready =>
            u.table[i].card # u.table[j].card \/ u.table[i].slot # u.table[j].slot
      <4> HIDE DEF t, n, e
      <4> TAKE i, j \in 1 .. Len(u.table)
      <4>1. i \in 1 .. Len(t.table) /\ j \in 1 .. Len(t.table)
        BY <2>6
      <4>2. CASE i # n /\ j # n
        BY <1>2, <2>6, <4>1, <4>2 DEF RowsOK
      <4>3. CASE i # n /\ j = n
        BY <2>6, <3>2, <3>3, <4>1, <4>3
      <4>4. CASE i = n /\ j # n
        BY <2>6, <3>2, <3>3, <4>1, <4>4
      <4> QED BY <4>2, <4>3, <4>4
    <3> QED BY <3>1, <3>4 DEF RowsOK
  <2>9. \A i \in 1 .. Len(u.table) : u.table[i] \in Own(d)
    BY <1>2, <2>3, <2>6
  <2> QED BY <1>4, <2>1, <2>7, <2>8, <2>9
<1>9. CASE Marks(d)
  <2> DEFINE k == pc.mod
             e == [t.table[k] EXCEPT !.created = @ \cup {pc.port}]
             u == [t EXCEPT !.table[k] = e]
  <2>1. u = tty'[d] /\ pc.drv = d
    BY <1>9 DEF Marks
  <2>2. k \in Counted(t) /\ t.table[k].id # "NULL" /\ pc.port \in Ports
    BY <2>1 DEF DeviceInv, PcOK, Serial
  <2>3. k \in 1 .. Len(t.table) /\ k <= t.last
    BY <1>3, <2>2 DEF Counted
  <2>4. t.table[k] \in TableRows /\ t.table[k] \in Own(d)
    BY <1>2, <2>3 DEF Own
  <2>5. /\ e \in TableRows /\ e.id = t.table[k].id /\ e.card = t.table[k].card /\ e.slot = t.table[k].slot
        /\ e.ready = t.table[k].ready
    BY <2>2, <2>4 DEF TableRows
  <2>6. e \in Own(d)
    <3> HIDE DEF e
    <3> QED BY <2>2, <2>4, <2>5 DEF Own
  <2>7. /\ u.last = t.last /\ u.table = [t.table EXCEPT ![k] = e] /\ u.installed = t.installed /\ DOMAIN u = DOMAIN t
    BY <1>3
  <2> HIDE DEF u, e
  <2> HIDE DEF TableRows
  <2>8. u.table \in Seq(TableRows) /\ Len(u.table) = Len(t.table) /\ u.table[k] = e
        /\ \A i \in 1 .. Len(t.table) : i # k => u.table[i] = t.table[i]
    BY <1>3, <2>3, <2>5, <2>7
  <2>9. TableShape(u)
    BY <1>3, <2>7, <2>8 DEF TableShape
  <2>10. RowsOK(u)
    <3>1. \A i \in 1 .. Len(t.table) : /\ u.table[i].card = t.table[i].card /\ u.table[i].slot = t.table[i].slot
                                       /\ u.table[i].ready = t.table[i].ready
                                       /\ i > t.last => u.table[i] = t.table[i]
      BY <1>3, <2>3, <2>5, <2>8
    <3>2. Len(u.table) = Len(t.table) /\ u.last = t.last
      BY <2>7, <2>8
    <3> HIDE DEF t, k
    <3> QED BY <1>2, <3>1, <3>2 DEF RowsOK
  <2>11. \A i \in 1 .. Len(u.table) : u.table[i] \in Own(d)
    BY <1>2, <2>6, <2>8
  <2> QED BY <1>4, <2>1, <2>9, <2>10, <2>11
<1> QED BY <1>5, <1>6, <1>7, <1>8, <1>9 DEF TableChange

LEMMA LeastOf ==
  ASSUME NEW S, S \subseteq Nat, S # {}
  PROVE  Min(S) \in S /\ \A y \in S : Min(S) <= y
<1>1. PICK x \in S : \A y \in S : ~(<<y, x>> \in Less)
  BY LessWellFounded, WFMin
<1>2. \A y \in S : x =< y
  <2> TAKE y \in S
  <2>1. x \in Nat /\ y \in Nat /\ <<y, x>> \notin Less
    BY <1>1
  <2>2. ~(y < x)
    BY <2>1 DEF Less
  <2> QED BY <2>1, <2>2
<1> QED BY <1>2 DEF Min

LEMMA GreatestOf ==
  ASSUME NEW n \in Nat, NEW S, S \subseteq 1 .. n, S # {}
  PROVE  Max(S) \in S
<1> DEFINE T == {n - x : x \in S}
<1>1. T \subseteq Nat /\ T # {}
  <2>1. \A x \in S : n - x \in Nat
    OBVIOUS
  <2> QED BY <2>1
<1>2. Min(T) \in T
  <2> HIDE DEF T
  <2> QED BY <1>1, LeastOf
<1>3. \A t \in T : Min(T) <= t
  <2>1. PICK t \in T : \A y \in T : ~(<<y, t>> \in Less)
    <3> HIDE DEF T
    <3> QED BY <1>1, LessWellFounded, WFMin
  <2>2. \A y \in T : t <= y
    <3> HIDE DEF T
    <3> TAKE y \in T
    <3>1. t \in Nat /\ y \in Nat /\ <<y, t>> \notin Less
      BY <1>1, <2>1
    <3>2. ~(y < t)
      BY <3>1 DEF Less
    <3> QED BY <3>1, <3>2
  <2> HIDE DEF T
  <2> QED BY <2>2 DEF Min
<1>4. PICK x \in S : Min(T) = n - x
  BY <1>2
<1>5. \A y \in S : x >= y
  <2> TAKE y \in S
  <2>1. n - y \in T
    OBVIOUS
  <2>2. n - x <= n - y
    BY <1>3, <1>4, <2>1
  <2> QED BY <2>2
<1> QED BY <1>5 DEF Max

LEMMA FindQTFinds ==
  ASSUME NEW t, NEW X, t.table \in Seq(X), NEW id, FindQT(t, id) # 0
  PROVE  FindQT(t, id) \in Counted(t) /\ t.table[FindQT(t, id)].id = id
<1> DEFINE same == {i \in Counted(t) : t.table[i].id = id}
<1>1. same # {} /\ FindQT(t, id) = Min(same)
  BY DEF FindQT
<1>2. same \subseteq Nat
  BY DEF Counted
<1>3. Min(same) \in same
  <2> HIDE DEF same
  <2> QED BY <1>1, <1>2, LeastOf
<1> QED BY <1>1, <1>3

\* What becomes of the list of TIP810 devices.
Lists(c) ==
  /\ phase = "up" /\ pc = Idle /\ c.op = "t810Create" /\ Accepts("can", c.card, c.slot)
  /\ \A i \in DOMAIN can : can[i].name # c.name /\ (can[i].card # c.card \/ can[i].slot # c.slot)
  /\ can' = Append(can, [name |-> c.name, card |-> c.card, slot |-> c.slot, vec |-> c.vec, ready |-> FALSE])
  /\ modules' = [modules EXCEPT ![<<Board(c.card), c.slot>>].on = {}]

Starts(r) ==
  /\ phase = "up" /\ pc.drv = "can" /\ pc.mod <= Len(can)
  /\ can' = [can EXCEPT ![pc.mod].ready = r]
  /\ pc' = [pc EXCEPT !.mod = pc.mod + 1]

CanChange ==
  \/ UNCHANGED can
  \/ \E c \in world.script : Lists(c)
  \/ \E r \in BOOLEAN : Starts(r)

LEMMA DeviceAccepts ==
  ASSUME NEW card, NEW slot
  PROVE  Accepts("can", card, slot) <=> ipmValidate(card, slot, 179, 1) = "OK"
<1>1. Types["can"] = {<<179, 1>>}
  BY DEF Types
<1>2. <<179, 1>>[1] = 179 /\ <<179, 1>>[2] = 1
  OBVIOUS
<1> QED BY <1>1, <1>2 DEF Accepts

LEMMA CanFrame ==
  ASSUME Next
  PROVE  CanChange
<1>1. CASE UNCHANGED can
  BY <1>1 DEF CanChange
<1>2. ASSUME NEW c \in world.script, Call(c), ~UNCHANGED can
      PROVE  CanChange
  <2>1. t810Create(c)
    BY <1>2 DEF Call, AddCarrier, IrqCommand, IntConnect, t810Initialise, tyGSOctalDevCreate, tyGSOctalDevCreateAll,
         IP520DevCreate, IP520DevCreateAll, FindModule, tyGSOctalDrv, tyGSOctalModuleInit, IP520Drv, IP520ModuleInit
  <2>2. Accepts("can", c.card, c.slot) <=> ipmValidate(c.card, c.slot, 179, 1) = "OK"
    BY DeviceAccepts
  <2>3. Lists(c)
    BY <1>2, <2>1, <2>2 DEF t810Create, Shell, Lists
  <2> QED BY <2>3 DEF CanChange
<1>3. CASE InitDevice
  <2> DEFINE r == ipmIntConnect(can[pc.mod].card, can[pc.mod].slot, can[pc.mod].vec, Routine("can", pc.mod)).status = "OK"
  <2>1. r \in BOOLEAN
    OBVIOUS
  <2>2. Starts(r)
    BY <1>3 DEF InitDevice, Starts
  <2> HIDE DEF r
  <2> QED BY <2>1, <2>2 DEF CanChange
<1>4. (\E c \in world.script : Call(c)) \/ UNCHANGED can \/ InitDevice
  BY DEF Next, InitialiseDone, SkipPort, tyGSOctalInitChannel, IP520InitChannel, InitChannel, MarkCreated, atc40ISR, Reboot, Down,
     Hooks, tyGSOctalRebootHook, IP520RebootHook, Quiet, HookCrash, t810Shutdown, BoardHook
<1> QED BY <1>1, <1>2, <1>3, <1>4

LEMMA CanStep ==
  ASSUME BusInv, Grown, DeviceInv, CanChange
  PROVE  CanOK' /\ Len(can') >= Len(can)
<1>1. DeviceRows' = DeviceRows /\ OwnDevices \subseteq OwnDevices'
  BY OwnStay DEF Grown, DeviceRows, Given
<1>2. /\ can \in Seq(DeviceRows) /\ Len(can) \in Nat
      /\ \A i \in 1 .. Len(can) : can[i] \in OwnDevices
      /\ \A i, j \in 1 .. Len(can) :
           i # j => can[i].name # can[j].name /\ (can[i].card # can[j].card \/ can[i].slot # can[j].slot)
  BY DEF DeviceInv, CanOK
<1>3. CASE UNCHANGED can
  <2> HIDE DEF DeviceRows
  <2>1. can' = can
    BY <1>3
  <2> QED BY <1>1, <1>2, <2>1 DEF CanOK
<1>4. ASSUME NEW c \in world.script, Lists(c) PROVE CanOK' /\ Len(can') >= Len(can)
  <2> DEFINE e == [name |-> c.name, card |-> c.card, slot |-> c.slot, vec |-> c.vec, ready |-> FALSE]
             n == Len(can)
  <2>1. can' = Append(can, e) /\ c.op = "t810Create" /\ Accepts("can", c.card, c.slot)
        /\ \A i \in 1 .. n : can[i].name # c.name /\ (can[i].card # c.card \/ can[i].slot # c.slot)
    BY <1>2, <1>4 DEF Lists
  <2>2. c.vec \in Int
    BY <2>1, GivenCalls DEF BusInv, Registers
  <2>3. e \in DeviceRows /\ e \in OwnDevices
    <3>1. Registered(c.card, c.slot)
      BY <2>1 DEF Registered, Registers, Given
    <3> QED BY <2>1, <2>2, <3>1 DEF DeviceRows, OwnDevices, Given
  <2>4. e.name = c.name /\ e.card = c.card /\ e.slot = c.slot
    OBVIOUS
  <2> HIDE DEF e, DeviceRows
  <2>5. can' \in Seq(DeviceRows) /\ Len(can') = n + 1 /\ can'[n + 1] = e /\ \A i \in 1 .. n : can'[i] = can[i]
    BY <1>2, <2>1, <2>3
  <2>6. \A i \in 1 .. Len(can') : i \in 1 .. n \/ i = n + 1
    BY <1>2, <2>5
  <2>7. \A i \in 1 .. Len(can') : can'[i] \in OwnDevices'
    BY <1>1, <1>2, <2>3, <2>5, <2>6
  <2>8. \A i, j \in 1 .. Len(can') :
          i # j => can'[i].name # can'[j].name /\ (can'[i].card # can'[j].card \/ can'[i].slot # can'[j].slot)
    <3> TAKE i, j \in 1 .. Len(can')
    <3>1. CASE i \in 1 .. n /\ j \in 1 .. n
      BY <1>2, <2>5, <3>1
    <3>2. CASE i \in 1 .. n /\ j = n + 1
      BY <2>1, <2>4, <2>5, <3>2
    <3>3. CASE i = n + 1 /\ j \in 1 .. n
      BY <2>1, <2>4, <2>5, <3>3
    <3> QED BY <2>6, <3>1, <3>2, <3>3
  <2> QED BY <1>1, <1>2, <2>5, <2>7, <2>8 DEF CanOK
<1>5. ASSUME NEW r \in BOOLEAN, Starts(r) PROVE CanOK' /\ Len(can') >= Len(can)
  <2> DEFINE k == pc.mod
             e == [can[k] EXCEPT !.ready = r]
  <2>1. can' = [can EXCEPT ![k] = e] /\ k \in 1 .. Len(can)
    BY <1>2, <1>5 DEF Starts, DeviceInv, PcOK, Serial
  <2>2. can[k] \in DeviceRows /\ can[k] \in OwnDevices
    BY <1>2, <2>1 DEF OwnDevices
  <2>3. e \in DeviceRows /\ e.name = can[k].name /\ e.card = can[k].card /\ e.slot = can[k].slot
    BY <2>2 DEF DeviceRows
  <2> HIDE DEF e, DeviceRows
  <2>4. e \in OwnDevices
    BY <2>2, <2>3 DEF OwnDevices
  <2>5. can' \in Seq(DeviceRows) /\ Len(can') = Len(can) /\ can'[k] = e
        /\ \A i \in 1 .. Len(can) : i # k => can'[i] = can[i]
    BY <1>2, <2>1, <2>3
  <2>6. \A i \in 1 .. Len(can) : /\ can'[i].name = can[i].name /\ can'[i].card = can[i].card /\ can'[i].slot = can[i].slot
                                /\ can'[i] \in OwnDevices
    BY <1>2, <2>3, <2>4, <2>5
  <2> QED BY <1>1, <1>2, <2>5, <2>6 DEF CanOK
<1> QED BY <1>3, <1>4, <1>5 DEF CanChange

\* What becomes of the call under way.
Searches(d, c) ==
  LET mod == FindQT(tty[d], c.id) IN
  /\ c.op \in Creates /\ phase = "up" /\ pc = Idle /\ mod # 0
  /\ \E port \in Ports, all \in BOOLEAN : pc' = [drv |-> d, mod |-> mod, port |-> port, all |-> all, hot |-> FALSE]

PcChange ==
  \/ UNCHANGED pc \/ pc' = Idle
  \/ pc = Idle /\ pc' = [Idle EXCEPT !.drv = "can", !.mod = 1] /\ started'
  \/ pc.drv = "can" /\ \E r \in BOOLEAN : Starts(r)
  \/ \E d \in Serial, c \in world.script : Searches(d, c) /\ UNCHANGED tty
  \/ pc.drv \in Serial /\ pc' \in {NextPort, [pc EXCEPT !.hot = TRUE]}

LEMMA PcFrame ==
  ASSUME Next
  PROVE  PcChange /\ (started => started')
<1>1. ASSUME NEW c \in world.script, Call(c)
      PROVE  PcChange /\ (started => started')
  <2>1. CASE AddCarrier(c) \/ IrqCommand(c) \/ IntConnect(c) \/ t810Create(c) \/ tyGSOctalDrv(c) \/ IP520Drv(c)
    BY <2>1 DEF AddCarrier, IrqCommand, IntConnect, t810Create, tyGSOctalDrv, IP520Drv, PcChange
  <2>2. CASE t810Initialise(c)
    BY <2>2 DEF t810Initialise, Shell, PcChange
  <2>3. CASE tyGSOctalModuleInit(c) \/ IP520ModuleInit(c)
    BY <2>3 DEF tyGSOctalModuleInit, IP520ModuleInit, PcChange
  <2>4. ASSUME NEW d \in Serial, NEW port, NEW all \in BOOLEAN, FindModule(d, c, port, all), c.op \in Creates
        PROVE  PcChange /\ (started => started')
    <3> DEFINE mod == FindQT(tty[d], c.id)
               go == mod # 0 /\ port \in Ports /\ (all \/ port \notin tty[d].table[mod].created)
    <3>1. UNCHANGED <<started, tty>> /\ Shell
      BY <2>4 DEF FindModule
    <3>2. pc' = Idle \/ (go /\ pc' = [drv |-> d, mod |-> mod, port |-> port, all |-> all, hot |-> FALSE])
      BY <2>4 DEF FindModule
    <3>3. CASE pc' = Idle
      BY <3>1, <3>3 DEF PcChange
    <3>4. CASE go /\ pc' = [drv |-> d, mod |-> mod, port |-> port, all |-> all, hot |-> FALSE]
      <4>1. Searches(d, c)
        BY <2>4, <3>1, <3>4 DEF Searches, Shell
      <4> QED BY <3>1, <4>1 DEF PcChange
    <3> QED BY <3>2, <3>3, <3>4
  <2>5. "octal" \in Serial /\ "ip520" \in Serial
    BY DEF Serial
  <2>6. CASE tyGSOctalDevCreate(c) \/ tyGSOctalDevCreateAll(c) \/ IP520DevCreate(c) \/ IP520DevCreateAll(c)
    BY <2>4, <2>5, <2>6 DEF tyGSOctalDevCreate, tyGSOctalDevCreateAll, IP520DevCreate, IP520DevCreateAll, Creates
  <2> QED BY <1>1, <2>1, <2>2, <2>3, <2>6 DEF Call
<1>2. CASE InitDevice
  <2>1. UNCHANGED started /\ pc.drv = "can"
    BY <1>2 DEF InitDevice
  <2> DEFINE r == ipmIntConnect(can[pc.mod].card, can[pc.mod].slot, can[pc.mod].vec, Routine("can", pc.mod)).status = "OK"
  <2>2. r \in BOOLEAN
    OBVIOUS
  <2>3. Starts(r)
    BY <1>2 DEF InitDevice, Starts
  <2> HIDE DEF r
  <2> QED BY <2>1, <2>2, <2>3 DEF PcChange
<1>3. CASE InitialiseDone \/ SkipPort \/ tyGSOctalInitChannel \/ IP520InitChannel \/ MarkCreated
  BY <1>3 DEF InitialiseDone, SkipPort, tyGSOctalInitChannel, IP520InitChannel, InitChannel, MarkCreated, PcChange, Serial
<1>4. CASE UNCHANGED <<pc, started>>
  BY <1>4 DEF PcChange
<1>5. \/ \E c \in world.script : Call(c)
      \/ InitDevice \/ InitialiseDone \/ SkipPort \/ tyGSOctalInitChannel \/ IP520InitChannel \/ MarkCreated
      \/ UNCHANGED <<pc, started>>
  BY DEF Next, atc40ISR, Reboot, Down, Hooks, tyGSOctalRebootHook, IP520RebootHook, Quiet, HookCrash, t810Shutdown, BoardHook
<1> QED BY <1>1, <1>2, <1>3, <1>4, <1>5

\* A call under way stays where it is: the entry it is at is not changed.
LEMMA MarksKeep ==
  ASSUME DeviceInv, NEW d \in Serial, TableChange(d), pc # Idle
  PROVE  /\ tty'[d].last = tty[d].last /\ DOMAIN tty'[d].table = DOMAIN tty[d].table
         /\ \A i \in DOMAIN tty[d].table :
              /\ tty'[d].table[i].id = tty[d].table[i].id /\ tty'[d].table[i].card = tty[d].table[i].card
              /\ tty'[d].table[i].slot = tty[d].table[i].slot /\ tty'[d].table[i].vec = tty[d].table[i].vec
              /\ tty'[d].table[i].ready = tty[d].table[i].ready
<1> DEFINE t == tty[d]
<1>1. tty'[d] = t \/ Marks(d)
  BY DEF TableChange, Installs, Counts, Enters
<1>2. TableShape(t)
  BY DEF DeviceInv, TableOK
<1>3. CASE tty'[d] = t
  BY <1>3
<1>4. CASE Marks(d)
  <2> DEFINE k == pc.mod
             e == [t.table[k] EXCEPT !.created = @ \cup {pc.port}]
  <2>1. tty'[d] = [t EXCEPT !.table[k] = e] /\ pc.drv = d
    BY <1>4 DEF Marks
  <2>2. k \in Counted(t) /\ t.last \in Nat /\ t.table \in Seq(TableRows) /\ DOMAIN t = {"installed", "last", "table"}
    BY <1>2, <2>1 DEF DeviceInv, PcOK, TableShape, Serial
  <2>3. k \in DOMAIN t.table
    BY <2>2 DEF Counted
  <2>4. t.table[k] \in TableRows
    <3> HIDE DEF TableRows
    <3> QED BY <2>2, <2>3
  <2>5. e.id = t.table[k].id /\ e.card = t.table[k].card /\ e.slot = t.table[k].slot /\ e.vec = t.table[k].vec /\ e.ready = t.table[k].ready
    BY <2>4 DEF TableRows
  <2> HIDE DEF e, TableRows
  <2>6. tty'[d].last = t.last /\ tty'[d].table = [t.table EXCEPT ![k] = e]
    BY <2>1, <2>2
  <2> QED BY <2>3, <2>5, <2>6
<1> QED BY <1>1, <1>3, <1>4

LEMMA PcStep ==
  ASSUME BusInv, Grown, DeviceInv, CanChange, PcChange, started => started', \A d \in Serial : TableChange(d)
  PROVE  PcOK'
<1>1. DOMAIN pc = {"drv", "mod", "port", "all", "hot"} /\ Len(can') >= Len(can) /\ Len(can) \in Nat /\ Len(can') \in Nat
  BY CanStep DEF DeviceInv, PcOK, CanOK
<1>2. CASE UNCHANGED pc
  <2>1. CASE pc.drv = "none"
    BY <1>1, <1>2, <2>1 DEF PcOK
  <2>2. CASE pc.drv = "can" /\ pc.mod \in 1 .. Len(can) + 1 /\ started
    <3>1. pc.mod \in 1 .. Len(can') + 1
      BY <1>1, <2>2
    <3> QED BY <1>1, <1>2, <2>2, <3>1 DEF PcOK
  <2>3. CASE /\ pc.drv \in Serial /\ pc.mod \in Counted(tty[pc.drv]) /\ tty[pc.drv].table[pc.mod].id # "NULL"
             /\ pc.port \in Ports
    <3>1. pc # Idle
      BY <2>3 DEF Idle, Serial
    <3> DEFINE d == pc.drv
    <3>2. pc.mod \in DOMAIN tty[d].table
      BY <2>3 DEF Counted
    <3>3. tty'[d].table[pc.mod].id # "NULL"
      BY <2>3, <3>1, <3>2, MarksKeep
    <3>4. pc.mod \in Counted(tty'[d])
      BY <2>3, <3>1, MarksKeep DEF Counted
    <3> QED BY <1>1, <1>2, <2>3, <3>3, <3>4 DEF PcOK
  <2> QED BY <2>1, <2>2, <2>3 DEF DeviceInv, PcOK
<1>3. CASE pc' = Idle
  BY <1>3 DEF PcOK, Idle
<1>4. CASE pc' = [Idle EXCEPT !.drv = "can", !.mod = 1] /\ started'
  <2>1. pc' = [drv |-> "can", mod |-> 1, port |-> 0, all |-> FALSE, hot |-> FALSE]
    BY <1>4 DEF Idle
  <2>2. 1 \in 1 .. Len(can') + 1
    BY <1>1
  <2> QED BY <1>4, <2>1, <2>2 DEF PcOK
<1>5. ASSUME NEW r \in BOOLEAN, pc.drv = "can", Starts(r) PROVE PcOK'
  <2>1. pc.mod \in 1 .. Len(can) + 1 /\ started /\ pc.mod <= Len(can) /\ pc' = [pc EXCEPT !.mod = pc.mod + 1]
    BY <1>5 DEF DeviceInv, PcOK, Serial, Starts
  <2>2. pc'.drv = "can" /\ pc'.mod = pc.mod + 1 /\ DOMAIN pc' = DOMAIN pc
    BY <1>1, <1>5, <2>1
  <2>3. pc.mod + 1 \in 1 .. Len(can') + 1
    BY <1>1, <2>1
  <2> QED BY <1>1, <2>1, <2>2, <2>3 DEF PcOK
<1>6. ASSUME NEW d \in Serial, NEW c \in world.script, Searches(d, c), UNCHANGED tty PROVE PcOK'
  <2> DEFINE mod == FindQT(tty[d], c.id)
  <2>1. tty[d].table \in Seq(TableRows)
    BY DEF DeviceInv, TableOK, TableShape
  <2>2. mod \in Counted(tty[d]) /\ tty[d].table[mod].id = c.id
    BY <1>6, <2>1, FindQTFinds DEF Searches
  <2>3. c.id # "NULL"
    BY <1>6, GivenCalls DEF Searches, BusInv, Creates
  <2> HIDE DEF mod
  <2>4. PICK port \in Ports, all \in BOOLEAN : pc' = [drv |-> d, mod |-> mod, port |-> port, all |-> all, hot |-> FALSE]
    BY <1>6 DEF Searches, mod
  <2> QED BY <1>6, <2>2, <2>3, <2>4 DEF PcOK
<1>7. CASE pc.drv \in Serial /\ pc' \in {NextPort, [pc EXCEPT !.hot = TRUE]}
  <2>1. /\ pc.mod \in Counted(tty[pc.drv]) /\ tty[pc.drv].table[pc.mod].id # "NULL"
        /\ pc.port \in Ports /\ pc # Idle
    BY <1>7 DEF DeviceInv, PcOK, Serial, Idle
  <2>2. CASE pc' = Idle
    BY <1>3, <2>2
  <2>3. CASE pc' # Idle
    <3>1. pc' = [pc EXCEPT !.hot = TRUE] \/ (pc.port < 7 /\ pc' = [pc EXCEPT !.port = @ + 1, !.hot = FALSE])
      BY <1>7, <2>3 DEF NextPort
    <3>2. pc'.drv = pc.drv /\ pc'.mod = pc.mod /\ DOMAIN pc' = DOMAIN pc /\ pc'.port \in Ports
      <4>1. CASE pc' = [pc EXCEPT !.hot = TRUE]
        BY <1>1, <2>1, <4>1
      <4>2. CASE pc.port < 7 /\ pc' = [pc EXCEPT !.port = @ + 1, !.hot = FALSE]
        <5>1. pc'.drv = pc.drv /\ pc'.mod = pc.mod /\ DOMAIN pc' = DOMAIN pc /\ pc'.port = pc.port + 1
          BY <1>1, <4>2
        <5>2. pc.port + 1 \in Ports
          BY <2>1, <4>2 DEF Ports
        <5> QED BY <5>1, <5>2
      <4> QED BY <3>1, <4>1, <4>2
    <3>3. pc.mod \in DOMAIN tty[pc.drv].table
      BY <2>1 DEF Counted
    <3>4. pc.mod \in Counted(tty'[pc.drv]) /\ tty'[pc.drv].table[pc.mod].id # "NULL"
      BY <1>7, <2>1, <3>3, MarksKeep DEF Counted
    <3> QED BY <1>1, <1>7, <3>2, <3>4 DEF PcOK
  <2> QED BY <2>2, <2>3
<1> QED BY <1>2, <1>3, <1>4, <1>5, <1>6, <1>7 DEF PcChange

LEMMA DeviceStep ==
  ASSUME BusInv, DeviceInv, Next
  PROVE  DeviceInv'
<1>1. Grown
  BY RegistryGrows
<1>2. DOMAIN tty' = Serial /\ \A d \in Serial : TableChange(d)
  BY TableFrame DEF DeviceInv
<1>3. CanChange /\ PcChange /\ (started => started')
  BY CanFrame, PcFrame
<1>4. CanOK' /\ PcOK'
  BY <1>1, <1>2, <1>3, CanStep, PcStep
<1>5. \A d \in Serial : TableOK(d)'
  BY <1>1, <1>2, TableStep
<1> QED BY <1>2, <1>4, <1>5 DEF DeviceInv

-----------------------------------------------------------------------------
(* The boards.                                                             *)

\* A working ATC40 carrier uses board b.
HasAtc40(b) == \E k \in 1 .. number : Works(k) /\ carriers[k].p.kind = "ATC40" /\ IoBase(carriers[k].p) = b

\* bs is a state of the boards that commands can lead to: their interrupts are on
\* where they were, and with "Enable" where there is an ATC40.
Boards(bs, enable) ==
  /\ DOMAIN bs = DOMAIN boards
  /\ \A b \in DOMAIN boards : IsBoard(bs[b]) /\ (bs[b].gie => boards[b].gie \/ (enable /\ HasAtc40(b)))

LEMMA CommandsKeepBoards ==
  ASSUME BusInv, NEW card, NEW slot, LegalSlot(card, slot), NEW bs, NEW enable \in BOOLEAN, Boards(bs, enable),
         NEW ns, Len(ns) \in Nat, (\E i \in 1 .. Len(ns) : ns[i][2][1] = "Enable") => enable
  PROVE  LET b == IoBase(Info(card).p) IN
         b \in DOMAIN boards /\ Boards([bs EXCEPT ![b] = Commanded(card, slot, @, ns).board], enable)
<1> DEFINE p == Info(card).p
           b == IoBase(p)
           r == Commanded(card, slot, bs[b], ns).board
<1>1. Works(card + 1) /\ Info(card) = carriers[card + 1]
  BY LegalSlotWorks DEF BusInv
<1>2. p.kind \in Kinds /\ b \in DOMAIN boards
  BY <1>1, WorkingParameters DEF BusInv, BoardsOK
<1>3. IsBoard(bs[b]) /\ (bs[b].gie => boards[b].gie \/ (enable /\ HasAtc40(b)))
  BY <1>2 DEF Boards
<1>4. IsBoard(r) /\ (r.gie => bs[b].gie \/ (p.kind = "ATC40" /\ \E i \in 1 .. Len(ns) : ns[i][2][1] = "Enable"))
  BY <1>2, <1>3, CommandedBoard
<1>5. p.kind = "ATC40" => HasAtc40(b)
  BY <1>1 DEF HasAtc40, Works
<1> HIDE DEF r, b, p
<1>6. IsBoard(r) /\ (r.gie => boards[b].gie \/ (enable /\ HasAtc40(b)))
  BY <1>3, <1>4, <1>5
<1>7. Boards([bs EXCEPT ![b] = r], enable)
  BY <1>2, <1>6 DEF Boards
<1> QED BY <1>2, <1>7 DEF r, b, p

LEMMA DisabledBoards ==
  ASSUME BusInv, NEW es, Len(es) \in Nat
  PROVE  Boards(Disabled(es), FALSE)
<1> DEFINE m == Len(es)
<1>1. PICK f : Disables(f, es, m) /\ Disabled(es) = f[m]
  BY DisabledRuns
<1>2. f[0] = boards /\ \A n \in 1 .. m : f[n] = DisableOne(f[n - 1], es[n])
  <2>1. \A n \in 0 .. m : f[n] = IF n = 0 THEN boards ELSE DisableOne(f[n - 1], es[n])
    BY <1>1 DEF Disables
  <2> QED BY <2>1
<1> HIDE DEF m
<1> DEFINE S == {n \in 0 .. m : Boards(f[n], FALSE)}
<1>3. m \in Nat
  BY DEF m
<1>4. 0 \in S
  BY <1>2, <1>3 DEF Boards, BusInv, BoardsOK
<1>5. \A n \in 0 .. m - 1 : n \in S => n + 1 \in S
  <2> SUFFICES ASSUME NEW n \in 0 .. m - 1, n \in S PROVE n + 1 \in S
    OBVIOUS
  <2>1. n + 1 \in 1 .. m /\ (n + 1) - 1 = n /\ n + 1 \in 0 .. m
    BY <1>3
  <2>2. f[n + 1] = DisableOne(f[n], es[n + 1])
    BY <1>2, <2>1
  <2> DEFINE e == es[n + 1]
  <2>3. CASE ~LegalSlot(e.card, e.slot)
    BY <2>1, <2>2, <2>3 DEF DisableOne
  <2>4. CASE LegalSlot(e.card, e.slot)
    <3>1. f[n + 1] = [f[n] EXCEPT ![IoBase(Info(e.card).p)] = Commanded(e.card, e.slot, @, BothOff).board]
      BY <2>2, <2>4 DEF DisableOne, Board
    <3>2. Len(BothOff) \in Nat /\ \A i \in 1 .. Len(BothOff) : BothOff[i][2][1] # "Enable"
      <4>1. Len(BothOff) = 3 /\ \A i \in 1 .. 3 : BothOff[i][2][1] # "Enable"
        BY DEF BothOff
      <4> QED BY <4>1
    <3> DEFINE enable == FALSE
    <3>3. enable \in BOOLEAN /\ Boards(f[n], enable) /\ ~enable
      OBVIOUS
    <3> HIDE DEF enable
    <3>4. Boards([f[n] EXCEPT ![IoBase(Info(e.card).p)] = Commanded(e.card, e.slot, @, BothOff).board], enable)
      BY <2>4, <3>2, <3>3, CommandsKeepBoards
    <3>5. Boards(f[n + 1], FALSE)
      BY <3>1, <3>4 DEF enable
    <3> QED BY <2>1, <3>5
  <2> QED BY <2>3, <2>4
<1>6. 0 .. m \subseteq S
  <2> HIDE DEF S
  <2> QED BY <1>3, <1>4, <1>5, InductionUpTo
<1>7. m \in S
  <2>1. m \in 0 .. m
    BY <1>3
  <2> HIDE DEF S
  <2> QED BY <1>6, <2>1
<1> QED BY <1>1, <1>7 DEF m

\* What a hook goes through begins with the entries that count.
LEMMA VisitsAll ==
  ASSUME DeviceInv, NEW d \in Serial, NEW es \in Visits(d)
  PROVE  /\ Len(es) \in Nat /\ DOMAIN es = 1 .. Len(es)
         /\ \A i \in Counted(tty[d]) : i \in DOMAIN es /\ es[i] = tty[d].table[i]
<1> DEFINE t == tty[d].table
           m == Min({tty[d].last, Len(t)})
           k == tty[d].last - Len(t)
           R == TableRows \cup Strays
<1>1. t \in Seq(TableRows) /\ tty[d].last \in Nat /\ Len(t) \in Nat
  BY DEF DeviceInv, TableOK, TableShape
<1>2. m \in {tty[d].last, Len(t)} /\ m <= tty[d].last /\ m <= Len(t)
  <2> DEFINE S == {tty[d].last, Len(t)}
  <2>1. S \subseteq Nat /\ S # {}
    BY <1>1
  <2>2. Min(S) \in S /\ \A y \in S : Min(S) <= y
    <3> HIDE DEF S
    <3> QED BY <2>1, LeastOf
  <2> QED BY <2>2
<1>3. PICK rest \in [1 .. k -> Strays] : es = SubSeq(t, 1, m) \o rest
  BY DEF Visits, Entries
<1>4. k \in Int
  BY <1>1
<1> HIDE DEF TableRows, Strays, k, m
<1>5. t \in Seq(R)
  BY <1>1
<1>6. rest \in Seq(R)
  <2>1. \E n \in Nat : 1 .. n = 1 .. k
    <3>1. CASE k >= 0
      BY <1>4, <3>1
    <3>2. CASE k < 0
      <4>1. 1 .. 0 = 1 .. k
        BY <1>4, <3>2
      <4> QED BY <4>1
    <3> QED BY <1>4, <3>1, <3>2
  <2>2. PICK n \in Nat : 1 .. n = 1 .. k
    BY <2>1
  <2>3. rest \in [1 .. n -> R]
    BY <1>3, <2>2
  <2> HIDE DEF R
  <2> QED BY <2>3, SeqDef
<1> HIDE DEF R, t
<1>7. /\ SubSeq(t, 1, m) \in Seq(R) /\ Len(SubSeq(t, 1, m)) = m
      /\ \A i \in 1 .. m : SubSeq(t, 1, m)[i] = t[i]
  BY <1>1, <1>2, <1>5
<1> DEFINE en == SubSeq(t, 1, m)
<1> HIDE DEF en
<1>8. en \in Seq(R) /\ Len(en) = m /\ (\A i \in 1 .. m : en[i] = t[i]) /\ es = en \o rest
  BY <1>3, <1>7 DEF en
<1>9. es \in Seq(R) /\ Len(es) = m + Len(rest) /\ \A i \in 1 .. m : es[i] = t[i]
  <2>1. es \in Seq(R) /\ Len(es) = Len(en) + Len(rest) /\ \A i \in 1 .. Len(en) : es[i] = en[i]
    <3> DEFINE x == en \o rest
    <3>1. /\ x \in Seq(R) /\ Len(x) = Len(en) + Len(rest)
          /\ \A i \in 1 .. Len(en) + Len(rest) : x[i] = IF i <= Len(en) THEN en[i] ELSE rest[i - Len(en)]
      BY <1>6, <1>8, ConcatProperties
    <3>2. es = x /\ Len(en) \in Nat /\ Len(rest) \in Nat
      BY <1>6, <1>8
    <3> HIDE DEF x
    <3> QED BY <3>1, <3>2
  <2> QED BY <1>8, <2>1
<1>10. \A i \in Counted(tty[d]) : i \in 1 .. m
  BY <1>1, <1>2 DEF Counted, t
<1>11. Len(rest) \in Nat /\ m \in Nat
  BY <1>1, <1>2, <1>6
<1>12. \A i \in 1 .. m : i \in 1 .. Len(es)
  BY <1>9, <1>11
<1> QED BY <1>9, <1>10, <1>12 DEF t

LEMMA BoardsStep ==
  ASSUME BusInv, DeviceInv, Next
  PROVE  \/ \E c \in world.script : AddCarrier(c)
         \/ /\ UNCHANGED <<world, carriers, regions, ipic>>
            /\ Boards(boards', phase = "up")
<1>1. world' = world /\ BusChange
  BY BusFrame
<1>2. /\ DOMAIN boards = DOMAIN world.boards /\ IsIpic(ipic) /\ \A b \in DOMAIN boards : IsBoard(boards[b])
  BY DEF BusInv, BoardsOK
<1>3. ASSUME UNCHANGED boards
      PROVE  Boards(boards', phase = "up")
  BY <1>2, <1>3 DEF Boards
<1>4. ASSUME phase = "up", NEW card, NEW slot, NEW ns, Len(ns) \in Nat, ipmIrqCmd(card, slot, ns), ~UNCHANGED boards
      PROVE  Boards(boards', phase = "up")
  <2>1. LegalSlot(card, slot)
        /\ boards' = [boards EXCEPT ![IoBase(Info(card).p)] = Commanded(card, slot, @, ns).board]
    BY <1>4 DEF ipmIrqCmd, LegalLines
  <2> DEFINE enable == phase = "up"
  <2>2. enable \in BOOLEAN /\ enable /\ Boards(boards, enable)
    BY <1>2, <1>4 DEF Boards
  <2> HIDE DEF enable
  <2>3. Boards(boards', enable)
    BY <1>4, <2>1, <2>2, CommandsKeepBoards
  <2> QED BY <2>3 DEF enable
<1>5. ASSUME NEW b \in DOMAIN world.boards, atc40ISR(b) \/ BoardHook(b)
      PROVE  Boards(boards', phase = "up")
  <2>1. PICK x \in BOOLEAN : boards' = [boards EXCEPT ![b].gie = x] /\ (x => boards[b].gie)
    <3>1. CASE atc40ISR(b)
      <4>1. PICK still : boards' = [boards EXCEPT ![b].gie = ~(world.jam /\ still # Lines)] /\ boards[b].gie
        BY <3>1 DEF atc40ISR
      <4> DEFINE x == ~(world.jam /\ still # Lines)
      <4>2. x \in BOOLEAN /\ boards' = [boards EXCEPT ![b].gie = x]
        BY <4>1
      <4> HIDE DEF x
      <4> QED BY <4>1, <4>2
    <3>2. CASE BoardHook(b)
      BY <3>2 DEF BoardHook
    <3> QED BY <1>5, <3>1, <3>2
  <2> QED BY <1>2, <2>1 DEF Boards, IsBoard
<1>6. ASSUME NEW d \in Serial, NEW es \in Visits(d), boards' = Disabled(es)
      PROVE  Boards(boards', phase = "up")
  <2>1. Boards(Disabled(es), FALSE)
    BY VisitsAll, DisabledBoards
  <2> QED BY <1>6, <2>1 DEF Boards
<1> QED BY <1>1, <1>3, <1>4, <1>5, <1>6 DEF BusChange

LEMMA BusStep ==
  ASSUME BusInv, DeviceInv, Next
  PROVE  BusInv'
<1>1. CASE \E c \in world.script : AddCarrier(c)
  BY <1>1, AddKeepsBus
<1>2. CASE UNCHANGED <<world, carriers, regions, ipic>> /\ Boards(boards', phase = "up")
  <2>1. RegistryOK'
    BY <1>2 DEF BusInv, RegistryOK, CarrierRows, number, Works
  <2>2. BoardsOK'
    BY <1>2 DEF BusInv, BoardsOK, Boards
  <2>3. RangesOwned'
    BY <1>2 DEF BusInv, RangesOwned, number, Works, Owned1, Owned2
  <2> QED BY <2>1, <2>2, <2>3 DEF BusInv
<1> QED BY <1>1, <1>2, BoardsStep

-----------------------------------------------------------------------------
(* The modules.                                                            *)

ModulesOK == modules \in [Modules -> [vec : Vectors, on : SUBSET Ports]]

\* A place where a driver has found a module.
LEMMA PlaceOf ==
  ASSUME NEW d \in Drivers, NEW card, NEW slot, Accepts(d, card, slot)
  PROVE  /\ <<Board(card), slot>> \in Modules /\ ModuleAt(card, slot) = <<Board(card), slot>>
         /\ LegalSlot(card, slot)
BY AcceptsMeans DEF ModuleAt, Board

LEMMA HereIs ==
  ASSUME DeviceInv, pc.drv \in Serial
  PROVE  /\ Accepts(pc.drv, Here.card, Here.slot) /\ Place(Here) \in Modules /\ pc.port \in Ports /\ pc # Idle
         /\ pc.drv \in Drivers /\ Place(Here) = ModuleAt(Here.card, Here.slot)
<1> DEFINE d == pc.drv
           e == tty[d].table[pc.mod]
<1>1. pc.mod \in Counted(tty[d]) /\ e.id # "NULL" /\ pc.port \in Ports /\ pc # Idle /\ d \in Drivers
  BY DEF DeviceInv, PcOK, Serial, Idle, Drivers
<1>2. pc.mod \in 1 .. Len(tty[d].table) /\ e \in Own(d)
  BY <1>1 DEF DeviceInv, TableOK, TableShape, Counted
<1>3. Accepts(d, e.card, e.slot)
  BY <1>1, <1>2 DEF Own
<1> QED BY <1>1, <1>3, PlaceOf DEF Here, Place

LEMMA ModulesReset ==
  ASSUME ModulesOK, NEW ms
  PROVE  /\ Reset(ms) \in [Modules -> [vec : Vectors, on : SUBSET Ports]]
         /\ \A m \in Modules : Reset(ms)[m].on \subseteq modules[m].on
<1>1. ColdModule \in [vec : Vectors, on : SUBSET Ports] /\ ColdModule.on = {}
  BY DEF ColdModule, Vectors
<1> QED BY <1>1 DEF ModulesOK, Reset

\* When the system goes down nothing of a module starts to interrupt.
OnMay(m) == phase # "up" => modules'[m].on \subseteq modules[m].on

\* A vector that is lost may turn on the interrupts of another module.
TurnsOne(f) == f = modules \/ \E m \in Modules, o \in {{}, {0}} : f = [modules EXCEPT ![m].on = o]
LEMMA LoseVectorIs ==
  ASSUME NEW card, NEW vec
  PROVE  TurnsOne(LoseVector(card, vec))
<1> DEFINE m == <<Board(card), 0>>
           o == IF (vec % 32) \div 2 = 0 THEN {} ELSE {0}
<1>1. o \in {{}, {0}}
  OBVIOUS
<1>2. LoseVector(card, vec) = IF m \in Modules /\ IsTip810(world.plugged[m].prom)
                              THEN [modules EXCEPT ![m].on = o] ELSE modules
  BY DEF LoseVector
<1> HIDE DEF m, o
<1> QED BY <1>1, <1>2 DEF TurnsOne

\* A hook of a serial driver goes through what it visits, or crashes.
QuietsOctal(es) == Quiet(es, BlockOf)
QuietsIp520(es) == Quiet(es, LAMBDA p : {p})
LEMMA OctalHook ==
  ASSUME tyGSOctalRebootHook
  PROVE  Hook(<<"octal">>) /\ ((\E es \in Visits("octal") : QuietsOctal(es)) \/ HookCrash("octal"))
  BY Zenon DEF tyGSOctalRebootHook, QuietsOctal, Quiet
LEMMA Ip520Hook ==
  ASSUME IP520RebootHook
  PROVE  Hook(<<"ip520">>) /\ ((\E es \in Visits("ip520") : QuietsIp520(es)) \/ HookCrash("ip520"))
  BY Zenon DEF IP520RebootHook, QuietsIp520, Quiet

LEMMA ModulesStep ==
  ASSUME BusInv, DeviceInv, ModulesOK, Next
  PROVE  ModulesOK' /\ \A m \in Modules : OnMay(m)
<1> DEFINE T == [vec : Vectors, on : SUBSET Ports]
           Goal == modules' \in [Modules -> T] /\ \A m \in Modules : OnMay(m)
<1>1. modules \in [Modules -> T]
  BY DEF ModulesOK
<1>2. Modules' = Modules
  BY BusFrame DEF Modules
<1>3. SUFFICES Goal
  BY <1>2 DEF ModulesOK
<1>4. CASE UNCHANGED modules
  BY <1>1, <1>4 DEF OnMay
<1>5. ASSUME NEW ms, modules' = Reset(ms) PROVE Goal
  BY <1>5, ModulesReset DEF OnMay
<1>6. ASSUME NEW m \in Modules, NEW x \in T, x.on \subseteq modules[m].on, modules' = [modules EXCEPT ![m] = x]
      PROVE  Goal
  <2> HIDE DEF T
  <2>1. modules' \in [Modules -> T] /\ modules'[m] = x /\ \A k \in Modules : k # m => modules'[k] = modules[k]
    BY <1>1, <1>6
  <2> QED BY <1>6, <2>1 DEF OnMay
<1>7. \A v \in Int : v % 256 \in Vectors
  BY DEF Vectors
<1>8. \A m \in Modules : /\ modules[m] \in T /\ modules[m].vec \in Vectors /\ modules[m].on \subseteq Ports
                         /\ \A v \in Vectors : [modules[m] EXCEPT !.vec = v] \in T /\ [modules[m] EXCEPT !.vec = v].on = modules[m].on
                         /\ \A o \in SUBSET Ports : [modules[m] EXCEPT !.on = o] \in T /\ [modules[m] EXCEPT !.on = o].on = o
  BY <1>1
<1>9. ASSUME NEW c \in world.script, Call(c) PROVE Goal
  <2>1. CASE AddCarrier(c)
    <3>1. UNCHANGED modules \/ \E ms : modules' = Reset(ms)
      BY <2>1 DEF AddCarrier, ipacAddCarrier, AddDriver, Effects
    <3> QED BY <1>4, <1>5, <3>1
  <2>2. CASE IrqCommand(c)
    BY <1>5, <2>2 DEF IrqCommand
  <2>3. CASE t810Create(c)
    <3>1. UNCHANGED modules \/ (/\ ipmValidate(c.card, c.slot, 179, 1) = "OK"
                                /\ modules' = [modules EXCEPT ![<<Board(c.card), c.slot>>].on = {}])
      BY <2>3 DEF t810Create
    <3>2. ASSUME ipmValidate(c.card, c.slot, 179, 1) = "OK",
                 modules' = [modules EXCEPT ![<<Board(c.card), c.slot>>].on = {}]
          PROVE  Goal
      <4> DEFINE m == <<Board(c.card), c.slot>>
                 x == [modules[m] EXCEPT !.on = {}]
      <4>1. m \in Modules
        BY <3>2, DeviceAccepts, PlaceOf DEF Drivers
      <4>2. x \in T /\ x.on = {} /\ modules' = [modules EXCEPT ![m] = x]
        BY <1>8, <3>2, <4>1
      <4> HIDE DEF x, m
      <4> QED BY <1>6, <4>1, <4>2
    <3> QED BY <1>4, <3>1, <3>2
  <2>4. CASE tyGSOctalModuleInit(c)
    <3> DEFINE m == <<Board(c.card), c.slot>>
               x == [modules[m] EXCEPT !.vec = c.vec % 256]
    <3>1. \/ UNCHANGED modules
          \/ phase = "up" /\ modules' = LoseVector(c.card, c.vec)
          \/ /\ c.type \in DOMAIN OctalModel /\ ipmValidate(c.card, c.slot, 240, OctalModel[c.type]) = "OK"
             /\ modules' = [modules EXCEPT ![m] = x]
      BY <2>4 DEF tyGSOctalModuleInit, Shell
    <3>2. c.vec \in Int
      BY <2>4, GivenCalls DEF tyGSOctalModuleInit, Registers, BusInv
    <3>3. ASSUME c.type \in DOMAIN OctalModel, ipmValidate(c.card, c.slot, 240, OctalModel[c.type]) = "OK",
                 modules' = [modules EXCEPT ![m] = x]
          PROVE  Goal
      <4>1. m \in Modules
        BY <3>3, OctalAccepts, PlaceOf DEF Drivers
      <4>2. x \in T /\ x.on = modules[m].on
        BY <1>7, <1>8, <3>2, <4>1
      <4> HIDE DEF x, m
      <4> QED BY <1>6, <3>3, <4>1, <4>2
    <3>4. ASSUME phase = "up", modules' = LoseVector(c.card, c.vec)
          PROVE  Goal
      <4>1. ASSUME NEW k \in Modules, NEW o \in {{}, {0}}, modules' = [modules EXCEPT ![k].on = o]
            PROVE  Goal
        <5> DEFINE y == [modules[k] EXCEPT !.on = o]
        <5>1. o \in SUBSET Ports
          BY <4>1 DEF Ports
        <5>2. modules' = [modules EXCEPT ![k] = y] /\ y \in T
          BY <1>8, <4>1, <5>1
        <5> HIDE DEF y, T
        <5>3. modules' \in [Modules -> T]
          BY <1>1, <4>1, <5>2
        <5> QED BY <3>4, <5>3 DEF OnMay
      <4>2. TurnsOne(modules')
        BY <3>4, LoseVectorIs
      <4> HIDE DEF Goal
      <4> QED BY <1>4, <4>1, <4>2 DEF TurnsOne
    <3> HIDE DEF Goal
    <3> QED BY <1>4, <3>1, <3>3, <3>4
  <2>5. CASE IP520ModuleInit(c)
    <3> DEFINE m == <<Board(c.card), c.slot>>
               x == [vec |-> c.vec % 256, on |-> {}]
    <3>1. UNCHANGED modules
          \/ (ipmValidate(c.card, c.slot, 163, 36) = "OK" /\ modules' = [modules EXCEPT ![m] = x])
      BY <2>5 DEF IP520ModuleInit
    <3>2. c.vec \in Int
      BY <2>5, GivenCalls DEF IP520ModuleInit, Registers, BusInv
    <3>3. ASSUME ipmValidate(c.card, c.slot, 163, 36) = "OK", modules' = [modules EXCEPT ![m] = x]
          PROVE  Goal
      <4>1. Accepts("ip520", c.card, c.slot)
        BY <3>3 DEF Accepts, Types
      <4>2. m \in Modules
        BY <4>1, PlaceOf DEF Drivers
      <4>3. x \in T /\ x.on = {}
        BY <1>7, <3>2
      <4> HIDE DEF x, m
      <4> QED BY <1>6, <3>3, <4>2, <4>3
    <3> QED BY <1>4, <3>1, <3>3
  <2>6. CASE IntConnect(c) \/ t810Initialise(c) \/ tyGSOctalDrv(c) \/ tyGSOctalDevCreate(c) \/ tyGSOctalDevCreateAll(c)
             \/ IP520Drv(c) \/ IP520DevCreate(c) \/ IP520DevCreateAll(c)
    BY <1>4, <2>6 DEF IntConnect, t810Initialise, tyGSOctalDrv, tyGSOctalDevCreate, tyGSOctalDevCreateAll,
       IP520Drv, IP520DevCreate, IP520DevCreateAll, FindModule, busVars
  <2> QED BY <1>9, <2>1, <2>2, <2>3, <2>4, <2>5, <2>6 DEF Call
<1>10. CASE InitDevice
  <2> DEFINE d == can[pc.mod]
             m == Place(d)
             x == [vec |-> d.vec % 256, on |-> {0}]
  <2>1. phase = "up" /\ pc.drv = "can" /\ pc.mod <= Len(can) /\ modules' = [modules EXCEPT ![m] = x]
    BY <1>10 DEF InitDevice
  <2>2. pc.mod \in 1 .. Len(can)
    BY <2>1 DEF DeviceInv, PcOK, Serial, CanOK
  <2>3. d \in OwnDevices
    BY <2>2 DEF DeviceInv, CanOK
  <2>4. d.vec \in Int /\ Accepts("can", d.card, d.slot)
    BY <2>3 DEF OwnDevices, DeviceRows
  <2>5. m \in Modules
    BY <2>4, PlaceOf DEF Place, Drivers
  <2>6. x \in T
    BY <1>7, <2>4 DEF Ports
  <2> HIDE DEF x, m
  <2>7. modules' \in [Modules -> T]
    <3> HIDE DEF T
    <3> QED BY <1>1, <2>1, <2>5, <2>6
  <2> QED BY <2>1, <2>7 DEF OnMay
<1>11. ASSUME pc.drv \in Serial, phase = "up", modules' = [modules EXCEPT ![Place(Here)].on = @ \cup {pc.port}]
       PROVE  Goal
  <2> DEFINE m == Place(Here)
             x == [modules[m] EXCEPT !.on = modules[m].on \cup {pc.port}]
  <2>1. m \in Modules /\ pc.port \in Ports
    BY <1>11, HereIs
  <2>2. modules' = [modules EXCEPT ![m] = x] /\ x \in T
    BY <1>8, <1>11, <2>1
  <2> HIDE DEF x, m
  <2>3. modules' \in [Modules -> T] /\ \A k \in Modules : k # m => modules'[k] = modules[k]
    BY <1>1, <2>1, <2>2
  <2>4. \A k \in Modules : OnMay(k)
    BY <1>11 DEF OnMay
  <2> QED BY <2>3, <2>4
<1>12. CASE tyGSOctalInitChannel \/ IP520InitChannel
  BY <1>11, <1>12 DEF tyGSOctalInitChannel, IP520InitChannel, InitChannel, Serial
<1>13. ASSUME NEW X, modules' = [m \in Modules |-> [modules[m] EXCEPT !.on = @ \ X[m]]] PROVE Goal
  <2>1. \A m \in Modules : modules'[m] = [modules[m] EXCEPT !.on = modules[m].on \ X[m]]
    BY <1>13
  <2>2. \A m \in Modules : modules[m].on \ X[m] \in SUBSET Ports
    BY <1>8
  <2>3. \A m \in Modules : modules'[m] \in T /\ modules'[m].on = modules[m].on \ X[m]
    <3> TAKE m \in Modules
    <3> DEFINE o == modules[m].on \ X[m]
    <3>1. o \in SUBSET Ports /\ modules'[m] = [modules[m] EXCEPT !.on = o]
      BY <2>1, <2>2
    <3> HIDE DEF o
    <3>2. modules'[m] \in T /\ modules'[m].on = o
      BY <1>8, <3>1
    <3> QED BY <3>2 DEF o
  <2>4. modules' = [m \in Modules |-> modules'[m]]
    BY <1>13
  <2>5. modules' \in [Modules -> T]
    <3> HIDE DEF T
    <3> QED BY <2>3, <2>4
  <2> QED BY <2>3, <2>5 DEF OnMay
<1>14. CASE t810Shutdown
  <2>1. \A m \in Modules : modules'[m] = modules[m] \/ modules'[m] = [modules[m] EXCEPT !.on = {}]
    BY <1>14 DEF t810Shutdown
  <2>2. modules' = [m \in Modules |-> modules'[m]]
    BY <1>14 DEF t810Shutdown
  <2>3. \A m \in Modules : modules'[m] \in T /\ modules'[m].on \subseteq modules[m].on
    <3> TAKE m \in Modules
    <3>1. [modules[m] EXCEPT !.on = {}] \in T /\ [modules[m] EXCEPT !.on = {}].on = {} /\ modules[m] \in T
      BY <1>8
    <3> HIDE DEF T
    <3> QED BY <2>1, <3>1
  <2>4. modules' \in [Modules -> T]
    <3> HIDE DEF T
    <3> QED BY <2>2, <2>3
  <2> QED BY <2>3, <2>4 DEF OnMay
<1>15. CASE tyGSOctalRebootHook
  <2>1. ASSUME NEW es, QuietsOctal(es) PROVE Goal
    <3>1. modules' = [m \in Modules |-> [modules[m] EXCEPT !.on =
                      @ \ UNION {BlockOf(p) : p \in UNION {es[i].created :
                        i \in {j \in DOMAIN es : es[j].created # {} /\ Place(es[j]) = m}}}]]
      BY <2>1 DEF QuietsOctal, Quiet
    <3> DEFINE X == [m \in Modules |-> UNION {BlockOf(p) : p \in UNION {es[i].created :
                       i \in {j \in DOMAIN es : es[j].created # {} /\ Place(es[j]) = m}}}]
    <3>2. modules' = [m \in Modules |-> [modules[m] EXCEPT !.on = @ \ X[m]]]
      BY <3>1
    <3> HIDE DEF X
    <3> QED BY <1>13, <3>2
  <2>2. CASE HookCrash("octal")
    BY <1>4, <2>2 DEF HookCrash
  <2> HIDE DEF Goal
  <2>3. (\E es \in Visits("octal") : QuietsOctal(es)) \/ HookCrash("octal")
    BY <1>15, OctalHook
  <2> QED BY <2>1, <2>2, <2>3
<1>16. CASE IP520RebootHook
  <2>1. ASSUME NEW es, QuietsIp520(es) PROVE Goal
    <3>1. modules' = [m \in Modules |-> [modules[m] EXCEPT !.on =
                      @ \ UNION {{p} : p \in UNION {es[i].created :
                        i \in {j \in DOMAIN es : es[j].created # {} /\ Place(es[j]) = m}}}]]
      BY <2>1 DEF QuietsIp520, Quiet
    <3> DEFINE X == [m \in Modules |-> UNION {{p} : p \in UNION {es[i].created :
                       i \in {j \in DOMAIN es : es[j].created # {} /\ Place(es[j]) = m}}}]
    <3>2. modules' = [m \in Modules |-> [modules[m] EXCEPT !.on = @ \ X[m]]]
      BY <3>1
    <3> HIDE DEF X
    <3> QED BY <1>13, <3>2
  <2>2. CASE HookCrash("ip520")
    BY <1>4, <2>2 DEF HookCrash
  <2> HIDE DEF Goal
  <2>3. (\E es \in Visits("ip520") : QuietsIp520(es)) \/ HookCrash("ip520")
    BY <1>16, Ip520Hook
  <2> QED BY <2>1, <2>2, <2>3
<1>17. \/ \E c \in world.script : Call(c)
       \/ InitDevice \/ tyGSOctalInitChannel \/ IP520InitChannel
       \/ tyGSOctalRebootHook \/ IP520RebootHook \/ t810Shutdown \/ UNCHANGED modules
  BY DEF Next, InitialiseDone, SkipPort, MarkCreated, atc40ISR, Reboot, Down, Hooks, BoardHook, busVars
<1> HIDE DEF Goal
<1> QED BY <1>4, <1>9, <1>10, <1>12, <1>14, <1>15, <1>16, <1>17

-----------------------------------------------------------------------------
(* Going down.                                                             *)

DevicesOff == \A i \in 1 .. Len(can) : modules[Place(can[i])].on = {}
PortsOff(d) == \A i \in Counted(tty[d]) : tty[d].table[i].created \cap modules[Place(tty[d].table[i])].on = {}

\* A board whose interrupts are on has its hook yet to run.
HooksHeld == \A b \in DOMAIN boards : boards[b].gie => <<"board", b>> \in hooks

\* While the system is up whatever could interrupt has a hook; when it goes down,
\* what has no hook any more is quiet.
HooksCover ==
  /\ phase = "up" =>
       /\ \A b \in DOMAIN boards : HasAtc40(b) => <<"board", b>> \in hooks
       /\ started => <<"can">> \in hooks
       /\ \A d \in Serial : tty[d].installed => <<d>> \in hooks
  /\ phase \in {"rebooting", "down"} =>
       /\ started /\ <<"can">> \notin hooks => DevicesOff
       /\ \A d \in Serial : <<d>> \notin hooks => PortsOff(d)
  /\ phase = "down" => hooks = {}
  /\ phase \in {"up", "rebooting", "down", "crashed"}

QuietInv == ModulesOK /\ HooksHeld /\ HooksCover

LEMMA QuietInit ==
  ASSUME Init
  PROVE  QuietInv
<1>1. /\ boards = [b \in DOMAIN world.boards |-> ColdBoard] /\ modules = [m \in Modules |-> ColdModule]
      /\ can = <<>> /\ phase = "up" /\ ~started /\ number = 0
      /\ tty = [d \in Serial |-> [installed |-> FALSE, last |-> 0, table |-> <<>>]]
  BY DEF Init, StartupInit, CarriersInit, number
<1>2. ModulesOK
  BY <1>1 DEF ModulesOK, ColdModule, Vectors
<1>3. HooksHeld
  BY <1>1 DEF HooksHeld, ColdBoard
<1>4. HooksCover
  BY <1>1 DEF HooksCover, HasAtc40
<1> QED BY <1>2, <1>3, <1>4 DEF QuietInv

\* A carrier that is added puts down a hook before its interrupts are turned on.
LEMMA AddedBoard ==
  ASSUME BusInv, NEW c \in world.script, AddCarrier(c)
  PROVE  /\ DOMAIN boards' = DOMAIN boards /\ hooks \subseteq hooks'
         /\ \A b \in DOMAIN boards : /\ boards'[b].gie => boards[b].gie \/ <<"board", b>> \in hooks'
                                     /\ HasAtc40(b)' => HasAtc40(b) \/ <<"board", b>> \in hooks'
<1> DEFINE p == c.p
           Goal == /\ DOMAIN boards' = DOMAIN boards /\ hooks \subseteq hooks'
                   /\ \A b \in DOMAIN boards : /\ boards'[b].gie => boards[b].gie \/ <<"board", b>> \in hooks'
                                               /\ HasAtc40(b)' => HasAtc40(b) \/ <<"board", b>> \in hooks'
<1>1. c.op = "add" /\ ipacAddCarrier(p) /\ world' = world /\ number \in Nat
  BY DEF AddCarrier, BusInv, RegistryOK, number
<1> HIDE DEF p
<1>2. CASE UNCHANGED <<carriers, boards, hooks>>
  BY <1>2 DEF HasAtc40, number, Works
<1>3. ASSUME NEW d, Number(d, p)
      PROVE  number' = number + 1 /\ carriers'[number + 1] = [driver |-> d, p |-> p] /\ \A k \in 1 .. number : carriers'[k] = carriers[k]
  <2>1. carriers' = Append(carriers, [driver |-> d, p |-> p]) /\ carriers \in Seq(CarrierRows)
    BY <1>3 DEF Number, BusInv, RegistryOK
  <2> HIDE DEF CarrierRows
  <2> QED BY <2>1 DEF number
<1>4. CASE Number("null", p) /\ UNCHANGED <<boards, hooks>>
  <2> DEFINE d == "null"
  <2>1. d = "null" /\ Number(d, p)
    BY <1>4
  <2> HIDE DEF d
  <2>2. number' = number + 1 /\ carriers'[number + 1] = [driver |-> d, p |-> p] /\ \A k \in 1 .. number : carriers'[k] = carriers[k]
    BY <1>3, <2>1
  <2>3. \A b : HasAtc40(b)' => HasAtc40(b)
    BY <1>1, <2>1, <2>2 DEF HasAtc40, Works
  <2> QED BY <1>4, <2>3
<1>5. ASSUME p.kind \in Kinds, AddDriver(p)
      PROVE  Goal
  <2> DEFINE a == Initialised(p)
             d == IF a.ok THEN p.kind ELSE "null"
  <2>1. Parameters(p) /\ IoBase(p) \in DOMAIN boards /\ IsBoard(boards[IoBase(p)]) /\ IsIpic(ipic)
    <3>1. Parameters(p) /\ IoBase(p) \in DOMAIN world.boards
      BY <1>1, <1>5, AddedParameters DEF BusInv, p
    <3> QED BY <3>1 DEF BusInv, BoardsOK
  <2>2. Outcome(p, a)
    BY <1>5, <2>1, InitialisedOutcome DEF BusInv, RangesOwned
  <2>3. /\ Number(d, p)
        /\ boards' = [boards EXCEPT ![IoBase(p)] = a.board] /\ hooks' = hooks \cup a.hook
    BY <1>5 DEF AddDriver, Effects
  <2> HIDE DEF a
  <2>4. d = "null" \/ (a.ok /\ d = p.kind)
    OBVIOUS
  <2> HIDE DEF d
  <2>5. number' = number + 1 /\ carriers'[number + 1] = [driver |-> d, p |-> p] /\ \A k \in 1 .. number : carriers'[k] = carriers[k]
    BY <1>3, <2>3
  <2>6. \A b \in DOMAIN boards : boards'[b].gie => boards[b].gie \/ <<"board", b>> \in hooks'
    BY <2>1, <2>2, <2>3 DEF Outcome, OwnHook
  <2>7. ASSUME NEW b \in DOMAIN boards, HasAtc40(b)' PROVE HasAtc40(b) \/ <<"board", b>> \in hooks'
    <3>1. PICK k \in 1 .. number' : Works(k)' /\ carriers'[k].p.kind = "ATC40" /\ IoBase(carriers'[k].p) = b
      BY <2>7 DEF HasAtc40
    <3>2. CASE k \in 1 .. number
      BY <2>5, <3>1, <3>2 DEF HasAtc40, Works
    <3>3. CASE k = number + 1
      <4>1. a.ok /\ p.kind = "ATC40" /\ IoBase(p) = b
        BY <2>4, <2>5, <3>1, <3>3 DEF Works
      <4> QED BY <2>2, <2>3, <4>1 DEF Outcome, OwnHook
    <3> QED BY <1>1, <2>5, <3>2, <3>3
  <2> QED BY <2>1, <2>3, <2>6, <2>7
<1> HIDE DEF Goal
<1>6. CASE Goal
  BY <1>6 DEF Goal
<1> QED BY <1>1, <1>2, <1>4, <1>5, <1>6 DEF ipacAddCarrier

LEMMA UpFrame ==
  ASSUME Next, phase = "up", ~Reboot
  PROVE  /\ phase' \in {"up", "crashed"} /\ hooks \subseteq hooks'
         /\ started' => started \/ <<"can">> \in hooks'
<1>1. ASSUME NEW c \in world.script, Call(c), ~AddCarrier(c)
      PROVE  /\ phase' \in {"up", "crashed"} /\ hooks \subseteq hooks'
             /\ started' => started \/ <<"can">> \in hooks'
  <2>1. CASE IrqCommand(c) \/ IntConnect(c) \/ t810Create(c) \/ t810Initialise(c)
    BY <2>1 DEF IrqCommand, IntConnect, t810Create, t810Initialise, busVars
  <2>2. CASE tyGSOctalDrv(c) \/ IP520Drv(c)
    BY <2>2 DEF tyGSOctalDrv, IP520Drv, Install
  <2>3. CASE tyGSOctalModuleInit(c) \/ IP520ModuleInit(c)
    BY <2>3 DEF tyGSOctalModuleInit, IP520ModuleInit
  <2>4. CASE tyGSOctalDevCreate(c) \/ tyGSOctalDevCreateAll(c) \/ IP520DevCreate(c) \/ IP520DevCreateAll(c)
    BY <2>4 DEF tyGSOctalDevCreate, tyGSOctalDevCreateAll, IP520DevCreate, IP520DevCreateAll, FindModule, busVars
  <2> QED BY <1>1, <2>1, <2>2, <2>3, <2>4 DEF Call
<1>2. ASSUME NEW c \in world.script, AddCarrier(c)
      PROVE  phase' = phase /\ hooks \subseteq hooks' /\ started' = started
  BY <1>2 DEF AddCarrier, ipacAddCarrier, AddDriver, Effects
<1>3. CASE InitDevice \/ InitialiseDone \/ SkipPort \/ tyGSOctalInitChannel \/ IP520InitChannel \/ MarkCreated
  BY <1>3 DEF InitDevice, InitialiseDone, SkipPort, tyGSOctalInitChannel, IP520InitChannel, InitChannel, MarkCreated, busVars
<1>4. ASSUME NEW b, atc40ISR(b)
      PROVE  phase' = phase /\ hooks' = hooks /\ started' = started
  BY <1>4 DEF atc40ISR
<1>5. ~Down /\ ~Hooks
  BY DEF Down, Hooks, tyGSOctalRebootHook, IP520RebootHook, t810Shutdown, BoardHook, Hook
<1> QED BY <1>1, <1>2, <1>3, <1>4, <1>5 DEF Next

LEMMA DownFrame ==
  ASSUME Next, phase # "up"
  PROVE  /\ phase = "rebooting" /\ UNCHANGED <<world, carriers, can, tty, started>>
         /\ \/ (\E b \in DOMAIN world.boards : BoardHook(b) \/ atc40ISR(b)) \/ Down
            \/ tyGSOctalRebootHook \/ IP520RebootHook \/ t810Shutdown
<1>1. ~\E c \in world.script : Call(c)
  <2>1. ~Shell
    BY DEF Shell
  <2>2. ASSUME NEW c \in world.script, Call(c) PROVE Shell
    <3>1. CASE AddCarrier(c) \/ IrqCommand(c) \/ IntConnect(c) \/ t810Create(c) \/ t810Initialise(c)
      BY <3>1 DEF AddCarrier, IrqCommand, IntConnect, t810Create, t810Initialise
    <3>2. CASE tyGSOctalDrv(c) \/ tyGSOctalModuleInit(c) \/ IP520Drv(c) \/ IP520ModuleInit(c)
      <4> HIDE DEF Shell
      <4> QED BY <3>2 DEF tyGSOctalDrv, tyGSOctalModuleInit, IP520Drv, IP520ModuleInit
    <3>3. CASE tyGSOctalDevCreate(c) \/ tyGSOctalDevCreateAll(c) \/ IP520DevCreate(c) \/ IP520DevCreateAll(c)
      BY <3>3 DEF tyGSOctalDevCreate, tyGSOctalDevCreateAll, IP520DevCreate, IP520DevCreateAll, FindModule
    <3> QED BY <2>2, <3>1, <3>2, <3>3 DEF Call
  <2> QED BY <2>1, <2>2
<1>2. ~(InitDevice \/ InitialiseDone \/ SkipPort \/ tyGSOctalInitChannel \/ IP520InitChannel \/ MarkCreated \/ Reboot)
  BY DEF InitDevice, InitialiseDone, SkipPort, tyGSOctalInitChannel, IP520InitChannel, InitChannel, MarkCreated, Reboot
<1>3. \/ (\E b \in DOMAIN world.boards : BoardHook(b) \/ atc40ISR(b)) \/ Down
      \/ tyGSOctalRebootHook \/ IP520RebootHook \/ t810Shutdown
  BY <1>1, <1>2 DEF Next, Hooks
<1>4. phase = "rebooting" /\ UNCHANGED <<world, carriers, can, tty, started>>
  BY <1>3 DEF BoardHook, atc40ISR, Down, tyGSOctalRebootHook, IP520RebootHook, t810Shutdown, Quiet, HookCrash, Hook, busVars
<1> QED BY <1>3, <1>4

LEMMA HooksHeldStep ==
  ASSUME BusInv, DeviceInv, QuietInv, Next
  PROVE  HooksHeld'
<1>1. \A b \in DOMAIN boards : boards[b].gie => <<"board", b>> \in hooks
  BY DEF QuietInv, HooksHeld
<1>2. ASSUME NEW c \in world.script, AddCarrier(c)
      PROVE  HooksHeld'
  BY <1>1, <1>2, AddedBoard DEF HooksHeld
<1>3. CASE phase = "up" /\ ~(\E c \in world.script : AddCarrier(c))
  <2>1. Boards(boards', phase = "up")
    BY <1>3, BoardsStep
  <2>2. \A b \in DOMAIN boards : HasAtc40(b) => <<"board", b>> \in hooks
    BY <1>3 DEF QuietInv, HooksCover
  <2>3. hooks \subseteq hooks'
    BY <1>3, UpFrame DEF Reboot, busVars
  <2> QED BY <1>1, <2>1, <2>2, <2>3 DEF Boards, HooksHeld
<1>4. CASE phase # "up"
  <2>1. ~\E c \in world.script : AddCarrier(c)
    BY <1>4 DEF AddCarrier, Shell
  <2>2. Boards(boards', phase = "up")
    BY <2>1, BoardsStep
  <2>3. DOMAIN boards' = DOMAIN boards /\ \A b \in DOMAIN boards : boards'[b].gie => boards[b].gie
    BY <1>4, <2>2 DEF Boards
  <2>4. ASSUME NEW b \in DOMAIN world.boards, BoardHook(b)
        PROVE  HooksHeld'
    <3>1. hooks' = hooks \ {<<"board", b>>} /\ boards' = [boards EXCEPT ![b].gie = FALSE]
      BY <2>4 DEF BoardHook, Hook
    <3>2. \A k \in DOMAIN boards : k = b => ~boards'[k].gie
      BY <3>1 DEF BusInv, BoardsOK, IsBoard
    <3> QED BY <1>1, <2>3, <3>1, <3>2 DEF HooksHeld
  <2>5. CASE hooks' = hooks \/ hooks' = hooks \ {<<"can">>} \/ hooks' = hooks \ {<<"octal">>} \/ hooks' = hooks \ {<<"ip520">>}
    <3>1. \A b : <<"board", b>> # <<"can">> /\ <<"board", b>> # <<"octal">> /\ <<"board", b>> # <<"ip520">>
      OBVIOUS
    <3> QED BY <1>1, <2>3, <2>5, <3>1 DEF HooksHeld
  <2>6. (\E b \in DOMAIN world.boards : BoardHook(b)) \/
        (hooks' = hooks \/ hooks' = hooks \ {<<"can">>} \/ hooks' = hooks \ {<<"octal">>} \/ hooks' = hooks \ {<<"ip520">>})
    BY <1>4, DownFrame DEF atc40ISR, Down, tyGSOctalRebootHook, IP520RebootHook, t810Shutdown, Hook, busVars
  <2> QED BY <2>4, <2>5, <2>6
<1> QED BY <1>2, <1>3, <1>4

\* The place of a module that a driver has found stays the same.
LEMMA PlacesStay ==
  ASSUME BusInv, DeviceInv, Grown
  PROVE  /\ \A i \in 1 .. Len(can) : /\ carriers'[can[i].card + 1] = carriers[can[i].card + 1]
                                     /\ Place(can[i]) \in Modules
         /\ \A d \in Serial : \A i \in 1 .. Len(tty[d].table) :
              tty[d].table[i].id # "NULL" => /\ carriers'[tty[d].table[i].card + 1] = carriers[tty[d].table[i].card + 1]
                                             /\ Place(tty[d].table[i]) \in Modules
<1>1. ASSUME NEW d \in Drivers, NEW card, NEW slot, Accepts(d, card, slot)
      PROVE  carriers'[card + 1] = carriers[card + 1] /\ <<Board(card), slot>> \in Modules
  BY <1>1, AcceptsStays, PlaceOf DEF Info
<1>2. ASSUME NEW i \in 1 .. Len(can)
      PROVE  /\ carriers'[can[i].card + 1] = carriers[can[i].card + 1]
             /\ Place(can[i]) \in Modules
  <2>1. Accepts("can", can[i].card, can[i].slot) /\ "can" \in Drivers
    BY <1>2 DEF DeviceInv, CanOK, OwnDevices, Drivers
  <2> QED BY <1>1, <2>1 DEF Place
<1>3. ASSUME NEW d \in Serial, NEW i \in 1 .. Len(tty[d].table), tty[d].table[i].id # "NULL"
      PROVE  /\ carriers'[tty[d].table[i].card + 1] = carriers[tty[d].table[i].card + 1]
             /\ Place(tty[d].table[i]) \in Modules
  <2>1. Accepts(d, tty[d].table[i].card, tty[d].table[i].slot) /\ d \in Drivers
    BY <1>3 DEF DeviceInv, TableOK, Own, Drivers, Serial
  <2> QED BY <1>1, <2>1 DEF Place
<1> QED BY <1>2, <1>3

\* What the hooks do.
LEMMA PortsTurnedOff ==
  ASSUME BusInv, DeviceInv, ModulesOK, NEW d \in Serial, UNCHANGED <<world, carriers, tty>>,
         NEW X, modules' = [m \in Modules |-> [modules[m] EXCEPT !.on = @ \ X[m]]],
         NEW es \in Visits(d), \A m \in Modules : \A i \in DOMAIN es :
           Place(es[i]) = m /\ es[i].created # {} /\ es[i].created \subseteq Ports => es[i].created \subseteq X[m]
  PROVE  PortsOff(d)'
<1>1. \A i \in Counted(tty[d]) : es[i] = tty[d].table[i] /\ i \in DOMAIN es /\ i \in 1 .. Len(tty[d].table)
  <2>1. DOMAIN tty[d].table = 1 .. Len(tty[d].table)
    BY DEF DeviceInv, TableOK, TableShape
  <2> QED BY <2>1, VisitsAll DEF Counted
<1>2. \A m \in Modules : modules'[m].on = modules[m].on \ X[m]
  BY DEF ModulesOK
<1>3. SUFFICES ASSUME NEW i \in Counted(tty[d])
               PROVE  tty[d].table[i].created \cap modules'[Place(tty[d].table[i])].on = {}
  <2>1. \A e : Place(e)' = Place(e)
    BY DEF Place, Board, Info
  <2> QED BY <2>1 DEF PortsOff, Place, Board, Info
<1> DEFINE e == tty[d].table[i]
<1>4. CASE e.created = {}
  BY <1>4
<1>5. CASE e.created # {}
  <2>1. e \in Own(d) /\ e.id # "NULL"
    BY <1>1, <1>5 DEF DeviceInv, TableOK, Own
  <2>2. e.created \subseteq Ports
    BY <2>1 DEF Own, TableRows
  <2>3. Place(e) \in Modules
    <3>1. Accepts(d, e.card, e.slot) /\ d \in Drivers
      BY <2>1 DEF Own, Drivers, Serial
    <3> QED BY <3>1, PlaceOf DEF Place
  <2>4. e.created \subseteq X[Place(e)]
    BY <1>1, <1>5, <2>2, <2>3
  <2> QED BY <1>2, <2>3, <2>4
<1> QED BY <1>4, <1>5

LEMMA QuietStep ==
  ASSUME BusInv, DeviceInv, QuietInv, Next
  PROVE  QuietInv'
<1>1. ModulesOK /\ ModulesOK' /\ HooksHeld'
  BY ModulesStep, HooksHeldStep DEF QuietInv
<1>2. CASE phase = "up" /\ Reboot
  <2>1. phase' = "rebooting" /\ UNCHANGED <<hooks, modules, carriers, can, tty, started>>
    BY <1>2 DEF Reboot, busVars
  <2>2. /\ started => <<"can">> \in hooks
        /\ \A d \in Serial : tty[d].installed => <<d>> \in hooks
    BY <1>2 DEF QuietInv, HooksCover
  <2>3. \A d \in Serial : <<d>> \notin hooks => PortsOff(d)'
    <3> SUFFICES ASSUME NEW d \in Serial, <<d>> \notin hooks PROVE PortsOff(d)'
      OBVIOUS
    <3>1. Counted(tty[d]) = {}
      BY <2>2 DEF DeviceInv, TableOK, TableShape, Counted
    <3> QED BY <2>1, <3>1 DEF PortsOff
  <2>4. HooksCover'
    BY <2>1, <2>2, <2>3 DEF HooksCover
  <2> QED BY <1>1, <2>4 DEF QuietInv
<1>3. CASE phase = "up" /\ ~Reboot
  <2>1. /\ phase' \in {"up", "crashed"} /\ hooks \subseteq hooks'
        /\ started' => started \/ <<"can">> \in hooks'
        /\ started => started'
    BY <1>3, UpFrame, PcFrame
  <2>2. /\ \A b \in DOMAIN boards : HasAtc40(b) => <<"board", b>> \in hooks
        /\ started => <<"can">> \in hooks
        /\ \A d \in Serial : tty[d].installed => <<d>> \in hooks
    BY <1>3 DEF QuietInv, HooksCover
  <2>3. \A b \in DOMAIN boards' : HasAtc40(b)' => <<"board", b>> \in hooks'
    <3>1. ASSUME NEW c \in world.script, AddCarrier(c)
          PROVE  \A b \in DOMAIN boards' : HasAtc40(b)' => <<"board", b>> \in hooks'
      BY <2>2, <3>1, AddedBoard
    <3>2. CASE UNCHANGED <<world, carriers, regions, ipic>> /\ Boards(boards', phase = "up")
      <4>1. DOMAIN boards' = DOMAIN boards /\ \A b : HasAtc40(b)' = HasAtc40(b)
        BY <3>2 DEF Boards, HasAtc40, Works, number
      <4> QED BY <2>1, <2>2, <4>1
    <3> QED BY <3>1, <3>2, BoardsStep
  <2>4. \A d \in Serial : tty'[d].installed => <<d>> \in hooks'
    <3> SUFFICES ASSUME NEW d \in Serial, tty'[d].installed PROVE <<d>> \in hooks'
      OBVIOUS
    <3>1. TableChange(d)
      BY TableFrame DEF DeviceInv
    <3>2. DOMAIN tty[d] = {"installed", "last", "table"}
      BY DEF DeviceInv, TableOK, TableShape
    <3>3. tty'[d].installed = tty[d].installed \/ <<d>> \in hooks'
      BY <3>1, <3>2 DEF TableChange, Installs, Counts, Enters, Marks
    <3> QED BY <2>1, <2>2, <3>3
  <2>5. HooksCover'
    BY <2>1, <2>2, <2>3, <2>4 DEF HooksCover
  <2> QED BY <1>1, <2>5 DEF QuietInv
<1>4. CASE phase # "up"
  <2>1. /\ phase = "rebooting" /\ UNCHANGED <<world, carriers, can, tty, started>>
        /\ \/ (\E b \in DOMAIN world.boards : BoardHook(b) \/ atc40ISR(b)) \/ Down
           \/ tyGSOctalRebootHook \/ IP520RebootHook \/ t810Shutdown
    BY <1>4, DownFrame
  <2>2. /\ started /\ <<"can">> \notin hooks => DevicesOff
        /\ \A d \in Serial : <<d>> \notin hooks => PortsOff(d)
    BY <2>1 DEF QuietInv, HooksCover
  <2>3. \A m \in Modules : modules'[m].on \subseteq modules[m].on
    BY <1>1, <1>4, ModulesStep DEF OnMay
  <2>4. DevicesOff => DevicesOff'
    <3> SUFFICES ASSUME DevicesOff, NEW i \in 1 .. Len(can) PROVE (modules[Place(can[i])].on = {})'
      BY <2>1 DEF DevicesOff
    <3>1. Place(can[i]) \in Modules
      BY PlacesStay, RegistryGrows
    <3>2. Place(can[i])' = Place(can[i])
      BY <2>1 DEF Place, Board, Info
    <3> QED BY <2>3, <3>1, <3>2 DEF DevicesOff
  <2>5. \A d \in Serial : PortsOff(d) => PortsOff(d)'
    <3> SUFFICES ASSUME NEW d \in Serial, PortsOff(d), NEW i \in Counted(tty[d])
                 PROVE  tty[d].table[i].created \cap modules'[Place(tty[d].table[i])].on = {}
      BY <2>1 DEF PortsOff, Place, Board, Info
    <3> DEFINE e == tty[d].table[i]
    <3>1. i \in 1 .. Len(tty[d].table)
      BY DEF DeviceInv, TableOK, TableShape, Counted
    <3>2. CASE e.id = "NULL"
      <4>1. e.created = {}
        BY <3>1, <3>2 DEF DeviceInv, TableOK, Own
      <4> QED BY <4>1
    <3>3. CASE e.id # "NULL"
      <4>1. Place(e) \in Modules
        BY <3>1, <3>3, PlacesStay, RegistryGrows
      <4> QED BY <2>3, <4>1 DEF PortsOff
    <3> QED BY <3>2, <3>3
  <2>6. CASE (\E b \in DOMAIN world.boards : BoardHook(b)) /\ ~Down
    <3>1. PICK b \in DOMAIN world.boards : BoardHook(b)
      BY <2>6
    <3>2. phase' = phase /\ hooks' = hooks \ {<<"board", b>>}
      BY <3>1 DEF BoardHook, Hook
    <3>3. \A d \in Serial : <<"board", b>> # <<d>> /\ <<"board", b>> # <<"can">>
      OBVIOUS
    <3>4. HooksCover'
      BY <2>1, <2>2, <2>4, <2>5, <3>2, <3>3 DEF HooksCover, Serial
    <3> QED BY <1>1, <3>4 DEF QuietInv
  <2>7. CASE (\E b \in DOMAIN world.boards : atc40ISR(b)) \/ Down
    <3>1. hooks' = hooks /\ (phase' = "rebooting" \/ (phase' = "down" /\ hooks = {}))
      BY <2>1, <2>7 DEF atc40ISR, Down, busVars
    <3>2. HooksCover'
      BY <2>1, <2>2, <2>4, <2>5, <3>1 DEF HooksCover
    <3> QED BY <1>1, <3>2 DEF QuietInv
  <2>8. CASE t810Shutdown
    <3>1. hooks' = hooks \ {<<"can">>} /\ phase' = phase
          /\ modules' = [m \in Modules |-> IF \E i \in DOMAIN can : Place(can[i]) = m
                                           THEN [modules[m] EXCEPT !.on = {}] ELSE modules[m]]
      BY <2>8 DEF t810Shutdown, Hook
    <3>2. DevicesOff'
      <4> SUFFICES ASSUME NEW i \in 1 .. Len(can) PROVE modules'[Place(can[i])].on = {}
        BY <2>1 DEF DevicesOff, Place, Board, Info
      <4>1. Place(can[i]) \in Modules
        BY PlacesStay, RegistryGrows
      <4>2. i \in DOMAIN can
        BY DEF DeviceInv, CanOK
      <4>3. modules'[Place(can[i])] = [modules[Place(can[i])] EXCEPT !.on = {}]
        BY <3>1, <4>1, <4>2
      <4> QED BY <1>1, <4>1, <4>3 DEF ModulesOK
    <3>3. \A d \in Serial : <<d>> # <<"can">>
      BY DEF Serial
    <3>4. HooksCover'
      BY <2>1, <2>2, <2>5, <3>1, <3>2, <3>3 DEF HooksCover
    <3> QED BY <1>1, <3>4 DEF QuietInv
  <2>9. ASSUME NEW d \in Serial, Hook(<<d>>), PortsOff(d)', phase' = phase
        PROVE  QuietInv'
    <3>1. hooks' = hooks \ {<<d>>} /\ <<"can">> # <<d>>
      BY <2>9 DEF Hook, Serial
    <3>2. HooksCover'
      BY <2>1, <2>2, <2>4, <2>5, <2>9, <3>1 DEF HooksCover
    <3> QED BY <1>1, <3>2 DEF QuietInv
  <2>10. CASE tyGSOctalRebootHook
    <3>1. CASE HookCrash("octal")
      <4>1. phase' = "crashed"
        BY <3>1 DEF HookCrash
      <4> QED BY <1>1, <4>1 DEF QuietInv, HooksCover
    <3>2. ASSUME NEW es \in Visits("octal"), modules' = [m \in Modules |-> [modules[m] EXCEPT !.on = @ \ UNION {BlockOf(p) :
                   p \in UNION {es[i].created : i \in {j \in DOMAIN es : es[j].created # {} /\ Place(es[j]) = m}}}]],
                 Hook(<<"octal">>), phase' = phase
          PROVE  QuietInv'
      <4> DEFINE X == [m \in Modules |-> UNION {BlockOf(p) : p \in UNION {es[i].created :
                         i \in {j \in DOMAIN es : es[j].created # {} /\ Place(es[j]) = m}}}]
      <4>1. "octal" \in Serial /\ modules' = [m \in Modules |-> [modules[m] EXCEPT !.on = @ \ X[m]]]
        BY <3>2 DEF Serial
      <4>2. \A m \in Modules : \A i \in DOMAIN es :
              Place(es[i]) = m /\ es[i].created # {} /\ es[i].created \subseteq Ports => es[i].created \subseteq X[m]
        <5> SUFFICES ASSUME NEW i \in DOMAIN es, Place(es[i]) \in Modules, es[i].created \subseteq Ports, NEW p \in es[i].created
                     PROVE  p \in X[Place(es[i])]
          OBVIOUS
        <5>1. p \in BlockOf(p)
          BY DEF BlockOf
        <5>2. p \in UNION {es[k].created : k \in {j \in DOMAIN es : es[j].created # {} /\ Place(es[j]) = Place(es[i])}}
          OBVIOUS
        <5> QED BY <5>1, <5>2
      <4> HIDE DEF X
      <4>3. PortsOff("octal")'
        BY <1>1, <2>1, <3>2, <4>1, <4>2, PortsTurnedOff
      <4> QED BY <2>9, <3>2, <4>1, <4>3
    <3> QED BY <2>10, <3>1, <3>2 DEF tyGSOctalRebootHook, Quiet
  <2>11. CASE IP520RebootHook
    <3>1. CASE HookCrash("ip520")
      <4>1. phase' = "crashed"
        BY <3>1 DEF HookCrash
      <4> QED BY <1>1, <4>1 DEF QuietInv, HooksCover
    <3>2. ASSUME NEW es \in Visits("ip520"), modules' = [m \in Modules |-> [modules[m] EXCEPT !.on = @ \ UNION {{p} :
                   p \in UNION {es[i].created : i \in {j \in DOMAIN es : es[j].created # {} /\ Place(es[j]) = m}}}]],
                 Hook(<<"ip520">>), phase' = phase
          PROVE  QuietInv'
      <4> DEFINE X == [m \in Modules |-> UNION {{p} : p \in UNION {es[i].created :
                         i \in {j \in DOMAIN es : es[j].created # {} /\ Place(es[j]) = m}}}]
      <4>1. "ip520" \in Serial /\ modules' = [m \in Modules |-> [modules[m] EXCEPT !.on = @ \ X[m]]]
        BY <3>2 DEF Serial
      <4>2. \A m \in Modules : \A i \in DOMAIN es :
              Place(es[i]) = m /\ es[i].created # {} /\ es[i].created \subseteq Ports => es[i].created \subseteq X[m]
        <5> SUFFICES ASSUME NEW i \in DOMAIN es, Place(es[i]) \in Modules, es[i].created \subseteq Ports, NEW p \in es[i].created
                     PROVE  p \in X[Place(es[i])]
          OBVIOUS
        <5>1. p \in {p}
          BY DEF BlockOf
        <5>2. p \in UNION {es[k].created : k \in {j \in DOMAIN es : es[j].created # {} /\ Place(es[j]) = Place(es[i])}}
          OBVIOUS
        <5> QED BY <5>1, <5>2
      <4> HIDE DEF X
      <4>3. PortsOff("ip520")'
        BY <1>1, <2>1, <3>2, <4>1, <4>2, PortsTurnedOff
      <4> QED BY <2>9, <3>2, <4>1, <4>3
    <3> QED BY <2>11, <3>1, <3>2 DEF IP520RebootHook, Quiet
  <2> QED BY <2>1, <2>6, <2>7, <2>8, <2>10, <2>11
<1> QED BY <1>2, <1>3, <1>4

StartupInv == BusInv /\ DeviceInv /\ QuietInv

LEMMA StartupInvariant == Spec => []StartupInv
<1>1. Init => StartupInv
  BY BusInit, DeviceInit, QuietInit DEF StartupInv
<1>2. StartupInv /\ [Next]_vars => StartupInv'
  <2> SUFFICES ASSUME StartupInv, [Next]_vars PROVE StartupInv'
    OBVIOUS
  <2>1. CASE Next
    BY <2>1, BusStep, DeviceStep, QuietStep DEF StartupInv
  <2>2. CASE UNCHANGED vars
    <3>1. UNCHANGED <<world, carriers, latest, regions, boards, modules, cpuLevels, ipic, hooks, can, started, tty, pc, phase>>
      BY <2>2 DEF vars, busVars, startVars
    <3>2. BusInv'
      BY <3>1 DEF StartupInv, BusInv, RegistryOK, BoardsOK, RangesOwned, number, Works, Owned1, Owned2, CarrierRows
    <3>3. DeviceInv'
      <4>1. number \in Nat
        BY DEF StartupInv, BusInv, RegistryOK, number
      <4>2. Grown /\ CanChange /\ PcChange /\ (started => started') /\ \A d \in Serial : TableChange(d)
        BY <3>1, <4>1 DEF Grown, number, CanChange, PcChange, TableChange
      <4>3. DOMAIN tty' = Serial
        BY <3>1 DEF StartupInv, DeviceInv
      <4>4. CanOK' /\ PcOK' /\ \A d \in Serial : TableOK(d)'
        BY <4>2, <4>3, CanStep, PcStep, TableStep DEF StartupInv
      <4> QED BY <4>3, <4>4 DEF DeviceInv
    <3>4. QuietInv'
      BY <3>1 DEF StartupInv, QuietInv, ModulesOK, HooksHeld, HooksCover, DevicesOff, PortsOff, HasAtc40, Works, number, Place, Board, Info, Modules
    <3> QED BY <3>2, <3>3, <3>4 DEF StartupInv
  <2> QED BY <2>1, <2>2
<1> QED BY <1>1, <1>2, PTL DEF Spec

\* The machine is quiet when it is down: no port that was created, no TIP810 once
\* t810Initialise has run and no board can interrupt once the exit and reboot hooks
\* have run, whatever the order they ran in, whichever call of the startup script
\* the reboot came in, and on whichever machine; a hook that looks beyond its
\* table may crash instead (drvTip810.c t810Shutdown, tyGSOctal.c and ip520.c
\* reboot hooks, the hooks of the carrier drivers).
THEOREM DownIsQuiet == Spec => []RebootQuiet
<1>1. StartupInv => RebootQuiet
  <2> SUFFICES ASSUME StartupInv, phase = "down" PROVE RebootQuiet
    BY DEF RebootQuiet
  <2>1. hooks = {} /\ (started => DevicesOff) /\ (\A d \in Serial : PortsOff(d)) /\ (\A b \in DOMAIN boards : ~boards[b].gie)
    BY DEF StartupInv, QuietInv, HooksCover, HooksHeld
  <2>2. DOMAIN can = 1 .. Len(can)
    BY DEF StartupInv, DeviceInv, CanOK
  <2> QED BY <2>1, <2>2 DEF RebootQuiet, DevicesOff, PortsOff
<1> QED BY <1>1, StartupInvariant, PTL

-----------------------------------------------------------------------------
(* The ID PROMs.                                                           *)

LEMMA AcceptedIsGood ==
  ASSUME FlawsFound, RegistryOK, NEW d \in Drivers, NEW card, NEW slot, Accepts(d, card, slot)
  PROVE  world.plugged[<<Board(card), slot>>].good
<1>1. world \in Worlds /\ <<Board(card), slot>> \in DOMAIN world.plugged
  BY PlaceOf DEF RegistryOK, Modules
<1>2. ipcCheckId(world.plugged[<<Board(card), slot>>].prom)
      /\ \E x \in Types[d] : PromValid(world.plugged[<<Board(card), slot>>].prom, x[1], x[2]) = "OK"
  BY AcceptsMeans, PlaceOf
<1> QED BY <1>1, <1>2 DEF FlawsFound

\* If the checksums find the flaws that the PROMs of the machines have, every
\* module that a driver has taken up is genuine, however the calls of the startup
\* script are ordered, repeated and fail: nothing enters the list of TIP810 devices
\* or becomes a ready entry of a module table but by ipmValidate, and the place it
\* was found at stays the same while carriers are added (drvTip810.c t810Create,
\* tyGSOctal.c tyGSOctalModuleInit, ip520.c IP520ModuleInit, drvIpac.c ipmValidate).
THEOREM OnlyGenuineModules == FlawsFound => (Spec => []PromTrusted)
<1>1. FlawsFound /\ StartupInv => PromTrusted
  <2> SUFFICES ASSUME FlawsFound, StartupInv PROVE PromTrusted
    OBVIOUS
  <2>1. DOMAIN can = 1 .. Len(can) /\ RegistryOK
    BY DEF StartupInv, BusInv, DeviceInv, CanOK
  <2>2. \A i \in DOMAIN can : world.plugged[Place(can[i])].good
    <3> SUFFICES ASSUME NEW i \in 1 .. Len(can) PROVE world.plugged[Place(can[i])].good
      BY <2>1
    <3>1. Accepts("can", can[i].card, can[i].slot)
      BY DEF StartupInv, DeviceInv, CanOK, OwnDevices
    <3> QED BY <2>1, <3>1, AcceptedIsGood DEF Place, Drivers
  <2>3. ASSUME NEW d \in Serial, NEW i \in DOMAIN tty[d].table, tty[d].table[i].ready
        PROVE  world.plugged[Place(tty[d].table[i])].good
    <3> DEFINE e == tty[d].table[i]
    <3>1. tty[d].table \in Seq(TableRows) /\ \A j \in 1 .. Len(tty[d].table) : tty[d].table[j] \in Own(d)
      BY DEF StartupInv, DeviceInv, TableOK, TableShape
    <3>2. i \in 1 .. Len(tty[d].table)
      <4> HIDE DEF TableRows
      <4> QED BY <2>3, <3>1
    <3>3. e \in Own(d) /\ e.ready
      BY <2>3, <3>1, <3>2
    <3>4. Accepts(d, e.card, e.slot) /\ d \in Drivers
      BY <3>3 DEF Own, Drivers, Serial
    <3> QED BY <2>1, <3>4, AcceptedIsGood DEF Place
  <2> QED BY <2>2, <2>3 DEF PromTrusted
<1>2. SUFFICES ASSUME FlawsFound PROVE Spec => []PromTrusted
  OBVIOUS
<1>3. StartupInv => PromTrusted
  BY <1>1, <1>2
<1> QED BY <1>3, StartupInvariant, PTL

-----------------------------------------------------------------------------
(* The tables are well formed.                                             *)

\* Carriers that work are on boards of their own: those on the VMEbus have claimed
\* the registers they are named by, and there is one MVME162.
LEMMA BoardsDistinct ==
  ASSUME BusInv, AddedOnce, NEW k, NEW l, Works(k), Works(l), k # l
  PROVE  IoBase(carriers[k].p) # IoBase(carriers[l].p)
<1> DEFINE p == carriers[k].p
           q == carriers[l].p
<1>1. /\ p.kind = carriers[k].driver /\ p.kind \in Kinds /\ Parameters(p)
      /\ q.kind = carriers[l].driver /\ q.kind \in Kinds /\ Parameters(q)
  BY WorkingParameters DEF BusInv
<1>2. Sound(p) /\ Sound(q) /\ Owned2(k, l) /\ number \in Nat
  BY DEF BusInv, RangesOwned, Owned1, Works, RegistryOK, number
<1>3. (p.kind \in VmeKinds => ClaimsBase(p)) /\ (q.kind \in VmeKinds => ClaimsBase(q))
  BY <1>1, <1>2, Shapes
<1>4. \A c : /\ c.kind = "MVME162" => IoBase(c).am = "ipic"
             /\ c.kind = "ATC40" => IoBase(c).am = "ISA"
             /\ ClaimsBase(c) => IoBase(c).am = "A16"
  <2>1. \A c : ClaimsBase(c) => IoBase(c).am = "A16"
    BY DEF At, ClaimsBase
  <2> QED BY <2>1 DEF IoBase, At
<1>5. p.kind \in VmeKinds \/ p.kind = "MVME162" \/ p.kind = "ATC40"
  BY <1>1 DEF VmeKinds
<1>6. q.kind \in VmeKinds \/ q.kind = "MVME162" \/ q.kind = "ATC40"
  BY <1>1 DEF VmeKinds
<1>7. CASE p.kind \in VmeKinds /\ q.kind \in VmeKinds
  <2>1. PICK n \in {512, 1024, 2048} : [am |-> "A16", at |-> IoBase(p).at, size |-> n] \in ClaimsOf(p)
    BY <1>3, <1>7 DEF ClaimsBase
  <2>2. PICK m \in {512, 1024, 2048} : [am |-> "A16", at |-> IoBase(q).at, size |-> m] \in ClaimsOf(q)
    BY <1>3, <1>7 DEF ClaimsBase
  <2>3. ~Overlap([am |-> "A16", at |-> IoBase(p).at, size |-> n], [am |-> "A16", at |-> IoBase(q).at, size |-> m])
    BY <1>2, <2>1, <2>2 DEF Owned2
  <2>4. IoBase(p).at \in Int /\ IoBase(q).at \in Int
    BY <1>3, <1>7 DEF ClaimsBase
  <2>5. IoBase(p).at # IoBase(q).at
    BY <2>3, <2>4 DEF Overlap
  <2> QED BY <2>5
<1>8. CASE p.kind = "ATC40" /\ q.kind = "ATC40"
  <2>1. k - 1 \in 0 .. number - 1 /\ l - 1 \in 0 .. number - 1 /\ k - 1 # l - 1
        /\ (k - 1) + 1 = k /\ (l - 1) + 1 = l
    BY <1>2 DEF Works
  <2>2. Info(k - 1) = carriers[k] /\ Info(l - 1) = carriers[l]
    BY <2>1 DEF Info
  <2>3. Board(k - 1) # Board(l - 1)
    BY <1>1, <1>8, <2>1, <2>2 DEF AddedOnce
  <2> QED BY <2>2, <2>3 DEF Board
<1>9. CASE p.kind = "MVME162" /\ q.kind = "MVME162"
  BY <1>2, <1>9 DEF Owned2
<1>10. CASE (p.kind \in VmeKinds) # (q.kind \in VmeKinds)
  BY <1>3, <1>4, <1>5, <1>6, <1>10
<1>11. CASE p.kind \notin VmeKinds /\ q.kind \notin VmeKinds /\ p.kind # q.kind
  BY <1>4, <1>5, <1>6, <1>11
<1> QED BY <1>5, <1>6, <1>7, <1>8, <1>9, <1>10, <1>11

\* Two places with legal slots are the same only for the same carrier and slot.
LEMMA PlacesDistinct ==
  ASSUME BusInv, AddedOnce, NEW c1, NEW s1, NEW c2, NEW s2, LegalSlot(c1, s1), LegalSlot(c2, s2),
         <<Board(c1), s1>> = <<Board(c2), s2>>
  PROVE  c1 = c2 /\ s1 = s2
<1>1. /\ Works(c1 + 1) /\ Info(c1) = carriers[c1 + 1] /\ Works(c2 + 1) /\ Info(c2) = carriers[c2 + 1]
  BY LegalSlotWorks DEF BusInv
<1>2. c1 \in Int /\ c2 \in Int /\ s1 = s2 /\ Board(c1) = Board(c2)
  BY DEF LegalSlot, LegalCard, BusInv, RegistryOK, number
<1>3. c1 + 1 = c2 + 1
  BY <1>1, <1>2, BoardsDistinct DEF Board
<1> QED BY <1>2, <1>3

VectorsOK == DOMAIN vme \subseteq Vectors /\ DOMAIN atc \subseteq Vectors /\ attached \in BOOLEAN
CountsOK == number <= IPAC_MAX_CARRIERS /\ latest \in {number - 1, USHRT_MAX} /\ calls \in 0 .. CallLimit

\* Connecting a vector leaves the tables within those the bus has.
LEMMA ConnectBounds ==
  ASSUME VectorsOK, NEW card, NEW slot, NEW vec, NEW isr, Connected(ipmIntConnect(card, slot, vec, isr))
  PROVE  VectorsOK'
<1> DEFINE r == ipmIntConnect(card, slot, vec, isr)
           Fine(c) == DOMAIN c.vme \subseteq Vectors /\ DOMAIN c.atc \subseteq Vectors /\ c.attached \in BOOLEAN
<1>1. \A s, v, a, t : /\ Connection(s, v, a, t).vme = v /\ Connection(s, v, a, t).atc = a
                      /\ Connection(s, v, a, t).attached = t
  BY DEF Connection
<1>2. \A s : Fine(Connection(s, vme, atc, attached))
  BY <1>1 DEF VectorsOK
<1>3. ASSUME vec \in Vectors PROVE Fine(intVecConnectLocked(card, slot, vec, isr))
  <2>1. DOMAIN Set(atc, vec, Entry(isr, card, slot)) \subseteq Vectors /\ DOMAIN Unset(atc, vec) \subseteq Vectors
    BY <1>3 DEF Set, Unset, VectorsOK
  <2>2. attached \in BOOLEAN /\ (attached \/ ~world.attachFails) \in BOOLEAN
    BY DEF VectorsOK
  <2>3. Fine(Connection("OK", vme, Unset(atc, vec), attached))
    BY <1>1, <2>1, <2>2 DEF VectorsOK
  <2>4. Fine(Connection("OK", vme, Set(atc, vec, Entry(isr, card, slot)), attached \/ ~world.attachFails))
    <3> DEFINE x == attached \/ ~world.attachFails
    <3> HIDE DEF x
    <3>1. x \in BOOLEAN
      BY <2>2 DEF x
    <3>2. Fine(Connection("OK", vme, Set(atc, vec, Entry(isr, card, slot)), x))
      BY <1>1, <2>1, <3>1 DEF VectorsOK
    <3> QED BY <3>2 DEF x
  <2> HIDE DEF Fine
  <2> QED BY <1>2, <2>3, <2>4 DEF intVecConnectLocked
<1>4. ASSUME vec \in Vectors PROVE Fine(Connection("OK", Set(vme, vec, isr), atc, attached))
  <2>1. DOMAIN Set(vme, vec, isr) \subseteq Vectors
    BY <1>4 DEF Set, VectorsOK
  <2> QED BY <1>1, <2>1 DEF VectorsOK
<1> HIDE DEF Fine
<1>5. Fine(r)
  BY <1>2, <1>3, <1>4 DEF ipmIntConnect
<1> HIDE DEF r
<1>6. vme' = r.vme /\ atc' = r.atc /\ attached' = r.attached
  BY DEF Connected, r
<1> USE DEF Fine
<1> QED BY <1>5, <1>6 DEF VectorsOK

LEMMA VectorsStep ==
  ASSUME VectorsOK, ModulesOK, Next
  PROVE  VectorsOK'
<1>1. ASSUME UNCHANGED <<vme, atc, attached>> PROVE VectorsOK'
  BY <1>1 DEF VectorsOK
<1>2. ASSUME NEW c \in world.script, Call(c) PROVE VectorsOK'
  <2>1. CASE IntConnect(c)
    BY <2>1, ConnectBounds DEF IntConnect
  <2>2. CASE tyGSOctalModuleInit(c)
    <3>1. UNCHANGED <<vme, atc, attached>>
          \/ Connected(ipmIntConnect(c.card, c.slot, c.vec, Routine("octal", tty["octal"].last + 1)))
      BY <2>2 DEF tyGSOctalModuleInit
    <3> QED BY <1>1, <3>1, ConnectBounds
  <2>3. CASE IP520ModuleInit(c)
    <3>1. UNCHANGED <<vme, atc, attached>>
          \/ Connected(ipmIntConnect(c.card, c.slot, c.vec, Routine("ip520", tty["ip520"].last + 1)))
      BY <2>3 DEF IP520ModuleInit
    <3> QED BY <1>1, <3>1, ConnectBounds
  <2>4. CASE AddCarrier(c) \/ IrqCommand(c) \/ t810Create(c) \/ t810Initialise(c) \/ tyGSOctalDrv(c) \/ IP520Drv(c)
    BY <1>1, <2>4 DEF AddCarrier, IrqCommand, t810Create, t810Initialise, tyGSOctalDrv, IP520Drv
  <2>5. CASE tyGSOctalDevCreate(c) \/ tyGSOctalDevCreateAll(c) \/ IP520DevCreate(c) \/ IP520DevCreateAll(c)
    BY <1>1, <2>5 DEF tyGSOctalDevCreate, tyGSOctalDevCreateAll, IP520DevCreate, IP520DevCreateAll, FindModule
  <2> QED BY <1>2, <2>1, <2>2, <2>3, <2>4, <2>5 DEF Call
<1>3. CASE InitDevice
  <2>1. Connected(ipmIntConnect(can[pc.mod].card, can[pc.mod].slot, can[pc.mod].vec, Routine("can", pc.mod)))
    BY <1>3 DEF InitDevice
  <2> QED BY <2>1, ConnectBounds
<1>4. ASSUME NEW b \in DOMAIN world.boards, atc40ISR(b) PROVE VectorsOK'
  <2>1. PICK lines \in SUBSET Active(b) : atc40UnexpectedVecISR(b, lines) /\ UNCHANGED <<vme, attached>>
    BY <1>4 DEF atc40ISR
  <2>2. \A l \in lines : modules[<<b, l[1]>>].vec \in Vectors
    BY <2>1 DEF Active, Ready, ModulesOK
  <2>3. DOMAIN atc' \subseteq Vectors
    BY <2>1, <2>2 DEF atc40UnexpectedVecISR, VectorsOK
  <2> QED BY <2>1, <2>3 DEF VectorsOK
<1>5. CASE InitialiseDone \/ SkipPort \/ tyGSOctalInitChannel \/ IP520InitChannel \/ MarkCreated \/ Reboot \/ Hooks \/ Down
  <2>1. UNCHANGED <<vme, atc, attached>>
    BY <1>5 DEF InitialiseDone, SkipPort, tyGSOctalInitChannel, IP520InitChannel, InitChannel, MarkCreated, Reboot, Down,
       Hooks, BoardHook, tyGSOctalRebootHook, IP520RebootHook, Quiet, HookCrash, t810Shutdown
  <2> QED BY <1>1, <2>1
<1> QED BY <1>2, <1>3, <1>4, <1>5 DEF Next

LEMMA CountsStep ==
  ASSUME BusInv, CountsOK, Next
  PROVE  CountsOK'
<1>1. number \in Nat /\ IPAC_MAX_CARRIERS \in Nat /\ CallLimit \in Nat
  BY CarrierAssumption, CallAssumption DEF BusInv, RegistryOK, number
<1>2. ASSUME NEW c \in world.script, AddCarrier(c)
      PROVE  number' <= IPAC_MAX_CARRIERS /\ latest' \in {number' - 1, USHRT_MAX}
  <2>1. CASE latest' = USHRT_MAX /\ carriers' = carriers
    BY <2>1 DEF CountsOK, number
  <2>2. ASSUME NEW d, NEW p, number < IPAC_MAX_CARRIERS, Number(d, p)
        PROVE  number' <= IPAC_MAX_CARRIERS /\ latest' \in {number' - 1, USHRT_MAX}
    <3>1. latest' = number /\ carriers' = Append(carriers, [driver |-> d, p |-> p])
      BY <2>2 DEF Number
    <3>2. carriers \in Seq(CarrierRows)
      BY DEF BusInv, RegistryOK
    <3>3. number' = number + 1
      <4> HIDE DEF CarrierRows
      <4> QED BY <3>1, <3>2 DEF number
    <3> QED BY <1>1, <2>2, <3>1, <3>3
  <2>3. (latest' = USHRT_MAX /\ carriers' = carriers) \/ (number < IPAC_MAX_CARRIERS /\ \E d : Number(d, c.p))
    BY <1>2 DEF AddCarrier, ipacAddCarrier, AddDriver
  <2> QED BY <2>1, <2>2, <2>3
<1>3. ASSUME UNCHANGED <<carriers, latest>> PROVE number' <= IPAC_MAX_CARRIERS /\ latest' \in {number' - 1, USHRT_MAX}
  BY <1>3 DEF CountsOK, number
<1>4. calls' \in 0 .. CallLimit
  <2>1. ASSUME NEW c \in world.script, Call(c) PROVE calls < CallLimit /\ calls' = calls + 1
    <3>1. Shell
      BY <2>1 DEF Call, AddCarrier, IrqCommand, IntConnect, t810Create, t810Initialise, tyGSOctalDrv, tyGSOctalModuleInit,
         tyGSOctalDevCreate, tyGSOctalDevCreateAll, IP520Drv, IP520ModuleInit, IP520DevCreate, IP520DevCreateAll, FindModule
    <3> QED BY <3>1 DEF Shell
  <2>2. InitDevice \/ InitialiseDone \/ SkipPort \/ tyGSOctalInitChannel \/ IP520InitChannel \/ MarkCreated => UNCHANGED calls
    BY DEF InitDevice, InitialiseDone, SkipPort, tyGSOctalInitChannel, IP520InitChannel, InitChannel, MarkCreated
  <2>3. (\E b \in DOMAIN world.boards : atc40ISR(b)) \/ Reboot \/ Hooks \/ Down => UNCHANGED calls
    BY DEF atc40ISR, Reboot, Hooks, Down, BoardHook, tyGSOctalRebootHook, IP520RebootHook, Quiet, HookCrash, t810Shutdown
  <2>4. UNCHANGED calls \/ (calls < CallLimit /\ calls' = calls + 1)
    BY <2>1, <2>2, <2>3 DEF Next
  <2> QED BY <1>1, <2>4 DEF CountsOK
<1>5. (\E c \in world.script : AddCarrier(c)) \/ UNCHANGED <<carriers, latest>>
  <2>1. ASSUME NEW c \in world.script, Call(c), ~AddCarrier(c) PROVE UNCHANGED <<carriers, latest>>
    <3>1. IrqCommand(c) \/ IntConnect(c) \/ t810Create(c) \/ t810Initialise(c) \/ tyGSOctalDrv(c) \/ tyGSOctalModuleInit(c)
          \/ IP520Drv(c) \/ IP520ModuleInit(c) => UNCHANGED <<carriers, latest>>
      BY DEF IrqCommand, IntConnect, t810Create, t810Initialise, tyGSOctalDrv, tyGSOctalModuleInit, IP520Drv, IP520ModuleInit, busVars
    <3>2. tyGSOctalDevCreate(c) \/ tyGSOctalDevCreateAll(c) \/ IP520DevCreate(c) \/ IP520DevCreateAll(c)
          => UNCHANGED <<carriers, latest>>
      BY DEF tyGSOctalDevCreate, tyGSOctalDevCreateAll, IP520DevCreate, IP520DevCreateAll, FindModule, busVars
    <3> QED BY <2>1, <3>1, <3>2 DEF Call
  <2>2. InitDevice \/ InitialiseDone \/ SkipPort \/ tyGSOctalInitChannel \/ IP520InitChannel \/ MarkCreated
        => UNCHANGED <<carriers, latest>>
    BY DEF InitDevice, InitialiseDone, SkipPort, tyGSOctalInitChannel, IP520InitChannel, InitChannel, MarkCreated, busVars
  <2>3. (\E b \in DOMAIN world.boards : atc40ISR(b)) \/ Reboot \/ Hooks \/ Down => UNCHANGED <<carriers, latest>>
    BY DEF atc40ISR, Reboot, Hooks, Down, BoardHook, tyGSOctalRebootHook, IP520RebootHook, Quiet, HookCrash, t810Shutdown, busVars
  <2> QED BY <2>1, <2>2, <2>3 DEF Next
<1>6. number' <= IPAC_MAX_CARRIERS /\ latest' \in {number' - 1, USHRT_MAX}
  BY <1>2, <1>3, <1>5
<1> QED BY <1>4, <1>6 DEF CountsOK

TypeInv == StartupInv /\ VectorsOK /\ CountsOK

LEMMA TypeInvariant == Spec => []TypeInv
<1>1. Init => VectorsOK /\ CountsOK
  <2> SUFFICES ASSUME Init PROVE VectorsOK /\ CountsOK
    OBVIOUS
  <2>1. vme = <<>> /\ atc = <<>> /\ attached = FALSE /\ calls = 0 /\ number = 0 /\ latest = USHRT_MAX
    BY DEF Init, StartupInit, CarriersInit, number
  <2>2. DOMAIN vme = {} /\ DOMAIN atc = {}
    BY <2>1
  <2>3. VectorsOK
    BY <2>1, <2>2 DEF VectorsOK
  <2>4. CountsOK
    BY <2>1, CarrierAssumption, CallAssumption DEF CountsOK
  <2> QED BY <2>3, <2>4
<1>2. StartupInv /\ VectorsOK /\ CountsOK /\ [Next]_vars => (VectorsOK /\ CountsOK)'
  <2>1. StartupInv => BusInv /\ ModulesOK
    BY DEF StartupInv, QuietInv
  <2>2. UNCHANGED vars /\ VectorsOK /\ CountsOK => (VectorsOK /\ CountsOK)'
    BY DEF vars, busVars, startVars, VectorsOK, CountsOK, number
  <2> QED BY <2>1, <2>2, VectorsStep, CountsStep
<1> QED BY <1>1, <1>2, StartupInvariant, PTL DEF Spec, TypeInv

\* The tables stay well formed: no more carriers than there is room for, vectors
\* that the bus has, and no two TIP810 devices of one name or, unless an ATC40 is
\* added twice, at one place: carriers that work have claimed their registers, so
\* that no two numbers stand for one board (drvIpac.c ipacAddCarrier, drvTip810.c
\* t810Create, drvAtc40.c).
THEOREM WellFormed == Spec => []TypeOK
<1>1. TypeInv => TypeOK
  <2> SUFFICES ASSUME TypeInv PROVE TypeOK
    OBVIOUS
  <2> USE DEF TypeInv, StartupInv, DeviceInv
  <2>1. \A i \in DOMAIN carriers : carriers[i].driver \in Kinds \cup {"null"}
    <3>1. carriers \in Seq(CarrierRows) /\ \A x \in CarrierRows : x.driver \in Kinds \cup {"null"}
      BY DEF BusInv, RegistryOK, CarrierRows
    <3> HIDE DEF CarrierRows
    <3> QED BY <3>1
  <2>2. \A m \in Modules : modules[m].vec \in Vectors /\ modules[m].on \subseteq Ports
    BY DEF QuietInv, ModulesOK
  <2>3. ASSUME NEW i \in DOMAIN can, NEW j \in DOMAIN can, i # j
        PROVE  can[i].name # can[j].name /\ (AddedOnce => Place(can[i]) # Place(can[j]))
    <3>1. i \in 1 .. Len(can) /\ j \in 1 .. Len(can)
      BY <2>3 DEF CanOK
    <3>2. /\ can[i].name # can[j].name /\ (can[i].card # can[j].card \/ can[i].slot # can[j].slot)
          /\ can[i] \in OwnDevices /\ can[j] \in OwnDevices
      BY <2>3, <3>1 DEF CanOK
    <3>3. LegalSlot(can[i].card, can[i].slot) /\ LegalSlot(can[j].card, can[j].slot)
      BY <3>2, PlaceOf DEF OwnDevices, Drivers
    <3> QED BY <3>2, <3>3, PlacesDistinct DEF Place
  <2>4. \A d \in Serial : tty[d].last \in Nat
    BY DEF TableOK, TableShape
  <2>5. phase \in {"up", "rebooting", "down", "crashed"}
    BY DEF QuietInv, HooksCover
  <2> QED BY <2>1, <2>2, <2>3, <2>4, <2>5 DEF TypeOK, VectorsOK, CountsOK
<1> QED BY <1>1, TypeInvariant, PTL

-----------------------------------------------------------------------------
(* The addresses handed out.                                               *)

Inside(r, s) == r.am = s.am /\ s.at <= r.at /\ r.at + r.size <= s.at + s.size

LEMMA InsideApart ==
  ASSUME NEW r, NEW s, NEW x, NEW y, Inside(x, r), Inside(y, s), ~Overlap(r, s),
         {r.at, r.size, s.at, s.size, x.at, x.size, y.at, y.size} \subseteq Int
  PROVE  ~Overlap(x, y)
  BY DEF Inside, Overlap

\* The memory of the module in a slot, as ipmBaseAddr has it.
MemoryOf(p, slot) == baseAddr(p, slot, "Mem", ipic.mem)
Window(p, slot) == [am |-> MemoryOf(p, slot).am, at |-> MemoryOf(p, slot).at, size |-> Size(p, slot)]
HasWindow(p, slot) == slot \in 0 .. numberSlots(p.kind) - 1 /\ MemoryOf(p, slot) # NULL /\ Size(p, slot) > 0

\* The memories of a carrier's modules are inside what it has claimed, and apart.
MemoryGood(p) ==
  /\ \A slot : HasWindow(p, slot) =>
       /\ Window(p, slot).at \in Int /\ Window(p, slot).size \in Int /\ Window(p, slot).am # "A16"
       /\ \E r \in ClaimsOf(p) : Inside(Window(p, slot), r)
  /\ \A s, t : HasWindow(p, s) /\ HasWindow(p, t) /\ s # t => ~Overlap(Window(p, s), Window(p, t))

\* Memories of one size, one after the other.
LEMMA InARow ==
  ASSUME NEW p, NEW am, am # "A16", NEW o \in Int, NEW z \in Int, NEW r \in ClaimsOf(p), r.am = am,
         numberSlots(p.kind) \in {2, 4}, o + z * numberSlots(p.kind) <= r.at + r.size, r.at \in Int, r.size \in Int,
         \A slot : HasWindow(p, slot) => Window(p, slot) = [am |-> am, at |-> o + z * slot, size |-> z] /\ z > 0 /\ r.at <= o + z * slot
  PROVE  MemoryGood(p)
<1> DEFINE n == numberSlots(p.kind)
<1>1. \A slot : HasWindow(p, slot) => slot \in 0 .. n - 1
  BY DEF HasWindow
<1> HIDE DEF n
<1>2. n \in {2, 4} /\ o + z * n <= r.at + r.size
  BY DEF n
<1>3. \A s \in 0 .. n - 1 : z * s \in Int /\ (z > 0 => z * s + z <= z * n)
  <2> TAKE s \in 0 .. n - 1
  <2>1. CASE s = 0
    BY <1>2, <2>1
  <2>2. CASE s = 1
    BY <1>2, <2>2
  <2>3. CASE s = 2
    BY <1>2, <2>3
  <2>4. CASE s = 3
    BY <1>2, <2>4
  <2> QED BY <1>2, <2>1, <2>2, <2>3, <2>4
<1>4. \A s, t \in 0 .. n - 1 : z > 0 /\ s < t => z * s + z <= z * t
  <2> SUFFICES ASSUME NEW s \in 0 .. n - 1, NEW t \in 0 .. n - 1, z > 0, s < t PROVE z * s + z <= z * t
    OBVIOUS
  <2>1. /\ s = 0 \/ s = 1 \/ s = 2
        /\ t = 1 \/ t = 2 \/ t = 3
    BY <1>2
  <2> QED BY <2>1
<1>5. ASSUME NEW s, HasWindow(p, s)
      PROVE  /\ Window(p, s).at \in Int /\ Window(p, s).size \in Int /\ Window(p, s).am # "A16"
             /\ Inside(Window(p, s), r)
  <2>1. s \in 0 .. n - 1 /\ z > 0 /\ Window(p, s) = [am |-> am, at |-> o + z * s, size |-> z] /\ r.at <= o + z * s
    BY <1>1, <1>5
  <2>2. z * s \in Int /\ z * s + z <= z * n /\ z * n \in Int
    BY <1>2, <1>3, <2>1
  <2> DEFINE a == z * s
             b == z * n
  <2> HIDE DEF a, b
  <2>3. a \in Int /\ a + z <= b /\ b \in Int /\ o + b <= r.at + r.size /\ r.at <= o + a
        /\ Window(p, s) = [am |-> am, at |-> o + a, size |-> z]
    BY <1>2, <2>1, <2>2 DEF a, b
  <2> QED BY <2>1, <2>3 DEF Inside
<1>6. ASSUME NEW s, NEW t, HasWindow(p, s), HasWindow(p, t), s < t
      PROVE  ~Overlap(Window(p, s), Window(p, t)) /\ ~Overlap(Window(p, t), Window(p, s))
  <2>1. /\ s \in 0 .. n - 1 /\ z > 0 /\ Window(p, s) = [am |-> am, at |-> o + z * s, size |-> z]
        /\ t \in 0 .. n - 1 /\ Window(p, t) = [am |-> am, at |-> o + z * t, size |-> z]
    BY <1>1, <1>6
  <2>2. z * s \in Int /\ z * t \in Int /\ z * s + z <= z * t
    BY <1>3, <1>4, <1>6, <2>1
  <2> DEFINE a == z * s
             b == z * t
  <2> HIDE DEF a, b
  <2>3. a \in Int /\ b \in Int /\ a + z <= b
        /\ Window(p, s) = [am |-> am, at |-> o + a, size |-> z] /\ Window(p, t) = [am |-> am, at |-> o + b, size |-> z]
    BY <2>1, <2>2 DEF a, b
  <2> QED BY <2>3 DEF Overlap
<1>7. \A s, t : HasWindow(p, s) /\ HasWindow(p, t) /\ s # t => s < t \/ t < s
  BY <1>1, <1>2
<1> QED BY <1>5, <1>6, <1>7 DEF MemoryGood

LEMMA VipcMemory ==
  ASSUME NEW p, NEW m, NEW k, k = numberSlots(p.kind), k \in {2, 4}, m.am # "A16", m.base \in Int, m.size \in Int,
         ClaimsMemory(p, m, k), \A slot : MemoryOf(p, slot) = SlotMemory(m, k, slot) /\ Size(p, slot) = m.size
  PROVE  MemoryGood(p)
<1>1. CASE m.size = 0
  BY <1>1 DEF MemoryGood, HasWindow
<1>2. CASE m.size # 0
  <2> DEFINE o == Origin(m, k)
             r == [am |-> m.am, at |-> m.base, size |-> o + m.size * k - m.base]
  <2>1. o \in Int
    BY AndNotType DEF Origin
  <2>2. r \in ClaimsOf(p)
    BY <1>2 DEF ClaimsMemory
  <2>3. \A slot : HasWindow(p, slot) => /\ Window(p, slot) = [am |-> m.am, at |-> o + m.size * slot, size |-> m.size]
                                        /\ m.size > 0 /\ m.base <= o + m.size * slot
    <3> SUFFICES ASSUME NEW slot, HasWindow(p, slot)
                 PROVE  /\ Window(p, slot) = [am |-> m.am, at |-> o + m.size * slot, size |-> m.size]
                        /\ m.size > 0 /\ m.base <= o + m.size * slot
      OBVIOUS
    <3>1. MemoryOf(p, slot) = SlotMemory(m, k, slot) /\ Size(p, slot) = m.size /\ slot \in 0 .. 3 /\ m.size > 0
          /\ MemoryOf(p, slot) # NULL
      BY DEF HasWindow
    <3> HIDE DEF o
    <3> DEFINE a == o + m.size * slot
    <3>2. m.size * slot \in Int
      BY <3>1
    <3>3. a \in Int
      BY <2>1, <3>2
    <3>4. SlotMemory(m, k, slot) = IF m.size = 0 \/ a < m.base THEN NULL ELSE At(m.am, a)
      BY DEF SlotMemory, o
    <3> HIDE DEF a
    <3>5. ~(a < m.base) /\ MemoryOf(p, slot) = At(m.am, a)
      BY <1>2, <3>1, <3>4
    <3>6. m.base <= a
      BY <3>3, <3>5
    <3>7. Window(p, slot) = [am |-> m.am, at |-> a, size |-> m.size]
      BY <3>1, <3>5 DEF Window, At
    <3> QED BY <3>1, <3>6, <3>7 DEF a
  <2> HIDE DEF o
  <2>4. r.am = m.am /\ r.at = m.base /\ r.size = o + m.size * k - m.base
    OBVIOUS
  <2>5. m.size * k \in Int
    OBVIOUS
  <2>6. o + m.size * k <= r.at + r.size /\ r.size \in Int
    <3> DEFINE b == m.size * k
    <3> HIDE DEF b
    <3>1. b \in Int /\ r.size = o + b - m.base
      BY <2>4, <2>5 DEF b
    <3>2. o + b <= m.base + r.size /\ r.size \in Int
      <4> HIDE DEF r
      <4> QED BY <2>1, <3>1
    <3> QED BY <2>4, <3>2 DEF b
  <2> HIDE DEF r
  <2> QED BY <2>1, <2>2, <2>3, <2>4, <2>6, InARow
<1> QED BY <1>1, <1>2

\* An Acromag carrier reads the last setting of a slot.
LEMMA XyMemory ==
  ASSUME NEW p, p.kind = "AVME96xx", Parameters(p), Sound(p), SelfApart(p)
  PROVE  MemoryGood(p)
<1> DEFINE n == Len(p.mem)
           Of(slot) == {i \in DOMAIN p.mem : p.mem[i].slot = slot}
<1>1. n \in Nat /\ DOMAIN p.mem = 1 .. n /\ \A i \in 1 .. n : p.mem[i].base \in Int
  <2> DEFINE X == [slot : 0 .. 3, mb : Int, base : Int]
  <2>1. p.mem \in Seq(X) /\ \A x \in X : x.base \in Int
    BY DEF Parameters
  <2> HIDE DEF X
  <2> QED BY <2>1
<1>2. PICK k \in {7, 8} : \A i \in 1 .. n :
        /\ p.mem[i].mb \in {1, 2, 4, 8}
        /\ k + 2 * i - 1 \in 1 .. Len(initialise(p)) /\ initialise(p)[k + 2 * i - 1].do = "claim"
        /\ Region(initialise(p)[k + 2 * i - 1]) = XyRange(p, i)
  BY ShapeAvme
<1>3. ASSUME NEW slot, HasWindow(p, slot)
      PROVE  \E i \in 1 .. n : p.mem[i].slot = slot /\ Window(p, slot) = XyRange(p, i)
  <2>1. MemoryOf(p, slot) = IF Of(slot) = {} THEN NULL ELSE At("A24", p.mem[Max(Of(slot))].base)
    BY DEF MemoryOf, baseAddr, XyMem
  <2>2. Size(p, slot) = 1024 * p.mem[Max(Of(slot))].mb
    BY DEF Size
  <2>3. Of(slot) # {} /\ Of(slot) \subseteq 1 .. n
    BY <1>1, <1>3, <2>1 DEF HasWindow
  <2> DEFINE i == Max(Of(slot))
  <2>4. i \in Of(slot)
    <3> HIDE DEF Of
    <3> QED BY <1>1, <2>3, GreatestOf
  <2>5. i \in 1 .. n /\ p.mem[i].slot = slot
    BY <1>1, <2>4
  <2> HIDE DEF i, Of
  <2>6. MemoryOf(p, slot) = At("A24", p.mem[i].base) /\ Size(p, slot) = 1024 * p.mem[i].mb
    BY <2>1, <2>2, <2>3 DEF i
  <2>7. p.mem[i].mb \in {1, 2, 4, 8}
    BY <1>2, <2>5
  <2>8. Window(p, slot) = XyRange(p, i)
    BY <2>6, <2>7 DEF Window, XyRange, At
  <2> QED BY <2>5, <2>8
<1>4. \A i \in 1 .. n : /\ XyRange(p, i).am = "A24" /\ XyRange(p, i).at \in Int /\ XyRange(p, i).size \in Int
                        /\ XyRange(p, i) \in ClaimsOf(p) /\ Inside(XyRange(p, i), XyRange(p, i))
  <2> SUFFICES ASSUME NEW i \in 1 .. n
               PROVE  /\ XyRange(p, i).am = "A24" /\ XyRange(p, i).at \in Int /\ XyRange(p, i).size \in Int
                      /\ XyRange(p, i) \in ClaimsOf(p) /\ Inside(XyRange(p, i), XyRange(p, i))
    OBVIOUS
  <2>1. p.mem[i].mb \in {1, 2, 4, 8} /\ XyRange(p, i) \in ClaimsOf(p)
    BY <1>2, ClaimedIn
  <2>2. p.mem[i].base \in Int /\ p.mem[i].mb * 1024 \in Int
    BY <1>1, <2>1
  <2>3. XyRange(p, i).am = "A24" /\ XyRange(p, i).at = p.mem[i].base /\ XyRange(p, i).size = p.mem[i].mb * 1024
    BY DEF XyRange
  <2>4. XyRange(p, i).at \in Int /\ XyRange(p, i).size \in Int
    BY <2>2, <2>3
  <2>5. Inside(XyRange(p, i), XyRange(p, i))
    BY <2>4 DEF Inside
  <2> QED BY <2>1, <2>3, <2>4, <2>5
<1>5. \A i, j \in 1 .. n : i # j => ~Overlap(XyRange(p, i), XyRange(p, j))
  <2> SUFFICES ASSUME NEW i \in 1 .. n, NEW j \in 1 .. n, i # j PROVE ~Overlap(XyRange(p, i), XyRange(p, j))
    OBVIOUS
  <2> DEFINE a == k + 2 * i - 1
             b == k + 2 * j - 1
  <2>1. a # b
    OBVIOUS
  <2>2. Claims(p, a) /\ Claims(p, b) /\ Region(initialise(p)[a]) = XyRange(p, i) /\ Region(initialise(p)[b]) = XyRange(p, j)
    BY <1>2 DEF Claims
  <2> HIDE DEF a, b
  <2>3. a \in 1 .. Len(initialise(p)) /\ b \in 1 .. Len(initialise(p))
    BY <2>2 DEF Claims
  <2>4. ~Overlap(Region(initialise(p)[a]), Region(initialise(p)[b]))
    BY <2>1, <2>2, <2>3 DEF SelfApart
  <2> QED BY <2>2, <2>4
<1>6. \A slot : HasWindow(p, slot) => /\ Window(p, slot).at \in Int /\ Window(p, slot).size \in Int /\ Window(p, slot).am # "A16"
                                      /\ \E r \in ClaimsOf(p) : Inside(Window(p, slot), r)
  BY <1>3, <1>4
<1>7. \A s, t : HasWindow(p, s) /\ HasWindow(p, t) /\ s # t => ~Overlap(Window(p, s), Window(p, t))
  BY <1>3, <1>5
<1> QED BY <1>6, <1>7 DEF MemoryGood

LEMMA CarrierMemory ==
  ASSUME NEW p, p.kind \in VmeKinds, Parameters(p), Sound(p), SelfApart(p)
  PROVE  MemoryGood(p)
<1>1. CASE p.kind = "VIPC310"
  <2> DEFINE m == Memory310(p)
  <2>1. m.am # "A16" /\ m.base \in Int /\ m.size \in Int
    BY <1>1, VipcIoType DEF VipcKinds, Memory310, Memory, Size24
  <2>2. \A slot : MemoryOf(p, slot) = SlotMemory(m, 2, slot) /\ Size(p, slot) = m.size
    BY <1>1 DEF MemoryOf, baseAddr, Size
  <2>3. ClaimsMemory(p, m, 2) /\ numberSlots(p.kind) = 2
    BY <1>1, Shape310 DEF numberSlots
  <2> HIDE DEF m
  <2> QED BY <2>1, <2>2, <2>3, VipcMemory
<1>2. CASE p.kind \in {"VIPC610", "VIPC610-01"}
  <2> DEFINE m == Memory610(p)
  <2>1. m.am # "A16" /\ m.base \in Int /\ m.size \in Int
    BY <1>2, VipcIoType DEF VipcKinds, Memory610, Memory, Size24
  <2>2. \A slot : MemoryOf(p, slot) = SlotMemory(m, 4, slot) /\ Size(p, slot) = m.size
    BY <1>2 DEF MemoryOf, baseAddr, Size
  <2>3. ClaimsMemory(p, m, 4) /\ numberSlots(p.kind) = 4
    BY <1>2, Shape610 DEF numberSlots
  <2> HIDE DEF m
  <2> QED BY <2>1, <2>2, <2>3, VipcMemory
<1>3. CASE p.kind \in {"VIPC616", "VIPC616-01"}
  <2> DEFINE m == Memory616(p)
  <2>1. m.am # "A16" /\ m.base \in Int /\ m.size \in Int
    <3>1. p.args \in 0 .. 3 /\ p.mem \in Int /\ p.size \in Int
      BY <1>3, VipcIoType DEF VipcKinds
    <3>2. p.args = 0 \/ p.args = 1 \/ p.args = 2 \/ p.args = 3
      BY <3>1
    <3> QED BY <3>1, <3>2 DEF Memory616, Memory
  <2>2. \A slot : MemoryOf(p, slot) = SlotMemory(m, 4, slot) /\ Size(p, slot) = m.size
    BY <1>3 DEF MemoryOf, baseAddr, Size
  <2>3. ClaimsMemory(p, m, 4) /\ numberSlots(p.kind) = 4
    BY <1>3, Shape616 DEF numberSlots
  <2> HIDE DEF m
  <2> QED BY <2>1, <2>2, <2>3, VipcMemory
<1>4. CASE p.kind = "TVME200"
  <2> DEFINE m == TvmeMemory(p)
             r == [am |-> m.am, at |-> m.base, size |-> m.size * 4]
  <2>1. m.am # "A16" /\ m.base \in Int /\ m.size \in Nat /\ (m.size # 0 => r \in ClaimsOf(p))
    BY <1>4, TvmeTypes, ShapeTvme200
  <2>2. \A slot : /\ MemoryOf(p, slot) = (IF m.size = 0 THEN At("A16", TvmeIo(p)) ELSE At(m.am, m.base + m.size * slot))
                  /\ Size(p, slot) = m.size
    BY <1>4 DEF MemoryOf, baseAddr, Size, TvmeMem
  <2>3. numberSlots(p.kind) = 4
    BY <1>4 DEF numberSlots
  <2>4. r.am = m.am /\ r.at = m.base /\ r.size = m.size * 4
    OBVIOUS
  <2> HIDE DEF m, r
  <2>5. CASE m.size = 0
    BY <2>2, <2>5 DEF MemoryGood, HasWindow
  <2>6. CASE m.size # 0
    <3>1. \A slot : HasWindow(p, slot) => /\ Window(p, slot) = [am |-> m.am, at |-> m.base + m.size * slot, size |-> m.size]
                                          /\ m.size > 0
                                          /\ r.at <= m.base + m.size * slot
      <4> SUFFICES ASSUME NEW slot, HasWindow(p, slot)
                   PROVE  /\ Window(p, slot) = [am |-> m.am, at |-> m.base + m.size * slot, size |-> m.size]
                          /\ m.size > 0 /\ r.at <= m.base + m.size * slot
        OBVIOUS
      <4>1. Window(p, slot) = [am |-> m.am, at |-> m.base + m.size * slot, size |-> m.size]
        BY <2>2, <2>6 DEF Window, At
      <4>2. slot \in 0 .. 3
        BY <2>3 DEF HasWindow
      <4>3. m.size * slot \in Nat
        BY <2>1, <4>2
      <4> QED BY <2>1, <2>4, <2>6, <4>1, <4>3
    <3>2. r.at \in Int /\ r.size \in Int /\ m.base + m.size * 4 <= r.at + r.size /\ m.size \in Int
      BY <2>1, <2>4
    <3>3. numberSlots(p.kind) \in {2, 4} /\ m.base + m.size * numberSlots(p.kind) <= r.at + r.size
      BY <2>3, <3>2
    <3>4. r \in ClaimsOf(p) /\ r.am = m.am
      BY <2>1, <2>4, <2>6
    <3> QED BY <2>1, <3>1, <3>2, <3>3, <3>4, InARow
  <2> QED BY <2>5, <2>6
<1>5. CASE p.kind = "AVME96xx"
  BY <1>5, XyMemory
<1>6. CASE p.kind = "Hy8002"
  <2> DEFINE r == HyMemory(p)
             z == 1024 * p.ipmem
  <2>1. ScanParm(p) /\ HyBase(p) \in Int /\ r \in ClaimsOf(p)
    BY <1>6, ShapeHy8002
  <2>2. p.ipmem \in {1, 2, 4, 8}
    BY <2>1 DEF ScanParm
  <2>3. r.am = "A32" /\ r.at = HyBase(p) /\ r.size = p.ipmem * 4096 /\ r.size \in Int
    BY <2>2 DEF HyMemory
  <2>4. numberSlots(p.kind) = 4
    BY <1>6 DEF numberSlots
  <2>5. z \in Int /\ z > 0 /\ z * 4 = p.ipmem * 4096 /\ \A slot \in 0 .. 3 : p.ipmem * 1024 * slot = z * slot /\ z * slot \in Nat
    BY <2>2
  <2>6. \A slot : MemoryOf(p, slot) = At("A32", HyBase(p) + p.ipmem * 1024 * slot) /\ Size(p, slot) = z
    BY <1>6 DEF MemoryOf, baseAddr, Size
  <2> HIDE DEF z, r
  <2>7. \A slot : HasWindow(p, slot) => /\ Window(p, slot) = [am |-> "A32", at |-> HyBase(p) + z * slot, size |-> z]
                                        /\ z > 0 /\ r.at <= HyBase(p) + z * slot
    <3> SUFFICES ASSUME NEW slot, HasWindow(p, slot)
                 PROVE  /\ Window(p, slot) = [am |-> "A32", at |-> HyBase(p) + z * slot, size |-> z]
                        /\ z > 0 /\ r.at <= HyBase(p) + z * slot
      OBVIOUS
    <3>1. slot \in 0 .. 3
      BY <2>4 DEF HasWindow
    <3>2. Window(p, slot) = [am |-> "A32", at |-> HyBase(p) + z * slot, size |-> z]
      BY <2>5, <2>6, <3>1 DEF Window, At
    <3>3. z * slot \in Nat
      BY <2>5, <3>1
    <3> QED BY <2>1, <2>3, <2>5, <3>2, <3>3
  <2>8. HyBase(p) + z * 4 <= r.at + r.size /\ r.at \in Int
    BY <2>1, <2>3, <2>5
  <2>9. numberSlots(p.kind) \in {2, 4} /\ HyBase(p) + z * numberSlots(p.kind) <= r.at + r.size
    BY <2>4, <2>8
  <2> DEFINE am == "A32"
  <2>10. /\ am # "A16" /\ r.am = am
         /\ \A slot : HasWindow(p, slot) => /\ Window(p, slot) = [am |-> am, at |-> HyBase(p) + z * slot, size |-> z]
                                            /\ z > 0 /\ r.at <= HyBase(p) + z * slot
    BY <2>3, <2>7
  <2> HIDE DEF am
  <2> DEFINE o == HyBase(p)
  <2>11. o \in Int /\ z \in Int /\ r \in ClaimsOf(p) /\ r.at \in Int /\ r.size \in Int
         /\ o + z * numberSlots(p.kind) <= r.at + r.size
         /\ \A slot : HasWindow(p, slot) => /\ Window(p, slot) = [am |-> am, at |-> o + z * slot, size |-> z]
                                            /\ z > 0 /\ r.at <= o + z * slot
    BY <2>1, <2>3, <2>5, <2>8, <2>9, <2>10
  <2> HIDE DEF o
  <2> QED BY <2>9, <2>10, <2>11, InARow
<1> QED BY <1>1, <1>2, <1>3, <1>4, <1>5, <1>6 DEF VmeKinds, Kinds, VipcKinds

\* The ID PROM and the I/O space of the module in a slot.
Registers128(p, slot, space) ==
  [am |-> "A16", at |-> IoBase(p).at + 256 * slot + (IF space = "ID" THEN 128 ELSE 0), size |-> 128]

LEMMA RegistersInside ==
  ASSUME NEW p, p.kind \in VmeKinds, ClaimsBase(p), NEW slot \in 0 .. numberSlots(p.kind) - 1, NEW space \in {"ID", "IO"}
  PROVE  /\ baseAddr(p, slot, space, ipic.mem) = At("A16", Registers128(p, slot, space).at)
         /\ Registers128(p, slot, space).at \in Int
         /\ \E r \in ClaimsOf(p) : Inside(Registers128(p, slot, space), r)
<1> DEFINE io == IoBase(p).at
           at == Registers128(p, slot, space).at
<1>1. IoBase(p) = At("A16", io) /\ io \in Int
  BY DEF ClaimsBase
<1>2. PICK n \in {512, 1024, 2048} : [am |-> "A16", at |-> io, size |-> n] \in ClaimsOf(p) /\ 256 * numberSlots(p.kind) <= n
  BY DEF ClaimsBase
<1>3. numberSlots(p.kind) \in {2, 4}
  BY DEF numberSlots, VmeKinds, Kinds, VipcKinds
<1> HIDE DEF io
<1>4. slot \in 0 .. 3 /\ 256 * slot + 256 <= n
  BY <1>2, <1>3
<1>5. at = io + 256 * slot + (IF space = "ID" THEN 128 ELSE 0)
  BY DEF Registers128, io
<1> HIDE DEF at
<1>6. at \in Int /\ io <= at /\ at + 128 <= io + n
  BY <1>1, <1>4, <1>5
<1>7. baseAddr(p, slot, space, ipic.mem) = At("A16", at)
  <2>1. IoBase(p).am = "A16" /\ IoBase(p).at = io
    BY <1>1 DEF At
  <2>2. CASE space = "IO"
    <3>1. baseAddr(p, slot, space, ipic.mem) = At("A16", io + 256 * slot)
      BY <2>1, <2>2 DEF baseAddr
    <3> QED BY <1>1, <1>4, <1>5, <2>2, <3>1
  <2>3. CASE space = "ID"
    <3>1. baseAddr(p, slot, space, ipic.mem) = At("A16", io + 256 * slot + 128)
      BY <2>1, <2>3 DEF baseAddr
    <3> QED BY <1>1, <1>4, <1>5, <2>3, <3>1
  <2> QED BY <2>2, <2>3
<1>8. Inside(Registers128(p, slot, space), [am |-> "A16", at |-> io, size |-> n])
  BY <1>2, <1>6 DEF Inside, Registers128, at
<1> QED BY <1>2, <1>6, <1>7, <1>8 DEF io, at

WorksOnVme(k) == Works(k) /\ carriers[k].p.kind \in VmeKinds
\* A window of carrier k.
IsWindow(w, k) ==
  LET p == carriers[k].p IN
  /\ w.card \in Int /\ k = w.card + 1 /\ WorksOnVme(k)
  /\ Bytes(w).at \in Int /\ Bytes(w).size \in Int
  /\ \E r \in ClaimsOf(p) : Inside(Bytes(w), r)
  /\ \/ w.space = "Mem" /\ HasWindow(p, w.slot) /\ Bytes(w) = Window(p, w.slot)
     \/ w.space \in {"ID", "IO"} /\ w.slot \in 0 .. 3 /\ Bytes(w) = Registers128(p, w.slot, w.space)

LEMMA VmeCarrier ==
  ASSUME BusInv, NEW k, WorksOnVme(k)
  PROVE  LET p == carriers[k].p IN
         /\ Parameters(p) /\ Sound(p) /\ SelfApart(p) /\ ClaimsOf(p) \subseteq regions
         /\ ClaimsBase(p) /\ MemoryGood(p) /\ \A r \in ClaimsOf(p) : r.at \in Int /\ r.size \in Int
<1> DEFINE p == carriers[k].p
<1>1. p.kind \in Kinds /\ Parameters(p) /\ p.kind \in VmeKinds
  BY WorkingParameters DEF BusInv, WorksOnVme
<1>2. Sound(p) /\ SelfApart(p) /\ ClaimsOf(p) \subseteq regions /\ Ranges(regions)
  BY DEF BusInv, RangesOwned, Owned1, Works, WorksOnVme
<1>3. ClaimsBase(p)
  BY <1>1, <1>2, Shapes
<1>4. MemoryGood(p)
  BY <1>1, <1>2, CarrierMemory
<1>5. \A r \in ClaimsOf(p) : r.at \in Int /\ r.size \in Int
  BY <1>2 DEF Ranges, IsRange
<1> QED BY <1>1, <1>2, <1>3, <1>4, <1>5

LEMMA RealWindow ==
  ASSUME BusInv, NEW w \in Real
  PROVE  IsWindow(w, w.card + 1)
<1>1. PICK card \in Cards, slot \in 0 .. 3, space \in {"ID", "IO", "Mem"} :
        w = [card |-> card, slot |-> slot, space |-> space, at |-> ipmBaseAddr(card, slot, space)]
  <2>1. PICK x \in Cards \X (0 .. 3) \X {"ID", "IO", "Mem"} :
          w = [card |-> x[1], slot |-> x[2], space |-> x[3], at |-> ipmBaseAddr(x[1], x[2], x[3])]
    BY DEF Real, Windows
  <2> QED BY <2>1
<1>2. w.card = card /\ w.slot = slot /\ w.space = space /\ w.at = ipmBaseAddr(card, slot, space)
  BY <1>1
<1>3. ipmBaseAddr(card, slot, space) # NULL /\ Bytes(w).size > 0
  BY <1>2 DEF Real
<1>4. LegalSlot(card, slot)
  BY <1>3 DEF ipmBaseAddr
<1> DEFINE k == card + 1
           p == carriers[k].p
<1>5. Works(k) /\ Info(card) = carriers[k] /\ card \in Int
  <2>1. Works(k) /\ Info(card) = carriers[k]
    BY <1>4, LegalSlotWorks DEF BusInv
  <2>2. card \in 0 .. number - 1
    BY <1>4 DEF LegalSlot, LegalCard
  <2> QED BY <2>1, <2>2
<1>6. p.kind = carriers[k].driver /\ p.kind \in Kinds
  BY <1>5, WorkingParameters DEF BusInv
<1>7. p.kind \in VmeKinds
  BY <1>5, <1>6 DEF Cards, VmeKinds
<1>8. WorksOnVme(k) /\ slot \in 0 .. numberSlots(p.kind) - 1
  BY <1>4, <1>5, <1>6, <1>7 DEF WorksOnVme, LegalSlot
<1>9. ipmBaseAddr(card, slot, space) = baseAddr(p, slot, space, ipic.mem)
  BY <1>4, <1>5 DEF ipmBaseAddr
<1>10. ClaimsBase(p) /\ MemoryGood(p)
  BY <1>8, VmeCarrier
<1> HIDE DEF k, p
<1>11. CASE space = "Mem"
  <2>1. Bytes(w) = Window(p, slot)
    BY <1>2, <1>5, <1>9, <1>11 DEF Bytes, Window, MemoryOf, p, k
  <2>2. HasWindow(p, slot)
    <3>1. MemoryOf(p, slot) # NULL
      BY <1>3, <1>9, <1>11 DEF MemoryOf
    <3>2. Size(p, slot) > 0
      BY <1>3, <2>1 DEF Window
    <3> QED BY <1>8, <3>1, <3>2 DEF HasWindow
  <2>3. Window(p, slot).at \in Int /\ Window(p, slot).size \in Int /\ \E r \in ClaimsOf(p) : Inside(Window(p, slot), r)
    BY <1>10, <2>2 DEF MemoryGood
  <2> QED BY <1>2, <1>5, <1>8, <1>11, <2>1, <2>2, <2>3 DEF IsWindow, k, p
<1>12. CASE space \in {"ID", "IO"}
  <2>1. /\ baseAddr(p, slot, space, ipic.mem) = At("A16", Registers128(p, slot, space).at)
        /\ Registers128(p, slot, space).at \in Int
        /\ \E r \in ClaimsOf(p) : Inside(Registers128(p, slot, space), r)
    BY <1>7, <1>8, <1>10, <1>12, RegistersInside DEF p
  <2>2. Bytes(w) = Registers128(p, slot, space)
    <3>1. w.at.am = "A16" /\ w.at.at = Registers128(p, slot, space).at /\ w.space # "Mem"
      BY <1>2, <1>9, <1>12, <2>1 DEF At
    <3>2. Bytes(w) = [am |-> "A16", at |-> Registers128(p, slot, space).at, size |-> 128]
      BY <3>1 DEF Bytes
    <3> QED BY <3>2 DEF Registers128
  <2>3. Registers128(p, slot, space).size = 128
    BY DEF Registers128
  <2> QED BY <1>2, <1>5, <1>8, <1>12, <2>1, <2>2, <2>3 DEF IsWindow, k, p
<1> QED BY <1>11, <1>12

\* Every address a carrier on the VMEbus hands out lies in a range that it has
\* registered, and no two modules share one: neither the modules of one carrier,
\* whatever their memories, nor those of carriers added side by side, in any order
\* and with any parameters that the drivers take (the initialise and baseAddr
\* routines of the VIPC, TVME200, AVME and Hytec drivers).
THEOREM AddressesApart == Spec => []WindowsDistinct
<1>1. StartupInv => WindowsDistinct
  <2> SUFFICES ASSUME BusInv PROVE WindowsDistinct
    BY DEF StartupInv
  <2>1. ASSUME NEW w \in Real
        PROVE  \E r \in regions : /\ r.am = Bytes(w).am /\ r.at <= Bytes(w).at
                                  /\ Bytes(w).at + Bytes(w).size <= r.at + r.size
    <3>1. IsWindow(w, w.card + 1)
      BY RealWindow
    <3>2. PICK r \in ClaimsOf(carriers[w.card + 1].p) : Inside(Bytes(w), r)
      BY <3>1 DEF IsWindow
    <3>3. r \in regions
      BY <3>1, <3>2, VmeCarrier DEF IsWindow
    <3> QED BY <3>2, <3>3 DEF Inside
  <2>2. ASSUME NEW w \in Real, NEW v \in Real, w # v PROVE ~Overlap(Bytes(w), Bytes(v))
    <3> DEFINE k == w.card + 1
               l == v.card + 1
               p == carriers[k].p
               q == carriers[l].p
    <3>1. IsWindow(w, k) /\ IsWindow(v, l)
      BY RealWindow
    <3>2. WorksOnVme(k) /\ WorksOnVme(l)
      BY <3>1 DEF IsWindow
    <3>3. CASE w.card # v.card
      <4>1. k # l /\ Works(k) /\ Works(l) /\ k \in 1 .. number /\ l \in 1 .. number
        BY <3>1, <3>2, <3>3 DEF IsWindow, WorksOnVme, Works
      <4>2. PICK r \in ClaimsOf(p) : Inside(Bytes(w), r)
        BY <3>1 DEF IsWindow
      <4>3. PICK s \in ClaimsOf(q) : Inside(Bytes(v), s)
        BY <3>1 DEF IsWindow
      <4>4. ~Overlap(r, s)
        BY <4>1, <4>2, <4>3 DEF BusInv, RangesOwned, Owned2
      <4>5. {r.at, r.size, s.at, s.size, Bytes(w).at, Bytes(w).size, Bytes(v).at, Bytes(v).size} \subseteq Int
        BY <3>1, <3>2, <4>2, <4>3, VmeCarrier DEF IsWindow
      <4> QED BY <4>2, <4>3, <4>4, <4>5, InsideApart
    <3>4. CASE w.card = v.card
      <4>1. MemoryGood(p) /\ IoBase(p).at \in Int
        <5>1. MemoryGood(p) /\ ClaimsBase(p)
          BY <3>2, VmeCarrier
        <5> QED BY <5>1 DEF ClaimsBase
      <4>2. w.slot # v.slot \/ w.space # v.space
        <5>1. \A x \in Windows : x = [card |-> x.card, slot |-> x.slot, space |-> x.space, at |-> ipmBaseAddr(x.card, x.slot, x.space)]
          BY DEF Windows
        <5>2. w \in Windows /\ v \in Windows
          BY DEF Real
        <5> QED BY <2>2, <3>4, <5>1, <5>2
      <4>3. CASE w.space = "Mem" /\ v.space = "Mem"
        BY <3>1, <3>4, <4>1, <4>2, <4>3 DEF IsWindow, MemoryGood
      <4>4. ASSUME NEW x, NEW y, IsWindow(x, k), IsWindow(y, k), x.space = "Mem", y.space \in {"ID", "IO"}
            PROVE  Bytes(x).am # Bytes(y).am
        <5>1. Bytes(x) = Window(p, x.slot) /\ HasWindow(p, x.slot)
          BY <4>4 DEF IsWindow
        <5>2. Bytes(y) = Registers128(p, y.slot, y.space)
          BY <4>4 DEF IsWindow
        <5> QED BY <4>1, <5>1, <5>2 DEF MemoryGood, Registers128
      <4>5. CASE (w.space = "Mem") # (v.space = "Mem")
        <5>1. w.space \in {"ID", "IO", "Mem"} /\ v.space \in {"ID", "IO", "Mem"} /\ IsWindow(v, k)
          BY <3>1, <3>4 DEF IsWindow
        <5>2. Bytes(w).am # Bytes(v).am
          BY <3>1, <4>4, <4>5, <5>1
        <5> QED BY <5>2 DEF Overlap
      <4>6. CASE w.space # "Mem" /\ v.space # "Mem"
        <5>1. /\ Bytes(w) = Registers128(p, w.slot, w.space) /\ w.slot \in 0 .. 3 /\ w.space \in {"ID", "IO"}
              /\ Bytes(v) = Registers128(p, v.slot, v.space) /\ v.slot \in 0 .. 3 /\ v.space \in {"ID", "IO"}
          BY <3>1, <3>4, <4>6 DEF IsWindow
        <5> DEFINE io == IoBase(p).at
                   a == IF w.space = "ID" THEN 128 ELSE 0
                   b == IF v.space = "ID" THEN 128 ELSE 0
        <5>2. /\ Bytes(w).at = io + 256 * w.slot + a /\ Bytes(w).size = 128
              /\ Bytes(v).at = io + 256 * v.slot + b /\ Bytes(v).size = 128
          BY <5>1 DEF Registers128
        <5>3. a \in {0, 128} /\ b \in {0, 128} /\ (w.slot # v.slot \/ a # b)
          BY <4>2, <5>1
        <5> HIDE DEF io, a, b
        <5>4. io \in Int
          BY <4>1 DEF io
        <5> QED BY <5>1, <5>2, <5>3, <5>4 DEF Overlap
      <4> QED BY <4>3, <4>5, <4>6
    <3> QED BY <3>3, <3>4
  <2> QED BY <2>1, <2>2 DEF WindowsDistinct
<1> QED BY <1>1, StartupInvariant, PTL

-----------------------------------------------------------------------------
(* Interrupts that get through.                                            *)

\* A board and the processor hand on a line whose level is not 0.
LetsBy(kind, b, cpu, l) ==
  /\ kind \in VipcKinds => FixedLevel(kind, l) \in cpu
  /\ kind = "TVME200" => b.level[l] \in cpu
  /\ kind \in {"MVME162", "AVME96xx", "Hy8002"} => l \in b.on
  /\ kind = "ATC40" => b.gie

\* A line that goes on from b to r as it was.
SameLine(b, r, l) == r.level[l] = b.level[l] /\ (l \in b.on => l \in r.on) /\ (b.gie => r.gie)
SameLevels(p, b, r) == p.kind \in {"AVME96xx", "Hy8002"} => r.level = b.level /\ (b.gie => r.gie)

LEMMA LetsOn ==
  ASSUME NEW kind, NEW b, NEW r, NEW cpu, NEW more, NEW l, LetsBy(kind, b, cpu, l), SameLine(b, r, l), cpu \subseteq more
  PROVE  LetsBy(kind, r, more, l)
  BY DEF LetsBy, SameLine

\* What one command does to the lines of a board.
IrqLines(p, b, l, cmd, r) ==
  /\ IsBoard(r.board) /\ r.reset \subseteq {l[1]}
  /\ \A k \in Lines : k # l => SameLine(b, r.board, k)
  /\ SameLevels(p, b, r.board)
  /\ cmd[1] = "Enable" => LetsBy(p.kind, r.board, r.cpu, l) /\ SameLine(b, r.board, l)
  /\ cmd[1] = "statActive" => r.board = b

LEMMA IrqDoes ==
  ASSUME NEW p, p.kind \in Kinds, NEW b, IsBoard(b), NEW l \in Lines, NEW cmd
  PROVE  IrqLines(p, b, l, cmd, irqCmd(p, b, l, cmd))
<1> DEFINE r == irqCmd(p, b, l, cmd)
<1>0. IsBoard(r.board)
  BY IrqFacts
<1>1. CASE p.kind \in VipcKinds
  <2>1. r = IrqVipc(p.kind, b, l, cmd)
    BY <1>1 DEF irqCmd, Irq610, Irq616, VipcKinds
  <2>2. r.board = b /\ r.reset = {} /\ (cmd[1] = "Enable" => r.cpu = {FixedLevel(p.kind, l)})
    BY <2>1 DEF IrqVipc, Done, NotImplemented
  <2> HIDE DEF r
  <2> QED BY <1>0, <1>1, <2>2 DEF IrqLines, SameLine, SameLevels, LetsBy, VipcKinds, r
<1>2. CASE p.kind = "TVME200"
  <2>1. r = IrqTvme200(b, l, cmd)
    BY <1>2 DEF irqCmd
  <2>2. /\ r.board = b \/ (cmd[1] = "Level" /\ r.board = [b EXCEPT !.level[l] = cmd[2]])
        /\ r.reset \subseteq {l[1]}
        /\ cmd[1] = "Enable" => r.cpu = {b.level[l]}
    BY <2>1 DEF IrqTvme200, Done, NotImplemented
  <2> HIDE DEF r
  <2>3. CASE r.board = b
    BY <1>0, <1>2, <2>2, <2>3 DEF IrqLines, SameLine, SameLevels, LetsBy, VipcKinds, r
  <2>4. CASE cmd[1] = "Level" /\ r.board = [b EXCEPT !.level[l] = cmd[2]]
    <3>1. \A k \in Lines : k # l => SameLine(b, r.board, k)
      BY <2>4 DEF SameLine, IsBoard
    <3> QED BY <1>0, <1>2, <2>2, <2>4, <3>1 DEF IrqLines, SameLevels, r
  <2> QED BY <2>2, <2>3, <2>4
<1>3. ASSUME p.kind \in {"MVME162", "AVME96xx", "Hy8002"}, r.reset = {},
             \/ r.board = b /\ cmd[1] # "Enable"
             \/ cmd[1] = "Level" /\ r.board = [b EXCEPT !.level[l] = cmd[2]] /\ p.kind = "MVME162"
             \/ cmd[1] = "Enable" /\ r.board = [b EXCEPT !.on = @ \cup {l}]
             \/ cmd[1] = "Disable" /\ r.board = [b EXCEPT !.on = @ \ {l}]
             \/ cmd[1] \notin {"Enable", "statActive"} /\ \E e : r.board = [b EXCEPT !.edge = e]
      PROVE  IrqLines(p, b, l, cmd, r)
  <2> HIDE DEF r
  <2>1. CASE r.board = b /\ cmd[1] # "Enable"
    BY <1>0, <1>3, <2>1 DEF IrqLines, SameLine, SameLevels, r
  <2>2. CASE cmd[1] = "Level" /\ r.board = [b EXCEPT !.level[l] = cmd[2]] /\ p.kind = "MVME162"
    <3>1. \A k \in Lines : k # l => SameLine(b, r.board, k)
      BY <2>2 DEF SameLine, IsBoard
    <3> QED BY <1>0, <1>3, <2>2, <3>1 DEF IrqLines, SameLevels, r
  <2>3. CASE cmd[1] = "Enable" /\ r.board = [b EXCEPT !.on = @ \cup {l}]
    <3>1. r.board.level = b.level /\ r.board.gie = b.gie /\ r.board.on = b.on \cup {l}
      BY <2>3 DEF IsBoard
    <3> QED BY <1>0, <1>3, <2>3, <3>1 DEF IrqLines, SameLine, SameLevels, LetsBy, VipcKinds, r
  <2>4. CASE cmd[1] = "Disable" /\ r.board = [b EXCEPT !.on = @ \ {l}]
    <3>1. r.board.level = b.level /\ r.board.gie = b.gie /\ r.board.on = b.on \ {l}
      BY <2>4 DEF IsBoard
    <3> QED BY <1>0, <1>3, <2>4, <3>1 DEF IrqLines, SameLine, SameLevels, r
  <2>5. CASE cmd[1] \notin {"Enable", "statActive"} /\ \E e : r.board = [b EXCEPT !.edge = e]
    <3>1. r.board.level = b.level /\ r.board.gie = b.gie /\ r.board.on = b.on
      BY <2>5 DEF IsBoard
    <3> QED BY <1>0, <1>3, <2>5, <3>1 DEF IrqLines, SameLine, SameLevels, r
  <2> QED BY <1>3, <2>1, <2>2, <2>3, <2>4, <2>5
<1>4. CASE p.kind = "MVME162"
  <2>1. r = IrqMv162(b, l, cmd)
    BY <1>4 DEF irqCmd
  <2>2. r.reset = {}
    BY <2>1 DEF IrqMv162, Done, NotImplemented
  <2>3. \/ r.board = b /\ cmd[1] # "Enable"
        \/ cmd[1] = "Level" /\ r.board = [b EXCEPT !.level[l] = cmd[2]] /\ p.kind = "MVME162"
        \/ cmd[1] = "Enable" /\ r.board = [b EXCEPT !.on = @ \cup {l}]
        \/ cmd[1] = "Disable" /\ r.board = [b EXCEPT !.on = @ \ {l}]
        \/ cmd[1] \notin {"Enable", "statActive"} /\ r.board = [b EXCEPT !.edge = b.edge \cup {l}]
        \/ cmd[1] \notin {"Enable", "statActive"} /\ r.board = [b EXCEPT !.edge = b.edge \ {l}]
    BY <1>4, <2>1 DEF IrqMv162, Done, NotImplemented
  <2> QED BY <1>3, <1>4, <2>2, <2>3
<1>5. CASE p.kind = "AVME96xx"
  <2>1. r = IrqXy9660(b, l, cmd)
    BY <1>5 DEF irqCmd
  <2>2. r.reset = {}
    BY <2>1 DEF IrqXy9660, Done, NotImplemented
  <2>3. \/ r.board = b /\ cmd[1] # "Enable"
        \/ cmd[1] = "Enable" /\ r.board = [b EXCEPT !.on = @ \cup {l}]
        \/ cmd[1] = "Disable" /\ r.board = [b EXCEPT !.on = @ \ {l}]
    BY <2>1 DEF IrqXy9660, Done, NotImplemented
  <2> QED BY <1>3, <1>5, <2>2, <2>3
<1>6. CASE p.kind = "Hy8002"
  <2>1. r = IrqHy8002(b, l, cmd)
    BY <1>6 DEF irqCmd
  <2>2. r.reset = {}
    BY <2>1 DEF IrqHy8002, Done, NotImplemented
  <2>3. \/ r.board = b /\ cmd[1] # "Enable"
        \/ cmd[1] = "Enable" /\ r.board = [b EXCEPT !.on = @ \cup {l}]
        \/ cmd[1] = "Disable" /\ r.board = [b EXCEPT !.on = @ \ {l}]
    BY <2>1 DEF IrqHy8002, Done, NotImplemented
  <2> QED BY <1>3, <1>6, <2>2, <2>3
<1>7. CASE p.kind = "ATC40"
  <2>1. r = IrqAtc40(p, b, cmd)
    BY <1>7 DEF irqCmd
  <2>2. /\ r.reset = {}
        /\ IF cmd[1] = "Enable" THEN r.board = [b EXCEPT !.gie = TRUE] ELSE r.board = b
    BY <2>1 DEF IrqAtc40, Done, NotImplemented
  <2> HIDE DEF r
  <2>3. CASE cmd[1] = "Enable"
    <3>1. r.board.level = b.level /\ r.board.gie = TRUE /\ r.board.on = b.on
      BY <2>2, <2>3 DEF IsBoard
    <3> QED BY <1>0, <1>7, <2>2, <2>3, <3>1 DEF IrqLines, SameLine, SameLevels, LetsBy, VipcKinds, r
  <2>4. CASE cmd[1] # "Enable"
    BY <1>0, <1>7, <2>2, <2>4 DEF IrqLines, SameLine, SameLevels, r
  <2> QED BY <2>3, <2>4
<1> QED BY <1>1, <1>2, <1>4, <1>5, <1>6, <1>7 DEF Kinds, IrqLines

\* What commands to one slot do to the lines of the others, and to the modules.
OtherLines(p, slot, b, r) ==
  /\ IsBoard(r.board) /\ r.reset \subseteq {slot}
  /\ \A k \in Lines : k[1] # slot => SameLine(b, r.board, k)
  /\ SameLevels(p, b, r.board)

OneCommand(p, slot, b, a, n, r) ==
  /\ OtherLines(p, slot, b, r) /\ a.cpu \subseteq r.cpu
  /\ \A k \in Lines : k # <<slot, n[1]>> => SameLine(a.board, r.board, k)
  /\ n[2][1] = "Enable" => LetsBy(p.kind, r.board, r.cpu, <<slot, n[1]>>)
  /\ n[2][1] = "statActive" => r.board = a.board

LEMMA CommandDoes ==
  ASSUME NEW p, p.kind \in Kinds, NEW slot \in 0 .. 3, NEW b, NEW a, OtherLines(p, slot, b, a), NEW n, n[1] \in {0, 1}
  PROVE  OneCommand(p, slot, b, a, n, Command(p, slot, a, n))
<1> DEFINE l == <<slot, n[1]>>
           q == irqCmd(p, a.board, l, n[2])
           r == Command(p, slot, a, n)
<1>1. l \in Lines /\ l[1] = slot /\ IsBoard(a.board)
  BY DEF Lines, OtherLines
<1>2. r.board = q.board /\ r.cpu = a.cpu \cup q.cpu /\ r.reset = a.reset \cup q.reset
  BY DEF Command
<1> HIDE DEF l
<1>3. IrqLines(p, a.board, l, n[2], q)
  BY <1>1, IrqDoes
<1> HIDE DEF q, r
<1>4. \A k \in Lines : k[1] # slot => SameLine(b, r.board, k)
  <2> TAKE k \in Lines
  <2> HAVE k[1] # slot
  <2>1. SameLine(b, a.board, k) /\ SameLine(a.board, q.board, k)
    BY <1>1, <1>3 DEF OtherLines, IrqLines
  <2> QED BY <1>2, <2>1 DEF SameLine
<1>5. OtherLines(p, slot, b, r)
  BY <1>1, <1>2, <1>3, <1>4 DEF OtherLines, IrqLines, SameLevels
<1>6. n[2][1] = "Enable" => LetsBy(p.kind, r.board, r.cpu, l)
  <2>1. n[2][1] = "Enable" => LetsBy(p.kind, q.board, q.cpu, l) /\ SameLine(a.board, q.board, l)
    BY <1>3 DEF IrqLines
  <2>2. SameLine(q.board, q.board, l)
    BY DEF SameLine
  <2> QED BY <1>2, <2>1, <2>2, LetsOn
<1>7. \A k \in Lines : k # l => SameLine(a.board, r.board, k)
  BY <1>2, <1>3 DEF IrqLines
<1>8. n[2][1] = "statActive" => r.board = a.board
  BY <1>2, <1>3 DEF IrqLines
<1> QED BY <1>2, <1>5, <1>6, <1>7, <1>8 DEF l, r, OneCommand

LEMMA CommandedOthers ==
  ASSUME NEW card, Info(card).p.kind \in Kinds, NEW slot \in 0 .. 3, NEW b, IsBoard(b), NEW ns, Len(ns) \in Nat,
         \A i \in 1 .. Len(ns) : ns[i][1] \in {0, 1}
  PROVE  OtherLines(Info(card).p, slot, b, Commanded(card, slot, b, ns))
<1> DEFINE p == Info(card).p
           m == Len(ns)
<1>1. PICK f : Commands(f, p, slot, b, ns, m) /\ Commanded(card, slot, b, ns) = f[m]
  BY CommandedRuns
<1>2. f[0] = Start(b) /\ \A n \in 1 .. m : f[n] = Command(p, slot, f[n - 1], ns[n])
  <2>1. \A n \in 0 .. m : f[n] = IF n = 0 THEN Start(b) ELSE Command(p, slot, f[n - 1], ns[n])
    BY <1>1 DEF Commands
  <2> QED BY <2>1
<1>3. m \in Nat /\ (\A i \in 1 .. m : ns[i][1] \in {0, 1}) /\ p.kind \in Kinds
  OBVIOUS
<1> HIDE DEF p, m
<1> DEFINE S == {n \in 0 .. m : OtherLines(p, slot, b, f[n])}
<1>4. 0 \in S
  BY <1>2, <1>3 DEF Start, OtherLines, SameLine, SameLevels
<1>5. \A n \in 0 .. m - 1 : n \in S => n + 1 \in S
  <2> SUFFICES ASSUME NEW n \in 0 .. m - 1, n \in S PROVE n + 1 \in S
    OBVIOUS
  <2>1. n + 1 \in 1 .. m /\ (n + 1) - 1 = n /\ n + 1 \in 0 .. m
    BY <1>3
  <2>2. f[n + 1] = Command(p, slot, f[n], ns[n + 1]) /\ ns[n + 1][1] \in {0, 1}
    BY <1>2, <1>3, <2>1
  <2>3. OtherLines(p, slot, b, f[n + 1])
    <3> DEFINE a == f[n]
               c == ns[n + 1]
    <3>1. OtherLines(p, slot, b, a) /\ c[1] \in {0, 1}
      BY <2>2
    <3> HIDE DEF a, c
    <3>2. OneCommand(p, slot, b, a, c, Command(p, slot, a, c))
      BY <1>3, <3>1, CommandDoes
    <3> QED BY <2>2, <3>2 DEF a, c, OneCommand
  <2> QED BY <2>1, <2>3
<1>6. 0 .. m \subseteq S
  <2> HIDE DEF S
  <2> QED BY <1>3, <1>4, <1>5, InductionUpTo
<1>7. m \in S
  BY <1>3, <1>6
<1> QED BY <1>1, <1>7 DEF p, m

\* What the drivers ask for when they take up a module.
Interrupts(d) == IF d = "can" THEN {0} ELSE {0, 1}
Asked(d) == IF d = "can" THEN EnableOne ELSE BothLines

LEMMA CommandedEnables ==
  ASSUME NEW d \in Drivers, NEW card, Info(card).p.kind \in Kinds, NEW slot \in 0 .. 3, NEW b, IsBoard(b), NEW n \in Interrupts(d)
  PROVE  LET r == Commanded(card, slot, b, Asked(d)) IN LetsBy(Info(card).p.kind, r.board, r.cpu, <<slot, n>>)
<1> DEFINE p == Info(card).p
           ns == Asked(d)
           m == Len(ns)
<1>0. /\ d = "can" => m = 1 /\ ns[1] = <<0, <<"Enable", 0>>>>
      /\ d # "can" => m = 3 /\ ns[1] = <<0, <<"Enable", 0>>>> /\ ns[2] = <<1, <<"Enable", 0>>>> /\ ns[3] = <<0, <<"statActive", 0>>>>
  BY DEF Asked, EnableOne, BothLines
<1>1. PICK f : Commands(f, p, slot, b, ns, m) /\ Commanded(card, slot, b, ns) = f[m]
  <2>1. Len(ns) \in Nat
    BY <1>0
  <2> HIDE DEF ns
  <2> QED BY <2>1, CommandedRuns
<1>2. f[0] = Start(b) /\ \A i \in 1 .. m : f[i] = Command(p, slot, f[i - 1], ns[i])
  <2>1. \A i \in 0 .. m : f[i] = IF i = 0 THEN Start(b) ELSE Command(p, slot, f[i - 1], ns[i])
    BY <1>1 DEF Commands
  <2>2. m \in Nat
    BY <1>0
  <2> QED BY <2>1, <2>2
<1> HIDE DEF ns, m
<1>3. OtherLines(p, slot, b, f[0]) /\ p.kind \in Kinds
  BY <1>2 DEF Start, OtherLines, SameLine, SameLevels
<1> HIDE DEF p
<1>4. f[1] = Command(p, slot, f[0], <<0, <<"Enable", 0>>>>)
  BY <1>0, <1>2
<1>5. OtherLines(p, slot, b, f[1]) /\ LetsBy(p.kind, f[1].board, f[1].cpu, <<slot, 0>>)
  <2> DEFINE c == <<0, <<"Enable", 0>>>>
  <2>1. c[1] = 0 /\ c[2][1] = "Enable" /\ c[1] \in {0, 1}
    OBVIOUS
  <2>2. f[1] = Command(p, slot, f[0], c)
    BY <1>4
  <2> HIDE DEF c
  <2>3. OneCommand(p, slot, b, f[0], c, Command(p, slot, f[0], c))
    BY <1>3, <2>1, CommandDoes
  <2> QED BY <2>1, <2>2, <2>3 DEF OneCommand
<1>6. CASE d = "can"
  BY <1>0, <1>1, <1>5, <1>6 DEF Interrupts, p, ns
<1>7. CASE d # "can"
  <2>1. f[2] = Command(p, slot, f[1], <<1, <<"Enable", 0>>>>)
    BY <1>0, <1>2, <1>7
  <2>2. /\ OtherLines(p, slot, b, f[2]) /\ LetsBy(p.kind, f[2].board, f[2].cpu, <<slot, 1>>)
        /\ SameLine(f[1].board, f[2].board, <<slot, 0>>) /\ f[1].cpu \subseteq f[2].cpu
    <3> DEFINE c == <<1, <<"Enable", 0>>>>
    <3>1. <<slot, 0>> \in Lines /\ <<slot, 0>> # <<slot, 1>> /\ c[1] = 1 /\ c[2][1] = "Enable" /\ c[1] \in {0, 1}
      BY DEF Lines
    <3>2. f[2] = Command(p, slot, f[1], c)
      BY <2>1
    <3> HIDE DEF c
    <3>3. OneCommand(p, slot, b, f[1], c, Command(p, slot, f[1], c))
      BY <1>3, <1>5, <3>1, CommandDoes
    <3> QED BY <3>1, <3>2, <3>3 DEF OneCommand
  <2>3. LetsBy(p.kind, f[2].board, f[2].cpu, <<slot, 0>>)
    BY <1>5, <2>2, LetsOn
  <2>4. f[3] = Command(p, slot, f[2], <<0, <<"statActive", 0>>>>)
    BY <1>0, <1>2, <1>7
  <2>5. f[3].board = f[2].board /\ f[2].cpu \subseteq f[3].cpu
    <3> DEFINE c == <<0, <<"statActive", 0>>>>
    <3>1. c[2][1] = "statActive" /\ c[1] \in {0, 1}
      OBVIOUS
    <3>2. f[3] = Command(p, slot, f[2], c)
      BY <2>4
    <3> HIDE DEF c
    <3>3. OneCommand(p, slot, b, f[2], c, Command(p, slot, f[2], c))
      BY <1>3, <2>2, <3>1, CommandDoes
    <3> QED BY <3>1, <3>2, <3>3 DEF OneCommand
  <2>6. \A l : SameLine(f[2].board, f[3].board, l)
    BY <2>5 DEF SameLine
  <2>7. LetsBy(p.kind, f[3].board, f[3].cpu, <<slot, 0>>) /\ LetsBy(p.kind, f[3].board, f[3].cpu, <<slot, 1>>)
    BY <2>2, <2>3, <2>5, <2>6, LetsOn
  <2> QED BY <1>0, <1>1, <1>7, <2>7 DEF Interrupts, p, ns
<1> QED BY <1>6, <1>7

Lets(card, slot, n) == LetsBy(Info(card).p.kind, boards[Board(card)], cpuLevels, <<slot, n>>)

\* A carrier whose levels are set by its initialise routine, which arms it, too.
Armed(p) == p.kind \in {"AVME96xx", "Hy8002"} =>
  boards[IoBase(p)].gie /\ \A l \in Lines : boards[IoBase(p)].level[l] \in cpuLevels
CarriersArmed == \A k \in 1 .. number : Works(k) => Armed(carriers[k].p)

Commanding(card, slot, ns, a) ==
  /\ LegalSlot(card, slot) /\ slot \in 0 .. 3 /\ Works(card + 1) /\ Info(card) = carriers[card + 1]
  /\ Info(card).p.kind \in Kinds /\ Board(card) \in DOMAIN boards
  /\ OtherLines(Info(card).p, slot, boards[Board(card)], a) /\ a = Commanded(card, slot, boards[Board(card)], ns)
  /\ boards' = [boards EXCEPT ![Board(card)] = a.board] /\ cpuLevels' = cpuLevels \cup a.cpu

LEMMA IrqBoards ==
  ASSUME BusInv, NEW card, NEW slot, NEW ns, Len(ns) \in Nat, DOMAIN ns = 1 .. Len(ns), ipmIrqCmd(card, slot, ns)
  PROVE  \/ ~LegalLines(card, slot, ns) /\ UNCHANGED <<boards, cpuLevels>>
         \/ \E a : Commanding(card, slot, ns, a)
<1>1. CASE ~LegalLines(card, slot, ns)
  BY <1>1 DEF ipmIrqCmd
<1>2. CASE LegalLines(card, slot, ns)
  <2> DEFINE a == Commanded(card, slot, boards[Board(card)], ns)
  <2>1. LegalSlot(card, slot) /\ \A i \in 1 .. Len(ns) : ns[i][1] \in {0, 1}
    BY <1>2 DEF LegalLines
  <2>2. Works(card + 1) /\ Info(card) = carriers[card + 1] /\ slot \in 0 .. 3
    BY <2>1, LegalSlotWorks DEF BusInv
  <2>3. Info(card).p.kind \in Kinds /\ Board(card) \in DOMAIN boards /\ IsBoard(boards[Board(card)])
    BY <2>2, WorkingParameters DEF BusInv, BoardsOK, Board
  <2>4. boards' = [boards EXCEPT ![Board(card)] = a.board] /\ cpuLevels' = cpuLevels \cup a.cpu
    BY <1>2 DEF ipmIrqCmd, Board
  <2> HIDE DEF a
  <2>5. OtherLines(Info(card).p, slot, boards[Board(card)], a)
    BY <2>1, <2>2, <2>3, CommandedOthers DEF a
  <2>6. Commanding(card, slot, ns, a)
    BY <2>1, <2>2, <2>3, <2>4, <2>5 DEF Commanding, a
  <2> QED BY <2>6
<1> QED BY <1>1, <1>2

LEMMA LegalInt ==
  ASSUME RegistryOK, NEW card, NEW slot, LegalSlot(card, slot)
  PROVE  card \in Int
<1>1. carriers \in Seq(CarrierRows)
  BY DEF RegistryOK
<1> HIDE DEF CarrierRows
<1>2. number \in Nat
  BY <1>1 DEF number
<1> QED BY <1>2 DEF LegalSlot, LegalCard

\* Commands to one slot leave the lines of every other as they are.
LEMMA IrqElsewhere ==
  ASSUME BusInv, AddedOnce, NEW card, NEW slot, LegalSlot(card, slot), NEW n \in {0, 1}, Lets(card, slot, n),
         NEW c, NEW s, c # card \/ s # slot, NEW ns, Len(ns) \in Nat, DOMAIN ns = 1 .. Len(ns), ipmIrqCmd(c, s, ns),
         UNCHANGED carriers
  PROVE  Lets(card, slot, n)'
<1>1. Works(card + 1) /\ Info(card) = carriers[card + 1] /\ slot \in 0 .. 3 /\ card \in Int
  BY LegalSlotWorks, LegalInt DEF BusInv
<1>2. Info(card)' = Info(card) /\ Board(card)' = Board(card)
  BY DEF Info, Board
<1>3. CASE UNCHANGED <<boards, cpuLevels>>
  BY <1>2, <1>3 DEF Lets
<1>4. ASSUME NEW a, Commanding(c, s, ns, a) PROVE Lets(card, slot, n)'
  <2> DEFINE b == boards[Board(card)]
             r == boards'[Board(card)]
             l == <<slot, n>>
  <2>1. SameLine(b, r, l)
    <3>1. CASE Board(c) = Board(card)
      <4>1. c = card
        <5>1. c + 1 = card + 1 /\ c \in Int
          BY <1>1, <1>4, <3>1, BoardsDistinct, LegalInt DEF Commanding, Board, BusInv
        <5> QED BY <1>1, <5>1
      <4>2. s # slot /\ r = a.board /\ l \in Lines /\ l[1] = slot
        BY <1>1, <1>4, <3>1, <4>1 DEF Commanding, Lines
      <4> QED BY <1>4, <3>1, <4>2 DEF Commanding, OtherLines
    <3>2. CASE Board(c) # Board(card)
      BY <1>4, <3>2 DEF Commanding, SameLine
    <3> QED BY <3>1, <3>2
  <2>2. cpuLevels \subseteq cpuLevels'
    BY <1>4 DEF Commanding
  <2>3. LetsBy(Info(card).p.kind, b, cpuLevels, l)
    BY DEF Lets
  <2>4. LetsBy(Info(card).p.kind, r, cpuLevels', l)
    <3> HIDE DEF b, r, l
    <3> QED BY <2>1, <2>2, <2>3, LetsOn
  <2> QED BY <1>2, <2>4 DEF Lets
<1> QED BY <1>3, <1>4, IrqBoards

LEMMA IrqArmed ==
  ASSUME BusInv, AddedOnce, CarriersArmed,
         NEW c, NEW s, NEW ns, Len(ns) \in Nat, DOMAIN ns = 1 .. Len(ns), ipmIrqCmd(c, s, ns), UNCHANGED carriers
  PROVE  CarriersArmed'
<1>1. CASE UNCHANGED <<boards, cpuLevels>>
  BY <1>1 DEF CarriersArmed, Armed, Works, number
<1>2. ASSUME NEW a, Commanding(c, s, ns, a) PROVE CarriersArmed'
  <2> SUFFICES ASSUME NEW k \in 1 .. number, Works(k) PROVE Armed(carriers[k].p)'
    BY DEF CarriersArmed, Works, number
  <2> DEFINE p == carriers[k].p
             b == IoBase(p)
  <2>1. Armed(p) /\ cpuLevels \subseteq cpuLevels'
    BY <1>2 DEF CarriersArmed, Commanding
  <2>2. CASE Board(c) = b
    <3>1. k = c + 1
      BY <1>2, <2>2, BoardsDistinct DEF Commanding, Board
    <3>2. boards'[b] = a.board /\ SameLevels(p, boards[b], a.board)
      BY <1>2, <2>2, <3>1 DEF Commanding, OtherLines
    <3> QED BY <2>1, <3>2 DEF Armed, SameLevels
  <2>3. CASE Board(c) # b
    <3>1. boards'[b] = boards[b]
      BY <1>2, <2>3 DEF Commanding
    <3> QED BY <2>1, <3>1 DEF Armed
  <2> QED BY <2>2, <2>3
<1> QED BY <1>1, <1>2, IrqBoards

\* The lines of a module that its driver has just asked for.
LEMMA IrqEnables ==
  ASSUME BusInv, NEW d \in Drivers, NEW card, NEW slot, LegalSlot(card, slot), ipmIrqCmd(card, slot, Asked(d)),
         NEW n \in Interrupts(d), UNCHANGED carriers
  PROVE  Lets(card, slot, n)'
<1> DEFINE ns == Asked(d)
<1>1. Len(ns) \in Nat /\ DOMAIN ns = 1 .. Len(ns) /\ LegalLines(card, slot, ns)
  <2>1. CASE d = "can"
    <3>1. ns = <<<<0, <<"Enable", 0>>>>>>
      BY <2>1 DEF Asked, EnableOne
    <3>2. Len(ns) = 1 /\ DOMAIN ns = 1 .. Len(ns) /\ ns[1][1] = 0
      BY <3>1
    <3> HIDE DEF ns
    <3> QED BY <3>2 DEF LegalLines
  <2>2. CASE d # "can"
    <3>1. ns = <<<<0, <<"Enable", 0>>>>, <<1, <<"Enable", 0>>>>, <<0, <<"statActive", 0>>>>>>
      BY <2>2 DEF Asked, BothLines
    <3>2. Len(ns) = 3 /\ DOMAIN ns = 1 .. Len(ns) /\ ns[1][1] = 0 /\ ns[2][1] = 1 /\ ns[3][1] = 0
      BY <3>1
    <3>3. \A i \in 1 .. 3 : i = 1 \/ i = 2 \/ i = 3
      OBVIOUS
    <3> HIDE DEF ns
    <3> QED BY <3>2, <3>3 DEF LegalLines
  <2> QED BY <2>1, <2>2
<1> HIDE DEF ns
<1>2. PICK a : Commanding(card, slot, ns, a)
  BY <1>1, IrqBoards DEF ns
<1>3. Info(card).p.kind \in Kinds /\ slot \in 0 .. 3 /\ IsBoard(boards[Board(card)]) /\ a = Commanded(card, slot, boards[Board(card)], ns)
      /\ boards'[Board(card)] = a.board /\ cpuLevels' = cpuLevels \cup a.cpu
  BY <1>2 DEF Commanding, BusInv, BoardsOK
<1>4. LetsBy(Info(card).p.kind, a.board, a.cpu, <<slot, n>>)
  <2> DEFINE b == boards[Board(card)]
  <2>1. IsBoard(b)
    BY <1>3
  <2> HIDE DEF b
  <2>2. LetsBy(Info(card).p.kind, Commanded(card, slot, b, ns).board, Commanded(card, slot, b, ns).cpu, <<slot, n>>)
    BY <1>3, <2>1, CommandedEnables DEF ns
  <2> QED BY <1>3, <2>2 DEF b
<1>5. LetsBy(Info(card).p.kind, a.board, cpuLevels', <<slot, n>>)
  <2>1. SameLine(a.board, a.board, <<slot, n>>) /\ a.cpu \subseteq cpuLevels'
    BY <1>3 DEF SameLine
  <2> QED BY <1>4, <2>1, LetsOn
<1>6. Info(card)' = Info(card) /\ Board(card)' = Board(card)
  BY DEF Info, Board
<1> QED BY <1>3, <1>5, <1>6 DEF Lets

-----------------------------------------------------------------------------
(* Adding a carrier leaves those that work alone.                          *)

\* Checks and claims do nothing to a board.
SameBoard(a, b) == b.board = a.board /\ b.cpu = a.cpu /\ b.reset = a.reset

LEMMA CalmStep ==
  ASSUME NEW p, NEW a, IsAcc(a), NEW s, s.do \in {"pass", "fail", "claim"}
  PROVE  SameBoard(a, Step(p, a, s))
<1> DEFINE b == Step(p, a, s)
           r == [am |-> s.am, at |-> s.at, size |-> s.size]
<1>1. b = a \/ b = [a EXCEPT !.ok = FALSE] \/ b = [a EXCEPT !.regions = @ \cup {r}]
  BY DEF Step
<1> HIDE DEF b, r
<1> QED BY <1>1 DEF SameBoard, IsAcc, b

Follows(f, p, st, m) ==
  (\A n \in 1 .. m : f[n] = Step(p, f[n - 1], st[n])) /\ \A n \in 0 .. m : IsAcc(f[n])
CalmFrom(st, lo, hi) == \A i \in lo + 1 .. hi : st[i].do \in {"pass", "fail", "claim"}

LEMMA CalmRun ==
  ASSUME NEW p, NEW st, NEW m \in Nat, NEW f, Follows(f, p, st, m), NEW lo \in 0 .. m, NEW hi \in lo .. m, CalmFrom(st, lo, hi)
  PROVE  SameBoard(f[lo], f[hi])
<1> USE DEF Follows, CalmFrom
<1> DEFINE S == {n \in 0 .. hi - lo : SameBoard(f[lo], f[lo + n])}
<1>1. 0 \in S
  <2>1. lo + 0 = lo /\ 0 \in 0 .. hi - lo
    OBVIOUS
  <2> QED BY <2>1 DEF SameBoard
<1>2. \A n \in 0 .. (hi - lo) - 1 : n \in S => n + 1 \in S
  <2> SUFFICES ASSUME NEW n \in 0 .. (hi - lo) - 1, n \in S PROVE n + 1 \in S
    OBVIOUS
  <2> DEFINE i == lo + (n + 1)
  <2>1. i \in 1 .. m /\ i \in lo + 1 .. hi /\ i - 1 = lo + n /\ i - 1 \in 0 .. m /\ n + 1 \in 0 .. hi - lo
    OBVIOUS
  <2> HIDE DEF i
  <2>2. SameBoard(f[i - 1], Step(p, f[i - 1], st[i]))
    BY <2>1, CalmStep
  <2>3. SameBoard(f[lo], f[i - 1])
    BY <2>1
  <2>4. f[i] = Step(p, f[i - 1], st[i])
    BY <2>1
  <2>5. SameBoard(f[lo], f[i])
    BY <2>2, <2>3, <2>4 DEF SameBoard
  <2> QED BY <2>1, <2>5 DEF i
<1>3. hi - lo \in Nat
  OBVIOUS
<1>4. 0 .. hi - lo \subseteq S
  <2> HIDE DEF S
  <2> QED BY <1>1, <1>2, <1>3, InductionUpTo
<1>5. hi - lo \in S /\ lo + (hi - lo) = hi
  BY <1>3, <1>4
<1> QED BY <1>5

\* After a step has failed nothing more is done.
LEMMA FailedRun ==
  ASSUME NEW p, NEW st, NEW m \in Nat, NEW f, Follows(f, p, st, m), NEW j \in 0 .. m, ~f[j].ok
  PROVE  f[m] = f[j]
<1> USE DEF Follows
<1> DEFINE S == {n \in 0 .. m - j : f[j + n] = f[j]}
<1>1. 0 \in S
  OBVIOUS
<1>2. \A n \in 0 .. (m - j) - 1 : n \in S => n + 1 \in S
  <2> SUFFICES ASSUME NEW n \in 0 .. (m - j) - 1, n \in S PROVE n + 1 \in S
    OBVIOUS
  <2> DEFINE i == j + (n + 1)
  <2>1. i \in 1 .. m /\ i - 1 = j + n /\ n + 1 \in 0 .. m - j
    OBVIOUS
  <2> HIDE DEF i
  <2>2. f[i - 1] = f[j]
    BY <2>1
  <2>3. f[i] = f[j]
    BY <2>1, <2>2 DEF Step
  <2> QED BY <2>1, <2>3 DEF i
<1>3. m - j \in Nat
  OBVIOUS
<1>4. 0 .. m - j \subseteq S
  <2> HIDE DEF S
  <2> QED BY <1>1, <1>2, <1>3, InductionUpTo
<1>5. m - j \in S /\ j + (m - j) = m
  BY <1>3, <1>4
<1> QED BY <1>5

LEMMA RunOf ==
  ASSUME NEW p, Shaped(p), IsBoard(boards[IoBase(p)]), IsIpic(ipic)
  PROVE  \E f : /\ Runs(f, p, initialise(p), Len(initialise(p))) /\ Initialised(p) = f[Len(initialise(p))]
                /\ f[0] = Begun(p) /\ Follows(f, p, initialise(p), Len(initialise(p)))
<1> DEFINE st == initialise(p)
           m == Len(st)
<1>1. m \in Nat /\ \A i \in 1 .. m : st[i].do \in Dos
  BY DEF Shaped
<1>2. PICK f : Runs(f, p, st, m) /\ Initialised(p) = f[m]
  BY <1>1, InitialisedRuns
<1> HIDE DEF st, m
<1>3. f[0] = Begun(p) /\ (\A i \in 1 .. m : f[i] = Step(p, f[i - 1], st[i]))
  BY <1>1, <1>2, SoFar
<1>4. \A i \in 0 .. m : Prefix(p, f, st, i)
  BY <1>1, <1>2, SoFar
<1>5. Follows(f, p, st, m)
  BY <1>3, <1>4 DEF Prefix, Follows
<1> QED BY <1>2, <1>3, <1>5 DEF st, m

\* The registers of a board that has been claimed.
Taken(p) == \E r \in regions : r.am = "A16" /\ r.at = IoBase(p).at /\ r.size \in {512, 1024, 2048}
LeavesBoard(p, a) == ~a.ok /\ a.board = boards[IoBase(p)] /\ a.reset = {}

LEMMA EarlyFails ==
  ASSUME NEW p, Shaped(p), Early(p), IsBoard(boards[IoBase(p)]), IsIpic(ipic), Ranges(regions), Apart(regions), Taken(p)
  PROVE  LeavesBoard(p, Initialised(p))
<1> DEFINE st == initialise(p)
           m == Len(st)
<1>1. m \in Nat /\ \A i \in 1 .. m : st[i].do \in Dos
  BY DEF Shaped
<1>2. PICK f : Runs(f, p, st, m) /\ Initialised(p) = f[m] /\ f[0] = Begun(p) /\ Follows(f, p, st, m)
  BY RunOf
<1>3. \A n \in 0 .. m : RangesKept(f, n)
  BY <1>2, RunsKeepRanges
<1>4. PICK j \in 1 .. m, n \in {512, 1024, 2048} : EarlyAt(p, j, n)
  BY DEF Early
<1>5. st[j].do = "claim" /\ Region(st[j]) = [am |-> "A16", at |-> IoBase(p).at, size |-> n]
      /\ \A i \in 1 .. j - 1 : st[i].do \in {"pass", "fail"}
  BY <1>4 DEF EarlyAt
<1> HIDE DEF st, m
<1>6. f[0] = Begun(p) /\ Follows(f, p, st, m)
  BY <1>2
<1>7. SameBoard(Begun(p), f[j - 1])
  <2>1. CalmFrom(st, 0, j - 1)
    BY <1>1, <1>5 DEF CalmFrom
  <2>2. 0 \in 0 .. m /\ j - 1 \in 0 .. m
    BY <1>1
  <2>3. SameBoard(f[0], f[j - 1])
    BY <1>1, <1>6, <2>1, <2>2, CalmRun
  <2> QED BY <1>6, <2>3
<1>8. ~Claimable(f[j - 1].regions, Region(st[j]))
  <2>1. PICK r \in regions : r.am = "A16" /\ r.at = IoBase(p).at /\ r.size \in {512, 1024, 2048}
    BY DEF Taken
  <2>2. r \in f[j - 1].regions /\ r.at \in Int
    BY <1>1, <1>3, <2>1 DEF RangesKept, Ranges, IsRange
  <2>3. Overlap(Region(st[j]), r)
    BY <1>5, <2>1, <2>2 DEF Overlap
  <2> QED BY <2>2, <2>3 DEF Claimable
<1>9. ~f[j].ok /\ SameBoard(f[j - 1], f[j])
  <2>1. j - 1 \in 0 .. m /\ f[j] = Step(p, f[j - 1], st[j])
    BY <1>1, <1>6 DEF Follows
  <2>2. IsAcc(f[j - 1])
    BY <1>6, <2>1 DEF Follows
  <2>3. SameBoard(f[j - 1], f[j])
    BY <1>5, <2>1, <2>2, CalmStep
  <2>4. StepDoes(p, f[j - 1], st[j], f[j])
    BY <1>5, <2>1, <2>2, StepFacts DEF Dos
  <2> QED BY <1>5, <1>8, <2>3, <2>4 DEF StepDoes
<1>10. f[m] = f[j]
  <2>1. j \in 0 .. m
    BY <1>1
  <2> QED BY <1>1, <1>6, <1>9, <2>1, FailedRun
<1> QED BY <1>2, <1>7, <1>9, <1>10 DEF LeavesBoard, SameBoard, Begun, m

LEMMA BaseSpace ==
  ASSUME NEW p, p.kind \in Kinds
  PROVE  /\ p.kind \in VmeKinds => IoBase(p).am = "A16"
         /\ p.kind = "MVME162" => IoBase(p).am = "ipic"
         /\ p.kind = "ATC40" => IoBase(p).am = "ISA"
  BY DEF IoBase, At, Kinds, VmeKinds, VipcKinds

LEMMA AtcFails ==
  ASSUME NEW p, p.kind = "ATC40", IsBoard(boards[IoBase(p)]), IsIpic(ipic), ~Initialised(p).ok
  PROVE  LeavesBoard(p, Initialised(p))
<1> DEFINE st == initialise(p)
           m == Len(st)
<1>1. m = 3 /\ st[1].do \in {"pass", "fail"} /\ st[2].do \in {"pass", "fail"} /\ st[3].do = "list"
  <2>1. st = <<Need(p.args < 2 \/ p.size = 16384), Need(p.args < 3 \/ p.irq \in 0 .. 15), Do("list")>>
    BY DEF initialise, InitAtc40
  <2> QED BY <2>1 DEF Need, Do
<1>2. m \in Nat /\ \A i \in 1 .. m : st[i].do \in Dos
  BY <1>1 DEF Dos
<1>3. PICK f : Initialised(p) = f[m] /\ f[0] = Begun(p) /\ Follows(f, p, st, m)
  BY RunOf, ShapeAtc40
<1> HIDE DEF st, m
<1>4. f[0] = Begun(p) /\ Follows(f, p, st, m)
  BY <1>3
<1>5. 0 \in 0 .. m /\ 2 \in 0 .. m /\ 3 \in 1 .. m
  BY <1>1
<1>6. CalmFrom(st, 0, 2)
  <2>1. \A i \in 0 + 1 .. 2 : i = 1 \/ i = 2
    OBVIOUS
  <2> QED BY <1>1, <2>1 DEF CalmFrom
<1>7. SameBoard(f[0], f[2])
  BY <1>2, <1>4, <1>5, <1>6, CalmRun
<1>8. ~f[2].ok
  <2>1. f[3] = Step(p, f[2], st[3]) /\ IsAcc(f[2])
    BY <1>4, <1>5 DEF Follows
  <2>2. f[2].ok => f[3] = Program(p, f[2], st[3])
    BY <1>1, <2>1 DEF Step
  <2>4. Program(p, f[2], st[3]) = [f[2] EXCEPT !.board.gie = FALSE, !.hook = {<<"board", IoBase(p)>>}]
    BY <1>1 DEF Program
  <2>3. Program(p, f[2], st[3]).ok = f[2].ok
    BY <2>1, <2>4 DEF IsAcc
  <2> QED BY <1>1, <1>3, <2>2, <2>3
<1>9. f[m] = f[2]
  BY <1>2, <1>4, <1>5, <1>8, FailedRun
<1> QED BY <1>3, <1>4, <1>7, <1>8, <1>9 DEF LeavesBoard, SameBoard, Begun

LEMMA Mv162Fails ==
  ASSUME NEW p, p.kind = "MVME162", Parameters(p), IsBoard(boards[IoBase(p)]), IsIpic(ipic), ipic.initialised
  PROVE  LeavesBoard(p, Initialised(p))
<1> DEFINE st == initialise(p)
           m == Len(st)
<1>1. m \in Nat
  BY ShapeMvme162 DEF Shaped
<1>2. PICK f : Initialised(p) = f[m] /\ f[0] = Begun(p) /\ Follows(f, p, st, m)
  BY RunOf, ShapeMvme162
<1> HIDE DEF st, m
<1>3. f[0] = Begun(p) /\ Follows(f, p, st, m)
  BY <1>2
<1>4. ~f[0].ok /\ 0 \in 0 .. m
  <2>1. Begun(p).ok = ~(p.kind = "MVME162" /\ ipic.initialised)
    BY DEF Begun
  <2>2. ~Begun(p).ok
    BY Zenon, <2>1
  <2> QED BY <1>1, <1>3, <2>2
<1>5. f[m] = f[0]
  BY <1>1, <1>3, <1>4, FailedRun
<1> QED BY <1>2, <1>3, <1>4, <1>5 DEF LeavesBoard, Begun

\* The board of a carrier that works is not touched by adding it once more.
LEMMA BusyBoard ==
  ASSUME BusInv, NEW c \in world.script, c.op = "add", c.p.kind \in Kinds, NEW k, Works(k),
         IoBase(c.p) = IoBase(carriers[k].p), c.p.kind = "ATC40" => ~Initialised(c.p).ok
  PROVE  LeavesBoard(c.p, Initialised(c.p))
<1> DEFINE p == c.p
           q == carriers[k].p
<1>1. Parameters(p) /\ IoBase(p) \in DOMAIN boards /\ IsBoard(boards[IoBase(p)]) /\ IsIpic(ipic)
  BY AddedParameters DEF BusInv, BoardsOK
<1>2. q.kind \in Kinds /\ Parameters(q) /\ Owned1(k)
  BY WorkingParameters DEF BusInv, RangesOwned, Works
<1>3. /\ p.kind = "ATC40" <=> q.kind = "ATC40"
      /\ p.kind = "MVME162" <=> q.kind = "MVME162"
  <2> HIDE DEF p, q
  <2>1. p.kind \in Kinds /\ IoBase(p) = IoBase(q)
    BY DEF p, q
  <2> QED BY <1>2, <2>1, BaseSpace DEF VmeKinds
<1>4. CASE p.kind = "ATC40"
  BY <1>1, <1>4, AtcFails
<1>5. CASE p.kind = "MVME162"
  BY <1>1, <1>2, <1>3, <1>5, Mv162Fails DEF Owned1
<1>6. CASE p.kind \in VmeKinds
  <2>1. Shaped(p) /\ Early(p)
    BY <1>1, <1>6, Shapes
  <2>2. ClaimsBase(q) /\ ClaimsOf(q) \subseteq regions
    BY <1>2, <1>3, <1>6, Shapes DEF Owned1, VmeKinds
  <2>3. PICK n \in {512, 1024, 2048} : [am |-> "A16", at |-> IoBase(q).at, size |-> n] \in ClaimsOf(q)
    BY <2>2 DEF ClaimsBase
  <2>4. Taken(p)
    <3> DEFINE r == [am |-> "A16", at |-> IoBase(q).at, size |-> n]
    <3>1. r \in regions /\ r.am = "A16" /\ r.at = IoBase(p).at /\ r.size = n
      BY <2>2, <2>3
    <3> HIDE DEF r
    <3> QED BY <3>1 DEF Taken
  <2> QED BY <1>1, <2>1, <2>4, EarlyFails DEF BusInv, RangesOwned
<1> QED BY <1>4, <1>5, <1>6 DEF VmeKinds

LEMMA AddElsewhere ==
  ASSUME BusInv, NEW c \in world.script, AddCarrier(c), AddedOnce', NEW k, Works(k)
  PROVE  LET b == IoBase(carriers[k].p) IN
         /\ boards'[b] = boards[b] /\ cpuLevels \subseteq cpuLevels'
         /\ \A s : <<b, s>> \in Modules => modules'[<<b, s>>] = modules[<<b, s>>]
<1> DEFINE p == c.p
           b == IoBase(carriers[k].p)
           a == Initialised(p)
<1>1. b \in DOMAIN boards
  BY WorkingParameters DEF BusInv, BoardsOK
<1>2. CASE UNCHANGED <<boards, modules, cpuLevels>>
  BY <1>2
<1>3. ASSUME number < IPAC_MAX_CARRIERS, p.kind \in Kinds, AddDriver(p)
      PROVE  /\ boards'[b] = boards[b] /\ cpuLevels \subseteq cpuLevels'
             /\ \A s : <<b, s>> \in Modules => modules'[<<b, s>>] = modules[<<b, s>>]
  <2>1. /\ carriers' = Append(carriers, [driver |-> IF a.ok THEN p.kind ELSE "null", p |-> p])
        /\ boards' = [boards EXCEPT ![IoBase(p)] = a.board]
        /\ modules' = Reset({<<IoBase(p), s>> : s \in a.reset})
        /\ cpuLevels' = cpuLevels \cup a.cpu
    BY <1>3 DEF AddDriver, Number, Effects
  <2> HIDE DEF a
  <2>2. CASE IoBase(p) # b
    BY <1>1, <2>1, <2>2 DEF Reset
  <2>3. CASE IoBase(p) = b
    <3>1. p.kind = "ATC40" => ~a.ok
      <4> SUFFICES ASSUME p.kind = "ATC40", a.ok PROVE FALSE
        OBVIOUS
      <4> DEFINE row == [driver |-> IF a.ok THEN p.kind ELSE "null", p |-> p]
      <4>1. row.driver = "ATC40" /\ row.p = p
        OBVIOUS
      <4>2. carriers[k].driver = "ATC40"
        <5>1. carriers[k].p.kind = carriers[k].driver /\ carriers[k].p.kind \in Kinds
          BY WorkingParameters DEF BusInv
        <5> QED BY <2>3, <5>1, BaseSpace DEF VmeKinds, Kinds
      <4>3. carriers' = Append(carriers, row)
        BY <2>1
      <4> HIDE DEF row
      <4>4. /\ number' = number + 1 /\ number \in Nat /\ k \in 1 .. number
            /\ carriers'[k] = carriers[k] /\ carriers'[number + 1] = row
        <5>1. carriers \in Seq(CarrierRows) /\ k \in 1 .. number
          BY DEF BusInv, RegistryOK, Works
        <5> HIDE DEF CarrierRows
        <5> QED BY <4>3, <5>1 DEF number
      <4>5. /\ k - 1 \in 0 .. number' - 1 /\ number \in 0 .. number' - 1 /\ k - 1 # number
            /\ carriers'[k - 1 + 1] = carriers[k] /\ carriers'[number + 1] = row
        BY <4>4
      <4> DEFINE n == number
      <4>6. n \in 0 .. number' - 1 /\ k - 1 # n /\ carriers'[n + 1] = row
        BY <4>5
      <4> HIDE DEF n
      <4>7. \A i, j \in 0 .. number' - 1 : carriers'[i + 1].driver = "ATC40" /\ carriers'[j + 1].driver = "ATC40" /\ i # j =>
              IoBase(carriers'[i + 1].p) # IoBase(carriers'[j + 1].p)
        BY DEF AddedOnce, Info, Board
      <4> QED BY <2>3, <4>1, <4>2, <4>5, <4>6, <4>7
    <3>2. LeavesBoard(p, a)
      BY <1>3, <2>3, <3>1, BusyBoard DEF AddCarrier, a
    <3> QED BY <1>1, <2>1, <2>3, <3>2 DEF LeavesBoard, Reset
  <2> QED BY <2>2, <2>3
<1> QED BY <1>2, <1>3 DEF AddCarrier, ipacAddCarrier

\* A carrier that arms its board when it is added, and succeeds.
ArmedBoard(a) == a.board.gie /\ \A l \in Lines : a.board.level[l] \in a.cpu

LEMMA ArmsBoard ==
  ASSUME NEW p, Shaped(p), Arms(p), IsBoard(boards[IoBase(p)]), IsIpic(ipic), Initialised(p).ok
  PROVE  ArmedBoard(Initialised(p))
<1> DEFINE st == initialise(p)
           m == Len(st)
<1>1. m \in Nat /\ \A i \in 1 .. m : st[i].do \in Dos
  BY DEF Shaped
<1>2. PICK f : Runs(f, p, st, m) /\ Initialised(p) = f[m] /\ Follows(f, p, st, m)
  BY RunOf
<1>3. PICK j \in 1 .. m : ArmsAt(p, j)
  BY DEF Arms
<1>4. st[j].do = "arm" /\ CalmFrom(st, j, m)
  BY <1>3 DEF ArmsAt, CalmFrom
<1> HIDE DEF st, m
<1>5. \A n \in 0 .. m : f[n].ok
  BY <1>1, <1>2, GoodRuns
<1>6. j - 1 \in 0 .. m /\ j \in 0 .. m /\ m \in j .. m
  BY <1>1
<1>7. f[j] = Step(p, f[j - 1], st[j]) /\ f[j - 1].ok /\ IsAcc(f[j - 1])
  BY <1>2, <1>5, <1>6 DEF Follows
<1> DEFINE a == f[j - 1]
<1>8. f[j] = [a EXCEPT !.board.level = [l \in Lines |-> p.level], !.board.gie = TRUE,
                       !.board.fast = Fast(p), !.cpu = {p.level}, !.hook = {<<"board", IoBase(p)>>}]
  BY <1>4, <1>7 DEF Step, Program
<1>9. ArmedBoard(f[j])
  <2> DEFINE L == [l \in Lines |-> p.level]
             F == Fast(p)
             H == {<<"board", IoBase(p)>>}
             b == [a.board EXCEPT !.level = L, !.gie = TRUE, !.fast = F]
  <2>1. f[j] = [a EXCEPT !.board.level = L, !.board.gie = TRUE, !.board.fast = F, !.cpu = {p.level}, !.hook = H]
    BY <1>8
  <2>2. \A l \in Lines : L[l] = p.level
    OBVIOUS
  <2> HIDE DEF L, F, H, a
  <2>3. DOMAIN a = {"ok", "regions", "board", "cpu", "reset", "hook", "ipic"} /\ DOMAIN a.board = {"level", "on", "gie", "edge", "fast"}
    BY <1>7 DEF IsAcc, IsBoard, a
  <2>4. f[j].cpu = {p.level}
    BY <2>1, <2>3
  <2>5. f[j].board = b
    BY <2>1, <2>3
  <2>6. b.gie = TRUE /\ b.level = L
    BY <2>3
  <2>7. f[j].board.gie = TRUE /\ f[j].board.level = L
    BY <2>5, <2>6
  <2> QED BY <2>2, <2>4, <2>7 DEF ArmedBoard
<1>10. SameBoard(f[j], f[m])
  BY <1>1, <1>2, <1>4, <1>6, CalmRun
<1> QED BY <1>2, <1>9, <1>10 DEF ArmedBoard, SameBoard

\* The addresses in the tables of the MVME162 driver are those of the local bus.
IpicMem(i) == DOMAIN i.mem = 0 .. 3 /\ \A s \in 0 .. 3 : i.mem[s].am # "A16"

LEMMA IpicStep ==
  ASSUME NEW p, NEW a, IsAcc(a), IpicMem(a.ipic), NEW s, s.do \in Dos
  PROVE  IpicMem(Step(p, a, s).ipic)
<1> DEFINE b == Step(p, a, s)
           r == [am |-> s.am, at |-> s.at, size |-> s.size]
<1>1. DOMAIN a = {"ok", "regions", "board", "cpu", "reset", "hook", "ipic"} /\ IsIpic(a.ipic)
  BY DEF IsAcc
<1>2. CASE ~a.ok \/ s.do \in {"pass", "fail", "claim", "drop"}
  <2>1. \/ b = a \/ b = [a EXCEPT !.ok = FALSE] \/ b = [a EXCEPT !.regions = @ \cup {r}]
        \/ b = [a EXCEPT !.regions = {q \in @ : q.am # s.am \/ q.at # s.at}]
    BY <1>2 DEF Step
  <2> HIDE DEF b, r
  <2>2. b.ipic = a.ipic
    BY <1>1, <2>1
  <2> QED BY <2>2 DEF b
<1>3. CASE a.ok /\ s.do \in {"levels", "reset", "quiet", "arm", "list"}
  <2>1. b = Program(p, a, s)
    BY <1>3 DEF Step
  <2>2. b.ipic = a.ipic
    BY <1>1, <1>3, <2>1 DEF Program
  <2> HIDE DEF b
  <2> QED BY <2>2 DEF b
<1>4. CASE a.ok /\ s.do = "clear"
  <2>1. b = [a EXCEPT !.board = ColdBoard, !.ipic.men = {}]
    BY <1>4 DEF Step, Program
  <2> HIDE DEF b
  <2>2. b.ipic.mem = a.ipic.mem
    BY <1>1, <2>1 DEF IsIpic
  <2> QED BY <2>2 DEF IpicMem, b
<1>5. CASE a.ok /\ s.do = "option"
  <2> DEFINE o == s.o
  <2>1. b = Option(a, o)
    BY <1>5 DEF Step, Program
  <2> HIDE DEF b, o
  <2>2. CASE o.opt = "m"
    <3> DEFINE x == At("local", o.base)
    <3>1. b = [a EXCEPT !.ipic.mem[o.slot] = x, !.ipic.men = @ \cup {o.slot}]
      BY <2>1, <2>2 DEF Option
    <3>2. x.am # "A16"
      BY DEF At
    <3> HIDE DEF x
    <3>3. b.ipic.mem = [a.ipic.mem EXCEPT ![o.slot] = x]
      BY <1>1, <3>1 DEF IsIpic
    <3> QED BY <3>2, <3>3 DEF IpicMem, b
  <2>3. CASE o.opt = "l"
    <3>1. b = [a EXCEPT !.board.level[<<o.slot, 0>>] = o.l1, !.board.level[<<o.slot, 1>>] = o.l2]
      BY <2>1, <2>3 DEF Option
    <3>2. b.ipic = a.ipic
      BY <1>1, <3>1
    <3> QED BY <3>2 DEF b
  <2>4. CASE o.opt = "w"
    <3>1. b.ipic.mem = a.ipic.mem
      BY <1>1, <2>1, <2>4 DEF Option, IsIpic
    <3> QED BY <3>1 DEF IpicMem, b
  <2>5. CASE o.opt \notin {"m", "l", "w"}
    <3>1. b = a
      BY <2>1, <2>5 DEF Option
    <3> QED BY <3>1 DEF b
  <2> QED BY <2>2, <2>3, <2>4, <2>5
<1> QED BY <1>2, <1>3, <1>4, <1>5 DEF Dos

LEMMA IpicRun ==
  ASSUME NEW p, Shaped(p), IsBoard(boards[IoBase(p)]), IsIpic(ipic), IpicMem(ipic)
  PROVE  IpicMem(Initialised(p).ipic)
<1> DEFINE st == initialise(p)
           m == Len(st)
<1>1. m \in Nat /\ \A i \in 1 .. m : st[i].do \in Dos
  BY DEF Shaped
<1>2. PICK f : Initialised(p) = f[m] /\ f[0] = Begun(p) /\ Follows(f, p, st, m)
  BY RunOf
<1> HIDE DEF st, m
<1> DEFINE S == {n \in 0 .. m : IpicMem(f[n].ipic)}
<1>3. 0 \in S
  BY <1>1, <1>2 DEF Begun
<1>4. \A n \in 0 .. m - 1 : n \in S => n + 1 \in S
  <2> SUFFICES ASSUME NEW n \in 0 .. m - 1, n \in S PROVE n + 1 \in S
    OBVIOUS
  <2>1. n + 1 \in 1 .. m /\ (n + 1) - 1 = n /\ n + 1 \in 0 .. m /\ n \in 0 .. m
    BY <1>1
  <2>2. f[n + 1] = Step(p, f[n], st[n + 1]) /\ IsAcc(f[n]) /\ st[n + 1].do \in Dos /\ IpicMem(f[n].ipic)
    BY <1>1, <1>2, <2>1 DEF Follows
  <2>3. IpicMem(f[n + 1].ipic)
    BY <2>2, IpicStep
  <2> QED BY <2>1, <2>3
<1>5. 0 .. m \subseteq S
  <2> HIDE DEF S
  <2> QED BY <1>1, <1>3, <1>4, InductionUpTo
<1>6. m \in S
  BY <1>1, <1>5
<1> QED BY <1>2, <1>6

-----------------------------------------------------------------------------
(* What holds of the carriers whatever is added.                           *)

\* What adding a carrier comes to.
Adds(p, row, a) ==
  /\ number < IPAC_MAX_CARRIERS /\ p.kind \in Kinds /\ a = Initialised(p)
  /\ row = [driver |-> IF a.ok THEN p.kind ELSE "null", p |-> p]
  /\ boards' = [boards EXCEPT ![IoBase(p)] = a.board] /\ cpuLevels' = cpuLevels \cup a.cpu
  /\ ipic' = [a.ipic EXCEPT !.initialised = @ \/ (a.ok /\ p.kind = "MVME162")]
AddsNull(row) == row.driver = "null" /\ UNCHANGED <<boards, cpuLevels, ipic>>

LEMMA AddOutcome ==
  ASSUME BusInv, NEW c \in world.script, AddCarrier(c)
  PROVE  /\ c.op = "add" /\ UNCHANGED <<world, vme, atc, attached, can, started, tty, pc, phase>>
         /\ \/ UNCHANGED <<carriers, boards, modules, cpuLevels, ipic>>
            \/ \E row : /\ carriers' = Append(carriers, row)
                        /\ \/ AddsNull(row)
                           \/ \E a : Adds(c.p, row, a)
<1>1. c.op = "add" /\ UNCHANGED <<world, vme, atc, attached, can, started, tty, pc, phase>> /\ ipacAddCarrier(c.p)
  BY DEF AddCarrier
<1> DEFINE m == number
<1>0. m \in Nat /\ IPAC_MAX_CARRIERS \in Nat /\ m = number
  BY CarrierAssumption DEF BusInv, RegistryOK, number
<1>5. \/ m >= IPAC_MAX_CARRIERS /\ UNCHANGED <<carriers, boards, modules, cpuLevels, ipic>>
      \/ m < IPAC_MAX_CARRIERS /\ c.p.kind \notin Kinds /\ Number("null", c.p) /\ UNCHANGED <<boards, cpuLevels, ipic>>
      \/ m < IPAC_MAX_CARRIERS /\ c.p.kind \in Kinds /\ AddDriver(c.p)
  BY <1>1 DEF ipacAddCarrier
<1> HIDE DEF m
<1>2. CASE number < IPAC_MAX_CARRIERS /\ c.p.kind \notin Kinds
  <2>1. Number("null", c.p) /\ UNCHANGED <<boards, cpuLevels, ipic>>
    BY <1>0, <1>2, <1>5
  <2> DEFINE row == [driver |-> "null", p |-> c.p]
  <2>2. carriers' = Append(carriers, row) /\ row.driver = "null"
    BY <2>1 DEF Number
  <2> QED BY <1>1, <2>1, <2>2 DEF AddsNull
<1>3. CASE number < IPAC_MAX_CARRIERS /\ c.p.kind \in Kinds
  <2> DEFINE a == Initialised(c.p)
             row == [driver |-> IF a.ok THEN c.p.kind ELSE "null", p |-> c.p]
  <2>1. AddDriver(c.p)
    BY <1>0, <1>3, <1>5
  <2>2. carriers' = Append(carriers, row) /\ Adds(c.p, row, a)
    BY <1>3, <2>1 DEF AddDriver, Number, Effects, Adds
  <2> QED BY <1>1, <2>2
<1>4. CASE ~(number < IPAC_MAX_CARRIERS)
  BY <1>0, <1>1, <1>4, <1>5
<1> QED BY <1>2, <1>3, <1>4

LEMMA AppendedRow ==
  ASSUME RegistryOK, NEW row, carriers' = Append(carriers, row)
  PROVE  /\ number' = number + 1 /\ number \in Nat /\ carriers'[number + 1] = row
         /\ \A k \in 1 .. number : carriers'[k] = carriers[k]
<1>1. carriers \in Seq(CarrierRows)
  BY DEF RegistryOK
<1> HIDE DEF CarrierRows
<1> QED BY <1>1 DEF number

ArmedIn(p, bs, cpu) ==
  p.kind \in {"AVME96xx", "Hy8002"} => bs[IoBase(p)].gie /\ \A l \in Lines : bs[IoBase(p)].level[l] \in cpu

\* Every carrier that is to be armed when it is added stays so.
LEMMA ArmedAdd ==
  ASSUME BusInv, CarriersArmed, NEW c \in world.script, AddCarrier(c), AddedOnce'
  PROVE  CarriersArmed'
<1>1. ASSUME NEW k, Works(k)
      PROVE  /\ boards'[IoBase(carriers[k].p)] = boards[IoBase(carriers[k].p)] /\ cpuLevels \subseteq cpuLevels'
             /\ Armed(carriers[k].p)
  BY <1>1, AddElsewhere DEF CarriersArmed, Works
<1>2. CASE UNCHANGED <<carriers, boards, cpuLevels>>
  BY <1>2 DEF CarriersArmed, Works, number, Armed
<1>3. ASSUME NEW row, carriers' = Append(carriers, row), AddsNull(row) \/ \E a : Adds(c.p, row, a)
      PROVE  CarriersArmed'
  <2>1. /\ number' = number + 1 /\ number \in Nat /\ carriers'[number + 1] = row
        /\ \A k \in 1 .. number : carriers'[k] = carriers[k]
    BY <1>3, AppendedRow DEF BusInv
  <2>2. ASSUME NEW k \in 1 .. number', Works(k)' PROVE ArmedIn(carriers'[k].p, boards', cpuLevels')
    <3>1. CASE k \in 1 .. number
      <4>1. carriers'[k] = carriers[k] /\ Works(k)
        BY <2>1, <2>2, <3>1 DEF Works
      <4>2. /\ boards'[IoBase(carriers[k].p)] = boards[IoBase(carriers[k].p)] /\ cpuLevels \subseteq cpuLevels'
            /\ Armed(carriers[k].p)
        BY <1>1, <4>1
      <4> QED BY <4>1, <4>2 DEF Armed, ArmedIn
    <3>2. CASE k = number + 1
      <4>1. carriers'[k] = row /\ row.driver # "null"
        BY <2>1, <2>2, <3>2 DEF Works
      <4>2. PICK a : Adds(c.p, row, a)
        BY <1>3, <4>1 DEF AddsNull
      <4> DEFINE p == c.p
      <4>3. /\ row.p = p /\ a.ok /\ a = Initialised(p) /\ p.kind \in Kinds
            /\ boards' = [boards EXCEPT ![IoBase(p)] = a.board] /\ cpuLevels' = cpuLevels \cup a.cpu
        BY <4>1, <4>2 DEF Adds
      <4>4. SUFFICES ASSUME p.kind \in {"AVME96xx", "Hy8002"}
                     PROVE  boards'[IoBase(p)].gie /\ \A l \in Lines : boards'[IoBase(p)].level[l] \in cpuLevels'
        BY <4>1, <4>3 DEF ArmedIn
      <4>5. Parameters(p) /\ IoBase(p) \in DOMAIN boards /\ IsBoard(boards[IoBase(p)]) /\ IsIpic(ipic)
        <5>1. c.op = "add"
          BY DEF AddCarrier
        <5> QED BY <4>3, <5>1, AddedParameters DEF BusInv, BoardsOK
      <4>6. ArmedBoard(a)
        BY <4>3, <4>4, <4>5, Shapes, ArmsBoard
      <4> HIDE DEF p
      <4>7. boards'[IoBase(p)] = a.board
        BY <4>3, <4>5
      <4> QED BY <4>3, <4>6, <4>7 DEF ArmedBoard
    <3>3. k \in 1 .. number \/ k = number + 1
      BY <2>1, <2>2
    <3> QED BY <3>1, <3>2, <3>3
  <2> QED BY <2>2 DEF CarriersArmed, Armed, ArmedIn
<1> QED BY <1>2, <1>3, AddOutcome

LEMMA IpicAdd ==
  ASSUME BusInv, IpicMem(ipic), NEW c \in world.script, AddCarrier(c)
  PROVE  IpicMem(ipic)'
<1>1. CASE UNCHANGED ipic
  BY <1>1 DEF IpicMem
<1>2. ASSUME NEW row, NEW a, Adds(c.p, row, a) PROVE IpicMem(ipic)'
  <2> DEFINE p == c.p
  <2>1. p.kind \in Kinds /\ a = Initialised(p) /\ ipic' = [a.ipic EXCEPT !.initialised = @ \/ (a.ok /\ p.kind = "MVME162")]
    BY <1>2 DEF Adds
  <2>2. Parameters(p) /\ IsBoard(boards[IoBase(p)]) /\ IsIpic(ipic) /\ Ranges(regions) /\ Apart(regions)
    <3>1. c.op = "add"
      BY DEF AddCarrier
    <3> QED BY <2>1, <3>1, AddedParameters DEF BusInv, BoardsOK, RangesOwned
  <2>3. Outcome(p, a) /\ IpicMem(a.ipic)
    BY <2>1, <2>2, Shapes, InitialisedOutcome, IpicRun
  <2>4. DOMAIN a.ipic = {"mem", "men", "initialised"}
    BY <2>3 DEF Outcome, IsAcc, IsIpic
  <2>5. ipic'.mem = a.ipic.mem
    BY <2>1, <2>4
  <2> QED BY <2>3, <2>5 DEF IpicMem
<1> QED BY <1>1, <1>2, AddOutcome DEF AddsNull

-----------------------------------------------------------------------------
(* A module that is served.                                                *)

\* The vector leads from the board to the routine.
Linked(card, slot, vec, isr) ==
  IF Info(card).driver = "ATC40"
  THEN vec \in DOMAIN atc /\ atc[vec] = Entry(isr, card, slot) /\ attached
  ELSE vec \in DOMAIN vme /\ vme[vec] = isr
Good(card, slot, vec, isr, ns) ==
  /\ vec \in Vectors /\ Linked(card, slot, vec, isr)
  /\ \A n \in ns : Lets(card, slot, n)
\* The module gives the vector.
Gives(d, card, slot, vec) == modules[<<Board(card), slot>>].vec = vec \/ (d = "octal" /\ Bare(card))

\* A board with a module of a driver has its carrier, of that kind.
LEMMA KindOfBoard ==
  ASSUME RegistryOK, NEW d \in Drivers, NEW card, NEW slot, Accepts(d, card, slot)
  PROVE  LET p == Info(card).p IN
         /\ p.kind = Info(card).driver /\ p.kind \in Kinds /\ world.boards[Board(card)] = p.kind
         /\ Works(card + 1) /\ Info(card) = carriers[card + 1] /\ slot \in 0 .. 3
<1>1. <<Board(card), slot>> \in Modules /\ LegalSlot(card, slot)
  BY PlaceOf
<1>2. Works(card + 1) /\ Info(card) = carriers[card + 1] /\ slot \in 0 .. 3
  BY <1>1, LegalSlotWorks
<1> DEFINE p == Info(card).p
<1>3. /\ p.kind = Info(card).driver /\ p.kind \in Kinds
      /\ \E c \in world.script : c.op = "add" /\ c.p = p
  BY <1>2, WorkingParameters
<1>4. PICK c \in world.script : c.op = "add" /\ c.p = p
  BY <1>3
<1>5. \A m \in DOMAIN world.plugged : m[1] = IoBase(c.p) => world.boards[m[1]] = c.p.kind
  <2>1. LegalWorld(world) /\ c \in {x \in {y \in world.script : y.op \in {"add"}} : x.p.kind \in Kinds}
    BY <1>3, <1>4, WorldAssumption DEF RegistryOK
  <2> QED BY <2>1 DEF LegalWorld
<1>6. world.boards[Board(card)] = p.kind
  BY <1>1, <1>4, <1>5 DEF Modules, Board
<1> QED BY <1>2, <1>3, <1>6

LEMMA ReachesServed ==
  ASSUME BusInv, CarriersArmed, NEW d \in Drivers, NEW e, NEW i, Accepts(d, e.card, e.slot),
         Gives(d, e.card, e.slot, e.vec), Good(e.card, e.slot, e.vec, Routine(d, i), Interrupts(d))
  PROVE  Served(e, d, i)
<1> DEFINE b == Board(e.card)
           p == Info(e.card).p
<1>1. /\ p.kind = Info(e.card).driver /\ p.kind \in Kinds /\ world.boards[b] = p.kind
      /\ Works(e.card + 1) /\ p = carriers[e.card + 1].p /\ e.slot \in 0 .. 3 /\ b = IoBase(p)
  BY KindOfBoard DEF BusInv, Board
<1>2. modules[Place(e)].vec = e.vec \/ (d = "octal" /\ Bare(e.card))
  BY DEF Gives, Place
<1>3. Handler(b, e.vec) = Routine(d, i)
  <2>1. Linked(e.card, e.slot, e.vec, Routine(d, i))
    BY DEF Good
  <2>2. CASE Info(e.card).driver = "ATC40"
    <3>1. e.vec \in DOMAIN atc /\ atc[e.vec].isr = Routine(d, i) /\ world.boards[b] = "ATC40"
      BY <1>1, <2>1, <2>2 DEF Linked, Entry
    <3> QED BY <3>1 DEF Handler
  <2>3. CASE Info(e.card).driver # "ATC40"
    <3>1. e.vec \in DOMAIN vme /\ vme[e.vec] = Routine(d, i) /\ world.boards[b] # "ATC40"
      BY <1>1, <2>1, <2>3 DEF Linked
    <3> QED BY <3>1 DEF Handler
  <2> QED BY <2>2, <2>3
<1>4. ASSUME NEW n \in Interrupts(d), world.boards[b] = "ATC40" \/ LevelOf(b, <<e.slot, n>>) # 0
      PROVE  Passes(b, <<e.slot, n>>, attached)
  <2> DEFINE l == <<e.slot, n>>
  <2>1. LetsBy(p.kind, boards[b], cpuLevels, l)
    BY <1>4 DEF Good, Lets
  <2>2. l \in Lines
    BY <1>1 DEF Interrupts, Lines
  <2>3. p.kind \in {"AVME96xx", "Hy8002"} => boards[b].gie /\ boards[b].level[l] \in cpuLevels
    <3>1. Armed(p)
      BY <1>1 DEF CarriersArmed, Works
    <3> QED BY <1>1, <2>2, <3>1 DEF Armed
  <2>4. p.kind = "ATC40" => attached
    BY <1>1 DEF Good, Linked
  <2> HIDE DEF l
  <2>5. CASE p.kind \in VipcKinds
    <3>1. LevelOf(b, l) = FixedLevel(p.kind, l) /\ LevelOf(b, l) # 0
      BY <1>1, <1>4, <2>5 DEF LevelOf, l, VipcKinds
    <3> QED BY <1>1, <2>1, <2>5, <3>1 DEF LetsBy, Passes, VipcKinds, l
  <2>6. CASE p.kind \notin VipcKinds
    <3>1. LevelOf(b, l) = boards[b].level[l] /\ (p.kind # "ATC40" => LevelOf(b, l) # 0)
      BY <1>1, <1>4, <2>6 DEF LevelOf, l
    <3> QED BY <1>1, <2>1, <2>3, <2>4, <2>6, <3>1 DEF LetsBy, Passes, Kinds, VipcKinds, l
  <2> QED BY <2>5, <2>6
<1> QED BY <1>2, <1>3, <1>4 DEF Served, Interrupts

-----------------------------------------------------------------------------
(* Connecting a vector.                                                    *)

\* A vector that somebody has cannot be taken, nor taken back, for another slot.
LEMMA ConnectKeeps ==
  ASSUME NEW card, NEW slot, NEW vec, NEW isr, Linked(card, slot, vec, isr), isr.driver # "quiet",
         NEW c, NEW s, NEW v, NEW r, Connected(ipmIntConnect(c, s, v, r)), c # card \/ s # slot, UNCHANGED carriers
  PROVE  Linked(card, slot, vec, isr)'
<1>1. CASE Info(card).driver = "ATC40"
  <2>1. vec \in DOMAIN atc /\ atc[vec] = Entry(isr, card, slot) /\ attached
    BY <1>1 DEF Linked
  <2>2. Owned(vec) /\ atc[vec].card = card /\ atc[vec].slot = slot
    BY <2>1 DEF Owned, Entry
  <2>3. (attached' = attached \/ attached' = (attached \/ ~world.attachFails))
        /\ (atc' = atc \/ (atc' = Unset(atc, v) /\ v # vec) \/ (atc' = Set(atc, v, Entry(r, c, s)) /\ v # vec))
    BY <2>2 DEF Connected, ipmIntConnect, intVecConnectLocked, Connection
  <2>4. vec \in DOMAIN atc' /\ atc'[vec] = atc[vec]
    BY <2>1, <2>3 DEF Set, Unset
  <2> QED BY <1>1, <2>1, <2>3, <2>4 DEF Linked, Info, Entry
<1>2. CASE Info(card).driver # "ATC40"
  <2>1. vec \in DOMAIN vme /\ vme[vec] = isr
    BY <1>2 DEF Linked
  <2>2. vme' = vme \/ (v \notin DOMAIN vme /\ vme' = Set(vme, v, r))
    BY DEF Connected, ipmIntConnect, intVecConnectLocked, Connection
  <2>3. vec \in DOMAIN vme' /\ vme'[vec] = vme[vec]
    BY <2>1, <2>2 DEF Set
  <2> QED BY <1>2, <2>1, <2>3 DEF Linked, Info
<1> QED BY <1>1, <1>2

LEMMA ConnectMade ==
  ASSUME NEW card, NEW slot, NEW vec, NEW isr, isr # Nobody, ~world.attachFails,
         LegalSlot(card, slot), Connected(ipmIntConnect(card, slot, vec, isr)),
         ipmIntConnect(card, slot, vec, isr).status = "OK", UNCHANGED carriers
  PROVE  vec \in Vectors /\ Linked(card, slot, vec, isr)'
<1> DEFINE r == ipmIntConnect(card, slot, vec, isr)
<1>1. vec \in Vectors /\ r = (IF Info(card).driver = "ATC40" THEN intVecConnectLocked(card, slot, vec, isr)
                              ELSE IF vec \in DOMAIN vme THEN Connection("vectorInUse", vme, atc, attached)
                              ELSE Connection("OK", Set(vme, vec, isr), atc, attached))
  BY DEF ipmIntConnect, Connection
<1>2. r.status = "OK" /\ vme' = r.vme /\ atc' = r.atc /\ attached' = r.attached
  BY DEF Connected
<1> HIDE DEF r
<1>3. CASE Info(card).driver = "ATC40"
  <2>1. r = intVecConnectLocked(card, slot, vec, isr)
    BY <1>1, <1>3
  <2>2. atc' = Set(atc, vec, Entry(isr, card, slot)) /\ attached' = (attached \/ ~world.attachFails)
    BY <1>2, <2>1 DEF intVecConnectLocked, Connection
  <2>3. vec \in DOMAIN atc' /\ atc'[vec] = Entry(isr, card, slot) /\ attached'
    BY <2>2 DEF Set
  <2> QED BY <1>1, <1>3, <2>3 DEF Linked, Info, Entry
<1>4. CASE Info(card).driver # "ATC40"
  <2>1. vme' = Set(vme, vec, isr)
    BY <1>1, <1>2, <1>4 DEF Connection
  <2>2. vec \in DOMAIN vme' /\ vme'[vec] = isr
    BY <2>1 DEF Set
  <2> QED BY <1>1, <1>4, <2>2 DEF Linked, Info
<1> QED BY <1>3, <1>4

\* The memory of a module is not in the carrier's own registers, but for a bare TVME200.
LEMMA MemorySpace ==
  ASSUME BusInv, IpicMem(ipic), NEW card, NEW slot, LegalSlot(card, slot), ~Bare(card)
  PROVE  ipmBaseAddr(card, slot, "Mem").am # "A16"
<1> DEFINE p == Info(card).p
<1>1. Works(card + 1) /\ Info(card) = carriers[card + 1] /\ slot \in 0 .. 3
  BY LegalSlotWorks DEF BusInv
<1>2. p.kind \in Kinds /\ p.kind = Info(card).driver /\ Parameters(p)
  BY <1>1, WorkingParameters DEF BusInv
<1>3. ipmBaseAddr(card, slot, "Mem") = baseAddr(p, slot, "Mem", ipic.mem)
  BY DEF ipmBaseAddr
<1> HIDE DEF p
<1>4. \A m, n : m.am # "A16" => SlotMemory(m, n, slot).am # "A16"
  BY DEF SlotMemory, NULL, At
<1>5. CASE p.kind \in VipcKinds
  <2>1. p.args \in 0 .. 3
    BY <1>2, <1>5, VipcIoType
  <2>2. Memory310(p).am = "A24" /\ Memory610(p).am = "A24"
    BY DEF Memory310, Memory610, Memory
  <2>3. Memory616(p).am # "A16"
    <3>1. p.args = 0 \/ p.args = 1 \/ p.args = 2 \/ p.args = 3
      BY <2>1
    <3> QED BY <3>1 DEF Memory616, Memory
  <2>4. baseAddr(p, slot, "Mem", ipic.mem) \in {SlotMemory(Memory310(p), 2, slot), SlotMemory(Memory610(p), 4, slot),
                                                SlotMemory(Memory616(p), 4, slot)}
    BY <1>5 DEF baseAddr, VipcKinds
  <2>5. /\ SlotMemory(Memory310(p), 2, slot).am # "A16" /\ SlotMemory(Memory610(p), 4, slot).am # "A16"
        /\ SlotMemory(Memory616(p), 4, slot).am # "A16"
    BY <1>4, <2>2, <2>3
  <2> QED BY <1>3, <2>4, <2>5
<1>6. CASE p.kind = "TVME200"
  <2>1. TvmeMemory(p).am # "A16"
    BY <1>2, <1>6, TvmeTypes
  <2>2. TvmeMemory(p).size # 0
    BY <1>2, <1>6 DEF Bare, p
  <2>3. baseAddr(p, slot, "Mem", ipic.mem) = At(TvmeMemory(p).am, TvmeMemory(p).base + TvmeMemory(p).size * slot)
    BY <1>6, <2>2 DEF baseAddr, TvmeMem
  <2> QED BY <1>3, <2>1, <2>3 DEF At
<1>7. CASE p.kind = "MVME162"
  <2>1. baseAddr(p, slot, "Mem", ipic.mem) = ipic.mem[slot]
    BY <1>7 DEF baseAddr
  <2> QED BY <1>1, <1>3, <2>1 DEF IpicMem
<1>8. CASE p.kind = "AVME96xx"
  <2>1. baseAddr(p, slot, "Mem", ipic.mem) = XyMem(p, slot)
    BY <1>8 DEF baseAddr
  <2> QED BY <1>3, <2>1 DEF XyMem, NULL, At
<1>9. CASE p.kind = "Hy8002"
  BY <1>3, <1>9 DEF baseAddr, At
<1>10. CASE p.kind = "ATC40"
  BY <1>3, <1>10 DEF baseAddr, At
<1> QED BY <1>2, <1>5, <1>6, <1>7, <1>8, <1>9, <1>10 DEF Kinds, VipcKinds

-----------------------------------------------------------------------------
(* A module stays served while other modules are taken up.                 *)

Stands(d, card, slot, vec, i) ==
  /\ Accepts(d, card, slot) /\ Gives(d, card, slot, vec)
  /\ Good(card, slot, vec, Routine(d, i), Interrupts(d))
SameVec(card, slot) == modules'[<<Board(card), slot>>].vec = modules[<<Board(card), slot>>].vec

\* What a step does to the boards and vectors when it is about slot s of carrier c.
Connects(c, s) == \E v, r : Connected(ipmIntConnect(c, s, v, r))
CommandsTo(c, s) == \E ns : Len(ns) \in Nat /\ DOMAIN ns = 1 .. Len(ns) /\ ipmIrqCmd(c, s, ns)

\* A module goes on giving its vector.
LEMMA StillGives ==
  ASSUME NEW d, NEW card, NEW slot, NEW vec, Gives(d, card, slot, vec), SameVec(card, slot), Info(card)' = Info(card)
  PROVE  Gives(d, card, slot, vec)'
<1>1. Board(card)' = Board(card) /\ (Bare(card)' <=> Bare(card))
  BY DEF Board, Bare
<1> QED BY <1>1 DEF Gives, SameVec

LEMMA StandsElsewhere ==
  ASSUME BusInv, AddedOnce, NEW d \in Drivers, NEW card, NEW slot, NEW vec, NEW i, Stands(d, card, slot, vec, i),
         UNCHANGED <<world, carriers>>, SameVec(card, slot), NEW c, NEW s, c # card \/ s # slot,
         UNCHANGED <<vme, atc, attached>> \/ Connects(c, s),
         UNCHANGED <<boards, cpuLevels>> \/ CommandsTo(c, s)
  PROVE  Stands(d, card, slot, vec, i)'
<1>1. LegalSlot(card, slot)
  BY AcceptsMeans DEF Stands
<1>2. Accepts(d, card, slot)' /\ Board(card)' = Board(card) /\ Info(card)' = Info(card)
  <2>1. Grown
    <3>1. number \in Nat
      BY DEF BusInv, RegistryOK, number
    <3> QED BY <3>1 DEF Grown, number
  <2>2. Accepts(d, card, slot)' /\ Info(card)' = Info(card)
    BY <2>1, AcceptsStays DEF Stands
  <2> QED BY <2>2 DEF Board
<1>3. Linked(card, slot, vec, Routine(d, i))'
  <2>1. Linked(card, slot, vec, Routine(d, i))
    BY DEF Stands, Good
  <2>2. CASE UNCHANGED <<vme, atc, attached>>
    BY <1>2, <2>1, <2>2 DEF Linked
  <2>3. CASE Connects(c, s)
    <3>1. PICK v, r : Connected(ipmIntConnect(c, s, v, r))
      BY <2>3 DEF Connects
    <3> DEFINE isr == Routine(d, i)
    <3>2. isr.driver # "quiet" /\ Linked(card, slot, vec, isr)
      BY <2>1 DEF Routine, Drivers
    <3> HIDE DEF isr
    <3>3. Linked(card, slot, vec, isr)'
      BY <3>1, <3>2, ConnectKeeps
    <3> QED BY <3>3 DEF isr
  <2> QED BY <2>2, <2>3
<1>4. ASSUME NEW n \in Interrupts(d) PROVE Lets(card, slot, n)'
  <2>1. Lets(card, slot, n) /\ n \in {0, 1}
    BY <1>4 DEF Stands, Good, Interrupts
  <2>2. CASE UNCHANGED <<boards, cpuLevels>>
    BY <1>2, <2>1, <2>2 DEF Lets
  <2>3. CASE CommandsTo(c, s)
    <3>1. PICK ns : Len(ns) \in Nat /\ DOMAIN ns = 1 .. Len(ns) /\ ipmIrqCmd(c, s, ns)
      BY <2>3 DEF CommandsTo
    <3> QED BY <1>1, <2>1, <3>1, IrqElsewhere
  <2> QED BY <2>2, <2>3
<1>5. vec \in Vectors /\ Gives(d, card, slot, vec)'
  BY <1>2, StillGives DEF Stands, Good
<1> QED BY <1>2, <1>3, <1>4, <1>5 DEF Stands, Good

LEMMA StandsStill ==
  ASSUME BusInv, NEW d \in Drivers, NEW card, NEW slot, NEW vec, NEW i, Stands(d, card, slot, vec, i),
         UNCHANGED <<world, carriers, vme, atc, attached, boards, cpuLevels>>, SameVec(card, slot)
  PROVE  Stands(d, card, slot, vec, i)'
<1>1. Accepts(d, card, slot)' /\ Board(card)' = Board(card) /\ Info(card)' = Info(card)
  <2>1. Grown
    <3>1. number \in Nat
      BY DEF BusInv, RegistryOK, number
    <3> QED BY <3>1 DEF Grown, number
  <2>2. Accepts(d, card, slot)' /\ Info(card)' = Info(card)
    BY <2>1, AcceptsStays DEF Stands
  <2> QED BY <2>2 DEF Board
<1>2. Linked(card, slot, vec, Routine(d, i))'
  BY <1>1 DEF Stands, Good, Linked
<1>3. \A n \in Interrupts(d) : Lets(card, slot, n)'
  BY <1>1 DEF Stands, Good, Lets
<1>4. vec \in Vectors /\ Gives(d, card, slot, vec)'
  BY <1>1, StillGives DEF Stands, Good
<1> QED BY <1>1, <1>2, <1>3, <1>4 DEF Stands, Good

LEMMA StandsAdd ==
  ASSUME BusInv, NEW d \in Drivers, NEW card, NEW slot, NEW vec, NEW i, Stands(d, card, slot, vec, i),
         NEW c \in world.script, AddCarrier(c), AddedOnce', Grown
  PROVE  Stands(d, card, slot, vec, i)'
<1>1. Accepts(d, card, slot)' /\ Info(card)' = Info(card)
  BY AcceptsStays DEF Stands
<1>2. Board(card)' = Board(card) /\ UNCHANGED <<world, vme, atc, attached>>
  BY <1>1, AddOutcome DEF Board
<1>3. /\ LegalSlot(card, slot) /\ <<Board(card), slot>> \in Modules
      /\ Works(card + 1) /\ Board(card) = IoBase(carriers[card + 1].p)
  <2>1. LegalSlot(card, slot) /\ <<Board(card), slot>> \in Modules
    BY PlaceOf DEF Stands
  <2> QED BY <2>1, LegalSlotWorks DEF BusInv, Board
<1> DEFINE b == Board(card)
           k == card + 1
<1>4. Works(k) /\ b = IoBase(carriers[k].p)
  BY <1>3
<1>5. /\ boards'[b] = boards[b] /\ cpuLevels \subseteq cpuLevels'
      /\ \A s : <<b, s>> \in Modules => modules'[<<b, s>>] = modules[<<b, s>>]
  <2> HIDE DEF k, b
  <2> QED BY <1>4, AddElsewhere
<1>6. Linked(card, slot, vec, Routine(d, i))'
  BY <1>1, <1>2 DEF Stands, Good, Linked
<1>7. ASSUME NEW n \in Interrupts(d) PROVE Lets(card, slot, n)'
  <2>1. LetsBy(Info(card).p.kind, boards[b], cpuLevels, <<slot, n>>)
    BY <1>7 DEF Stands, Good, Lets
  <2>2. LetsBy(Info(card).p.kind, boards[b], cpuLevels', <<slot, n>>)
    BY <1>5, <2>1 DEF LetsBy
  <2> QED BY <1>1, <1>2, <1>5, <2>2 DEF Lets
<1>8. vec \in Vectors /\ Gives(d, card, slot, vec)'
  <2>1. SameVec(card, slot)
    BY <1>3, <1>5 DEF SameVec
  <2> QED BY <1>1, <2>1, StillGives DEF Stands, Good
<1> QED BY <1>1, <1>6, <1>7, <1>8 DEF Stands, Good

\* The interrupt routine of the ATC40 driver leaves its boards on, and takes no
\* vector from anybody.
LEMMA StandsInterrupted ==
  ASSUME BusInv, NEW d \in Drivers, NEW card, NEW slot, NEW vec, NEW i, Stands(d, card, slot, vec, i),
         NEW b \in DOMAIN world.boards, atc40ISR(b), ~world.jam
  PROVE  Stands(d, card, slot, vec, i)'
<1>1. UNCHANGED <<world, carriers, modules, cpuLevels, vme, attached>>
  BY DEF atc40ISR
<1>2. Accepts(d, card, slot)' /\ Board(card)' = Board(card) /\ Info(card)' = Info(card)
  <2>1. Grown
    <3>1. number \in Nat
      BY DEF BusInv, RegistryOK, number
    <3> QED BY <1>1, <3>1 DEF Grown, number
  <2>2. Accepts(d, card, slot)' /\ Info(card)' = Info(card)
    BY <2>1, AcceptsStays DEF Stands
  <2> QED BY <2>2 DEF Board
<1>3. Linked(card, slot, vec, Routine(d, i))'
  <2>1. Linked(card, slot, vec, Routine(d, i))
    BY DEF Stands, Good
  <2>2. PICK lines : atc40UnexpectedVecISR(b, lines)
    BY DEF atc40ISR
  <2> DEFINE stray == {modules[<<b, l[1]>>].vec : l \in lines} \ DOMAIN atc
  <2>3. atc' = [v \in DOMAIN atc \cup stray |-> IF v \in stray THEN Entry(Routine("quiet", v), -1, -1) ELSE atc[v]]
    BY <2>2 DEF atc40UnexpectedVecISR
  <2>4. \A v \in DOMAIN atc : v \notin stray
    OBVIOUS
  <2> HIDE DEF stray
  <2>5. \A v \in DOMAIN atc : v \in DOMAIN atc' /\ atc'[v] = atc[v]
    BY <2>3, <2>4
  <2> QED BY <1>1, <1>2, <2>1, <2>5 DEF Linked
<1>4. ASSUME NEW n \in Interrupts(d) PROVE Lets(card, slot, n)'
  <2>1. LetsBy(Info(card).p.kind, boards[Board(card)], cpuLevels, <<slot, n>>)
    BY <1>4 DEF Stands, Good, Lets
  <2>2. b \in DOMAIN boards /\ DOMAIN boards[b] = {"level", "on", "gie", "edge", "fast"}
    BY DEF BusInv, BoardsOK, IsBoard
  <2>3. \E still : boards' = [boards EXCEPT ![b].gie = ~(world.jam /\ still # Lines)]
    BY DEF atc40ISR
  <2>4. boards' = [boards EXCEPT ![b].gie = TRUE]
    BY <2>3
  <2> DEFINE u == boards[Board(card)]
             v == boards'[Board(card)]
  <2>5. v.level = u.level /\ v.on = u.on /\ (u.gie => v.gie)
    BY <2>2, <2>4
  <2>6. LetsBy(Info(card).p.kind, v, cpuLevels, <<slot, n>>)
    BY <2>1, <2>5 DEF LetsBy
  <2> QED BY <1>1, <1>2, <2>6 DEF Lets
<1>5. vec \in Vectors /\ Gives(d, card, slot, vec)'
  <2>1. SameVec(card, slot)
    BY <1>1 DEF SameVec
  <2> QED BY <1>2, <2>1, StillGives DEF Stands, Good
<1> QED BY <1>2, <1>3, <1>4, <1>5 DEF Stands, Good

LEMMA StandsNew ==
  ASSUME BusInv, NEW d \in Drivers, NEW card, NEW slot, NEW vec, NEW i, Accepts(d, card, slot), ~world.attachFails,
         UNCHANGED <<world, carriers>>, Connected(ipmIntConnect(card, slot, vec, Routine(d, i))),
         ipmIntConnect(card, slot, vec, Routine(d, i)).status = "OK", ipmIrqCmd(card, slot, Asked(d)),
         modules'[<<Board(card), slot>>].vec = vec % 256 \/ (d = "octal" /\ Bare(card))
  PROVE  Stands(d, card, slot, vec, i)'
<1>1. Accepts(d, card, slot)' /\ Board(card)' = Board(card) /\ (Bare(card)' <=> Bare(card)) /\ LegalSlot(card, slot)
  <2>1. Grown
    <3>1. number \in Nat
      BY DEF BusInv, RegistryOK, number
    <3> QED BY <3>1 DEF Grown, number
  <2>2. Accepts(d, card, slot)' /\ Info(card)' = Info(card)
    BY <2>1, AcceptsStays
  <2> QED BY <2>2, AcceptsMeans DEF Board, Bare
<1>2. vec \in Vectors /\ Linked(card, slot, vec, Routine(d, i))'
  <2> DEFINE isr == Routine(d, i)
  <2>1. isr # Nobody
    BY DEF Routine, Nobody, Drivers
  <2> HIDE DEF isr
  <2>2. vec \in Vectors /\ Linked(card, slot, vec, isr)'
    BY <1>1, <2>1, ConnectMade DEF isr
  <2> QED BY <2>2 DEF isr
<1>3. \A n \in Interrupts(d) : Lets(card, slot, n)'
  BY <1>1, IrqEnables
<1>4. Gives(d, card, slot, vec)'
  <2>1. vec % 256 = vec
    BY <1>2 DEF Vectors
  <2> QED BY <1>1, <2>1 DEF Gives
<1> QED BY <1>1, <1>2, <1>3, <1>4 DEF Stands, Good

-----------------------------------------------------------------------------
(* The modules whose vector is connected.                                  *)

Row(d, i) == IF d = "can" THEN can[i] ELSE tty[d].table[i]
Rows(d) == IF d = "can" THEN 1 .. Len(can) ELSE Counted(tty[d])
IsRow(d, i, card, slot, vec) ==
  /\ i \in Rows(d) /\ Row(d, i).ready
  /\ Row(d, i).card = card /\ Row(d, i).slot = slot /\ Row(d, i).vec = vec
ServedRows ==
  \A d \in Drivers : \A i, card, slot, vec : IsRow(d, i, card, slot, vec) => Stands(d, card, slot, vec, i)

LEMMA RowIs ==
  ASSUME DeviceInv, NEW d \in Drivers, NEW i, NEW card, NEW slot, NEW vec, IsRow(d, i, card, slot, vec)
  PROVE  Accepts(d, card, slot) /\ Registered(card, slot)
<1>1. CASE d = "can"
  <2>1. can[i] \in OwnDevices /\ can[i].card = card /\ can[i].slot = slot
    BY <1>1 DEF IsRow, Rows, Row, DeviceInv, CanOK
  <2> QED BY <1>1, <2>1 DEF OwnDevices
<1>2. CASE d \in Serial
  <2>1. TableOK(d) /\ i \in DOMAIN tty[d].table /\ tty[d].table[i].ready
        /\ tty[d].table[i].card = card /\ tty[d].table[i].slot = slot
    BY <1>2 DEF IsRow, Rows, Row, DeviceInv, Serial, Counted
  <2>2. i \in 1 .. Len(tty[d].table) /\ tty[d].table[i] \in Own(d)
    <3> HIDE DEF TableRows
    <3> QED BY <2>1 DEF TableOK, TableShape
  <2> QED BY <2>1, <2>2 DEF Own
<1> QED BY <1>1, <1>2 DEF Drivers, Serial

\* A module of another driver is in another place.
LEMMA RowApart ==
  ASSUME DeviceInv, NEW d \in Drivers, NEW i, NEW card, NEW slot, NEW vec, IsRow(d, i, card, slot, vec),
         NEW e \in Drivers, NEW c, NEW s, Accepts(e, c, s), d = e => c # card \/ s # slot
  PROVE  c # card \/ s # slot
<1>1. Accepts(d, card, slot)
  BY RowIs
<1>2. c = card /\ s = slot => ModuleAt(c, s) = ModuleAt(card, slot)
  OBVIOUS
<1> QED BY <1>1, <1>2, OneDriver

\* A place that the script gives to a driver gets no calls by hand.
LEMMA RowByHand ==
  ASSUME RegistryOK, DeviceInv, NEW d \in Drivers, NEW i, NEW card, NEW slot, NEW vec, IsRow(d, i, card, slot, vec),
         NEW c \in world.script, c.op \in {"irq", "connect"}
  PROVE  c.card # card \/ c.slot # slot
<1>1. PICK g \in world.script : g.op \in Registers /\ g.card = card /\ g.slot = slot
  BY RowIs DEF Registered, Given
<1>2. LegalWorld(world)
  BY WorldAssumption DEF RegistryOK
<1>3. \A x \in {y \in world.script : y.op \in {"irq", "connect"}}, z \in {y \in world.script : y.op \in Registers} :
        x.card # z.card \/ x.slot # z.slot
  BY <1>2 DEF LegalWorld
<1> QED BY <1>1, <1>3

\* Steps that leave the list of devices and the tables as they are.
LEMMA RowStays ==
  ASSUME UNCHANGED <<can, tty>>, NEW d, NEW i, NEW card, NEW slot, NEW vec, IsRow(d, i, card, slot, vec)'
  PROVE  IsRow(d, i, card, slot, vec)
  BY DEF IsRow, Row, Rows

\* A device that is new is not ready.
LEMMA RowListed ==
  ASSUME DeviceInv, NEW c, t810Create(c), NEW d \in Drivers, NEW i, NEW card, NEW slot, NEW vec, IsRow(d, i, card, slot, vec)'
  PROVE  IsRow(d, i, card, slot, vec)
<1>1. UNCHANGED tty /\ (UNCHANGED can \/ can' = Append(can, [name |-> c.name, card |-> c.card, slot |-> c.slot, vec |-> c.vec, ready |-> FALSE]))
  BY DEF t810Create
<1> DEFINE new == [name |-> c.name, card |-> c.card, slot |-> c.slot, vec |-> c.vec, ready |-> FALSE]
<1>2. new.ready = FALSE /\ (UNCHANGED can \/ can' = Append(can, new))
  BY <1>1
<1> HIDE DEF new
<1>3. CASE UNCHANGED can
  BY <1>1, <1>3, RowStays
<1>4. CASE can' = Append(can, new) /\ d = "can"
  <2>1. can \in Seq(DeviceRows)
    BY DEF DeviceInv, CanOK
  <2>2. i \in 1 .. Len(can') /\ can'[i].ready /\ can'[i].card = card /\ can'[i].slot = slot /\ can'[i].vec = vec
    BY <1>4 DEF IsRow, Row, Rows
  <2> HIDE DEF DeviceRows
  <2>3. Len(can) \in Nat /\ Len(can') = Len(can) + 1 /\ can'[Len(can) + 1] = new /\ \A j \in 1 .. Len(can) : can'[j] = can[j]
    BY <1>4, <2>1
  <2>4. i \in 1 .. Len(can)
    BY <1>2, <2>2, <2>3
  <2> QED BY <1>4, <2>2, <2>3, <2>4 DEF IsRow, Row, Rows
<1>5. CASE d # "can"
  BY <1>1, <1>5 DEF IsRow, Row, Rows
<1> QED BY <1>2, <1>3, <1>4, <1>5

LEMMA RowInstalled ==
  ASSUME DeviceInv, NEW e \in Serial, NEW m, Install(e, m), UNCHANGED can,
         NEW d \in Drivers, NEW i, NEW card, NEW slot, NEW vec, IsRow(d, i, card, slot, vec)'
  PROVE  IsRow(d, i, card, slot, vec)
<1>1. CASE UNCHANGED tty
  BY <1>1, RowStays
<1>2. CASE tty' = [tty EXCEPT ![e] = [installed |-> TRUE, last |-> 0, table |-> [j \in 1 .. m |-> Blank]]]
  <2> DEFINE new == [installed |-> TRUE, last |-> 0, table |-> [j \in 1 .. m |-> Blank]]
  <2>1. new.last = 0 /\ tty' = [tty EXCEPT ![e] = new] /\ DOMAIN tty = Serial
    BY <1>2 DEF DeviceInv
  <2> HIDE DEF new
  <2>2. d # e
    <3> SUFFICES ASSUME d = e PROVE FALSE
      OBVIOUS
    <3>1. d # "can" /\ tty'[d] = new /\ DOMAIN new.table = 1 .. m
      BY <1>2, <2>1 DEF Serial
    <3>2. \A k \in Counted(new) : k \in 1 .. m /\ k <= 0
      BY <2>1, <3>1 DEF Counted
    <3>3. i \in Counted(new)
      BY <3>1 DEF IsRow, Rows
    <3> QED BY <3>2, <3>3
  <2>3. d = "can" \/ tty'[d] = tty[d]
    BY <2>1, <2>2 DEF Drivers, Serial
  <2> QED BY <2>3 DEF IsRow, Row, Rows
<1> QED BY <1>1, <1>2 DEF Install

LEMMA RowMarked ==
  ASSUME DeviceInv, MarkCreated, \A e \in Serial : TableChange(e),
         NEW d \in Drivers, NEW i, NEW card, NEW slot, NEW vec, IsRow(d, i, card, slot, vec)'
  PROVE  IsRow(d, i, card, slot, vec)
<1>1. UNCHANGED can /\ pc.drv \in Serial
  BY DEF MarkCreated
<1>2. CASE d = "can"
  BY <1>1, <1>2 DEF IsRow, Row, Rows
<1>3. CASE d # "can"
  <2>1. d \in Serial /\ pc # Idle
    BY <1>1, <1>3 DEF Drivers, Serial, Idle
  <2>2. /\ tty'[d].last = tty[d].last /\ DOMAIN tty'[d].table = DOMAIN tty[d].table
        /\ \A j \in DOMAIN tty[d].table :
              /\ tty'[d].table[j].card = tty[d].table[j].card
              /\ tty'[d].table[j].slot = tty[d].table[j].slot /\ tty'[d].table[j].vec = tty[d].table[j].vec
              /\ tty'[d].table[j].ready = tty[d].table[j].ready
    BY <2>1, MarksKeep
  <2>3. i \in Counted(tty[d]) /\ i \in DOMAIN tty[d].table
    BY <1>3, <2>2 DEF IsRow, Rows, Counted
  <2> QED BY <1>3, <2>2, <2>3 DEF IsRow, Row, Rows
<1> QED BY <1>2, <1>3

\* An entry that a repeated call exposes is not ready.
LEMMA RowCounted ==
  ASSUME DeviceInv, NEW e \in Serial, UNCHANGED can, tty' = [tty EXCEPT ![e].last = tty[e].last + 1],
         NEW d \in Drivers, NEW i, NEW card, NEW slot, NEW vec, IsRow(d, i, card, slot, vec)'
  PROVE  IsRow(d, i, card, slot, vec)
<1>1. CASE d = e
  <2>1. TableShape(tty[e]) /\ RowsOK(tty[e]) /\ d # "can" /\ DOMAIN tty = Serial
    BY <1>1 DEF DeviceInv, TableOK, Serial
  <2>2. tty'[e].table = tty[e].table
    BY <2>1 DEF TableShape
  <2>3. i \in DOMAIN tty[e].table /\ tty[e].table[i].ready
    BY <1>1, <2>1, <2>2 DEF IsRow, Rows, Row, Counted
  <2>4. tty[e].last \in Nat /\ DOMAIN tty[e].table = 1 .. Len(tty[e].table)
    <3> HIDE DEF TableRows
    <3> QED BY <2>1 DEF TableShape
  <2>5. ~(i > tty[e].last)
    BY <2>1, <2>3, <2>4 DEF RowsOK
  <2>6. i \in Counted(tty[e])
    BY <2>3, <2>4, <2>5 DEF Counted
  <2> QED BY <1>1, <2>1, <2>2, <2>6 DEF IsRow, Rows, Row
<1>2. CASE d # e
  <2>1. d = "can" \/ tty'[d] = tty[d]
    BY <1>2 DEF Drivers, Serial, DeviceInv
  <2> QED BY <2>1 DEF IsRow, Row, Rows
<1> QED BY <1>1, <1>2

-----------------------------------------------------------------------------
(* Taking up a module.                                                     *)

\* The TIP810 driver does a device of its list.
LEMMA InitDeviceServes ==
  ASSUME BusInv, DeviceInv, ModulesOK, AddedOnce, ~world.attachFails, ServedRows, InitDevice,
         NEW d \in Drivers, NEW i, NEW card, NEW slot, NEW vec, IsRow(d, i, card, slot, vec)'
  PROVE  Stands(d, card, slot, vec, i)'
<1> DEFINE j == pc.mod
           c == can[pc.mod].card
           s == can[pc.mod].slot
           r == ipmIntConnect(c, s, can[j].vec, Routine("can", j))
<1>1. /\ pc.drv = "can" /\ j <= Len(can) /\ Connected(r) /\ ipmIrqCmd(c, s, EnableOne)
      /\ modules' = [modules EXCEPT ![Place(can[j])] = [vec |-> can[j].vec % 256, on |-> {0}]]
      /\ can' = [can EXCEPT ![j].ready = r.status = "OK"]
      /\ UNCHANGED <<world, carriers, tty>>
  BY DEF InitDevice
<1>2. j \in 1 .. Len(can) /\ can \in Seq(DeviceRows) /\ \A k \in 1 .. Len(can) : can[k] \in OwnDevices
  <2>1. j \in 1 .. Len(can) + 1
    BY <1>1 DEF DeviceInv, PcOK, Serial
  <2>2. can \in Seq(DeviceRows) /\ \A k \in 1 .. Len(can) : can[k] \in OwnDevices
    BY DEF DeviceInv, CanOK
  <2> HIDE DEF DeviceRows
  <2>3. Len(can) \in Nat
    BY <2>2
  <2> QED BY <1>1, <2>1, <2>2, <2>3
<1>3. Accepts("can", c, s) /\ "can" \in Drivers
  BY <1>2 DEF OwnDevices, Drivers
<1>4. Place(can[j]) = <<Board(c), s>> /\ <<Board(c), s>> \in Modules /\ LegalSlot(c, s)
  BY <1>3, PlaceOf DEF Place
<1>5. \A k \in 1 .. Len(can) : can[k] \in DeviceRows
  BY <1>2 DEF OwnDevices
<1>6. /\ Len(can') = Len(can)
      /\ \A k \in 1 .. Len(can) : /\ k # j => can'[k] = can[k]
                                  /\ can'[k].card = can[k].card /\ can'[k].slot = can[k].slot /\ can'[k].vec = can[k].vec
      /\ can'[j].ready => r.status = "OK"
  <2> DEFINE ok == r.status = "OK"
             e == [can[j] EXCEPT !.ready = ok]
  <2>1. can' = [can EXCEPT ![j] = e] /\ can[j] \in DeviceRows /\ ok \in BOOLEAN
    BY <1>1, <1>2, <1>5
  <2>2. e \in DeviceRows /\ e.card = can[j].card /\ e.slot = can[j].slot /\ e.vec = can[j].vec /\ e.ready = ok
    <3> HIDE DEF ok, j
    <3> QED BY <2>1 DEF DeviceRows
  <2>3. ok => r.status = "OK"
    OBVIOUS
  <2> HIDE DEF e, ok, j, r, DeviceRows
  <2>4. Len(can') = Len(can) /\ can'[j] = e /\ \A k \in 1 .. Len(can) : k # j => can'[k] = can[k]
    BY <1>2, <2>1, <2>2
  <2> QED BY <2>2, <2>3, <2>4
<1>7. CASE d = "can" /\ i = j
  <2>1. card = c /\ slot = s /\ vec = can[j].vec /\ r.status = "OK" /\ i = pc.mod
    BY <1>2, <1>6, <1>7 DEF IsRow, Row, Rows
  <2>2. /\ Connected(ipmIntConnect(card, slot, vec, Routine(d, i)))
        /\ ipmIntConnect(card, slot, vec, Routine(d, i)).status = "OK" /\ ipmIrqCmd(card, slot, Asked(d))
    BY <1>1, <1>7, <2>1 DEF Asked
  <2>3. modules'[<<Board(card), slot>>].vec = vec % 256
    <3>1. DOMAIN modules = Modules
      BY DEF ModulesOK
    <3> QED BY <1>1, <1>4, <2>1, <3>1
  <2>4. Accepts(d, card, slot) /\ UNCHANGED <<world, carriers>>
    BY <1>1, <1>3, <1>7, <2>1
  <2> QED BY <2>2, <2>3, <2>4, StandsNew
<1>8. CASE ~(d = "can" /\ i = j)
  <2>1. IsRow(d, i, card, slot, vec)
    <3>1. CASE d = "can"
      <4>1. i \in 1 .. Len(can) /\ can'[i] = can[i] /\ can'[i].ready /\ can'[i].card = card /\ can'[i].slot = slot /\ can'[i].vec = vec
        BY <1>6, <1>8, <3>1 DEF IsRow, Row, Rows
      <4> QED BY <3>1, <4>1 DEF IsRow, Row, Rows
    <3>2. CASE d # "can"
      BY <1>1, <3>2 DEF IsRow, Row, Rows
    <3> QED BY <3>1, <3>2
  <2>2. Stands(d, card, slot, vec, i)
    BY <2>1 DEF ServedRows
  <2>3. d = "can" => c # card \/ s # slot
    <3> SUFFICES ASSUME d = "can" PROVE c # card \/ s # slot
      OBVIOUS
    <3>1. i \in 1 .. Len(can) /\ can[i].card = card /\ can[i].slot = slot /\ i # j
      BY <1>8, <2>1 DEF IsRow, Row, Rows
    <3> QED BY <1>2, <3>1 DEF DeviceInv, CanOK
  <2>4. c # card \/ s # slot
    <3> HIDE DEF c, s, j
    <3>1. "can" = d => c # card \/ s # slot
      BY <2>3
    <3> QED BY <1>3, <2>1, <3>1, RowApart
  <2>5. SameVec(card, slot)
    <3>1. LegalSlot(card, slot) /\ <<Board(card), slot>> \in Modules
      BY <2>2, PlaceOf DEF Stands
    <3>2. <<Board(card), slot>> # <<Board(c), s>>
      <4> HIDE DEF c, s
      <4> QED BY <1>4, <2>4, <3>1, PlacesDistinct
    <3>3. DOMAIN modules = Modules
      BY DEF ModulesOK
    <3> QED BY <1>1, <1>4, <3>1, <3>2, <3>3 DEF SameVec
  <2>6. Connects(c, s) /\ CommandsTo(c, s)
    <3>1. Connects(c, s)
      BY <1>1 DEF Connects
    <3>2. Len(EnableOne) \in Nat /\ DOMAIN EnableOne = 1 .. Len(EnableOne)
      BY DEF EnableOne
    <3> QED BY <1>1, <3>1, <3>2 DEF CommandsTo
  <2>7. UNCHANGED <<world, carriers>>
    BY <1>1
  <2> HIDE DEF c, s
  <2> QED BY <2>2, <2>4, <2>5, <2>6, <2>7, StandsElsewhere
<1> QED BY <1>7, <1>8

\* A serial driver takes up the module of c, with success (r) or without.
TakesIn(d, c, r) ==
  LET n == tty[d].last + 1
      isr == Routine(d, n) IN
  /\ n <= Len(tty[d].table) /\ Accepts(d, c.card, c.slot) /\ ~Known(tty[d], c.card, c.slot)
  /\ UNCHANGED <<world, carriers, can>> /\ \A e \in Serial : e # d => tty'[e] = tty[e]
  /\ tty'[d] = [tty[d] EXCEPT !.last = IF r THEN n ELSE @, !.table[n] = [NewEntry(c) EXCEPT !.ready = r]]
  /\ UNCHANGED <<vme, atc, attached>> \/ Connects(c.card, c.slot)
  /\ UNCHANGED <<boards, cpuLevels>> \/ CommandsTo(c.card, c.slot)
  /\ \A m \in Modules : m # <<Board(c.card), c.slot>> => modules'[m].vec = modules[m].vec
  /\ r => /\ Connected(ipmIntConnect(c.card, c.slot, c.vec, isr)) /\ ipmIntConnect(c.card, c.slot, c.vec, isr).status = "OK"
          /\ ipmIrqCmd(c.card, c.slot, Asked(d))
          /\ modules'[<<Board(c.card), c.slot>>].vec = c.vec % 256 \/ (d = "octal" /\ Bare(c.card))

LEMMA TakenServes ==
  ASSUME BusInv, DeviceInv, ModulesOK, AddedOnce, ~world.attachFails, ServedRows,
         NEW e \in Serial, NEW c, NEW r \in BOOLEAN, TakesIn(e, c, r),
         NEW d \in Drivers, NEW i, NEW card, NEW slot, NEW vec, IsRow(d, i, card, slot, vec)'
  PROVE  Stands(d, card, slot, vec, i)'
<1> DEFINE n == tty[e].last + 1
           new == [NewEntry(c) EXCEPT !.ready = r]
<1>1. /\ n <= Len(tty[e].table) /\ Accepts(e, c.card, c.slot) /\ ~Known(tty[e], c.card, c.slot)
      /\ UNCHANGED <<world, carriers, can>> /\ \A x \in Serial : x # e => tty'[x] = tty[x]
      /\ tty'[e] = [tty[e] EXCEPT !.last = IF r THEN n ELSE @, !.table[n] = new]
  BY DEF TakesIn
<1>2. new.card = c.card /\ new.slot = c.slot /\ new.vec = c.vec /\ new.ready = r
  BY NewEntryIs
<1>3. TableShape(tty[e]) /\ RowsOK(tty[e]) /\ e \in Drivers /\ e # "can"
  BY DEF DeviceInv, TableOK, Serial, Drivers
<1>4. n = tty[e].last + 1
  OBVIOUS
<1> HIDE DEF new, n
<1>5. /\ tty'[e].last = (IF r THEN n ELSE tty[e].last) /\ tty'[e].table[n] = new
      /\ DOMAIN tty'[e].table = DOMAIN tty[e].table
      /\ \A k \in DOMAIN tty[e].table : k # n => tty'[e].table[k] = tty[e].table[k]
      /\ tty[e].last \in Nat /\ n \in Nat /\ DOMAIN tty[e].table = 1 .. Len(tty[e].table)
  <2>1. DOMAIN tty[e] = {"installed", "last", "table"} /\ tty[e].last \in Nat /\ tty[e].table \in Seq(TableRows)
    BY <1>3 DEF TableShape
  <2> DEFINE u == tty[e]
             t == tty[e].table
             x == [t EXCEPT ![n] = new]
  <2>2. tty'[e] = [u EXCEPT !.last = IF r THEN n ELSE u.last, !.table = x]
    BY <1>1, <2>1
  <2> HIDE DEF x, TableRows
  <2>3. tty'[e].last = (IF r THEN n ELSE tty[e].last) /\ tty'[e].table = x
    BY <2>1, <2>2
  <2>4. DOMAIN t = 1 .. Len(t) /\ Len(t) \in Nat /\ n \in 1 .. Len(t)
    BY <1>1, <1>4, <2>1
  <2>5. DOMAIN x = DOMAIN t /\ x[n] = new /\ \A k \in DOMAIN t : k # n => x[k] = t[k]
    BY <2>4 DEF x
  <2> QED BY <2>1, <2>3, <2>4, <2>5
<1>6. CASE d = e /\ i = n /\ r
  <2>1. card = c.card /\ slot = c.slot /\ vec = c.vec /\ i = tty[e].last + 1
    BY <1>2, <1>3, <1>4, <1>5, <1>6 DEF IsRow, Row, Rows
  <2>2. /\ Connected(ipmIntConnect(card, slot, vec, Routine(d, i)))
        /\ ipmIntConnect(card, slot, vec, Routine(d, i)).status = "OK" /\ ipmIrqCmd(card, slot, Asked(d))
        /\ modules'[<<Board(card), slot>>].vec = vec % 256 \/ (d = "octal" /\ Bare(card))
    BY <1>6, <2>1 DEF TakesIn
  <2>3. Accepts(d, card, slot) /\ UNCHANGED <<world, carriers>>
    BY <1>1, <1>6, <2>1
  <2> QED BY <2>2, <2>3, StandsNew
<1>7. CASE ~(d = e /\ i = n /\ r)
  <2>1. IsRow(d, i, card, slot, vec)
    <3>1. CASE d = e
      <4>1. i \in DOMAIN tty[e].table /\ i <= tty'[e].last /\ tty'[e].table[i].ready /\ tty'[e].table[i].card = card
            /\ tty'[e].table[i].slot = slot /\ tty'[e].table[i].vec = vec
        BY <1>3, <1>5, <3>1 DEF IsRow, Row, Rows, Counted
      <4>2. i # n
        BY <1>2, <1>5, <1>7, <3>1, <4>1
      <4>3. i \in Counted(tty[e])
        BY <1>4, <1>5, <4>1, <4>2 DEF Counted
      <4> QED BY <1>3, <1>5, <3>1, <4>1, <4>2, <4>3 DEF IsRow, Row, Rows
    <3>2. CASE d # e
      <4>1. d = "can" \/ tty'[d] = tty[d]
        BY <1>1, <3>2 DEF Drivers, Serial
      <4> QED BY <1>1, <4>1 DEF IsRow, Row, Rows
    <3> QED BY <3>1, <3>2
  <2>2. Stands(d, card, slot, vec, i)
    BY <2>1 DEF ServedRows
  <2>3. d = e => c.card # card \/ c.slot # slot
    <3> SUFFICES ASSUME d = e PROVE c.card # card \/ c.slot # slot
      OBVIOUS
    <3>1. i \in Counted(tty[e]) /\ tty[e].table[i].card = card /\ tty[e].table[i].slot = slot
      BY <1>3, <2>1 DEF IsRow, Row, Rows
    <3> QED BY <1>1, <3>1 DEF Known
  <2> DEFINE a == c.card
             s == c.slot
  <2>4. Accepts(e, a, s) /\ (d = e => a # card \/ s # slot)
    BY <1>1, <2>3
  <2>5. /\ UNCHANGED <<world, carriers>>
        /\ UNCHANGED <<vme, atc, attached>> \/ Connects(a, s)
        /\ UNCHANGED <<boards, cpuLevels>> \/ CommandsTo(a, s)
        /\ \A m \in Modules : m # <<Board(a), s>> => modules'[m].vec = modules[m].vec
    BY DEF TakesIn
  <2> HIDE DEF a, s
  <2>6. a # card \/ s # slot
    BY <1>3, <2>1, <2>4, RowApart
  <2>7. SameVec(card, slot)
    <3>1. LegalSlot(card, slot) /\ <<Board(card), slot>> \in Modules
      BY <2>2, PlaceOf DEF Stands
    <3>2. LegalSlot(a, s)
      BY <1>3, <2>4, PlaceOf
    <3>3. <<Board(card), slot>> # <<Board(a), s>>
      BY <2>6, <3>1, <3>2, PlacesDistinct
    <3> QED BY <2>5, <3>1, <3>3 DEF SameVec
  <2> QED BY <2>2, <2>5, <2>6, <2>7, StandsElsewhere
<1> QED BY <1>6, <1>7

\* Turning interrupts on or off changes no vector.
LEMMA OnlyOn ==
  ASSUME ModulesOK, NEW m \in Modules, NEW x, NEW on, modules' = [modules EXCEPT ![x].on = on]
  PROVE  modules'[m].vec = modules[m].vec
<1>1. modules[m] \in [vec : Vectors, on : SUBSET Ports] /\ m \in DOMAIN modules
  BY DEF ModulesOK
<1> QED BY <1>1

\* Nothing but the count of entries changes.
CountsIn(e) ==
  /\ UNCHANGED <<world, carriers, can, modules, vme, atc, attached, boards, cpuLevels>>
  /\ UNCHANGED tty \/ tty' = [tty EXCEPT ![e].last = tty[e].last + 1]

LEMMA OctalTakes ==
  ASSUME BusInv, DeviceInv, ModulesOK, IpicMem(ipic), NEW c \in world.script, tyGSOctalModuleInit(c)
  PROVE  CountsIn("octal") \/ \E r \in BOOLEAN : TakesIn("octal", c, r)
<1> DEFINE t == tty["octal"]
           n == t.last + 1
           new == NewEntry(c)
           probe == OctalVector(c.card, c.slot)
           r == ipmIntConnect(c.card, c.slot, c.vec, Routine("octal", n))
           good == t.installed /\ c.type \in DOMAIN OctalModel /\ ipmValidate(c.card, c.slot, 240, OctalModel[c.type]) = "OK"
           m == <<Board(c.card), c.slot>>
<1>1. UNCHANGED <<world, carriers, can>> /\ DOMAIN tty = Serial /\ DOMAIN modules = Modules
  BY DEF tyGSOctalModuleInit, DeviceInv, ModulesOK
<1> DEFINE Takes ==
             /\ good /\ n <= Len(t.table) /\ ~Known(t, c.card, c.slot)
             /\ modules' = CASE probe = "written" -> [modules EXCEPT ![m].vec = c.vec % 256]
                             [] probe = "lost" -> LoseVector(c.card, c.vec)
                             [] OTHER -> modules
             /\ IF probe # "fails" THEN Connected(r) ELSE UNCHANGED <<vme, atc, attached>>
             /\ IF probe # "fails" /\ r.status = "OK"
                THEN /\ ipmIrqCmd(c.card, c.slot, BothLines)
                     /\ tty' = [tty EXCEPT !["octal"].last = n, !["octal"].table[n] = [new EXCEPT !.ready = TRUE]]
                ELSE /\ tty' = [tty EXCEPT !["octal"].table[n] = new]
                     /\ UNCHANGED <<boards, cpuLevels>>
<1>2. \/ /\ UNCHANGED tty \/ tty' = [tty EXCEPT !["octal"].last = n]
         /\ UNCHANGED <<modules, vme, atc, attached, boards, cpuLevels>>
      \/ Takes
  BY DEF tyGSOctalModuleInit
<1>3. CASE /\ UNCHANGED tty \/ tty' = [tty EXCEPT !["octal"].last = n]
           /\ UNCHANGED <<modules, vme, atc, attached, boards, cpuLevels>>
  BY <1>1, <1>3 DEF CountsIn
<1>4. ASSUME Takes
      PROVE  \E q \in BOOLEAN : TakesIn("octal", c, q)
  <2> DEFINE ok == probe # "fails" /\ r.status = "OK"
  <2>1. Accepts("octal", c.card, c.slot) /\ m \in Modules /\ LegalSlot(c.card, c.slot)
    <3>1. Accepts("octal", c.card, c.slot)
      BY <1>4, OctalAccepts
    <3>2. "octal" \in Drivers
      BY DEF Drivers
    <3> QED BY <3>1, <3>2, PlaceOf
  <2>2. probe \in {"fails", "lost", "written"} /\ (probe = "lost" => Bare(c.card))
    <3>1. ~Bare(c.card) => ipmBaseAddr(c.card, c.slot, "Mem").am # "A16"
      BY <2>1, MemorySpace
    <3> QED BY <3>1 DEF OctalVector
  <2>3. "octal" \in Serial
    BY DEF Serial
  <2>4. \A x \in Serial : x # "octal" => tty'[x] = tty[x]
    BY <1>1, <1>4
  <2>5. new = [id |-> c.id, card |-> c.card, slot |-> c.slot, vec |-> c.vec, ready |-> FALSE, created |-> {}]
    BY NewEntryIs
  <2>6. DOMAIN t = {"installed", "last", "table"}
    BY <2>3 DEF DeviceInv, TableOK, TableShape
  <2>7. tty'["octal"] = [t EXCEPT !.last = IF ok THEN n ELSE @, !.table[n] = [new EXCEPT !.ready = ok]]
    <3>1. CASE ok
      BY <1>1, <1>4, <2>3, <3>1
    <3>2. CASE ~ok
      <4>1. tty'["octal"] = [t EXCEPT !.table[n] = new]
        BY <1>1, <1>4, <2>3, <3>2
      <4>2. [new EXCEPT !.ready = FALSE] = new
        <5>1. DOMAIN new = {"id", "card", "slot", "vec", "ready", "created"} /\ new.ready = FALSE
          BY <2>5
        <5> HIDE DEF new
        <5>2. new = [x \in DOMAIN new |-> new[x]]
          BY <2>5
        <5>3. [new EXCEPT !.ready = FALSE] = [x \in DOMAIN new |-> IF x = "ready" THEN FALSE ELSE new[x]]
          BY <5>1
        <5> QED BY <5>1, <5>2, <5>3
      <4>3. ok = FALSE
        BY <3>2
      <4> HIDE DEF ok, new, n
      <4>4. [t EXCEPT !.last = @, !.table[n] = new] = [t EXCEPT !.table[n] = new]
        BY <2>6
      <4> QED BY <4>1, <4>2, <4>3, <4>4
    <3> QED BY <3>1, <3>2
  <2>8. UNCHANGED <<vme, atc, attached>> \/ Connects(c.card, c.slot)
    BY <1>4 DEF Connects
  <2>9. UNCHANGED <<boards, cpuLevels>> \/ CommandsTo(c.card, c.slot)
    <3>1. Len(BothLines) \in Nat /\ DOMAIN BothLines = 1 .. Len(BothLines)
      BY DEF BothLines
    <3> QED BY <1>4, <3>1 DEF CommandsTo
  <2>10. \A x \in Modules : x # m => modules'[x].vec = modules[x].vec
    <3>1. CASE probe = "lost"
      <4>1. modules' = LoseVector(c.card, c.vec)
        BY <1>4, <3>1
      <4>2. TurnsOne(modules')
        BY <4>1, LoseVectorIs
      <4> QED BY <4>2, OnlyOn DEF TurnsOne
    <3>2. CASE probe # "lost"
      BY <1>1, <1>4, <3>2
    <3> QED BY <3>1, <3>2
  <2>11. ok => modules'[m].vec = c.vec % 256 \/ Bare(c.card)
    <3>1. DOMAIN modules[m] = {"vec", "on"}
      BY <2>1 DEF ModulesOK
    <3>2. CASE probe = "written"
      BY <1>1, <1>4, <2>1, <3>1, <3>2
    <3> QED BY <2>2, <3>2
  <2>12. ok \in BOOLEAN
    OBVIOUS
  <2>13. ok => Connected(r) /\ r.status = "OK" /\ ipmIrqCmd(c.card, c.slot, Asked("octal"))
    BY <1>4 DEF Asked
  <2>14. n <= Len(t.table) /\ ~Known(t, c.card, c.slot)
    BY <1>4
  <2> HIDE DEF ok
  <2>15. TakesIn("octal", c, ok)
    BY <1>1, <2>1, <2>4, <2>7, <2>8, <2>9, <2>10, <2>11, <2>13, <2>14 DEF TakesIn
  <2> QED BY <2>12, <2>15
<1> QED BY <1>2, <1>3, <1>4

LEMMA Ip520Takes ==
  ASSUME BusInv, DeviceInv, ModulesOK, NEW c \in world.script, IP520ModuleInit(c)
  PROVE  CountsIn("ip520") \/ \E r \in BOOLEAN : TakesIn("ip520", c, r)
<1> DEFINE t == tty["ip520"]
           n == t.last + 1
           new == NewEntry(c)
           r == ipmIntConnect(c.card, c.slot, c.vec, Routine("ip520", n))
           good == t.installed /\ c.type = "232" /\ ipmValidate(c.card, c.slot, 163, 36) = "OK"
           m == <<Board(c.card), c.slot>>
           ok == r.status = "OK"
<1>1. UNCHANGED <<world, carriers, can>> /\ DOMAIN tty = Serial /\ DOMAIN modules = Modules
  BY DEF IP520ModuleInit, DeviceInv, ModulesOK
<1>2. \/ /\ UNCHANGED tty \/ tty' = [tty EXCEPT !["ip520"].last = n]
         /\ UNCHANGED <<modules, vme, atc, attached, boards, cpuLevels>>
      \/ /\ good /\ n <= Len(t.table) /\ ~Known(t, c.card, c.slot)
         /\ modules' = [modules EXCEPT ![m] = [vec |-> c.vec % 256, on |-> {}]]
         /\ Connected(r)
         /\ IF ok THEN ipmIrqCmd(c.card, c.slot, BothLines) ELSE UNCHANGED <<boards, cpuLevels>>
         /\ tty' = [tty EXCEPT !["ip520"].last = IF ok THEN n ELSE @, !["ip520"].table[n] = [new EXCEPT !.ready = ok]]
  BY DEF IP520ModuleInit
<1>3. CASE /\ UNCHANGED tty \/ tty' = [tty EXCEPT !["ip520"].last = n]
           /\ UNCHANGED <<modules, vme, atc, attached, boards, cpuLevels>>
  BY <1>1, <1>3 DEF CountsIn
<1>4. ASSUME /\ good /\ n <= Len(t.table) /\ ~Known(t, c.card, c.slot)
             /\ modules' = [modules EXCEPT ![m] = [vec |-> c.vec % 256, on |-> {}]]
             /\ Connected(r)
             /\ IF ok THEN ipmIrqCmd(c.card, c.slot, BothLines) ELSE UNCHANGED <<boards, cpuLevels>>
             /\ tty' = [tty EXCEPT !["ip520"].last = IF ok THEN n ELSE @, !["ip520"].table[n] = [new EXCEPT !.ready = ok]]
      PROVE  \E q \in BOOLEAN : TakesIn("ip520", c, q)
  <2>1. Accepts("ip520", c.card, c.slot) /\ m \in Modules
    <3>1. Accepts("ip520", c.card, c.slot) /\ "ip520" \in Drivers
      BY <1>4 DEF Accepts, Types, Drivers
    <3> QED BY <3>1, PlaceOf
  <2>2. "ip520" \in Serial
    BY DEF Serial
  <2>3. \A x \in Serial : x # "ip520" => tty'[x] = tty[x]
    BY <1>1, <1>4
  <2>4. tty'["ip520"] = [t EXCEPT !.last = IF ok THEN n ELSE @, !.table[n] = [new EXCEPT !.ready = ok]]
    BY <1>1, <1>4, <2>2
  <2>5. Connects(c.card, c.slot)
    BY <1>4 DEF Connects
  <2>6. UNCHANGED <<boards, cpuLevels>> \/ CommandsTo(c.card, c.slot)
    <3>1. Len(BothLines) \in Nat /\ DOMAIN BothLines = 1 .. Len(BothLines)
      BY DEF BothLines
    <3> QED BY <1>4, <3>1 DEF CommandsTo
  <2>7. \A x \in Modules : x # m => modules'[x].vec = modules[x].vec
    BY <1>1, <1>4
  <2>8. ok => /\ Connected(r) /\ r.status = "OK" /\ ipmIrqCmd(c.card, c.slot, Asked("ip520")) /\ modules'[m].vec = c.vec % 256
    BY <1>1, <1>4, <2>1 DEF Asked
  <2>9. ok \in BOOLEAN
    OBVIOUS
  <2> HIDE DEF ok
  <2>10. TakesIn("ip520", c, ok)
    BY <1>1, <1>4, <2>1, <2>3, <2>4, <2>5, <2>6, <2>7, <2>8 DEF TakesIn
  <2> QED BY <2>9, <2>10
<1> QED BY <1>2, <1>3, <1>4

-----------------------------------------------------------------------------
(* What the steps do to the modules that are served.                       *)

ServesAll == \A d \in Drivers : \A i, card, slot, vec : IsRow(d, i, card, slot, vec)' => Stands(d, card, slot, vec, i)'

\* Steps that are not about any interrupt.
LEMMA ServesStill ==
  ASSUME BusInv, ServedRows, UNCHANGED <<world, carriers, vme, atc, attached, boards, cpuLevels>>,
         \A m \in Modules : modules'[m].vec = modules[m].vec,
         \A d \in Drivers : \A i, card, slot, vec : IsRow(d, i, card, slot, vec)' => IsRow(d, i, card, slot, vec)
  PROVE  ServesAll
<1> SUFFICES ASSUME NEW d \in Drivers, NEW i, NEW card, NEW slot, NEW vec, IsRow(d, i, card, slot, vec)'
             PROVE  Stands(d, card, slot, vec, i)'
  BY DEF ServesAll
<1>1. IsRow(d, i, card, slot, vec)
  OBVIOUS
<1>2. Stands(d, card, slot, vec, i)
  BY <1>1 DEF ServedRows
<1>3. <<Board(card), slot>> \in Modules
  BY <1>2, PlaceOf DEF Stands
<1>4. SameVec(card, slot)
  BY <1>3 DEF SameVec
<1> QED BY <1>2, <1>4, StandsStill

LEMMA ServesAdd ==
  ASSUME BusInv, ServedRows, NEW c \in world.script, AddCarrier(c), AddedOnce', Grown
  PROVE  ServesAll
<1> SUFFICES ASSUME NEW d \in Drivers, NEW i, NEW card, NEW slot, NEW vec, IsRow(d, i, card, slot, vec)'
             PROVE  Stands(d, card, slot, vec, i)'
  BY DEF ServesAll
<1>1. UNCHANGED <<can, tty>>
  BY DEF AddCarrier
<1>2. IsRow(d, i, card, slot, vec)
  BY <1>1, RowStays
<1>3. Stands(d, card, slot, vec, i)
  BY <1>2 DEF ServedRows
<1> QED BY <1>3, StandsAdd

\* A command given to the carrier layer by hand resets no other module.
LEMMA CommandResets ==
  ASSUME BusInv, AddedOnce, NEW c, NEW s, NEW ns, Len(ns) \in Nat, DOMAIN ns = 1 .. Len(ns), ipmIrqCmd(c, s, ns),
         modules' = Reset(ResetBy(c, s, ns)), NEW card, NEW slot, LegalSlot(card, slot), c # card \/ s # slot,
         <<Board(card), slot>> \in Modules
  PROVE  SameVec(card, slot)
<1>1. <<Board(card), slot>> \notin ResetBy(c, s, ns)
  <2>1. CASE ~LegalLines(c, s, ns)
    BY <2>1 DEF ResetBy
  <2>2. CASE LegalLines(c, s, ns)
    <3>1. PICK a : Commanding(c, s, ns, a)
      BY <2>2, IrqBoards
    <3>2. LegalSlot(c, s) /\ a.reset \subseteq {s} /\ a = Commanded(c, s, boards[Board(c)], ns)
      BY <3>1 DEF Commanding, OtherLines
    <3>3. ResetBy(c, s, ns) \subseteq {<<Board(c), s>>}
      BY <2>2, <3>2 DEF ResetBy, Board
    <3>4. <<Board(c), s>> # <<Board(card), slot>>
      BY <3>2, PlacesDistinct
    <3> QED BY <3>3, <3>4
  <2> QED BY <2>1, <2>2
<1> QED BY <1>1 DEF SameVec, Reset

\* Calls by hand are about other places.
LEMMA ServesByHand ==
  ASSUME BusInv, DeviceInv, AddedOnce, ServedRows, NEW c \in world.script, IrqCommand(c) \/ IntConnect(c)
  PROVE  ServesAll
<1> SUFFICES ASSUME NEW d \in Drivers, NEW i, NEW card, NEW slot, NEW vec, IsRow(d, i, card, slot, vec)'
             PROVE  Stands(d, card, slot, vec, i)'
  BY DEF ServesAll
<1>1. UNCHANGED <<can, tty, world, carriers>> /\ c.op \in {"irq", "connect"}
  BY DEF IrqCommand, IntConnect, busVars
<1>2. IsRow(d, i, card, slot, vec)
  BY <1>1, RowStays
<1>3. Stands(d, card, slot, vec, i)
  BY <1>2 DEF ServedRows
<1>4. LegalSlot(card, slot) /\ <<Board(card), slot>> \in Modules
  BY <1>3, PlaceOf DEF Stands
<1>5. c.card # card \/ c.slot # slot
  BY <1>1, <1>2, RowByHand DEF BusInv
<1>6. CASE IrqCommand(c)
  <2> DEFINE ns == <<c.n>>
  <2>1. Len(ns) \in Nat /\ DOMAIN ns = 1 .. Len(ns)
    OBVIOUS
  <2>2. ipmIrqCmd(c.card, c.slot, ns) /\ modules' = Reset(ResetBy(c.card, c.slot, ns)) /\ UNCHANGED <<vme, atc, attached>>
    BY <1>6 DEF IrqCommand
  <2> HIDE DEF ns
  <2>3. SameVec(card, slot)
    BY <1>4, <1>5, <2>1, <2>2, CommandResets
  <2>4. CommandsTo(c.card, c.slot)
    BY <2>1, <2>2 DEF CommandsTo
  <2> QED BY <1>1, <1>3, <1>5, <2>2, <2>3, <2>4, StandsElsewhere
<1>7. CASE IntConnect(c)
  <2>1. Connects(c.card, c.slot) /\ UNCHANGED <<boards, cpuLevels, modules>>
    BY <1>7 DEF IntConnect, Connects, busVars
  <2>2. SameVec(card, slot)
    BY <2>1 DEF SameVec
  <2> QED BY <1>1, <1>3, <1>5, <2>1, <2>2, StandsElsewhere
<1> QED BY <1>6, <1>7

LEMMA ServesInterrupted ==
  ASSUME BusInv, ServedRows, NEW b \in DOMAIN world.boards, atc40ISR(b), ~world.jam
  PROVE  ServesAll
<1> SUFFICES ASSUME NEW d \in Drivers, NEW i, NEW card, NEW slot, NEW vec, IsRow(d, i, card, slot, vec)'
             PROVE  Stands(d, card, slot, vec, i)'
  BY DEF ServesAll
<1>1. UNCHANGED <<can, tty>>
  BY DEF atc40ISR
<1>2. IsRow(d, i, card, slot, vec)
  BY <1>1, RowStays
<1>3. Stands(d, card, slot, vec, i)
  BY <1>2 DEF ServedRows
<1> QED BY <1>3, StandsInterrupted

\* The calls that register a module with a serial driver.
LEMMA ServesTakenUp ==
  ASSUME BusInv, DeviceInv, ModulesOK, AddedOnce, ~world.attachFails, ServedRows, NEW e \in Serial, NEW c,
         CountsIn(e) \/ \E r \in BOOLEAN : TakesIn(e, c, r)
  PROVE  ServesAll
<1>1. CASE \E r \in BOOLEAN : TakesIn(e, c, r)
  <2>1. PICK r \in BOOLEAN : TakesIn(e, c, r)
    BY <1>1
  <2> SUFFICES ASSUME NEW d \in Drivers, NEW i, NEW card, NEW slot, NEW vec, IsRow(d, i, card, slot, vec)'
               PROVE  Stands(d, card, slot, vec, i)'
    BY DEF ServesAll
  <2> QED BY <2>1, TakenServes
<1>2. CASE CountsIn(e)
  <2>1. /\ UNCHANGED <<world, carriers, vme, atc, attached, boards, cpuLevels, can>>
        /\ \A m \in Modules : modules'[m].vec = modules[m].vec
    BY <1>2 DEF CountsIn
  <2>2. ASSUME NEW d \in Drivers, NEW i, NEW card, NEW slot, NEW vec, IsRow(d, i, card, slot, vec)'
        PROVE  IsRow(d, i, card, slot, vec)
    <3>1. CASE UNCHANGED tty
      BY <2>1, <2>2, <3>1, RowStays
    <3>2. CASE tty' = [tty EXCEPT ![e].last = tty[e].last + 1]
      BY <2>1, <2>2, <3>2, RowCounted
    <3> QED BY <1>2, <3>1, <3>2 DEF CountsIn
  <2> QED BY <2>1, <2>2, ServesStill
<1> QED BY <1>1, <1>2

LEMMA ServesStep ==
  ASSUME BusInv, DeviceInv, ModulesOK, IpicMem(ipic), AddedOnce, AddedOnce', Grown,
         ~world.attachFails, ~world.jam, ServedRows, Next, phase' = "up"
  PROVE  ServesAll
<1>1. ASSUME NEW c \in world.script, Call(c)
      PROVE  ServesAll
  <2>1. CASE AddCarrier(c)
    BY <2>1, ServesAdd
  <2>2. CASE IrqCommand(c) \/ IntConnect(c)
    BY <2>2, ServesByHand
  <2>3. CASE t810Create(c)
    <3>1. UNCHANGED <<world, carriers, vme, atc, attached, boards, cpuLevels>>
      BY <2>3 DEF t810Create
    <3>2. UNCHANGED modules \/ modules' = [modules EXCEPT ![<<Board(c.card), c.slot>>].on = {}]
      BY <2>3 DEF t810Create
    <3>3. \A m \in Modules : modules'[m].vec = modules[m].vec
      BY <3>2, OnlyOn
    <3>4. \A d \in Drivers : \A i, card, slot, vec : IsRow(d, i, card, slot, vec)' => IsRow(d, i, card, slot, vec)
      BY <2>3, RowListed
    <3> QED BY <3>1, <3>3, <3>4, ServesStill
  <2>4. CASE t810Initialise(c)
    BY <2>4, RowStays, ServesStill DEF t810Initialise
  <2>5. CASE tyGSOctalDrv(c)
    <3>1. /\ UNCHANGED <<world, carriers, vme, atc, attached, boards, cpuLevels, modules, can>>
          /\ Install("octal", c.max) /\ "octal" \in Serial
      BY <2>5 DEF tyGSOctalDrv, Serial
    <3>2. \A d \in Drivers : \A i, card, slot, vec : IsRow(d, i, card, slot, vec)' => IsRow(d, i, card, slot, vec)
      BY <3>1, RowInstalled
    <3> QED BY <3>1, <3>2, ServesStill
  <2>6. CASE IP520Drv(c)
    <3>1. /\ UNCHANGED <<world, carriers, vme, atc, attached, boards, cpuLevels, modules, can>>
          /\ Install("ip520", c.max) /\ "ip520" \in Serial
      BY <2>6 DEF IP520Drv, Serial
    <3>2. \A d \in Drivers : \A i, card, slot, vec : IsRow(d, i, card, slot, vec)' => IsRow(d, i, card, slot, vec)
      BY <3>1, RowInstalled
    <3> QED BY <3>1, <3>2, ServesStill
  <2>7. CASE tyGSOctalModuleInit(c)
    <3>1. CountsIn("octal") \/ \E r \in BOOLEAN : TakesIn("octal", c, r)
      BY <2>7, OctalTakes
    <3>2. "octal" \in Serial
      BY DEF Serial
    <3> QED BY <3>1, <3>2, ServesTakenUp
  <2>8. CASE IP520ModuleInit(c)
    <3>1. CountsIn("ip520") \/ \E r \in BOOLEAN : TakesIn("ip520", c, r)
      BY <2>8, Ip520Takes
    <3>2. "ip520" \in Serial
      BY DEF Serial
    <3> QED BY <3>1, <3>2, ServesTakenUp
  <2>9. CASE tyGSOctalDevCreate(c) \/ tyGSOctalDevCreateAll(c) \/ IP520DevCreate(c) \/ IP520DevCreateAll(c)
    <3>1. UNCHANGED <<world, carriers, vme, atc, attached, boards, cpuLevels, modules, can, tty>>
      BY <2>9 DEF tyGSOctalDevCreate, tyGSOctalDevCreateAll, IP520DevCreate, IP520DevCreateAll, FindModule, busVars
    <3> QED BY <3>1, RowStays, ServesStill
  <2> QED BY <1>1, <2>1, <2>2, <2>3, <2>4, <2>5, <2>6, <2>7, <2>8, <2>9 DEF Call
<1>2. CASE InitDevice
  <2> SUFFICES ASSUME NEW d \in Drivers, NEW i, NEW card, NEW slot, NEW vec, IsRow(d, i, card, slot, vec)'
               PROVE  Stands(d, card, slot, vec, i)'
    BY DEF ServesAll
  <2> QED BY <1>2, InitDeviceServes
<1>3. CASE InitialiseDone \/ SkipPort
  <2>1. UNCHANGED <<world, carriers, vme, atc, attached, boards, cpuLevels, modules, can, tty>>
    BY <1>3 DEF InitialiseDone, SkipPort, busVars
  <2> QED BY <2>1, RowStays, ServesStill
<1>4. CASE tyGSOctalInitChannel \/ IP520InitChannel
  <2>1. UNCHANGED <<world, carriers, vme, atc, attached, boards, cpuLevels, can, tty>>
    BY <1>4 DEF tyGSOctalInitChannel, IP520InitChannel, InitChannel
  <2>2. modules' = [modules EXCEPT ![Place(Here)].on = @ \cup {pc.port}]
    BY <1>4 DEF tyGSOctalInitChannel, IP520InitChannel, InitChannel
  <2>3. modules' = [modules EXCEPT ![Place(Here)].on = modules[Place(Here)].on \cup {pc.port}]
    BY <2>2
  <2>4. \A m \in Modules : modules'[m].vec = modules[m].vec
    BY <2>3, OnlyOn
  <2> QED BY <2>1, <2>4, RowStays, ServesStill
<1>5. CASE MarkCreated
  <2>1. UNCHANGED <<world, carriers, vme, atc, attached, boards, cpuLevels, modules>>
    BY <1>5 DEF MarkCreated, busVars
  <2>2. \A e \in Serial : TableChange(e)
    BY TableFrame DEF DeviceInv
  <2>3. \A d \in Drivers : \A i, card, slot, vec : IsRow(d, i, card, slot, vec)' => IsRow(d, i, card, slot, vec)
    BY <1>5, <2>2, RowMarked
  <2> QED BY <2>1, <2>3, ServesStill
<1>6. ASSUME NEW b \in DOMAIN world.boards, atc40ISR(b)
      PROVE  ServesAll
  BY <1>6, ServesInterrupted
<1>7. ~(Reboot \/ Hooks \/ Down)
  BY DEF Reboot, Hooks, Down, tyGSOctalRebootHook, IP520RebootHook, t810Shutdown, BoardHook, Hook, Quiet, HookCrash
<1> QED BY <1>1, <1>2, <1>3, <1>4, <1>5, <1>6, <1>7 DEF Next

\* What holds of the boards meanwhile.
LEMMA ArmedStep ==
  ASSUME BusInv, DeviceInv, CarriersArmed, AddedOnce, AddedOnce', ~world.jam, Next, phase' = "up"
  PROVE  CarriersArmed'
<1>1. ASSUME UNCHANGED <<carriers, boards, cpuLevels>>
      PROVE  CarriersArmed'
  BY <1>1 DEF CarriersArmed, Armed, Works, number
<1>2. ASSUME NEW c, NEW s, NEW ns, Len(ns) \in Nat, DOMAIN ns = 1 .. Len(ns), ipmIrqCmd(c, s, ns), UNCHANGED carriers
      PROVE  CarriersArmed'
  BY <1>2, IrqArmed
<1>3. ASSUME NEW c \in world.script, Call(c)
      PROVE  CarriersArmed'
  <2>1. CASE AddCarrier(c)
    BY <2>1, ArmedAdd
  <2>2. CASE IrqCommand(c)
    <3> DEFINE ns == <<c.n>>
    <3>1. Len(ns) \in Nat /\ DOMAIN ns = 1 .. Len(ns) /\ ipmIrqCmd(c.card, c.slot, ns) /\ UNCHANGED carriers
      BY <2>2 DEF IrqCommand
    <3> HIDE DEF ns
    <3> QED BY <1>2, <3>1
  <2>3. CASE IntConnect(c) \/ t810Create(c) \/ t810Initialise(c) \/ tyGSOctalDrv(c) \/ IP520Drv(c)
    BY <1>1, <2>3 DEF IntConnect, t810Create, t810Initialise, tyGSOctalDrv, IP520Drv, busVars
  <2>4. CASE tyGSOctalModuleInit(c) \/ IP520ModuleInit(c)
    <3>1. UNCHANGED carriers /\ (UNCHANGED <<boards, cpuLevels>> \/ ipmIrqCmd(c.card, c.slot, BothLines))
      BY <2>4 DEF tyGSOctalModuleInit, IP520ModuleInit
    <3>2. Len(BothLines) \in Nat /\ DOMAIN BothLines = 1 .. Len(BothLines)
      BY DEF BothLines
    <3> QED BY <1>1, <1>2, <3>1, <3>2
  <2>5. CASE tyGSOctalDevCreate(c) \/ tyGSOctalDevCreateAll(c) \/ IP520DevCreate(c) \/ IP520DevCreateAll(c)
    BY <1>1, <2>5 DEF tyGSOctalDevCreate, tyGSOctalDevCreateAll, IP520DevCreate, IP520DevCreateAll, FindModule, busVars
  <2> QED BY <1>3, <2>1, <2>2, <2>3, <2>4, <2>5 DEF Call
<1>4. CASE InitDevice
  <2>1. UNCHANGED carriers /\ ipmIrqCmd(can[pc.mod].card, can[pc.mod].slot, EnableOne)
    BY <1>4 DEF InitDevice
  <2>2. Len(EnableOne) \in Nat /\ DOMAIN EnableOne = 1 .. Len(EnableOne)
    BY DEF EnableOne
  <2> QED BY <1>2, <2>1, <2>2
<1>5. CASE InitialiseDone \/ SkipPort \/ tyGSOctalInitChannel \/ IP520InitChannel \/ MarkCreated
  BY <1>1, <1>5 DEF InitialiseDone, SkipPort, tyGSOctalInitChannel, IP520InitChannel, InitChannel, MarkCreated, busVars
<1>6. ASSUME NEW b \in DOMAIN world.boards, atc40ISR(b)
      PROVE  CarriersArmed'
  <2>1. boards' = [boards EXCEPT ![b].gie = TRUE] /\ UNCHANGED <<carriers, cpuLevels>>
    BY <1>6 DEF atc40ISR
  <2>2. ASSUME NEW k, Works(k), carriers[k].p.kind \in {"AVME96xx", "Hy8002"}
        PROVE  LET p == carriers[k].p IN
               boards'[IoBase(p)].gie /\ \A l \in Lines : boards'[IoBase(p)].level[l] \in cpuLevels'
    <3> DEFINE i == IoBase(carriers[k].p)
    <3>1. i \in DOMAIN boards /\ IsBoard(boards[i])
      BY <2>2, WorkingParameters DEF BusInv, BoardsOK
    <3>2. boards[i].gie /\ \A l \in Lines : boards[i].level[l] \in cpuLevels
      BY <2>2 DEF CarriersArmed, Armed, Works
    <3> HIDE DEF i
    <3>3. boards'[i].gie /\ boards'[i].level = boards[i].level
      BY <2>1, <3>1, <3>2 DEF IsBoard
    <3> QED BY <2>1, <3>2, <3>3 DEF i
  <2> QED BY <2>1, <2>2 DEF CarriersArmed, Armed, Works, number
<1>7. ~(Reboot \/ Hooks \/ Down)
  BY DEF Reboot, Hooks, Down, tyGSOctalRebootHook, IP520RebootHook, t810Shutdown, BoardHook, Hook, Quiet, HookCrash
<1> QED BY <1>3, <1>4, <1>5, <1>6, <1>7 DEF Next

\* A board that is on two cards stays so.
LEMMA OnceBefore ==
  ASSUME RegistryOK, Grown, AddedOnce'
  PROVE  AddedOnce
<1>1. number \in Nat /\ number' \in Nat
  BY DEF RegistryOK, Grown, number
<1> SUFFICES ASSUME NEW k \in 0 .. number - 1, NEW l \in 0 .. number - 1,
                    Info(k).driver = "ATC40", Info(l).driver = "ATC40", k # l
             PROVE  Board(k) # Board(l)
  BY DEF AddedOnce
<1>2. k + 1 \in 1 .. number /\ l + 1 \in 1 .. number /\ k \in 0 .. number' - 1 /\ l \in 0 .. number' - 1
  BY <1>1 DEF Grown, number
<1>3. Info(k)' = Info(k) /\ Info(l)' = Info(l)
  BY <1>2 DEF Grown, Info
<1> QED BY <1>2, <1>3 DEF AddedOnce, Board

\* The inductive invariant: while the system is up, and but for the cases that
\* ModuleServed leaves out, every module whose vector is connected stands.
Undisturbed == phase = "up" /\ ~world.attachFails /\ ~world.jam /\ AddedOnce
ServedInv == IpicMem(ipic) /\ (Undisturbed => CarriersArmed /\ ServedRows)

LEMMA ServedInit ==
  ASSUME Init
  PROVE  ServedInv
<1>1. carriers = <<>> /\ can = <<>> /\ tty = [d \in Serial |-> [installed |-> FALSE, last |-> 0, table |-> <<>>]]
      /\ ipic = [mem |-> [s \in 0 .. 3 |-> NULL], men |-> {}, initialised |-> FALSE]
  BY DEF Init, StartupInit, CarriersInit
<1>2. IpicMem(ipic)
  BY <1>1 DEF IpicMem, NULL, At
<1>3. CarriersArmed
  BY <1>1 DEF CarriersArmed, number
<1>4. \A d \in Drivers : Rows(d) = {}
  <2>1. ASSUME NEW d \in Serial PROVE Counted(tty[d]) = {}
    BY <1>1, <2>1 DEF Counted
  <2> QED BY <1>1, <2>1 DEF Rows, Drivers, Serial
<1>5. ServedRows
  BY <1>4 DEF ServedRows, IsRow
<1> QED BY <1>2, <1>3, <1>5 DEF ServedInv

LEMMA ServedStep ==
  ASSUME StartupInv, ServedInv, Next
  PROVE  ServedInv'
<1>1. BusInv /\ DeviceInv /\ ModulesOK /\ IpicMem(ipic) /\ RegistryOK
  BY DEF StartupInv, QuietInv, ServedInv, BusInv
<1>2. Grown
  BY <1>1, RegistryGrows
<1>3. IpicMem(ipic)'
  <2>1. CASE \E c \in world.script : AddCarrier(c)
    BY <1>1, <2>1, IpicAdd
  <2>2. CASE UNCHANGED ipic
    BY <1>1, <2>2 DEF IpicMem
  <2> QED BY <1>1, <2>1, <2>2, BoardsStep
<1>4. ASSUME Undisturbed'
      PROVE  CarriersArmed' /\ ServedRows'
  <2>1. phase' = "up" /\ AddedOnce' /\ ~world.attachFails /\ ~world.jam
    BY <1>2, <1>4 DEF Undisturbed, Grown
  <2>2. AddedOnce
    BY <1>1, <1>2, <2>1, OnceBefore
  <2>3. phase = "up"
    <3>1. CASE phase # "up"
      <4>1. UNCHANGED phase \/ phase' \in {"down", "crashed"}
        BY <3>1, DownFrame
        DEF BoardHook, atc40ISR, Down, tyGSOctalRebootHook, IP520RebootHook, t810Shutdown, Quiet, HookCrash
      <4> QED BY <2>1, <3>1, <4>1
    <3> QED BY <3>1
  <2>4. CarriersArmed /\ ServedRows
    BY <2>1, <2>2, <2>3 DEF ServedInv, Undisturbed
  <2>5. CarriersArmed'
    BY <1>1, <2>1, <2>2, <2>4, ArmedStep
  <2>6. ServesAll
    BY <1>1, <1>2, <2>1, <2>2, <2>4, ServesStep
  <2>7. ServedRows'
    BY <2>6 DEF ServesAll, ServedRows
  <2> QED BY <2>5, <2>7
<1> QED BY <1>3, <1>4 DEF ServedInv

LEMMA ServedStutter ==
  ASSUME ServedInv, UNCHANGED vars
  PROVE  ServedInv'
<1>1. UNCHANGED <<world, carriers, boards, modules, cpuLevels, ipic, vme, atc, attached, can, tty, phase>>
  BY DEF vars, busVars, startVars
<1>2. IpicMem(ipic)' /\ (AddedOnce' <=> AddedOnce) /\ (CarriersArmed => CarriersArmed')
  BY <1>1 DEF ServedInv, IpicMem, AddedOnce, CarriersArmed, Armed, Works, number, Info, Board
<1>3. ASSUME NEW d \in Drivers, NEW i, NEW card, NEW slot, NEW vec, Stands(d, card, slot, vec, i)
      PROVE  Stands(d, card, slot, vec, i)'
  <2>1. Accepts(d, card, slot)'
    BY <1>1, <1>3 DEF Stands, Accepts, ipmValidate, ipmCheck, LegalSlot, LegalCard, ModuleAt, Modules, Info, number
  <2>2. Linked(card, slot, vec, Routine(d, i))'
    BY <1>1, <1>3 DEF Stands, Good, Linked, Info
  <2>3. \A n \in Interrupts(d) : Lets(card, slot, n)'
    BY <1>1, <1>3 DEF Stands, Good, Lets, Info, Board
  <2>4. vec \in Vectors /\ Gives(d, card, slot, vec)'
    <3>1. Info(card)' = Info(card) /\ SameVec(card, slot)
      BY <1>1 DEF Info, SameVec
    <3> QED BY <1>3, <3>1, StillGives DEF Stands, Good
  <2> QED BY <2>1, <2>2, <2>3, <2>4 DEF Stands, Good
<1>4. ServedRows => ServedRows'
  BY <1>1, <1>3 DEF ServedRows, IsRow, Row, Rows, Counted
<1> QED BY <1>1, <1>2, <1>4 DEF ServedInv, Undisturbed

\* A ready entry that stands is served.
LEMMA StandsServed ==
  ASSUME BusInv, CarriersArmed, ServedRows, NEW d \in Drivers, NEW i \in Rows(d), Row(d, i).ready
  PROVE  Served(Row(d, i), d, i)
<1> DEFINE e == Row(d, i)
<1>1. IsRow(d, i, e.card, e.slot, e.vec)
  BY DEF IsRow
<1>2. Stands(d, e.card, e.slot, e.vec, i)
  BY <1>1 DEF ServedRows
<1> HIDE DEF e
<1>3. Accepts(d, e.card, e.slot) /\ Gives(d, e.card, e.slot, e.vec) /\ Good(e.card, e.slot, e.vec, Routine(d, i), Interrupts(d))
  BY <1>2 DEF Stands
<1>4. Served(e, d, i)
  BY <1>3, ReachesServed
<1> QED BY <1>4 DEF e

\* A module whose vector its driver has connected is served for as long as the
\* system is up: it gives the vector it was registered with, the vector leads to
\* its driver's routine with the module's own number, and its carrier and the
\* processor let its interrupts through; no call of the startup script for another
\* module or carrier, in whatever order, repeated or failed, beyond a table or
\* not, takes any of that away (drvIpac.c ipmIntConnect and ipmIrqCmd, drvAtc40.c,
\* drvTip810.c t810Initialise, tyGSOctal.c tyGSOctalModuleInit, ip520.c
\* IP520ModuleInit).  Not claimed: what an Octal module gives on a TVME200 whose
\* memory switch is at 0, lines a carrier has at level 0, and anything where the
\* ISA interrupt is not attached, the jam test is on or an ATC40 was added twice.
THEOREM ModulesAreServed == Spec => []ModuleServed
<1>1. StartupInv /\ ServedInv /\ [Next]_vars => ServedInv'
  BY ServedStep, ServedStutter
<1>2. StartupInv /\ ServedInv => ModuleServed
  <2> SUFFICES ASSUME StartupInv, ServedInv, Undisturbed PROVE ModuleServed
    BY DEF ModuleServed, Undisturbed
  <2>1. BusInv /\ CarriersArmed /\ ServedRows /\ DOMAIN can = 1 .. Len(can)
    BY DEF StartupInv, ServedInv, DeviceInv, CanOK
  <2>2. \A d \in Drivers : \A i \in Rows(d) : Row(d, i).ready => Served(Row(d, i), d, i)
    BY <2>1, StandsServed
  <2>3. \A i \in DOMAIN can : can[i].ready => Served(can[i], "can", i)
    BY <2>1, <2>2 DEF Drivers, Rows, Row
  <2>4. \A d \in Serial : \A i \in Counted(tty[d]) : tty[d].table[i].ready => Served(tty[d].table[i], d, i)
    BY <2>2 DEF Drivers, Serial, Rows, Row
  <2> QED BY <2>3, <2>4 DEF ModuleServed
<1>3. Init => ServedInv
  BY ServedInit
<1> QED BY <1>1, <1>2, <1>3, StartupInvariant, PTL DEF Spec

=============================================================================
