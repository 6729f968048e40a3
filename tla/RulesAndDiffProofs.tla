------------------------- MODULE RulesAndDiffProofs -------------------------
(***************************************************************************)
(* What is said of the user's code holds of it.                            *)
(*                                                                         *)
(* Rules: an early exit is reported only where there is one, in every nest *)
(* of statements, and a scalar at its natural alignment never straddles a  *)
(* cache line, wherever it is placed; padding and fields in two lines are  *)
(* reported exactly where they are, for records of any fields.  What an    *)
(* analysis takes from a rule is what the rule found in the file, and the  *)
(* report says where each finding is, in every project and for all trees   *)
(* of its files.                                                           *)
(*                                                                         *)
(* Listings: the source map of a listing is what its .loc lines say, and a *)
(* diff shows both listings as they are and no more of them as changed     *)
(* than it must, for listings of every length.                             *)
(***************************************************************************)
EXTENDS RuleEngine, AsmDiff, FiniteSetTheorems, TLAPS

-----------------------------------------------------------------------------
(* Numbers                                                                 *)

\* A set of numbers has a least one.
LEMMA LeastExists ==
  ASSUME NEW S, S \subseteq Nat, S # {}
  PROVE  \E m \in S : \A x \in S : m <= x
<1> DEFINE upTo == {0..n : n \in S}
<1>1. upTo \subseteq FiniteSubsetsOf(Nat)
  <2>1. \A n \in S : IsFiniteSet(0..n) /\ 0..n \subseteq Nat BY FS_Interval
  <2> QED BY <2>1 DEF FiniteSubsetsOf
<1>2. \E least \in upTo :
        \A other \in upTo : <<other, least>> \notin StrictSubsetOrdering(Nat)
  <2>1. IsWellFoundedOn(StrictSubsetOrdering(Nat), FiniteSubsetsOf(Nat))
    BY FS_StrictSubsetOrderingWellFounded
  <2>2. upTo # {} OBVIOUS
  <2> HIDE DEF upTo
  <2> QED BY <1>1, <2>1, <2>2, WFMin
<1>3. PICK m \in S : \A x \in S : <<0..x, 0..m>> \notin StrictSubsetOrdering(Nat)
  BY <1>2
<1>4. ASSUME NEW x \in S, x < m PROVE FALSE
  <2>1. 0..x \subseteq 0..m /\ m \in 0..m /\ m \notin 0..x BY <1>4
  <2>2. <<0..x, 0..m>> \in StrictSubsetOrdering(Nat)
    BY <2>1 DEF StrictSubsetOrdering
  <2> QED BY <2>2, <1>3
<1> QED BY <1>3, <1>4

\* What holds of 0, and of each next number, holds of all.
LEMMA NumberByNumber ==
  ASSUME NEW S, 0 \in S, \A n \in Nat : n \in S => n + 1 \in S
  PROVE  Nat \subseteq S
<1> DEFINE missing == Nat \ S
<1> SUFFICES ASSUME missing # {} PROVE FALSE OBVIOUS
<1>1. PICK n \in missing : \A k \in missing : n <= k
  <2>1. missing \subseteq Nat OBVIOUS
  <2> HIDE DEF missing
  <2> QED BY <2>1, LeastExists
<1>2. n # 0 /\ n - 1 \in Nat /\ n - 1 \notin S BY <1>1
<1> QED BY <1>1, <1>2

\* What is computed from left to right, each from the one before it, exists.
StepsFrom(f, V, n, first, step) ==
  f \in [0..n -> V] /\ f[0] = first /\ \A j \in 1..n : f[j] = step[j][f[j - 1]]

LEMMA StepsExist ==
  ASSUME NEW V, NEW n \in Nat, NEW first \in V, NEW step \in [1..n -> [V -> V]]
  PROVE  \E f : StepsFrom(f, V, n, first, step)
<1> DEFINE Good == {k \in Nat : k <= n =>
                      \E f \in [0..k -> V] :
                        f[0] = first /\ \A j \in 1..k : f[j] = step[j][f[j - 1]]}
<1>1. 0 \in Good
  <2> DEFINE f == [j \in 0..0 |-> first]
  <2>1. f \in [0..0 -> V] /\ f[0] = first /\ \A j \in 1..0 : f[j] = step[j][f[j - 1]] OBVIOUS
  <2> HIDE DEF f
  <2> QED BY <2>1
<1>2. ASSUME NEW k \in Nat, k \in Good PROVE k + 1 \in Good
  <2> SUFFICES ASSUME k + 1 <= n
               PROVE  \E f \in [0..(k + 1) -> V] :
                        f[0] = first /\ \A j \in 1..(k + 1) : f[j] = step[j][f[j - 1]]
    OBVIOUS
  <2>1. PICK g \in [0..k -> V] : g[0] = first /\ \A j \in 1..k : g[j] = step[j][g[j - 1]]
    BY <1>2
  <2> DEFINE f == [j \in 0..(k + 1) |-> IF j \in 0..k THEN g[j] ELSE step[j][g[k]]]
  <2>2. g[k] \in V /\ k + 1 \in 1..n /\ k + 1 \notin 0..k OBVIOUS
  <2>3. f \in [0..(k + 1) -> V]
    <3>1. step[k + 1][g[k]] \in V BY <2>2
    <3>2. \A j \in 0..(k + 1) : j \in 0..k \/ j = k + 1 OBVIOUS
    <3> QED BY <3>1, <3>2
  <2>4. f[0] = first /\ \A j \in 0..k : f[j] = g[j] BY <2>1
  <2>5. f[k + 1] = step[k + 1][g[k]] BY <2>2
  <2> HIDE DEF f
  <2>6. ASSUME NEW j \in 1..(k + 1) PROVE f[j] = step[j][f[j - 1]]
    <3>1. CASE j \in 1..k
      <4>1. j \in 0..k /\ j - 1 \in 0..k BY <3>1
      <4> QED BY <3>1, <4>1, <2>1, <2>4
    <3>2. CASE j = k + 1
      <4>1. j - 1 = k /\ k \in 0..k BY <3>2
      <4> QED BY <3>2, <4>1, <2>4, <2>5
    <3> QED BY <3>1, <3>2
  <2> QED BY <2>3, <2>4, <2>6
<1> HIDE DEF Good
<1>3. Nat \subseteq Good BY <1>1, <1>2, NumberByNumber
<1>4. \E f \in [0..n -> V] : f[0] = first /\ \A j \in 1..n : f[j] = step[j][f[j - 1]]
  BY <1>3 DEF Good
<1> QED BY <1>4 DEF StepsFrom

LEMMA StepsTyped ==
  ASSUME NEW V, NEW n \in Nat, NEW f, f[0] \in V,
         \A j \in 1..n : f[j - 1] \in V => f[j] \in V
  PROVE  \A j \in 0..n : f[j] \in V
<1> DEFINE Good == {j \in Nat : j \in 0..n => f[j] \in V}
<1>1. 0 \in Good OBVIOUS
<1>2. ASSUME NEW j \in Nat, j \in Good PROVE j + 1 \in Good
  <2> SUFFICES ASSUME j + 1 \in 0..n PROVE f[j + 1] \in V OBVIOUS
  <2> DEFINE k == j + 1
  <2>1. k \in 1..n /\ k - 1 = j /\ j \in 0..n OBVIOUS
  <2>2. f[j] \in V BY <2>1, <1>2
  <2> HIDE DEF k
  <2>3. f[k] \in V BY <2>1, <2>2
  <2> QED BY <2>3 DEF k
<1> HIDE DEF Good
<1>3. Nat \subseteq Good BY <1>1, <1>2, NumberByNumber
<1> QED BY <1>3 DEF Good

-----------------------------------------------------------------------------
(* Nests                                                                   *)

\* Where the rule reports there is a loop, and no lambda or no switch.
LEMMA ReportedExit ==
  ASSUME NEW n, n.kind \in {"return", "break"}, ComplexCf(n) # <<>>
  PROVE  /\ \E i \in DOMAIN n.above : n.above[i] = "loop"
         /\ n.kind = "return" => ~Contains(n.above, "lambda")
         /\ n.kind = "break"  => ~Contains(n.above, "switch")
BY DEF ComplexCf, Report, InLoop

\* Of the loops around a statement one is the innermost.
LEMMA InnermostLoop ==
  ASSUME NEW above \in Seq(Constructs),
         \E i \in DOMAIN above : above[i] = "loop"
  PROVE  \E i \in DOMAIN above :
           above[i] = "loop" /\ \A j \in 1..(i - 1) : above[j] # "loop"
<1> DEFINE loops == {i \in DOMAIN above : above[i] = "loop"}
<1>1. loops \subseteq Nat /\ loops # {} OBVIOUS
<1>2. PICK i \in loops : \A j \in loops : i <= j
  <2> HIDE DEF loops
  <2> QED BY <1>1, LeastExists
<1>3. \A j \in 1..(i - 1) : j \in DOMAIN above /\ ~(i <= j) OBVIOUS
<1> QED BY <1>2, <1>3

\* What the rule reports at one node.
LEMMA ReportIsReal ==
  ASSUME NEW n, n.above \in Seq(Constructs),
         n.kind \in {"return", "break"}, ComplexCf(n) # <<>>
  PROVE  LeavesLoop(n) \/ (n.kind = "return" /\ Contains(n.above, "method"))
<1>1. CASE n.kind = "return"
  <2>1. ~Contains(n.above, "lambda") BY ReportedExit, <1>1
  <2>2. SUFFICES ASSUME ~Contains(n.above, "method") PROVE LeavesLoop(n) BY <1>1
  <2>3. PICK i \in DOMAIN n.above : n.above[i] = "loop" BY ReportedExit
  <2>4. \A j \in 1..(i - 1) : n.above[j] \notin {"lambda", "method"}
    BY <2>1, <2>2 DEF Contains
  <2> QED BY <2>3, <2>4, <1>1 DEF LeavesLoop
<1>2. CASE n.kind = "break"
  <2>1. ~Contains(n.above, "switch") BY ReportedExit, <1>2
  <2> DEFINE above == n.above
  <2>4. above \in Seq(Constructs) /\ \E i \in DOMAIN above : above[i] = "loop"
    BY ReportedExit
  <2> HIDE DEF above
  <2>5. \E i \in DOMAIN above :
          above[i] = "loop" /\ \A j \in 1..(i - 1) : above[j] # "loop"
    BY <2>4, InnermostLoop
  <2> USE DEF above
  <2>2. PICK i \in DOMAIN n.above :
          n.above[i] = "loop" /\ \A j \in 1..(i - 1) : n.above[j] # "loop"
    BY <2>5
  <2>3. \A j \in 1..(i - 1) : n.above[j] \notin {"loop", "switch"}
    BY <2>1, <2>2 DEF Contains
  <2> QED BY <2>2, <2>3, <1>2 DEF LeavesLoop
<1> QED BY <1>1, <1>2

-----------------------------------------------------------------------------
(* Walks                                                                   *)

\* What has been visited and what will be are nodes of the project's trees.
Walk ==
  /\ files \in Seq(DOMAIN Trees) /\ tree \in Seq(Nodes) /\ seen \in Seq(Nodes)
  /\ state = "walking" => files # <<>>

LEMMA WalkHolds == Spec => []Walk
<1>1. Init => Walk
  BY EngineAssumption DEF Init, Walk
<1>2. Walk /\ [Next]_vars => Walk'
  <2> SUFFICES ASSUME Walk, [Next]_vars PROVE Walk' OBVIOUS
  <2> USE DEF Walk
  <2>1. CASE LoadProject \/ NoProject \/ WriteReport \/ CannotWrite
    BY <2>1 DEF LoadProject, NoProject, WriteReport, CannotWrite
  <2>2. CASE StartFile
    <3>1. Head(files) \in DOMAIN Trees BY <2>2 DEF StartFile
    <3> QED BY <2>2, <3>1, EngineAssumption DEF StartFile
  <2>3. CASE ParseFails
    BY <2>3 DEF ParseFails
  <2>4. CASE Visit
    BY <2>4 DEF Visit
  <2>5. CASE Throw \/ TakeFindings
    <3>1. files' = Tail(files) /\ state' = "between" /\ tree' = <<>> /\ seen' = <<>>
      BY <2>5 DEF Throw, TakeFindings
    <3>2. files # <<>>
      BY <2>5 DEF Throw, TakeFindings
    <3>3. Tail(files) \in Seq(DOMAIN Trees) BY <3>2
    <3> QED BY <3>1, <3>3
  <2>6. CASE UNCHANGED vars
    BY <2>6 DEF vars
  <2> QED BY <2>1, <2>2, <2>3, <2>4, <2>5, <2>6 DEF Next
<1> QED BY <1>1, <1>2, PTL DEF Spec

\* An early exit is reported only where there is one (vec/complex_cf.cpp), in
\* every tree whose statements stand in nests of any depth.
THEOREM EarlyExits == Spec => []EarlyExitIsReal
<1>1. Walk => EarlyExitIsReal
  <2> SUFFICES ASSUME Walk, NEW n \in Visited,
                      n.kind \in {"return", "break"}, ComplexCf(n) # <<>>
               PROVE  LeavesLoop(n) \/ (n.kind = "return" /\ Contains(n.above, "method"))
    BY DEF EarlyExitIsReal
  <2>1. n \in Nodes BY DEF Visited, Last, Walk
  <2>2. n.above \in Seq(Constructs) BY <2>1, EngineAssumption
  <2> QED BY <2>2, ReportIsReal
<1> QED BY <1>1, WalkHolds, PTL

-----------------------------------------------------------------------------
(* Sequences joined                                                        *)

\* f is what FlattenSeq looks up: the first n sequences joined.
Joins(f, s, n) == f = [i \in 1..n |-> IF i = 1 THEN s[i] ELSE f[i - 1] \o s[i]]

LEMMA JoinsExist ==
  ASSUME NEW s, NEW n \in Nat
  PROVE  \E f : Joins(f, s, n)
<1> DEFINE Good == {k \in Nat : \E f : Joins(f, s, k)}
<1>1. 0 \in Good
  <2>1. Joins([i \in 1..0 |-> s], s, 0) BY DEF Joins
  <2> QED BY <2>1
<1>2. ASSUME NEW k \in Nat, k \in Good PROVE k + 1 \in Good
  <2>1. PICK g : Joins(g, s, k) BY <1>2
  <2> DEFINE f == [i \in 1..(k + 1) |-> IF i \in 1..k THEN g[i]
                                        ELSE IF i = 1 THEN s[i] ELSE g[i - 1] \o s[i]]
             e == [i \in 1..(k + 1) |-> IF i = 1 THEN s[i] ELSE f[i - 1] \o s[i]]
  <2>2. \A i \in 1..k : g[i] = IF i = 1 THEN s[i] ELSE g[i - 1] \o s[i] BY <2>1 DEF Joins
  <2>3. \A i \in 1..k : f[i] = g[i] OBVIOUS
  <2>4. ASSUME NEW i \in 1..(k + 1) PROVE f[i] = e[i]
    <3>1. CASE i = 1 BY <3>1, <2>2
    <3>2. CASE i # 1
      <4>1. i - 1 \in 1..k BY <3>2
      <4>2. f[i - 1] = g[i - 1] BY <4>1, <2>3
      <4>3. f[i] = g[i - 1] \o s[i] BY <3>2, <2>2
      <4>4. e[i] = f[i - 1] \o s[i] BY <3>2
      <4> HIDE DEF e, f
      <4> QED BY <4>2, <4>3, <4>4
    <3> QED BY <3>1, <3>2
  <2>5. f = [i \in 1..(k + 1) |-> f[i]] /\ e = [i \in 1..(k + 1) |-> e[i]] OBVIOUS
  <2>6. f = e
    <3> HIDE DEF e, f
    <3> QED BY <2>4, <2>5, Zenon
  <2>7. Joins(f, s, k + 1)
    <3> HIDE DEF f
    <3> QED BY <2>6 DEF Joins
  <2> QED BY <2>7
<1> HIDE DEF Good
<1>3. Nat \subseteq Good BY <1>1, <1>2, NumberByNumber
<1> QED BY <1>3 DEF Good

\* What FlattenSeq is.
LEMMA FlattenIs ==
  ASSUME NEW s, Len(s) \in Nat \ {0}
  PROVE  \E f : Joins(f, s, Len(s)) /\ FlattenSeq(s) = f[Len(s)]
<1> DEFINE f == CHOOSE g : Joins(g, s, Len(s))
<1>1. Joins(f, s, Len(s)) BY JoinsExist
<1>2. FlattenSeq(s) = f[Len(s)] BY DEF FlattenSeq, Joins
<1> QED BY <1>1, <1>2

\* It depends on the sequences alone.
LEMMA JoinsAgree ==
  ASSUME NEW f, NEW g, NEW s, NEW t, NEW n \in Nat, NEW m \in Nat, n <= m,
         Joins(f, s, n), Joins(g, t, m), \A i \in 1..n : s[i] = t[i]
  PROVE  \A i \in 1..n : f[i] = g[i]
<1> DEFINE Good == {i \in Nat : i \in 1..n => f[i] = g[i]}
<1>1. 0 \in Good OBVIOUS
<1>2. \A i \in 1..n : /\ f[i] = IF i = 1 THEN s[i] ELSE f[i - 1] \o s[i]
                      /\ g[i] = IF i = 1 THEN t[i] ELSE g[i - 1] \o t[i]
  <2>1. 1..n \subseteq 1..m OBVIOUS
  <2>2. \A i \in 1..n : f[i] = IF i = 1 THEN s[i] ELSE f[i - 1] \o s[i] BY DEF Joins
  <2>3. \A i \in 1..m : g[i] = IF i = 1 THEN t[i] ELSE g[i - 1] \o t[i] BY DEF Joins
  <2> QED BY <2>1, <2>2, <2>3
<1>3. ASSUME NEW i \in Nat, i \in Good PROVE i + 1 \in Good
  <2> SUFFICES ASSUME i + 1 \in 1..n PROVE f[i + 1] = g[i + 1] OBVIOUS
  <2>1. CASE i = 0 BY <2>1, <1>2
  <2>2. CASE i # 0
    <3> DEFINE j == i + 1
    <3>1. i \in 1..n /\ f[i] = g[i] BY <2>2, <1>3
    <3>2. j \in 1..n /\ j # 1 /\ j - 1 = i BY <2>2
    <3> HIDE DEF j
    <3>3. f[j] = f[j - 1] \o s[j] /\ g[j] = g[j - 1] \o t[j] BY <3>2, <1>2
    <3>4. s[j] = t[j] BY <3>2
    <3>5. f[j] = g[j] BY <3>1, <3>2, <3>3, <3>4
    <3> QED BY <3>5 DEF j
  <2> QED BY <2>1, <2>2
<1> HIDE DEF Good
<1>4. Nat \subseteq Good BY <1>1, <1>3, NumberByNumber
<1> QED BY <1>4 DEF Good

\* Joined sequences are sequences.
LEMMA JoinsTyped ==
  ASSUME NEW S, NEW s \in Seq(Seq(S)), NEW f, Joins(f, s, Len(s))
  PROVE  \A i \in 1..Len(s) : f[i] \in Seq(S)
<1> DEFINE Good == {i \in Nat : i \in 1..Len(s) => f[i] \in Seq(S)}
<1>1. 0 \in Good OBVIOUS
<1>2. \A i \in 1..Len(s) : f[i] = IF i = 1 THEN s[i] ELSE f[i - 1] \o s[i] BY DEF Joins
<1>3. ASSUME NEW i \in Nat, i \in Good PROVE i + 1 \in Good
  <2> SUFFICES ASSUME i + 1 \in 1..Len(s) PROVE f[i + 1] \in Seq(S) OBVIOUS
  <2>1. s[i + 1] \in Seq(S) OBVIOUS
  <2>2. CASE i = 0 BY <2>1, <2>2, <1>2
  <2>3. CASE i # 0
    <3> DEFINE j == i + 1
    <3>1. i \in 1..Len(s) /\ f[i] \in Seq(S) BY <2>3, <1>3
    <3>2. j \in 1..Len(s) /\ j # 1 /\ j - 1 = i BY <2>3
    <3>3. s[j] \in Seq(S) BY <2>1
    <3> HIDE DEF j
    <3>4. f[j] = f[j - 1] \o s[j] BY <3>2, <1>2
    <3>5. f[j] \in Seq(S) BY <3>1, <3>2, <3>3, <3>4
    <3> QED BY <3>5 DEF j
  <2> QED BY <2>2, <2>3
<1> HIDE DEF Good
<1>4. Nat \subseteq Good BY <1>1, <1>3, NumberByNumber
<1> QED BY <1>4 DEF Good

\* Sequences of S are joined to one.
LEMMA FlattenTyped ==
  ASSUME NEW S, NEW s \in Seq(Seq(S))
  PROVE  FlattenSeq(s) \in Seq(S)
<1>1. CASE s = <<>>
  <2>1. FlattenSeq(s) = <<>> BY <1>1 DEF FlattenSeq
  <2> QED BY <2>1
<1>2. CASE s # <<>>
  <2>1. Len(s) \in Nat \ {0} BY <1>2
  <2>2. PICK f : Joins(f, s, Len(s)) /\ FlattenSeq(s) = f[Len(s)] BY <2>1, FlattenIs
  <2> QED BY <2>1, <2>2, JoinsTyped
<1> QED BY <1>1, <1>2

\* One more goes to the end.
LEMMA FlattenAppend ==
  ASSUME NEW S, NEW T, NEW s \in Seq(T), NEW x \in Seq(S)
  PROVE  FlattenSeq(Append(s, x)) = FlattenSeq(s) \o x
<1> DEFINE t == Append(s, x)
           n == Len(s)
<1>1. /\ n \in Nat /\ Len(t) = n + 1 /\ t[n + 1] = x
      /\ \A i \in 1..n : t[i] = s[i]
  OBVIOUS
<1> HIDE DEF t
<1>3. PICK g : Joins(g, t, n + 1) /\ FlattenSeq(t) = g[n + 1] BY <1>1, FlattenIs
<1>4. CASE n = 0
  <2>1. s = <<>> /\ FlattenSeq(s) = <<>> BY <1>4 DEF FlattenSeq
  <2>2. g[1] = x BY <1>1, <1>3, <1>4 DEF Joins
  <2>3. <<>> \o x = x OBVIOUS
  <2> QED BY <1>3, <1>4, <2>1, <2>2, <2>3 DEF t
<1>5. CASE n # 0
  <2>1. PICK f : Joins(f, s, n) /\ FlattenSeq(s) = f[n] BY <1>1, <1>5, FlattenIs
  <2>2. \A i \in 1..n : f[i] = g[i]
    <3>1. n <= n + 1 /\ n + 1 \in Nat BY <1>1
    <3> HIDE DEF n
    <3> QED BY <1>1, <1>3, <2>1, <3>1, JoinsAgree
  <2>3. g[n + 1] = g[n] \o t[n + 1]
    <3> DEFINE j == n + 1
    <3>1. j \in 1..j /\ j # 1 /\ j - 1 = n BY <1>1, <1>5
    <3>2. Joins(g, t, j) BY <1>3
    <3> HIDE DEF j, n
    <3>3. g[j] = g[j - 1] \o t[j] BY <3>1, <3>2 DEF Joins
    <3>4. g[j] = g[n] \o t[j] BY <3>1, <3>3
    <3> QED BY <3>4 DEF j
  <2>4. f[n] = g[n] BY <1>1, <1>5, <2>2
  <2> QED BY <1>1, <1>3, <2>1, <2>3, <2>4 DEF t
<1> QED BY <1>4, <1>5

\* What comes after something else is at its end.
LEMMA EndsWith ==
  ASSUME NEW S, NEW a \in Seq(S), NEW b \in Seq(S)
  PROVE  IsSuffix(b, a \o b)
<1> DEFINE u == Reverse(b)
           v == Reverse(a \o b)
<1>1. Len(a \o b) = Len(a) + Len(b) /\ Len(a) \in Nat /\ Len(b) \in Nat OBVIOUS
<1>2. \A i \in 1..Len(b) : (a \o b)[Len(a) + i] = b[i] OBVIOUS
<1>3. /\ Len(u) = Len(b) /\ Len(v) = Len(a) + Len(b)
      /\ \A i \in 1..Len(b) : u[i] = b[Len(b) - i + 1]
      /\ \A i \in 1..(Len(a) + Len(b)) : v[i] = (a \o b)[Len(a) + Len(b) - i + 1]
  BY <1>1 DEF Reverse
<1>4. ASSUME NEW i \in 1..Len(b) PROVE u[i] = v[i]
  <2>1. Len(b) - i + 1 \in 1..Len(b) /\ i \in 1..(Len(a) + Len(b)) BY <1>1
  <2>2. Len(a) + Len(b) - i + 1 = Len(a) + (Len(b) - i + 1) BY <1>1
  <2>3. u[i] = b[Len(b) - i + 1] /\ v[i] = (a \o b)[Len(a) + (Len(b) - i + 1)]
    BY <1>3, <2>1, <2>2
  <2> QED BY <1>2, <2>1, <2>3
<1> HIDE DEF u, v
<1>5. IsPrefix(u, v) BY <1>1, <1>3, <1>4 DEF IsPrefix
<1> QED BY <1>5 DEF IsSuffix, u, v

\* Joined, the sequences hold what each of them holds.
LEMMA RangeJoined ==
  ASSUME NEW S, NEW a \in Seq(S), NEW b \in Seq(S)
  PROVE  Range(a \o b) = Range(a) \cup Range(b)
<1> DEFINE c == a \o b
<1>1. /\ Len(a) \in Nat /\ Len(b) \in Nat
      /\ DOMAIN a = 1..Len(a) /\ DOMAIN b = 1..Len(b) /\ DOMAIN c = 1..(Len(a) + Len(b))
      /\ \A i \in DOMAIN c : c[i] = IF i <= Len(a) THEN a[i] ELSE b[i - Len(a)]
  OBVIOUS
<1> HIDE DEF c
<1>2. ASSUME NEW i \in DOMAIN c PROVE c[i] \in Range(a) \cup Range(b)
  <2>1. CASE i <= Len(a)
    <3>1. i \in DOMAIN a /\ c[i] = a[i] BY <1>1, <2>1
    <3> QED BY <3>1 DEF Range
  <2>2. CASE ~(i <= Len(a))
    <3>1. i - Len(a) \in DOMAIN b /\ c[i] = b[i - Len(a)] BY <1>1, <2>2
    <3> QED BY <3>1 DEF Range
  <2> QED BY <2>1, <2>2
<1>3. ASSUME NEW i \in DOMAIN a PROVE a[i] \in Range(c)
  <2>1. i \in DOMAIN c /\ c[i] = a[i] BY <1>1
  <2> QED BY <2>1 DEF Range
<1>4. ASSUME NEW i \in DOMAIN b PROVE b[i] \in Range(c)
  <2> DEFINE k == Len(a) + i
  <2>1. k \in DOMAIN c /\ ~(k <= Len(a)) /\ k - Len(a) = i BY <1>1
  <2> HIDE DEF k
  <2>2. c[k] = b[i] BY <1>1, <2>1
  <2> QED BY <2>1, <2>2 DEF Range
<1>5. Range(c) \subseteq Range(a) \cup Range(b) BY <1>2 DEF Range
<1>6. Range(a) \subseteq Range(c) /\ Range(b) \subseteq Range(c) BY <1>3, <1>4 DEF Range
<1> QED BY <1>5, <1>6 DEF c

LEMMA FlattenRange ==
  ASSUME NEW S, NEW s \in Seq(Seq(S))
  PROVE  Range(FlattenSeq(s)) = UNION {Range(s[i]) : i \in DOMAIN s}
<1> DEFINE m == Len(s)
<1>1. CASE m = 0
  <2>1. s = <<>> BY <1>1
  <2>2. FlattenSeq(s) = <<>> BY <2>1 DEF FlattenSeq
  <2>3. Range(<<>>) = {} BY DEF Range
  <2> QED BY <2>1, <2>2, <2>3
<1>2. CASE m # 0
  <2>1. m \in Nat \ {0} /\ DOMAIN s = 1..m /\ \A i \in 1..m : s[i] \in Seq(S) BY <1>2
  <2>2. PICK f : Joins(f, s, m) /\ FlattenSeq(s) = f[m] BY <2>1, FlattenIs
  <2>3. \A i \in 1..m : f[i] \in Seq(S) BY <2>2, JoinsTyped
  <2>4. \A i \in 1..m : f[i] = IF i = 1 THEN s[i] ELSE f[i - 1] \o s[i]
    BY <2>2 DEF Joins
  <2> HIDE DEF m
  <2> DEFINE Held(i) == UNION {Range(s[j]) : j \in 1..i}
             Good == {i \in Nat : i \in 1..m => Range(f[i]) = Held(i)}
  <2>5. 0 \in Good OBVIOUS
  <2>6. ASSUME NEW i \in Nat, i \in Good PROVE i + 1 \in Good
    <3> SUFFICES ASSUME i + 1 \in 1..m PROVE Range(f[i + 1]) = Held(i + 1) OBVIOUS
    <3> DEFINE k == i + 1
    <3>1. CASE i = 0
      <4>1. k = 1 /\ 1..k = {1} BY <3>1
      <4>2. f[k] = s[1] BY <4>1, <2>1, <2>4
      <4>3. Held(k) = Range(s[1]) BY <4>1
      <4> HIDE DEF Held
      <4> QED BY <4>2, <4>3
    <3>2. CASE i # 0
      <4>1. i \in 1..m /\ k \in 1..m /\ k # 1 /\ k - 1 = i BY <3>2, <2>1
      <4>2. 1..k = 1..i \cup {k} BY <4>1
      <4>3. Held(k) = Held(i) \cup Range(s[k]) BY <4>2
      <4>4. Range(f[i]) = Held(i) BY <2>6, <4>1
      <4> HIDE DEF Held, k
      <4>5. f[k] = f[i] \o s[k] /\ f[i] \in Seq(S) /\ s[k] \in Seq(S)
        BY <4>1, <2>1, <2>3, <2>4
      <4>6. Range(f[k]) = Range(f[i]) \cup Range(s[k]) BY <4>5, RangeJoined
      <4>7. Range(f[k]) = Held(k) BY <4>3, <4>4, <4>6
      <4> QED BY <4>7 DEF k
    <3> QED BY <3>1, <3>2
  <2> HIDE DEF Good, Held
  <2>7. Nat \subseteq Good BY <2>5, <2>6, NumberByNumber
  <2>8. m \in Good /\ m \in 1..m BY <2>1, <2>7
  <2>9. Range(f[m]) = Held(m) BY <2>8 DEF Good
  <2> QED BY <2>1, <2>2, <2>9 DEF Held
<1> QED BY <1>1, <1>2

-----------------------------------------------------------------------------
(* Layouts                                                                 *)

Sizes == {1, 2, 4, 8, 16, 32, 64}

\* Rounding up gives the next multiple.
LEMMA RoundedUp ==
  ASSUME NEW x \in Nat, NEW step \in Nat \ {0}
  PROVE  /\ UpTo(x, step) \in Nat /\ x <= UpTo(x, step)
         /\ \E k \in Nat : UpTo(x, step) = k * step
<1> DEFINE q == (x + step - 1) \div step
<1>1. x + step - 1 \in Nat OBVIOUS
<1>2. q \in Nat /\ x + step - 1 < q * step + step BY <1>1
<1>3. UpTo(x, step) = q * step BY DEF UpTo
<1> HIDE DEF q
<1>4. q * step \in Nat BY <1>2
<1>5. x <= q * step BY <1>2, <1>4
<1> QED BY <1>2, <1>3, <1>4, <1>5

\* The byte at which that bit is.
LEMMA MultipleInBytes ==
  ASSUME NEW k \in Nat, NEW size \in Sizes
  PROVE  (k * (8 * size)) \div 8 = k * size
<1>1. CASE size = 1  BY <1>1
<1>2. CASE size = 2  BY <1>2
<1>3. CASE size = 4  BY <1>3
<1>4. CASE size = 8  BY <1>4
<1>5. CASE size = 16 BY <1>5
<1>6. CASE size = 32 BY <1>6
<1>7. CASE size = 64 BY <1>7
<1> QED BY <1>1, <1>2, <1>3, <1>4, <1>5, <1>6, <1>7 DEF Sizes

\* A block of that size at a multiple of it ends in the line it begins in.
LEMMA BlockInOneLine ==
  ASSUME NEW k \in Nat, NEW size \in Sizes
  PROVE  (k * size) \div CacheLine = (k * size + size - 1) \div CacheLine
<1>1. CASE size = 1  BY <1>1 DEF CacheLine
<1>2. CASE size = 2  BY <1>2 DEF CacheLine
<1>3. CASE size = 4  BY <1>3 DEF CacheLine
<1>4. CASE size = 8  BY <1>4 DEF CacheLine
<1>5. CASE size = 16 BY <1>5 DEF CacheLine
<1>6. CASE size = 32 BY <1>6 DEF CacheLine
<1>7. CASE size = 64 BY <1>7 DEF CacheLine
<1> QED BY <1>1, <1>2, <1>3, <1>4, <1>5, <1>6, <1>7 DEF Sizes

\* A field whose alignment is its size, up to a cache line, is never reported
\* as straddling one, whatever stands before it (cache_line_straddle.cpp:43-57).
THEOREM AlignedFieldsFit ==
  ASSUME NEW placed, placed.end \in Nat, placed.at \in Seq(Nat),
         NEW f, f.bits = 0, f.type.size \in Sizes,
         f.type.align = f.type.size
  PROVE  ~Straddles(Last(Place(placed, f).at), f.type.size)
<1> DEFINE size == f.type.size
           at   == UpTo(placed.end, 8 * size)
<1>1. Last(Place(placed, f).at) = at
  <2>1. Place(placed, f).at = Append(placed.at, at) BY DEF Place
  <2> QED BY <2>1 DEF Last
<1>2. SUFFICES ~Straddles(at, size) BY <1>1
<1>3. PICK k \in Nat : at = k * (8 * size)
  <2>1. 8 * size \in Nat \ {0} BY DEF Sizes
  <2> HIDE DEF size
  <2> QED BY <2>1, RoundedUp
<1>4. at \div 8 = k * size BY <1>3, MultipleInBytes
<1> QED BY <1>4, BlockInOneLine DEF Straddles

FieldOk(f) ==
  f.bits \in Nat /\ f.type.size \in Nat /\ f.type.align \in Nat \ {0}

RecordOk(n) ==
  /\ n.head \in Nat /\ n.fields \in Seq(Range(n.fields))
  /\ \A i \in DOMAIN n.fields : FieldOk(n.fields[i])

Placements == [end : Nat, align : Nat \ {0}, at : Seq(Nat)]

LEMMA WidthTyped ==
  ASSUME NEW f, FieldOk(f)
  PROVE  Width(f) \in Nat
BY DEF FieldOk, Width

\* The field is at this bit, behind what is placed, and at a byte if it is no
\* bit-field.
PutAt(at, placed, f) ==
  /\ Place(placed, f).at = Append(placed.at, at)
  /\ placed.end <= at /\ Place(placed, f).end = at + Width(f)
  /\ f.bits = 0 => \E k \in Nat : at = 8 * k

LEMMA PlaceIs ==
  ASSUME NEW placed \in Placements, NEW f, FieldOk(f)
  PROVE  /\ Place(placed, f) \in Placements
         /\ \E at \in Nat : PutAt(at, placed, f)
<1> DEFINE unit == 8 * f.type.size
           fits == f.bits > 0 /\ placed.end \div unit = (placed.end + f.bits - 1) \div unit
           up == UpTo(placed.end, 8 * f.type.align)
           at == IF fits THEN placed.end ELSE up
           align == IF f.type.align > placed.align THEN f.type.align ELSE placed.align
<1>1. /\ placed.end \in Nat /\ placed.align \in Nat \ {0} /\ placed.at \in Seq(Nat)
      /\ f.bits \in Nat /\ f.type.align \in Nat \ {0}
  BY DEF Placements, FieldOk
<1>2. 8 * f.type.align \in Nat \ {0} BY <1>1
<1>3. up \in Nat /\ placed.end <= up /\ \E k \in Nat : up = k * (8 * f.type.align)
  BY <1>1, <1>2, RoundedUp
<1>4. Place(placed, f) = [end |-> at + Width(f), align |-> align, at |-> Append(placed.at, at)]
  BY DEF Place
<1>5. f.bits = 0 => ~fits BY <1>1
<1>6. align \in Nat \ {0} BY <1>1
<1> HIDE DEF fits, align, up
<1>7. at \in Nat /\ placed.end <= at BY <1>1, <1>3
<1>8. f.bits = 0 => \E k \in Nat : at = 8 * k
  <2> SUFFICES ASSUME f.bits = 0 PROVE \E k \in Nat : at = 8 * k OBVIOUS
  <2>1. at = up BY <1>5
  <2>2. PICK k \in Nat : up = k * (8 * f.type.align) BY <1>3
  <2> DEFINE a == f.type.align
  <2>3. a \in Nat BY <1>1
  <2>4. up = k * (8 * a) BY <2>2
  <2> HIDE DEF a
  <2>5. k * a \in Nat /\ up = 8 * (k * a) BY <2>3, <2>4
  <2> QED BY <2>1, <2>5
<1> HIDE DEF at
<1>9. Width(f) \in Nat BY WidthTyped
<1>10. Append(placed.at, at) \in Seq(Nat) BY <1>1, <1>7
<1>11. Place(placed, f) \in Placements BY <1>4, <1>6, <1>7, <1>9, <1>10 DEF Placements
<1>12. Place(placed, f).at = Append(placed.at, at) /\ Place(placed, f).end = at + Width(f)
  BY <1>4
<1>13. at \in Nat /\ PutAt(at, placed, f) BY <1>7, <1>8, <1>12 DEF PutAt
<1> QED BY <1>11, <1>13

\* The record after each of its fields.
Places(p, n) ==
  /\ p \in [0..Len(n.fields) -> Placements]
  /\ p[0].end = 8 * n.head /\ p[0].at = <<>>
  /\ \A i \in 1..Len(n.fields) : p[i] = Place(p[i - 1], n.fields[i])
  /\ Layout(n) = [at |-> p[Len(n.fields)].at,
                  size |-> UpTo(p[Len(n.fields)].end, 8 * p[Len(n.fields)].align) \div 8]

LEMMA PlacesExist ==
  ASSUME NEW n, RecordOk(n)
  PROVE  \E p : Places(p, n)
<1> DEFINE m == Len(n.fields)
           fields == n.fields
           start == [end |-> 8 * n.head, align |-> IF n.head = 0 THEN 1 ELSE 8, at |-> <<>>]
           IsPlaced(p) == p = [i \in 0..m |-> IF i = 0 THEN start
                                              ELSE Place(p[i - 1], fields[i])]
           step == [i \in 1..m |-> [v \in Placements |-> Place(v, fields[i])]]
           p == CHOOSE q : IsPlaced(q)
<1>1. /\ n.head \in Nat /\ m \in Nat /\ DOMAIN fields = 1..m
      /\ \A i \in 1..m : FieldOk(fields[i])
  BY DEF RecordOk
<1> HIDE DEF m
<1>2. start \in Placements
  <2>1. 8 * n.head \in Nat /\ (IF n.head = 0 THEN 1 ELSE 8) \in Nat \ {0} /\ <<>> \in Seq(Nat)
    BY <1>1
  <2> QED BY <2>1 DEF Placements
<1>3. step \in [1..m -> [Placements -> Placements]]
  <2> SUFFICES ASSUME NEW i \in 1..m, NEW v \in Placements
               PROVE  Place(v, fields[i]) \in Placements
    OBVIOUS
  <2>1. FieldOk(fields[i]) BY <1>1
  <2> QED BY <2>1, PlaceIs
<1> HIDE DEF fields
<1>4. PICK f : StepsFrom(f, Placements, m, start, step)
  <2> HIDE DEF step, start
  <2> QED BY <1>1, <1>2, <1>3, StepsExist
<1>5. IsPlaced(f)
  <2> HIDE DEF start
  <2>1. f \in [0..m -> Placements] /\ f[0] = start /\ \A i \in 1..m : f[i] = step[i][f[i - 1]]
    BY <1>4 DEF StepsFrom
  <2>2. ASSUME NEW i \in 0..m
        PROVE  f[i] = IF i = 0 THEN start ELSE Place(f[i - 1], fields[i])
    <3>1. CASE i = 0 BY <3>1, <2>1
    <3>2. CASE i # 0
      <4>1. i \in 1..m /\ i - 1 \in 0..m BY <3>2, <1>1
      <4>2. f[i - 1] \in Placements BY <4>1, <2>1
      <4> QED BY <3>2, <4>1, <4>2, <2>1
    <3> QED BY <3>1, <3>2
  <2>3. f = [i \in 0..m |-> f[i]] BY <2>1
  <2> QED BY <2>2, <2>3, Zenon
<1>6. IsPlaced(p)
  <2> HIDE DEF IsPlaced
  <2> QED BY <1>5
<1>7. Layout(n) = [at |-> p[m].at, size |-> UpTo(p[m].end, 8 * p[m].align) \div 8]
  BY DEF Layout, fields, m
<1>8. /\ p = [i \in 0..m |-> p[i]]
      /\ \A i \in 0..m : p[i] = IF i = 0 THEN start ELSE Place(p[i - 1], fields[i])
  <2> HIDE DEF p, start
  <2> QED BY <1>6
<1> HIDE DEF p
<1>9. p[0] = start /\ \A i \in 1..m : p[i] = Place(p[i - 1], fields[i])
  <2> HIDE DEF start
  <2>1. 0 \in 0..m /\ \A i \in 1..m : i \in 0..m /\ i # 0 BY <1>1
  <2> QED BY <2>1, <1>8
<1>10. \A i \in 0..m : p[i] \in Placements
  <2> HIDE DEF start
  <2>1. p[0] \in Placements BY <1>2, <1>9
  <2>2. ASSUME NEW i \in 1..m, p[i - 1] \in Placements PROVE p[i] \in Placements
    BY <1>1, <1>9, <2>2, PlaceIs
  <2> QED BY <1>1, <2>1, <2>2, StepsTyped
<1>11. p \in [0..m -> Placements]
  <2> HIDE DEF start
  <2> QED BY <1>8, <1>10
<1>12. p[0].end = 8 * n.head /\ p[0].at = <<>> BY <1>9
<1>13. Places(p, n) BY <1>7, <1>9, <1>11, <1>12 DEF Places, m, fields
<1> QED BY <1>13

\* What Places says of the offsets alone.
LEMMA OffsetsAre ==
  ASSUME NEW n, RecordOk(n), NEW p, Places(p, n)
  PROVE  /\ Layout(n).at \in [1..Len(n.fields) -> Nat]
         /\ Layout(n).size \in Nat
         /\ \A i \in 1..Len(n.fields) :
              /\ p[i - 1].end <= Layout(n).at[i]
              /\ p[i].end = Layout(n).at[i] + Width(n.fields[i])
              /\ n.fields[i].bits = 0 => \E k \in Nat : Layout(n).at[i] = 8 * k
<1> DEFINE m == Len(n.fields)
           fields == n.fields
           Offset(i, at) == /\ p[i - 1].end <= at
                            /\ p[i].end = at + Width(fields[i])
                            /\ fields[i].bits = 0 => \E k \in Nat : at = 8 * k
           Good == {i \in Nat : i \in 0..m => /\ Len(p[i].at) = i
                                              /\ \A j \in 1..i : Offset(j, p[i].at[j])}
<1>1. /\ m \in Nat /\ DOMAIN fields = 1..m
      /\ \A i \in 1..m : FieldOk(fields[i])
  BY DEF RecordOk
<1>2. /\ p \in [0..m -> Placements] /\ p[0].at = <<>>
      /\ \A i \in 1..m : p[i] = Place(p[i - 1], fields[i])
      /\ Layout(n) = [at |-> p[m].at, size |-> UpTo(p[m].end, 8 * p[m].align) \div 8]
  BY DEF Places
<1> HIDE DEF m, fields, Offset
<1>3. 0 \in Good BY <1>2
<1>4. ASSUME NEW i \in Nat, i \in Good PROVE i + 1 \in Good
  <2> SUFFICES ASSUME i + 1 \in 0..m
               PROVE  /\ Len(p[i + 1].at) = i + 1
                      /\ \A j \in 1..(i + 1) : Offset(j, p[i + 1].at[j])
    OBVIOUS
  <2> DEFINE k == i + 1
  <2>1. i \in 0..m /\ k \in 1..m /\ k - 1 = i /\ k = i + 1 /\ k \in Nat BY <1>1
  <2>2. Len(p[i].at) = i /\ \A j \in 1..i : Offset(j, p[i].at[j]) BY <2>1, <1>4
  <2>3. p[i] \in Placements /\ p[k] = Place(p[i], fields[k]) /\ FieldOk(fields[k])
    BY <2>1, <1>1, <1>2
  <2>4. p[i].at \in Seq(Nat) BY <2>3 DEF Placements
  <2> HIDE DEF k
  <2>10. PICK at \in Nat : PutAt(at, p[i], fields[k]) BY <2>3, PlaceIs
  <2>5. /\ p[k].at = Append(p[i].at, at)
        /\ p[i].end <= at /\ p[k].end = at + Width(fields[k])
        /\ fields[k].bits = 0 => \E h \in Nat : at = 8 * h
    BY <2>3, <2>10 DEF PutAt
  <2>6. Offset(k, at) BY <2>1, <2>5 DEF Offset
  <2>7. Len(p[k].at) = k BY <2>1, <2>2, <2>4, <2>5
  <2>8. ASSUME NEW j \in 1..k PROVE Offset(j, p[k].at[j])
    <3>1. CASE j = k
      <4>1. p[k].at[k] = at BY <2>1, <2>2, <2>4, <2>5
      <4> QED BY <3>1, <4>1, <2>6
    <3>2. CASE j # k
      <4>1. j \in 1..i BY <2>1, <3>2
      <4>2. p[k].at[j] = p[i].at[j] BY <4>1, <2>2, <2>4, <2>5
      <4> QED BY <4>1, <4>2, <2>2
    <3> QED BY <3>1, <3>2
  <2> QED BY <2>7, <2>8 DEF k
<1> HIDE DEF Good
<1>5. Nat \subseteq Good BY <1>3, <1>4, NumberByNumber
<1>6. Len(p[m].at) = m /\ \A j \in 1..m : Offset(j, p[m].at[j])
  <2>1. m \in Good /\ m \in 0..m BY <1>1, <1>5
  <2> QED BY <2>1 DEF Good
<1>7. p[m] \in Placements
  <2>1. m \in 0..m BY <1>1
  <2> QED BY <2>1, <1>2
<1>8. Layout(n).at \in [1..m -> Nat]
  <2>1. p[m].at \in Seq(Nat) BY <1>7 DEF Placements
  <2> QED BY <2>1, <1>2, <1>6
<1>9. Layout(n).size \in Nat
  <2>1. p[m].end \in Nat /\ p[m].align \in Nat \ {0} BY <1>7 DEF Placements
  <2>2. 8 * p[m].align \in Nat \ {0} BY <2>1
  <2>3. UpTo(p[m].end, 8 * p[m].align) \in Nat BY <2>1, <2>2, RoundedUp
  <2>4. UpTo(p[m].end, 8 * p[m].align) \div 8 \in Nat BY <2>3
  <2> QED BY <2>4, <1>2
<1>10. Layout(n).at = p[m].at BY <1>2
<1> QED BY <1>6, <1>8, <1>9, <1>10 DEF Offset, m, fields

\* The sum of the widths, field by field.
Totals(t, n) ==
  /\ t \in [0..Len(n.fields) -> Nat] /\ t[0] = 0
  /\ \A i \in 1..Len(n.fields) : t[i] = t[i - 1] + Width(n.fields[i])
  /\ PackedSize(n) = (t[Len(n.fields)] + 7) \div 8

LEMMA TotalsExist ==
  ASSUME NEW n, RecordOk(n)
  PROVE  \E t : Totals(t, n)
<1> DEFINE m == Len(n.fields)
           fields == n.fields
           IsTotal(t) == t = [i \in 0..m |-> IF i = 0 THEN 0 ELSE t[i - 1] + Width(fields[i])]
           step == [i \in 1..m |-> [v \in Nat |-> v + Width(fields[i])]]
           t == CHOOSE q : IsTotal(q)
<1>1. m \in Nat /\ \A i \in 1..m : Width(fields[i]) \in Nat
  BY WidthTyped DEF RecordOk
<1>2. PackedSize(n) = (t[m] + 7) \div 8 BY DEF PackedSize
<1> HIDE DEF m, fields
<1>3. step \in [1..m -> [Nat -> Nat]] BY <1>1
<1>4. PICK f : StepsFrom(f, Nat, m, 0, step)
  <2> HIDE DEF step
  <2>1. 0 \in Nat OBVIOUS
  <2> QED BY <1>1, <1>3, <2>1, StepsExist
<1>5. IsTotal(f)
  <2>1. f \in [0..m -> Nat] /\ f[0] = 0 /\ \A i \in 1..m : f[i] = step[i][f[i - 1]]
    BY <1>4 DEF StepsFrom
  <2>2. ASSUME NEW i \in 0..m
        PROVE  f[i] = IF i = 0 THEN 0 ELSE f[i - 1] + Width(fields[i])
    <3>1. CASE i = 0 BY <3>1, <2>1
    <3>2. CASE i # 0
      <4>1. i \in 1..m /\ i - 1 \in 0..m BY <3>2, <1>1
      <4>2. f[i - 1] \in Nat BY <4>1, <2>1
      <4> QED BY <3>2, <4>1, <4>2, <2>1
    <3> QED BY <3>1, <3>2
  <2>3. f = [i \in 0..m |-> f[i]] BY <2>1
  <2> QED BY <2>2, <2>3, Zenon
<1>6. IsTotal(t)
  <2> HIDE DEF IsTotal
  <2> QED BY <1>5
<1>8. /\ t = [i \in 0..m |-> t[i]]
      /\ \A i \in 0..m : t[i] = IF i = 0 THEN 0 ELSE t[i - 1] + Width(fields[i])
  <2> HIDE DEF t
  <2> QED BY <1>6
<1> HIDE DEF t
<1>9. t[0] = 0 /\ \A i \in 1..m : t[i] = t[i - 1] + Width(fields[i])
  <2>1. 0 \in 0..m /\ \A i \in 1..m : i \in 0..m /\ i # 0 BY <1>1
  <2> QED BY <2>1, <1>8
<1>10. \A i \in 0..m : t[i] \in Nat
  <2>1. t[0] \in Nat BY <1>9
  <2>2. ASSUME NEW i \in 1..m, t[i - 1] \in Nat PROVE t[i] \in Nat
    BY <1>1, <1>9, <2>2
  <2> QED BY <1>1, <2>1, <2>2, StepsTyped
<1>11. t \in [0..m -> Nat] BY <1>8, <1>10
<1>12. Totals(t, n) BY <1>2, <1>9, <1>11 DEF Totals, m, fields
<1> QED BY <1>12

\* The bits of the first fields are as many as their widths add up to: no two
\* fields share one.
LEMMA FilledIs ==
  ASSUME NEW n, RecordOk(n), NEW t, Totals(t, n)
  PROVE  Cardinality(UNION {Bits(n, i) : i \in DOMAIN n.fields}) = t[Len(n.fields)]
<1> DEFINE m == Len(n.fields)
           at == Layout(n).at
           W(i) == Width(n.fields[i])
           Filled(i) == UNION {Bits(n, j) : j \in 1..i}
<1>1. PICK p : Places(p, n) BY PlacesExist
<1>2. m \in Nat /\ DOMAIN n.fields = 1..m /\ \A i \in 1..m : W(i) \in Nat
  BY WidthTyped DEF RecordOk
<1>3. /\ at \in [1..m -> Nat]
      /\ \A i \in 1..m : p[i - 1].end <= at[i] /\ p[i].end = at[i] + W(i)
  BY <1>1, OffsetsAre
<1>4. /\ t[0] = 0 /\ \A i \in 1..m : t[i] = t[i - 1] + W(i)
      /\ \A i \in 0..m : t[i] \in Nat
  BY DEF Totals
<1>5. \A i \in 1..m : Bits(n, i) = at[i]..(at[i] + W(i) - 1)
  BY DEF Bits
<1>6. \A i \in 0..m : p[i].end \in Nat
  <2>1. \A i \in 0..m : p[i] \in Placements BY <1>1 DEF Places
  <2> QED BY <2>1 DEF Placements
<1> HIDE DEF m, at, W
<1> DEFINE Good == {i \in Nat : i \in 0..m =>
                      /\ IsFiniteSet(Filled(i)) /\ Cardinality(Filled(i)) = t[i]
                      /\ \A bit \in Filled(i) : bit \in Nat /\ bit < p[i].end}
<1>7. 0 \in Good
  <2>1. Filled(0) = {} OBVIOUS
  <2> QED BY <2>1, <1>4, FS_EmptySet
<1>8. ASSUME NEW i \in Nat, i \in Good PROVE i + 1 \in Good
  <2> SUFFICES ASSUME i + 1 \in 0..m
               PROVE  /\ IsFiniteSet(Filled(i + 1)) /\ Cardinality(Filled(i + 1)) = t[i + 1]
                      /\ \A bit \in Filled(i + 1) : bit \in Nat /\ bit < p[i + 1].end
    OBVIOUS
  <2> DEFINE k == i + 1
             old == Filled(i)
             mine == Bits(n, k)
  <2>1. i \in 0..m /\ k \in 1..m /\ k - 1 = i /\ k \in Nat BY <1>2
  <2>2. /\ IsFiniteSet(old) /\ Cardinality(old) = t[i]
        /\ \A bit \in old : bit \in Nat /\ bit < p[i].end
    BY <2>1, <1>8
  <2>3. Filled(k) = old \cup mine
    <3>1. 1..k = 1..i \cup {k} BY <2>1
    <3> QED BY <3>1
  <2>4. /\ at[k] \in Nat /\ W(k) \in Nat /\ p[i].end \in Nat /\ p[i].end <= at[k]
        /\ p[k].end = at[k] + W(k) /\ t[k] = t[i] + W(k) /\ t[i] \in Nat
    BY <2>1, <1>2, <1>3, <1>4, <1>6
  <2>5. mine = at[k]..(at[k] + W(k) - 1) BY <2>1, <1>5
  <2> HIDE DEF k, old, mine, Filled
  <2>6. IsFiniteSet(mine) /\ Cardinality(mine) = W(k)
    <3>1. at[k] \in Int /\ at[k] + W(k) - 1 \in Int BY <2>4
    <3>2. IsFiniteSet(mine) /\ Cardinality(mine) = IF at[k] > at[k] + W(k) - 1 THEN 0
                                    ELSE (at[k] + W(k) - 1) - at[k] + 1
      BY <3>1, <2>5, FS_Interval
    <3> QED BY <3>2, <2>4
  <2>7. \A bit \in mine : bit \in Nat /\ p[i].end <= bit /\ bit < p[k].end BY <2>4, <2>5
  <2>8. old \cap mine = {} BY <2>2, <2>4, <2>7
  <2>9. IsFiniteSet(old \cup mine) /\ Cardinality(old \cup mine) = t[i] + W(k)
    <3>1. Cardinality(old \cap mine) = 0 BY <2>8, FS_EmptySet
    <3>2. /\ IsFiniteSet(old \cup mine)
          /\ Cardinality(old \cup mine) =
               Cardinality(old) + Cardinality(mine) - Cardinality(old \cap mine)
      BY <2>2, <2>6, FS_Union
    <3> QED BY <3>1, <3>2, <2>2, <2>4, <2>6
  <2>10. ASSUME NEW bit \in old \cup mine PROVE bit \in Nat /\ bit < p[k].end
    <3>1. CASE bit \in mine BY <3>1, <2>7
    <3>2. CASE bit \in old BY <3>2, <2>2, <2>4
    <3> QED BY <3>1, <3>2
  <2> QED BY <2>3, <2>4, <2>9, <2>10 DEF k
<1> HIDE DEF Good, Filled
<1>9. Nat \subseteq Good BY <1>7, <1>8, NumberByNumber
<1>10. Cardinality(Filled(m)) = t[m]
  <2>1. m \in Good /\ m \in 0..m BY <1>2, <1>9
  <2> QED BY <2>1 DEF Good
<1> QED BY <1>2, <1>10 DEF Filled, m

\* A field that begins at a byte has bits in two cache lines exactly if it has
\* bits and the rule's comparison of the lines of its first and last byte says so.
LEMMA LinesOfField ==
  ASSUME NEW k \in Nat, NEW size \in Nat
  PROVE  Cardinality({bit \div (8 * CacheLine) : bit \in (8 * k)..(8 * k + 8 * size - 1)}) > 1
           <=> size > 0 /\ Straddles(8 * k, size)
<1> DEFINE bits  == (8 * k)..(8 * k + 8 * size - 1)
           lines == {bit \div 512 : bit \in bits}
           first == (8 * k) \div 512
           last  == (8 * k + 8 * size - 1) \div 512
<1>1. {bit \div (8 * CacheLine) : bit \in bits} = lines
  <2>1. 8 * CacheLine = 512 BY DEF CacheLine
  <2> HIDE DEF bits
  <2> QED BY <2>1
<1> SUFFICES Cardinality(lines) > 1 <=> size > 0 /\ Straddles(8 * k, size)
  BY <1>1, Zenon
<1>2. CASE size = 0
  <2>1. bits = {} BY <1>2
  <2>2. lines = {} BY <2>1
  <2>3. Cardinality(lines) = 0 BY <2>2, FS_EmptySet
  <2> HIDE DEF lines
  <2> QED BY <1>2, <2>3
<1>3. CASE size > 0
  <2>1. (8 * k) \div 8 = k OBVIOUS
  <2>2. k \div 64 = first OBVIOUS
  <2>3. (k + size - 1) \div 64 = last BY <1>3
  <2>4. Straddles(8 * k, size) <=> first # last
    BY <2>1, <2>2, <2>3 DEF Straddles, CacheLine
  <2>5. first \in Nat /\ last \in Nat /\ first <= last BY <1>3
  <2>6. 8 * k \in bits /\ 8 * k + 8 * size - 1 \in bits BY <1>3
  <2>7. \A bit \in bits : bit \div 512 \in first..last OBVIOUS
  <2> HIDE DEF bits
  <2>8. first \in lines /\ last \in lines BY <2>6
  <2>9. lines \subseteq first..last BY <2>7
  <2> HIDE DEF lines, first, last
  <2>10. IsFiniteSet(lines) /\ Cardinality(lines) \in Nat
    <3>1. IsFiniteSet(first..last) BY <2>5, FS_Interval
    <3> QED BY <3>1, <2>9, FS_Subset, FS_CardinalityType
  <2>11. Cardinality(lines) # 0 BY <2>8, <2>10, FS_EmptySet
  <2>12. ASSUME first = last PROVE Cardinality(lines) = 1
    <3>2. first..last = {first} BY <2>5, <2>12
    <3>1. lines = {first} BY <3>2, <2>8, <2>9
    <3> QED BY <3>1, FS_Singleton
  <2>13. ASSUME Cardinality(lines) = 1 PROVE first = last
    <3>1. \E x : lines = {x} BY <2>10, <2>13, FS_Singleton
    <3> QED BY <3>1, <2>8
  <2>14. Cardinality(lines) > 1 <=> first # last BY <2>10, <2>11, <2>12, <2>13
  <2> QED BY <1>3, <2>4, <2>14
<1> QED BY <1>2, <1>3

\* The fields that are reported as straddling.
LEMMA StraddlingReported ==
  ASSUME NEW n, n.kind = "record", RecordOk(n), NEW i \in DOMAIN n.fields
  PROVE  i \in Reported(CacheLineStraddle(n)) <=>
           /\ n.fields[i].named /\ n.fields[i].type.size > 0
           /\ Straddles(Layout(n).at[i], n.fields[i].type.size)
<1> DEFINE finding(j) == [level |-> Medium, about |-> j]
           reports(j) == /\ n.fields[j].named /\ n.fields[j].type.size > 0
                         /\ Straddles(Layout(n).at[j], n.fields[j].type.size)
           verdict(j) == IF reports(j) THEN <<finding(j)>> ELSE <<>>
           each == [j \in DOMAIN n.fields |-> verdict(j)]
           S == {finding(j) : j \in DOMAIN n.fields}
<1>1. CacheLineStraddle(n) = FlattenSeq(each) BY Zenon DEF CacheLineStraddle
<1>2. \A j \in DOMAIN n.fields : finding(j) \in S /\ finding(j).about = j OBVIOUS
<1>3. each \in Seq(Seq(S))
  <2> HIDE DEF S, reports, finding
  <2>1. \A j \in DOMAIN n.fields : verdict(j) \in Seq(S) BY <1>2
  <2>2. DOMAIN n.fields = 1..Len(n.fields) /\ Len(n.fields) \in Nat BY DEF RecordOk
  <2> HIDE DEF verdict
  <2> QED BY <2>1, <2>2
<1>4. \A j \in DOMAIN n.fields : Range(each[j]) = IF reports(j) THEN {finding(j)} ELSE {}
  <2> HIDE DEF reports, finding
  <2>1. ASSUME NEW x PROVE Range(<<x>>) = {x} BY DEF Range
  <2>2. Range(<<>>) = {} BY DEF Range
  <2> QED BY <2>1, <2>2
<1>5. DOMAIN each = DOMAIN n.fields OBVIOUS
<1> HIDE DEF each, S, reports, finding
<1>6. Range(FlattenSeq(each)) = UNION {Range(each[j]) : j \in DOMAIN n.fields}
  BY <1>3, <1>5, FlattenRange
<1>7. Reported(CacheLineStraddle(n)) = {x.about : x \in Range(FlattenSeq(each))}
  BY <1>1 DEF Reported, Range
<1>8. i \in Reported(CacheLineStraddle(n)) <=> reports(i)
  <2>1. ASSUME reports(i) PROVE i \in Reported(CacheLineStraddle(n))
    <3>1. finding(i) \in Range(each[i]) BY <1>4, <2>1
    <3>2. finding(i) \in Range(FlattenSeq(each)) BY <3>1, <1>6
    <3> QED BY <3>2, <1>2, <1>7
  <2>2. ASSUME i \in Reported(CacheLineStraddle(n)) PROVE reports(i)
    <3>1. PICK x \in Range(FlattenSeq(each)) : x.about = i BY <1>7, <2>2
    <3>2. PICK j \in DOMAIN n.fields : x \in Range(each[j]) BY <3>1, <1>6
    <3>4. Range(each[j]) = IF reports(j) THEN {finding(j)} ELSE {} BY <1>4
    <3>3. reports(j) /\ x = finding(j)
      <4>1. CASE reports(j) BY <3>2, <3>4, <4>1
      <4>2. CASE ~reports(j) BY <3>2, <3>4, <4>2
      <4> QED BY <4>1, <4>2
    <3> QED BY <3>1, <3>3, <1>2
  <2> QED BY <2>1, <2>2
<1> QED BY <1>8 DEF reports

\* The bytes that are reported as padding.
LEMMA PaddingReported ==
  ASSUME NEW n, n.kind = "record", n.tag = "struct", n.head = 0, RecordOk(n)
  PROVE  LET free == 8 * Layout(n).size
                       - Cardinality(UNION {Bits(n, i) : i \in DOMAIN n.fields})
         IN Reported(PaddingDetected(n)) = IF free >= 32 THEN {free \div 8} ELSE {}
<1> DEFINE m == Len(n.fields)
           size == Layout(n).size
           filled == Cardinality(UNION {Bits(n, i) : i \in DOMAIN n.fields})
           free == 8 * size - filled
           wasted == size - PackedSize(n)
<1>1. PICK t : Totals(t, n) BY TotalsExist
<1>2. PICK p : Places(p, n) BY PlacesExist
<1>3. filled = t[m] BY <1>1, FilledIs
<1>4. m \in Nat /\ t[m] \in Nat /\ PackedSize(n) = (t[m] + 7) \div 8 /\ t[0] = 0
  <2>1. m \in Nat BY DEF RecordOk
  <2>2. m \in 0..m BY <2>1
  <2> QED BY <2>1, <2>2, <1>1 DEF Totals
<1>5. size \in Nat BY <1>2, OffsetsAre
<1>6. ASSUME NEW level, NEW about
      PROVE  Reported(<<[level |-> level, about |-> about]>>) = {about}
  BY DEF Reported
<1>7. Reported(<<>>) = {} BY DEF Reported
<1> SUFFICES Reported(PaddingDetected(n)) = IF free >= 32 THEN {free \div 8} ELSE {}
  BY Zenon
<1>8. CASE n.fields = <<>>
  <2>1. m = 0 /\ PaddingDetected(n) = <<>> BY <1>8 DEF PaddingDetected
  <2>2. size = 0
    <3>1. p[0].end = 0 /\ size = UpTo(p[0].end, 8 * p[0].align) \div 8
      BY <1>2, <2>1 DEF Places
    <3>2. p[0].align \in Nat \ {0}
      <4>1. p[0] \in Placements BY <1>2, <2>1 DEF Places
      <4> QED BY <4>1 DEF Placements
    <3> DEFINE step == 8 * p[0].align
    <3>3. step \in Nat \ {0} BY <3>2
    <3> HIDE DEF step
    <3>4. (step - 1) \div step = 0 BY <3>3
    <3>5. UpTo(0, step) = 0 BY <3>3, <3>4 DEF UpTo
    <3> QED BY <3>1, <3>5 DEF step
  <2>3. free = 0 BY <1>3, <1>4, <2>1, <2>2
  <2> HIDE DEF free
  <2> QED BY <2>1, <2>3, <1>7
<1>9. CASE n.fields # <<>>
  <2>1. PaddingDetected(n) = IF wasted < 4 THEN <<>>
                             ELSE <<[level |-> High, about |-> wasted]>>
    BY <1>9, Zenon DEF PaddingDetected
  <2> HIDE DEF size, filled, m
  <2>2. free = 8 * size - t[m] /\ wasted = size - ((t[m] + 7) \div 8) BY <1>3, <1>4
  <2>3. wasted < 4 <=> ~(free >= 32) BY <2>2, <1>4, <1>5
  <2>4. free >= 32 => wasted = free \div 8 BY <2>2, <1>4, <1>5
  <2> HIDE DEF free, wasted
  <2>5. CASE wasted < 4 BY <2>1, <2>3, <2>5, <1>7
  <2>6. CASE ~(wasted < 4) BY <2>1, <2>3, <2>4, <2>6, <1>6
  <2> QED BY <2>5, <2>6
<1> QED BY <1>8, <1>9

\* Padding is reported exactly where there is some and as it is, and a field as
\* straddling exactly if it does (padding_detected.cpp:22-59,
\* cache_line_straddle.cpp:40-57), in records of fields of any number, width
\* and alignment.
THEOREM LayoutFindings == Spec => []LayoutFindingsAreExact
<1>1. Walk => LayoutFindingsAreExact
  <2> SUFFICES ASSUME Walk, NEW n \in Visited, n.kind = "record"
               PROVE  /\ n.head = 0 /\ n.tag = "struct" =>
                           LET free == 8 * Layout(n).size
                                 - Cardinality(UNION {Bits(n, i) : i \in DOMAIN n.fields})
                           IN Reported(PaddingDetected(n)) =
                                IF free >= 32 THEN {free \div 8} ELSE {}
                      /\ \A i \in DOMAIN n.fields : n.fields[i].bits = 0 =>
                           (i \in Reported(CacheLineStraddle(n)) <=>
                              /\ n.fields[i].named
                              /\ Cardinality({bit \div (8 * CacheLine) : bit \in Bits(n, i)}) > 1)
    BY Zenon DEF LayoutFindingsAreExact
  <2>1. n \in Nodes BY DEF Visited, Last, Walk
  <2>2. RecordOk(n)
    BY <2>1, EngineAssumption, LayoutAssumption DEF RecordOk, FieldOk
  <2>3. ASSUME NEW i \in DOMAIN n.fields, n.fields[i].bits = 0
        PROVE  i \in Reported(CacheLineStraddle(n)) <=>
                 /\ n.fields[i].named
                 /\ Cardinality({bit \div (8 * CacheLine) : bit \in Bits(n, i)}) > 1
    <3> DEFINE f == n.fields[i]
               first == Layout(n).at[i]
    <3>1. i \in 1..Len(n.fields) /\ FieldOk(f) BY <2>2 DEF RecordOk
    <3>2. PICK p : Places(p, n) BY <2>2, PlacesExist
    <3>3. \E k \in Nat : first = 8 * k
      <4> HIDE DEF f
      <4> QED BY <2>2, <2>3, <3>1, <3>2, OffsetsAre
    <3>4. PICK k \in Nat : first = 8 * k BY <3>3
    <3>5. f.type.size \in Nat /\ Width(f) = 8 * f.type.size
      BY <2>3, <3>1 DEF FieldOk, Width
    <3>6. Bits(n, i) = (8 * k)..(8 * k + 8 * f.type.size - 1)
      BY <3>4, <3>5 DEF Bits
    <3>7. i \in Reported(CacheLineStraddle(n)) <=>
            f.named /\ f.type.size > 0 /\ Straddles(8 * k, f.type.size)
      <4>1. i \in Reported(CacheLineStraddle(n)) <=>
              f.named /\ f.type.size > 0 /\ Straddles(first, f.type.size)
        BY <2>2, StraddlingReported
      <4> HIDE DEF f, first
      <4> QED BY <3>4, <4>1
    <3> HIDE DEF f
    <3>8. Cardinality({bit \div (8 * CacheLine) : bit \in (8 * k)..(8 * k + 8 * f.type.size - 1)}) > 1
            <=> f.type.size > 0 /\ Straddles(8 * k, f.type.size)
      BY <3>5, LinesOfField
    <3> QED BY <3>6, <3>7, <3>8 DEF f
  <2>4. ASSUME n.head = 0, n.tag = "struct"
        PROVE  LET free == 8 * Layout(n).size
                     - Cardinality(UNION {Bits(n, i) : i \in DOMAIN n.fields})
               IN Reported(PaddingDetected(n)) =
                    IF free >= 32 THEN {free \div 8} ELSE {}
    BY <2>2, <2>4, PaddingReported
  <2> QED BY <2>3, <2>4, Zenon
<1> QED BY <1>1, WalkHolds, PTL

-----------------------------------------------------------------------------
(* Findings                                                                *)

IsSequence(x) == x \in Seq(Range(x))

LEMMA Sequences ==
  ASSUME NEW S, NEW x \in Seq(S)
  PROVE  IsSequence(x)
BY DEF IsSequence, Range

\* Two sequences joined are one.
LEMMA JoinedSequence ==
  ASSUME NEW a, NEW b, IsSequence(a), IsSequence(b)
  PROVE  IsSequence(a \o b)
<1> DEFINE S == Range(a) \cup Range(b)
<1>1. a \in Seq(S) /\ b \in Seq(S) BY DEF IsSequence
<1> HIDE DEF S
<1>2. a \o b \in Seq(S) BY <1>1
<1> QED BY <1>2, Sequences

\* The rules whose findings are notes in the report.
LowRules ==
  {"vec.complex-cf", "vec.reduction-fp", "concurrency.mutex-where-atomic",
   "memory_layout.aos-to-soa", "constexpr.promotion-function"}

\* A sequence of findings, all of that level.
Rated(verdict, level) == IsSequence(verdict) /\ \A x \in Range(verdict) : x.level = level

\* What a rule returns is a sequence of findings of one level.
LEMMA VerdictsAreRated ==
  ASSUME NEW n \in Nodes, NEW r \in DOMAIN Rules
  PROVE  /\ IsSequence(Verdicts(n)[r])
         /\ \A x \in Range(Verdicts(n)[r]) : x.level = Low <=> Rules[r] \in LowRules
<1>1. \A level : Rated(<<>>, level) BY DEF Rated, IsSequence, Range
<1>2. \A level, about : Rated(<<[level |-> level, about |-> about]>>, level)
  BY DEF Rated, IsSequence, Range
<1>3. \A fires, level : Rated(Report(fires, level), level)
  <2> HIDE DEF Rated
  <2> QED BY <1>1, <1>2, Zenon DEF Report
<1>4. Rated(PaddingDetected(n), High)
  <2> HIDE DEF Rated
  <2> QED BY <1>1, <1>2, Zenon DEF PaddingDetected
<1>5. Rated(MutexWhereAtomic(n), Low)
  <2> HIDE DEF Rated
  <2> QED BY <1>1, <1>3, Zenon DEF MutexWhereAtomic
<1>6. Rated(CacheLineStraddle(n), Medium)
  <2>1. CASE n.kind # "record" BY <1>1, <2>1 DEF CacheLineStraddle
  <2>2. CASE n.kind = "record"
    <3> DEFINE S    == {[level |-> Medium, about |-> i] : i \in DOMAIN n.fields}
               F(i) == IF /\ n.fields[i].named /\ n.fields[i].type.size > 0
                          /\ Straddles(Layout(n).at[i], n.fields[i].type.size)
                         THEN <<[level |-> Medium, about |-> i]>> ELSE <<>>
               each == [i \in DOMAIN n.fields |-> F(i)]
    <3>1. n.fields \in Seq(Range(n.fields)) BY <2>2, EngineAssumption
    <3>2. DOMAIN n.fields = 1..Len(n.fields) /\ Len(n.fields) \in Nat BY <3>1
    <3>3. \A i \in DOMAIN n.fields : F(i) \in Seq(S)
      <4>1. \A i \in DOMAIN n.fields : [level |-> Medium, about |-> i] \in S OBVIOUS
      <4> HIDE DEF S
      <4> QED BY <4>1
    <3>4. each \in Seq(Seq(S))
      <4> HIDE DEF S, F
      <4> QED BY <3>2, <3>3
    <3>5. FlattenSeq(each) \in Seq(S)
      <4> HIDE DEF S, each
      <4> QED BY <3>4, FlattenTyped
    <3>6. CacheLineStraddle(n) = FlattenSeq(each) BY <2>2, Zenon DEF CacheLineStraddle
    <3>7. \A x \in S : x.level = Medium OBVIOUS
    <3> HIDE DEF S, each
    <3>8. IsSequence(CacheLineStraddle(n)) BY <3>5, <3>6, Sequences
    <3>9. Range(CacheLineStraddle(n)) \subseteq S BY <3>5, <3>6 DEF Range
    <3> QED BY <3>7, <3>8, <3>9 DEF Rated
  <2> QED BY <2>1, <2>2
<1>7. CASE ~n.main
  <2>1. Verdicts(n)[r] = <<>> BY <1>7 DEF Verdicts
  <2> QED BY <2>1 DEF IsSequence, Range
<1>8. CASE n.main
  <2> DEFINE levels == <<High, High, High, Medium, Medium, Medium, High, High, Medium,
                         Low, Low, Low, Medium, Medium, High, Medium, Low, Low, Medium,
                         Medium>>
  <2>1. r \in 1..20 BY DEF Rules
  <2>2. Verdicts(n) =
          <<NoexceptMoveOps(n), RangeForCopy(n), EndlFlush(n),
            VectorNoReserve(n), StdFunction(n), VirtualDispatch(n),
            PaddingDetected(n), PromotionVariable(n), VecAliasing(n),
            ComplexCf(n), ReductionFp(n), MutexWhereAtomic(n),
            AllocationInLoop(n), NodiscardReturn(n), SignedLoopBound(n),
            CacheLineStraddle(n), AosToSoa(n),
            PromotionFunction(n), MapInLoop(n), UnorderedMapNoReserve(n)>>
    BY <1>8 DEF Verdicts
  <2>3. /\ Rated(NoexceptMoveOps(n), High) /\ Rated(RangeForCopy(n), High)
        /\ Rated(EndlFlush(n), High) /\ Rated(VectorNoReserve(n), Medium)
        /\ Rated(StdFunction(n), Medium) /\ Rated(VirtualDispatch(n), Medium)
        /\ Rated(PromotionVariable(n), High) /\ Rated(VecAliasing(n), Medium)
        /\ Rated(ComplexCf(n), Low) /\ Rated(ReductionFp(n), Low)
        /\ Rated(AllocationInLoop(n), Medium) /\ Rated(NodiscardReturn(n), Medium)
        /\ Rated(SignedLoopBound(n), High) /\ Rated(AosToSoa(n), Low)
        /\ Rated(PromotionFunction(n), Low) /\ Rated(MapInLoop(n), Medium)
        /\ Rated(UnorderedMapNoReserve(n), Medium)
    BY <1>3, Zenon
    DEF NoexceptMoveOps, RangeForCopy, EndlFlush, VectorNoReserve, StdFunction,
        VirtualDispatch, PromotionVariable, VecAliasing, ComplexCf, ReductionFp,
        AllocationInLoop, NodiscardReturn, SignedLoopBound, AosToSoa,
        PromotionFunction, MapInLoop, UnorderedMapNoReserve
  <2>4. Rated(Verdicts(n)[r], levels[r])
    BY <1>4, <1>5, <1>6, <2>1, <2>2, <2>3
  <2>5. levels[r] = Low <=> Rules[r] \in LowRules
    BY <2>1 DEF Rules, LowRules, High, Medium, Low
  <2> HIDE DEF levels
  <2> QED BY <2>4, <2>5 DEF Rated
<1> QED BY <1>7, <1>8

\* With the next node, what the rule says of it comes to its own findings.
LEMMA OneMoreNode ==
  ASSUME NEW r, NEW file, NEW nodes \in Seq(Nodes), NEW n \in Nodes,
         IsSequence(Verdicts(n)[r])
  PROVE  LET signed == [j \in DOMAIN Verdicts(n)[r] |->
                          [rule |-> Rules[r], file |-> file,
                           level |-> Verdicts(n)[r][j].level,
                           about |-> Verdicts(n)[r][j].about]]
         IN /\ IsSequence(signed)
            /\ OwnFindings(r, [file |-> file, seen |-> Append(nodes, n)])
                 = OwnFindings(r, [file |-> file, seen |-> nodes]) \o signed
<1> DEFINE F(x)   == [j \in DOMAIN Verdicts(x)[r] |->
                        [rule |-> Rules[r], file |-> file,
                         level |-> Verdicts(x)[r][j].level,
                         about |-> Verdicts(x)[r][j].about]]
           all(s) == [k \in DOMAIN s |-> F(s[k])]
<1>1. IsSequence(F(n))
  <2> DEFINE v == Verdicts(n)[r]
             g(x) == [rule |-> Rules[r], file |-> file, level |-> x.level, about |-> x.about]
  <2>1. v \in Seq(Range(v)) BY DEF IsSequence
  <2>2. F(n) = [j \in DOMAIN v |-> g(v[j])] OBVIOUS
  <2> HIDE DEF v, g, F
  <2>3. F(n) \in Seq({g(v[j]) : j \in DOMAIN v}) BY <2>1, <2>2
  <2> QED BY <2>3, Sequences
<1>2. \A s : OwnFindings(r, [file |-> file, seen |-> s]) = FlattenSeq(all(s))
  BY Zenon DEF OwnFindings
<1> HIDE DEF F
<1>3. all(Append(nodes, n)) = Append(all(nodes), F(n)) OBVIOUS
<1>4. all(nodes) \in Seq({F(x) : x \in Nodes}) OBVIOUS
<1>5. F(n) \in Seq(Range(F(n))) BY <1>1 DEF IsSequence
<1> DEFINE old == all(nodes)
           more == F(n)
<1>6. FlattenSeq(Append(old, more)) = FlattenSeq(old) \o more
  <2> HIDE DEF old, more, all
  <2>1. \A S, T : old \in Seq(T) /\ more \in Seq(S)
          => FlattenSeq(Append(old, more)) = FlattenSeq(old) \o more
    BY FlattenAppend
  <2> QED BY <1>4, <1>5, <2>1 DEF old, more
<1> HIDE DEF all
<1> QED BY <1>1, <1>2, <1>3, <1>6 DEF F

-----------------------------------------------------------------------------
(* What each analysis takes                                                *)

\* What the rule found in the current file so far.
Own(r) == OwnFindings(r, [file |-> Head(files), seen |-> seen])

\* The rule may still have findings of an analysis that threw.
MayKeep(r) == threw /\ Rules[r] \in KeepingRules

\* Between files the rules hold nothing unless an analysis threw; during the
\* walk of a file they hold what they found in it, and before it only what
\* MayKeep says.
Held(r) ==
  /\ IsSequence(findings[r])
  /\ state # "walking" /\ ~threw => findings[r] = <<>>
  /\ state = "walking" =>
       /\ IsSequence(Own(r))
       /\ IF MayKeep(r)
            THEN \E older : IsSequence(older) /\ findings[r] = older \o Own(r)
            ELSE findings[r] = Own(r)

\* FindingsAreOwn of one batch.
TakenIsOwn(b) ==
  \A r \in DOMAIN Rules :
    b.complete =>
      IF b.after /\ Rules[r] \in KeepingRules
        THEN IsSuffix(OwnFindings(r, b), b.found[r])
        ELSE b.found[r] = OwnFindings(r, b)

Taking ==
  /\ Walk /\ TypeOK
  /\ batches \in Seq(Range(batches))
  /\ \A r \in DOMAIN Rules : Held(r)
  /\ \A b \in Range(batches) : TakenIsOwn(b)

\* One more batch.
LEMMA OneMoreBatch ==
  ASSUME NEW done, NEW b, done \in Seq(Range(done)),
         \A x \in Range(done) : TakenIsOwn(x), TakenIsOwn(b)
  PROVE  /\ Append(done, b) \in Seq(Range(Append(done, b)))
         /\ \A x \in Range(Append(done, b)) : TakenIsOwn(x)
<1> DEFINE S == Range(done) \cup {b}
           more == Append(done, b)
<1>1. done \in Seq(S) /\ b \in S OBVIOUS
<1>2. \A x \in S : TakenIsOwn(x) OBVIOUS
<1> HIDE DEF S
<1>3. more \in Seq(S) BY <1>1
<1> HIDE DEF more
<1>4. more \in Seq(Range(more)) BY <1>3 DEF Range
<1>5. Range(more) \subseteq S BY <1>3 DEF Range
<1> QED BY <1>2, <1>4, <1>5 DEF more

\* A sequence of what a rule found ends with what it found here.
LEMMA TakenEndsWithOwn ==
  ASSUME NEW r \in DOMAIN Rules, Held(r), state = "walking"
  PROVE  IF MayKeep(r) THEN IsSuffix(Own(r), findings[r]) ELSE findings[r] = Own(r)
<1>1. CASE MayKeep(r)
  <2>1. PICK older : IsSequence(older) /\ findings[r] = older \o Own(r)
    BY <1>1 DEF Held
  <2> DEFINE own == Own(r)
             S   == Range(older) \cup Range(own)
  <2>2. older \in Seq(S) /\ own \in Seq(S)
    <3>1. own \in Seq(Range(own)) /\ older \in Seq(Range(older))
      BY <2>1 DEF Held, IsSequence
    <3> HIDE DEF own
    <3> QED BY <3>1
  <2> HIDE DEF S, own
  <2>3. IsSuffix(own, older \o own) BY <2>2, EndsWith
  <2> QED BY <1>1, <2>1, <2>3 DEF own
<1>2. CASE ~MayKeep(r)
  BY <1>2 DEF Held
<1> QED BY <1>1, <1>2

LEMMA TakingHolds == Spec => []Taking
<1>1. Init => Taking
  <2> SUFFICES ASSUME Init PROVE Taking OBVIOUS
  <2>1. Walk BY EngineAssumption DEF Init, Walk
  <2>2. TypeOK BY DEF Init, TypeOK
  <2>3. \A r \in DOMAIN Rules : Held(r)
    BY DEF Init, Held, IsSequence
  <2>4. batches = <<>> /\ Range(batches) = {} BY DEF Init, Range
  <2> QED BY <2>1, <2>2, <2>3, <2>4 DEF Taking
<1>2. Taking /\ Walk' /\ [Next]_vars => Taking'
  <2> SUFFICES ASSUME Taking, Walk', [Next]_vars PROVE Taking' OBVIOUS
  <2> USE DEF Taking
  <2>1. CASE LoadProject \/ NoProject \/ WriteReport \/ CannotWrite \/ UNCHANGED vars
    <3>1. UNCHANGED <<files, findings, tree, seen, batches, threw>>
      BY <2>1 DEF LoadProject, NoProject, WriteReport, CannotWrite, vars
    <3>2. state = "walking" <=> state' = "walking"
      BY <2>1 DEF LoadProject, NoProject, WriteReport, CannotWrite, vars
    <3>3. TypeOK'
      BY <2>1, <3>1, <3>2 DEF TypeOK, LoadProject, NoProject, WriteReport, CannotWrite, vars
    <3>4. \A r \in DOMAIN Rules : Held(r)'
      BY <3>1, <3>2 DEF Held, Own, MayKeep
    <3>5. (\A b \in Range(batches) : TakenIsOwn(b))' /\ (batches \in Seq(Range(batches)))'
      BY <3>1 DEF TakenIsOwn
    <3> QED BY <3>3, <3>4, <3>5
  <2>2. CASE StartFile
    <3>1. /\ state = "between" /\ state' = "walking" /\ seen' = <<>>
          /\ tree' \in Trees[Head(files)] /\ tree' \in Seq(Nodes)
          /\ UNCHANGED <<files, batches, threw, report>>
      BY <2>2 DEF StartFile, Walk
    <3>2. \A r \in DOMAIN Rules :
            findings'[r] = IF Rules[r] \in KeepingRules THEN findings[r] ELSE <<>>
      BY <2>2 DEF StartFile, RegisterMatchers
    <3>3. TypeOK'
      <4>1. DOMAIN findings' = DOMAIN Rules BY <2>2 DEF StartFile, RegisterMatchers
      <4>2. seen' \o tree' = tree' BY <3>1
      <4> QED BY <3>1, <4>1, <4>2 DEF TypeOK
    <3>4. ASSUME NEW r \in DOMAIN Rules PROVE Held(r)'
      <4>1. IsSequence(<<>>) BY DEF IsSequence
      <4>2. Own(r)' = <<>>
        <5>1. OwnFindings(r, [file |-> Head(files'), seen |-> <<>>]) = <<>>
          BY DEF OwnFindings, FlattenSeq
        <5> QED BY <3>1, <5>1 DEF Own
      <4>3. IsSequence(findings[r]) BY DEF Held
      <4>4. IsSequence(findings'[r]) BY <3>2, <4>1, <4>3
      <4>5. CASE threw /\ Rules[r] \in KeepingRules
        <5>1. findings'[r] = findings'[r] \o <<>>
          <6> DEFINE f == findings'[r]
          <6>1. f \in Seq(Range(f)) BY <4>4 DEF IsSequence
          <6> HIDE DEF f
          <6>2. f = f \o <<>> BY <6>1
          <6> QED BY <6>2 DEF f
        <5> QED BY <3>1, <4>1, <4>2, <4>4, <4>5, <5>1 DEF Held, MayKeep
      <4>6. CASE ~(threw /\ Rules[r] \in KeepingRules)
        <5>1. findings'[r] = <<>> BY <3>1, <3>2, <4>6 DEF Held
        <5> QED BY <3>1, <4>1, <4>2, <4>4, <4>6, <5>1 DEF Held, MayKeep
      <4> QED BY <4>5, <4>6
    <3>5. (\A b \in Range(batches) : TakenIsOwn(b))' /\ (batches \in Seq(Range(batches)))'
      BY <3>1 DEF TakenIsOwn
    <3> QED BY <3>3, <3>4, <3>5
  <2>3. CASE ParseFails
    <3> DEFINE b == [file |-> Head(files), seen |-> <<>>, found |-> <<>>,
                     complete |-> FALSE, after |-> threw]
    <3>1. /\ state = "between" /\ batches' = Append(batches, b)
          /\ UNCHANGED <<state, tree, seen, threw, report>>
      BY <2>3 DEF ParseFails
    <3>2. \A r \in DOMAIN Rules :
            findings'[r] = IF Rules[r] \in KeepingRules THEN findings[r] ELSE <<>>
      BY <2>3 DEF ParseFails, RegisterMatchers
    <3>3. TypeOK'
      <4>1. DOMAIN findings' = DOMAIN Rules BY <2>3 DEF ParseFails, RegisterMatchers
      <4> QED BY <3>1, <4>1 DEF TypeOK
    <3>4. ASSUME NEW r \in DOMAIN Rules PROVE Held(r)'
      <4>1. IsSequence(<<>>) BY DEF IsSequence
      <4>2. IsSequence(findings[r]) BY DEF Held
      <4>3. IsSequence(findings'[r]) BY <3>2, <4>1, <4>2
      <4>4. ~threw => findings'[r] = <<>> BY <3>1, <3>2 DEF Held
      <4> QED BY <3>1, <4>3, <4>4 DEF Held
    <3>5. TakenIsOwn(b) BY DEF TakenIsOwn
    <3> HIDE DEF b
    <3>6. (\A x \in Range(batches) : TakenIsOwn(x))' /\ (batches \in Seq(Range(batches)))'
      <4>1. /\ Append(batches, b) \in Seq(Range(Append(batches, b)))
            /\ \A x \in Range(Append(batches, b)) : TakenIsOwn(x)
        BY <3>5, OneMoreBatch
      <4> QED BY <3>1, <4>1 DEF TakenIsOwn
    <3> QED BY <3>3, <3>4, <3>6
  <2>4. CASE Visit
    <3> DEFINE n == Head(tree)
    <3>1. /\ state = "walking" /\ tree # <<>> /\ n \in Nodes /\ seen \in Seq(Nodes)
          /\ tree \in Seq(Nodes) /\ tree' = Tail(tree) /\ seen' = Append(seen, n)
          /\ UNCHANGED <<files, state, batches, threw, report>>
      BY <2>4 DEF Visit, Walk
    <3>2. \A r \in DOMAIN Rules : findings'[r] = findings[r] \o Signed(r, Verdicts(n)[r])
      BY <2>4 DEF Visit
    <3> HIDE DEF n
    <3>3. TypeOK'
      <4>1. DOMAIN findings' = DOMAIN Rules BY <2>4 DEF Visit
      <4>2. Append(seen, Head(tree)) \o Tail(tree) = seen \o tree
        BY <3>1
      <4>3. seen' \o tree' \in Trees[Head(files')]
        BY <3>1, <4>2 DEF TypeOK, n
      <4> QED BY <3>1, <4>1, <4>3 DEF TypeOK
    <3>4. ASSUME NEW r \in DOMAIN Rules PROVE Held(r)'
      <4> DEFINE more == Signed(r, Verdicts(n)[r])
                 own  == Own(r)
                 old  == findings[r]
      <4>1. /\ IsSequence(more)
            /\ Own(r)' = own \o more
        <5>1. IsSequence(Verdicts(n)[r]) BY <3>1, VerdictsAreRated
        <5> DEFINE signed == [j \in DOMAIN Verdicts(n)[r] |->
                                [rule |-> Rules[r], file |-> Head(files),
                                 level |-> Verdicts(n)[r][j].level,
                                 about |-> Verdicts(n)[r][j].about]]
        <5>2. /\ IsSequence(signed)
              /\ OwnFindings(r, [file |-> Head(files), seen |-> Append(seen, n)])
                   = OwnFindings(r, [file |-> Head(files), seen |-> seen]) \o signed
          BY <3>1, <5>1, OneMoreNode, Zenon
        <5>3. more = signed BY DEF Signed
        <5> HIDE DEF signed
        <5> QED BY <3>1, <5>2, <5>3 DEF Own
      <4>2. IsSequence(old) /\ IsSequence(own) BY <3>1 DEF Held
      <4>3. findings'[r] = old \o more BY <3>2
      <4> HIDE DEF more, own, old
      <4>4. IsSequence(old \o more) /\ IsSequence(own \o more)
        BY <4>1, <4>2, JoinedSequence
      <4>5. CASE MayKeep(r)
        <5>1. PICK older : IsSequence(older) /\ old = older \o own
          BY <3>1, <4>5 DEF Held, old, own
        <5>2. old \o more = older \o (own \o more)
          <6> DEFINE S == Range(older) \cup Range(own) \cup Range(more)
          <6>1. older \in Seq(S) /\ own \in Seq(S) /\ more \in Seq(S)
            BY <4>1, <4>2, <5>1 DEF IsSequence
          <6> HIDE DEF S
          <6>2. (older \o own) \o more = older \o (own \o more)
            BY <6>1
          <6> QED BY <5>1, <6>2
        <5>3. MayKeep(r)' BY <3>1, <4>5 DEF MayKeep
        <5> QED BY <3>1, <4>1, <4>3, <4>4, <5>1, <5>2, <5>3 DEF Held
      <4>6. CASE ~MayKeep(r)
        <5>1. old = own BY <3>1, <4>6 DEF Held, old, own
        <5>2. ~MayKeep(r)' BY <3>1, <4>6 DEF MayKeep
        <5> QED BY <3>1, <4>1, <4>3, <4>4, <5>1, <5>2 DEF Held
      <4> QED BY <4>5, <4>6
    <3>5. (\A b \in Range(batches) : TakenIsOwn(b))' /\ (batches \in Seq(Range(batches)))'
      BY <3>1 DEF TakenIsOwn
    <3> QED BY <3>3, <3>4, <3>5
  <2>5. CASE Throw
    <3> DEFINE b == [file |-> Head(files), seen |-> seen, found |-> <<>>,
                     complete |-> FALSE, after |-> threw]
    <3>1. /\ state' = "between" /\ batches' = Append(batches, b) /\ threw' = TRUE
          /\ tree' = <<>> /\ seen' = <<>> /\ UNCHANGED <<findings, report>>
      BY <2>5 DEF Throw
    <3>2. state = "walking" BY <2>5 DEF Throw
    <3>3. TypeOK' BY <3>1, <3>2 DEF TypeOK
    <3>4. \A r \in DOMAIN Rules : Held(r)' BY <3>1 DEF Held
    <3>5. TakenIsOwn(b) BY DEF TakenIsOwn
    <3> HIDE DEF b
    <3>6. (\A x \in Range(batches) : TakenIsOwn(x))' /\ (batches \in Seq(Range(batches)))'
      <4>1. /\ Append(batches, b) \in Seq(Range(Append(batches, b)))
            /\ \A x \in Range(Append(batches, b)) : TakenIsOwn(x)
        BY <3>5, OneMoreBatch
      <4> QED BY <3>1, <4>1 DEF TakenIsOwn
    <3> QED BY <3>3, <3>4, <3>6
  <2>6. CASE TakeFindings
    <3> DEFINE b == [file |-> Head(files), seen |-> seen, found |-> findings,
                     complete |-> TRUE, after |-> threw]
    <3>1. /\ state = "walking" /\ tree = <<>> /\ state' = "between"
          /\ batches' = Append(batches, b) /\ threw' = FALSE /\ seen' = <<>>
          /\ UNCHANGED <<tree, report>>
      BY <2>6 DEF TakeFindings
    <3>2. findings' = [r \in DOMAIN Rules |-> <<>>] BY <2>6 DEF TakeFindings
    <3>3. TypeOK' BY <3>1, <3>2 DEF TypeOK
    <3>4. \A r \in DOMAIN Rules : Held(r)'
      <4>1. IsSequence(<<>>) BY DEF IsSequence
      <4> QED BY <3>1, <3>2, <4>1 DEF Held
    <3>5. TakenIsOwn(b)
      <4> SUFFICES ASSUME NEW r \in DOMAIN Rules
                   PROVE  IF threw /\ Rules[r] \in KeepingRules
                            THEN IsSuffix(OwnFindings(r, b), findings[r])
                            ELSE findings[r] = OwnFindings(r, b)
        BY DEF TakenIsOwn
      <4>1. OwnFindings(r, b) = Own(r) BY Zenon DEF OwnFindings, Own
      <4>2. IF MayKeep(r) THEN IsSuffix(Own(r), findings[r]) ELSE findings[r] = Own(r)
        BY <3>1, TakenEndsWithOwn
      <4> HIDE DEF b
      <4> QED BY <4>1, <4>2 DEF MayKeep
    <3> HIDE DEF b
    <3>6. (\A x \in Range(batches) : TakenIsOwn(x))' /\ (batches \in Seq(Range(batches)))'
      <4>1. /\ Append(batches, b) \in Seq(Range(Append(batches, b)))
            /\ \A x \in Range(Append(batches, b)) : TakenIsOwn(x)
        BY <3>5, OneMoreBatch
      <4> QED BY <3>1, <4>1 DEF TakenIsOwn
    <3> QED BY <3>3, <3>4, <3>6
  <2> QED BY <2>1, <2>2, <2>3, <2>4, <2>5, <2>6 DEF Next
<1> QED BY <1>1, <1>2, WalkHolds, PTL DEF Spec

\* Each analysis takes from each rule what the rule found in the file, in every
\* project, whichever files do not parse or throw, and whatever the trees are
\* (rules/engine.cpp:62-87, main.cpp:395-406).
THEOREM TakenFindings == Spec => []FindingsAreOwn
<1>1. Taking => FindingsAreOwn
  BY DEF Taking, TakenIsOwn, FindingsAreOwn
<1> QED BY <1>1, TakingHolds, PTL
-----------------------------------------------------------------------------
(* The report                                                              *)

\* A finding of a file, with the level of its rule.
Proper(x) == x.file \in DOMAIN Trees /\ (x.level = Low <=> x.rule \in LowRules)

ProperSeq(s) == IsSequence(s) /\ \A x \in Range(s) : Proper(x)

LEMMA ProperSequences ==
  ASSUME NEW S, NEW s \in Seq(S), \A x \in S : Proper(x)
  PROVE  ProperSeq(s)
<1>1. Range(s) \subseteq S BY DEF Range
<1> QED BY <1>1, Sequences DEF ProperSeq

\* Findings joined to others, and sequences of findings joined to one.
LEMMA ProperJoined ==
  ASSUME NEW a, NEW b, ProperSeq(a), ProperSeq(b)
  PROVE  ProperSeq(a \o b)
<1> DEFINE S == Range(a) \cup Range(b)
<1>1. a \in Seq(S) /\ b \in Seq(S) BY DEF ProperSeq, IsSequence
<1>2. \A x \in S : Proper(x) BY DEF ProperSeq
<1> HIDE DEF S
<1>3. a \o b \in Seq(S) BY <1>1
<1> QED BY <1>2, <1>3, ProperSequences

LEMMA ProperFlattened ==
  ASSUME NEW s, IsSequence(s), \A i \in DOMAIN s : ProperSeq(s[i])
  PROVE  ProperSeq(FlattenSeq(s))
<1> DEFINE S == UNION {Range(s[i]) : i \in DOMAIN s}
<1>1. \A i \in DOMAIN s : s[i] \in Seq(S)
  <2>1. \A i \in DOMAIN s : s[i] \in Seq(Range(s[i])) /\ Range(s[i]) \subseteq S
    BY DEF ProperSeq, IsSequence
  <2> HIDE DEF S
  <2> QED BY <2>1
<1>2. \A x \in S : Proper(x) BY DEF ProperSeq
<1> HIDE DEF S
<1>3. s \in Seq(Range(s)) BY DEF IsSequence
<1>4. s \in Seq(Seq(S)) BY <1>1, <1>3
<1>5. FlattenSeq(s) \in Seq(S) BY <1>4, FlattenTyped
<1> QED BY <1>2, <1>5, ProperSequences

\* What a rule reports in a file.
LEMMA SignedIsProper ==
  ASSUME NEW n \in Nodes, NEW r \in DOMAIN Rules, Head(files) \in DOMAIN Trees
  PROVE  ProperSeq(Signed(r, Verdicts(n)[r]))
<1> DEFINE v == Verdicts(n)[r]
           g(x) == [rule |-> Rules[r], file |-> Head(files),
                    level |-> x.level, about |-> x.about]
           S == {g(x) : x \in Range(v)}
<1>1. /\ v \in Seq(Range(v))
      /\ \A x \in Range(v) : x.level = Low <=> Rules[r] \in LowRules
  BY VerdictsAreRated DEF IsSequence
<1>2. \A x \in S : Proper(x) BY <1>1 DEF Proper
<1>3. Signed(r, v) = [k \in DOMAIN v |-> g(v[k])] BY DEF Signed
<1>4. \A k \in DOMAIN v : g(v[k]) \in S BY DEF Range
<1> HIDE DEF g, S, v
<1>5. Signed(r, v) \in Seq(S) BY <1>1, <1>3, <1>4
<1>6. ProperSeq(Signed(r, v)) BY <1>2, <1>5, ProperSequences
<1> QED BY <1>6 DEF v

\* All findings, those held and those taken, are proper, and the report is of
\* those taken.
Reporting ==
  /\ Walk
  /\ findings = [r \in DOMAIN Rules |-> findings[r]]
  /\ \A r \in DOMAIN Rules : ProperSeq(findings[r])
  /\ IsSequence(batches)
  /\ \A b \in Range(batches) : ProperSeq(FlattenSeq(b.found))
  /\ state = "written" => report = Sarif(AllFindings)

\* One more batch.
LEMMA OneMoreProper ==
  ASSUME NEW done, NEW b, IsSequence(done), ProperSeq(FlattenSeq(b.found)),
         \A x \in Range(done) : ProperSeq(FlattenSeq(x.found))
  PROVE  /\ IsSequence(Append(done, b))
         /\ \A x \in Range(Append(done, b)) : ProperSeq(FlattenSeq(x.found))
<1> DEFINE S == Range(done) \cup {b}
           more == Append(done, b)
<1>1. done \in Seq(S) /\ b \in S BY DEF IsSequence
<1>2. \A x \in S : ProperSeq(FlattenSeq(x.found)) OBVIOUS
<1> HIDE DEF S
<1>3. more \in Seq(S) BY <1>1
<1> HIDE DEF more
<1>4. IsSequence(more) BY <1>3, Sequences
<1>5. Range(more) \subseteq S BY <1>3 DEF Range
<1> QED BY <1>2, <1>4, <1>5 DEF more

LEMMA ReportingHolds == Spec => []Reporting
<1>1. ProperSeq(<<>>) BY DEF ProperSeq, IsSequence, Range
<1>2. ProperSeq(FlattenSeq(<<>>))
  <2>1. FlattenSeq(<<>>) = <<>> BY DEF FlattenSeq
  <2> QED BY <1>1, <2>1
<1>3. Init => Reporting
  <2> SUFFICES ASSUME Init PROVE Reporting OBVIOUS
  <2>1. Walk BY EngineAssumption DEF Init, Walk
  <2>2. findings = [r \in DOMAIN Rules |-> <<>>] /\ batches = <<>> /\ state = "loading"
    BY DEF Init
  <2>3. IsSequence(<<>>) /\ Range(<<>>) = {} BY DEF IsSequence, Range
  <2> QED BY <1>1, <2>1, <2>2, <2>3 DEF Reporting
<1>4. Reporting /\ Walk' /\ [Next]_vars => Reporting'
  <2> SUFFICES ASSUME Reporting, Walk', [Next]_vars PROVE Reporting' OBVIOUS
  <2> USE DEF Reporting
  <2>1. CASE LoadProject \/ NoProject \/ CannotWrite \/ UNCHANGED vars
    <3>1. UNCHANGED <<findings, batches, report>>
      BY <2>1 DEF LoadProject, NoProject, CannotWrite, vars
    <3>2. state' = "written" => state = "written"
      BY <2>1 DEF LoadProject, NoProject, CannotWrite, vars
    <3>3. AllFindings' = AllFindings BY <3>1 DEF AllFindings
    <3>4. (state = "written" => report = Sarif(AllFindings))'
      BY <3>1, <3>2, <3>3 DEF Sarif, RelPath
    <3> QED BY <3>1, <3>4
  <2>2. CASE StartFile \/ ParseFails
    <3>1. RegisterMatchers /\ state' # "written" BY <2>2 DEF StartFile, ParseFails
    <3>2. /\ findings' = [r \in DOMAIN Rules |-> findings'[r]]
          /\ \A r \in DOMAIN Rules : ProperSeq(findings'[r])
      <4>1. \A r \in DOMAIN Rules :
              findings'[r] = IF Rules[r] \in KeepingRules THEN findings[r] ELSE <<>>
        BY <3>1 DEF RegisterMatchers
      <4> QED BY <1>1, <3>1, <4>1 DEF RegisterMatchers
    <3>3. CASE StartFile
      <4>1. batches' = batches BY <3>3 DEF StartFile
      <4> QED BY <3>1, <3>2, <4>1
    <3>4. CASE ParseFails
      <4>1. PICK b : b.found = <<>> /\ batches' = Append(batches, b)
        BY <3>4 DEF ParseFails
      <4>2. /\ IsSequence(Append(batches, b))
            /\ \A x \in Range(Append(batches, b)) : ProperSeq(FlattenSeq(x.found))
        BY <1>2, <4>1, OneMoreProper
      <4> QED BY <3>1, <3>2, <4>1, <4>2
    <3> QED BY <2>2, <3>3, <3>4
  <2>3. CASE Visit
    <3>1. /\ state = "walking" /\ state' = "walking" /\ batches' = batches
          /\ Head(tree) \in Nodes /\ Head(files) \in DOMAIN Trees
      BY <2>3 DEF Visit, Walk
    <3>2. findings' = [r \in DOMAIN Rules |->
                         findings[r] \o Signed(r, Verdicts(Head(tree))[r])]
      BY <2>3 DEF Visit
    <3>3. ASSUME NEW r \in DOMAIN Rules PROVE ProperSeq(findings'[r])
      <4>1. ProperSeq(Signed(r, Verdicts(Head(tree))[r])) BY <3>1, SignedIsProper
      <4>2. ProperSeq(findings[r]) OBVIOUS
      <4>3. ProperSeq(findings[r] \o Signed(r, Verdicts(Head(tree))[r]))
        BY <4>1, <4>2, ProperJoined
      <4> QED BY <3>2, <4>3
    <3> QED BY <3>1, <3>2, <3>3
  <2>4. CASE Throw
    <3>1. PICK b : b.found = <<>> /\ batches' = Append(batches, b)
      BY <2>4 DEF Throw
    <3>2. /\ IsSequence(Append(batches, b))
          /\ \A x \in Range(Append(batches, b)) : ProperSeq(FlattenSeq(x.found))
      BY <1>2, <3>1, OneMoreProper
    <3>3. findings' = findings /\ state' = "between" BY <2>4 DEF Throw
    <3> QED BY <3>1, <3>2, <3>3
  <2>5. CASE TakeFindings
    <3>1. PICK b : b.found = findings /\ batches' = Append(batches, b)
      BY <2>5 DEF TakeFindings
    <3>2. ProperSeq(FlattenSeq(findings))
      <4>1. DOMAIN Rules = 1..20 BY DEF Rules
      <4>2. DOMAIN findings = DOMAIN Rules OBVIOUS
      <4>3. IsSequence(findings)
        <5>1. findings \in Seq({findings[r] : r \in 1..20}) BY <4>1
        <5> QED BY <5>1, Sequences
      <4> QED BY <4>2, <4>3, ProperFlattened
    <3>3. /\ IsSequence(Append(batches, b))
          /\ \A x \in Range(Append(batches, b)) : ProperSeq(FlattenSeq(x.found))
      BY <3>1, <3>2, OneMoreProper
    <3>4. findings' = [r \in DOMAIN Rules |-> <<>>] /\ state' = "between"
      BY <2>5 DEF TakeFindings
    <3>5. \A r \in DOMAIN Rules : ProperSeq(findings'[r]) BY <1>1, <3>4
    <3> QED BY <3>1, <3>3, <3>4, <3>5
  <2>6. CASE WriteReport
    <3>1. /\ UNCHANGED <<findings, batches>> /\ report' = Sarif(AllFindings)
      BY <2>6 DEF WriteReport
    <3>2. AllFindings' = AllFindings BY <3>1 DEF AllFindings
    <3>3. report' = Sarif(AllFindings') BY <3>1, <3>2
    <3> QED BY <3>1, <3>3 DEF Sarif, RelPath
  <2> QED BY <2>1, <2>2, <2>3, <2>4, <2>5, <2>6 DEF Next
<1> QED BY <1>3, <1>4, WalkHolds, PTL DEF Spec

\* g is what ListRules looks up: the rules of the first n findings.
Lists(g, all, n) ==
  g = [k \in 0..n |-> IF k = 0 THEN <<>> ELSE ListRule(g[k - 1], all[k])]

LEMMA ListsExist ==
  ASSUME NEW all, NEW n \in Nat
  PROVE  \E g : Lists(g, all, n)
<1> DEFINE Good == {k \in Nat : \E g : Lists(g, all, k)}
<1>1. 0 \in Good
  <2> DEFINE g == [k \in 0..0 |-> <<>>]
             e == [k \in 0..0 |-> IF k = 0 THEN <<>> ELSE ListRule(g[k - 1], all[k])]
  <2>1. \A k \in 0..0 : k = 0 OBVIOUS
  <2>2. g = e BY <2>1
  <2>3. Lists(g, all, 0)
    <3> HIDE DEF g
    <3> QED BY <2>2 DEF Lists
  <2> QED BY <2>3
<1>2. ASSUME NEW k \in Nat, k \in Good PROVE k + 1 \in Good
  <2>1. PICK h : Lists(h, all, k) BY <1>2
  <2> DEFINE g == [i \in 0..(k + 1) |-> IF i \in 0..k THEN h[i] ELSE ListRule(h[i - 1], all[i])]
             e == [i \in 0..(k + 1) |-> IF i = 0 THEN <<>> ELSE ListRule(g[i - 1], all[i])]
  <2>2. \A i \in 0..k : h[i] = IF i = 0 THEN <<>> ELSE ListRule(h[i - 1], all[i])
    BY <2>1 DEF Lists
  <2>3. \A i \in 0..k : g[i] = h[i] OBVIOUS
  <2>4. ASSUME NEW i \in 0..(k + 1) PROVE g[i] = e[i]
    <3>1. CASE i = 0 BY <3>1, <2>2
    <3>2. CASE i # 0
      <4>1. i - 1 \in 0..k BY <3>2
      <4>2. g[i - 1] = h[i - 1] BY <4>1, <2>3
      <4>3. g[i] = ListRule(h[i - 1], all[i])
        <5>1. CASE i \in 0..k BY <5>1, <3>2, <2>2
        <5>2. CASE i \notin 0..k BY <5>2
        <5> QED BY <5>1, <5>2
      <4>4. e[i] = ListRule(g[i - 1], all[i]) BY <3>2
      <4> HIDE DEF e, g
      <4> QED BY <4>2, <4>3, <4>4
    <3> QED BY <3>1, <3>2
  <2>5. g = [i \in 0..(k + 1) |-> g[i]] /\ e = [i \in 0..(k + 1) |-> e[i]] OBVIOUS
  <2>6. g = e
    <3> HIDE DEF e, g
    <3> QED BY <2>4, <2>5, Zenon
  <2>7. Lists(g, all, k + 1)
    <3> HIDE DEF g
    <3> QED BY <2>6 DEF Lists
  <2> QED BY <2>7
<1> HIDE DEF Good
<1>3. Nat \subseteq Good BY <1>1, <1>2, NumberByNumber
<1> QED BY <1>3 DEF Good

\* The rules of the first k findings: each entry is of one of these findings,
\* each of them has an entry, and no two entries have the same rule.
ListOf(listed, all, k) ==
  /\ IsSequence(listed)
  /\ \A j \in DOMAIN listed : \E i \in 1..k :
       listed[j] = [id |-> all[i].rule, level |-> Level(all[i])]
  /\ \A i \in 1..k : \E j \in DOMAIN listed : listed[j].id = all[i].rule
  /\ \A j, l \in DOMAIN listed : listed[j].id = listed[l].id => j = l

\* One more finding.
LEMMA OneMoreListed ==
  ASSUME NEW listed, NEW all, NEW k \in Nat, ListOf(listed, all, k)
  PROVE  ListOf(ListRule(listed, all[k + 1]), all, k + 1)
<1> DEFINE f == all[k + 1]
           entry == [id |-> f.rule, level |-> Level(f)]
           S == Range(listed) \cup {entry}
<1>1. \A i \in 1..(k + 1) : i \in 1..k \/ i = k + 1 OBVIOUS
<1>2. 1..k \subseteq 1..(k + 1) /\ k + 1 \in 1..(k + 1) OBVIOUS
<1>3. CASE \E j \in DOMAIN listed : listed[j].id = f.rule
  <2>1. ListRule(listed, f) = listed BY <1>3 DEF ListRule
  <2>2. ListOf(listed, all, k + 1) BY <1>1, <1>2, <1>3 DEF ListOf
  <2> QED BY <2>1, <2>2
<1>4. CASE ~\E j \in DOMAIN listed : listed[j].id = f.rule
  <2> DEFINE more == Append(listed, entry)
  <2>1. ListRule(listed, f) = more BY <1>4 DEF ListRule
  <2>2. listed \in Seq(S) /\ entry \in S BY DEF ListOf, IsSequence
  <2>3. entry.id = f.rule OBVIOUS
  <2>4. entry = [id |-> all[k + 1].rule, level |-> Level(all[k + 1])] OBVIOUS
  <2> HIDE DEF S, entry, f
  <2>5. /\ Len(listed) \in Nat /\ DOMAIN listed = 1..Len(listed)
        /\ more \in Seq(S) /\ DOMAIN more = 1..(Len(listed) + 1)
        /\ \A j \in DOMAIN listed : more[j] = listed[j]
        /\ more[Len(listed) + 1] = entry
    BY <2>2
  <2> HIDE DEF more
  <2> DEFINE n == Len(listed)
  <2>6. \A j \in DOMAIN more : j \in DOMAIN listed \/ j = n + 1 BY <2>5
  <2>7. DOMAIN listed \subseteq DOMAIN more /\ n + 1 \in DOMAIN more BY <2>5
  <2> HIDE DEF n
  <2>8. more[n + 1] = entry BY <2>5 DEF n
  <2>9. IsSequence(more) BY <2>5, Sequences
  <2>10. \A j \in DOMAIN more : \E i \in 1..(k + 1) :
           more[j] = [id |-> all[i].rule, level |-> Level(all[i])]
    <3>1. \A j \in DOMAIN listed : \E i \in 1..k :
            listed[j] = [id |-> all[i].rule, level |-> Level(all[i])]
      BY DEF ListOf
    <3> QED BY <3>1, <1>2, <2>4, <2>5, <2>6, <2>8
  <2>11. \A i \in 1..(k + 1) : \E j \in DOMAIN more : more[j].id = all[i].rule
    <3>1. \A i \in 1..k : \E j \in DOMAIN listed : listed[j].id = all[i].rule
      BY DEF ListOf
    <3> QED BY <3>1, <1>1, <2>3, <2>5, <2>7, <2>8 DEF f
  <2>12. \A j, l \in DOMAIN more : more[j].id = more[l].id => j = l
    <3>1. \A j, l \in DOMAIN listed : listed[j].id = listed[l].id => j = l
      BY DEF ListOf
    <3>2. \A j \in DOMAIN listed : more[j].id # entry.id BY <1>4, <2>3, <2>5
    <3> QED BY <3>1, <3>2, <2>5, <2>6, <2>8
  <2>13. ListOf(more, all, k + 1) BY <2>9, <2>10, <2>11, <2>12 DEF ListOf
  <2> QED BY <2>1, <2>13 DEF f
<1> QED BY <1>3, <1>4

\* What ListRules returns.
LEMMA RulesListed ==
  ASSUME NEW all, Len(all) \in Nat
  PROVE  ListOf(ListRules(all), all, Len(all))
<1> DEFINE n == Len(all)
           g == CHOOSE h : Lists(h, all, n)
<1>1. Lists(g, all, n) BY ListsExist
<1>2. ListRules(all) = g[n] BY DEF ListRules, Lists
<1> HIDE DEF g
<1>3. \A k \in 0..n : g[k] = IF k = 0 THEN <<>> ELSE ListRule(g[k - 1], all[k])
  BY <1>1 DEF Lists
<1> DEFINE Good == {k \in Nat : k \in 0..n => ListOf(g[k], all, k)}
<1>4. 0 \in Good
  <2>1. g[0] = <<>> BY <1>3
  <2>2. ListOf(<<>>, all, 0) BY DEF ListOf, IsSequence
  <2> QED BY <2>1, <2>2
<1>5. ASSUME NEW k \in Nat, k \in Good PROVE k + 1 \in Good
  <2> SUFFICES ASSUME k + 1 \in 0..n PROVE ListOf(g[k + 1], all, k + 1) OBVIOUS
  <2>1. k \in 0..n /\ (k + 1) - 1 = k /\ k + 1 # 0 OBVIOUS
  <2>2. ListOf(g[k], all, k) BY <1>5, <2>1
  <2>3. g[k + 1] = ListRule(g[k], all[k + 1])
    <3> DEFINE j == k + 1
    <3>1. j \in 0..n /\ j # 0 /\ j - 1 = k BY <2>1
    <3> HIDE DEF j, n
    <3>2. g[j] = ListRule(g[j - 1], all[j]) BY <3>1, <1>3
    <3>3. g[j] = ListRule(g[k], all[j]) BY <3>1, <3>2
    <3> QED BY <3>3 DEF j
  <2> QED BY <2>2, <2>3, OneMoreListed
<1> HIDE DEF Good
<1>6. Nat \subseteq Good BY <1>4, <1>5, NumberByNumber
<1>7. n \in Good /\ n \in 0..n BY <1>6
<1> QED BY <1>2, <1>7 DEF Good

\* A path that is not misread is found again.
LEMMA PathIsFound ==
  ASSUME NEW f \in DOMAIN Trees, ~Misread(f)
  PROVE  LET uri == RelPath(f) IN
           f = IF Head(uri) = "/" THEN uri ELSE (Workspace \o <<"/">>) \o uri
<1> DEFINE W == Workspace
           n == Len(W)
<1>1. f \in Seq(Range(f)) /\ f # <<>> /\ Head(f) = "/" /\ W \in Seq(Range(W))
  BY PathAssumption
<1>2. CASE ~(W # <<>> /\ IsPrefix(W, f))
  <2>1. RelPath(f) = f BY <1>2 DEF RelPath
  <2> QED BY <1>1, <2>1
<1>3. CASE W # <<>> /\ IsPrefix(W, f)
  <2> DEFINE rest == SubSeq(f, n + 1, Len(f))
  <2>1. Len(rest) > 1 /\ rest[1] = "/" /\ rest[2] # "/" BY <1>3 DEF Misread
  <2>2. n \in Nat /\ Len(f) \in Nat BY <1>1
  <2>3. n <= Len(f) /\ \A i \in 1..n : W[i] = f[i]
    BY <1>1, <1>3 DEF IsPrefix
  <2>4. /\ rest \in Seq(Range(f)) /\ Len(rest) = Len(f) - n
        /\ \A i \in 1..(Len(f) - n) : rest[i] = f[n + i]
    BY <1>1, <2>2, <2>3
  <2>5. rest # <<>> /\ Head(rest) = "/"
    <3> HIDE DEF rest, n
    <3> QED BY <2>1, <2>4
  <2>6. RelPath(f) = Tail(rest) BY <1>3, <2>5 DEF RelPath
  <2> HIDE DEF rest
  <2>7. Head(Tail(rest)) # "/" BY <2>1, <2>4
  <2>8. /\ Tail(rest) \in Seq(Range(f)) /\ Len(Tail(rest)) = Len(f) - n - 1
        /\ \A i \in 1..(Len(f) - n - 1) : Tail(rest)[i] = f[n + 1 + i]
    <3>1. /\ Tail(rest) \in Seq(Range(f)) /\ Len(Tail(rest)) = Len(rest) - 1
          /\ \A i \in 1..(Len(rest) - 1) : Tail(rest)[i] = rest[i + 1]
      BY <2>4, <2>5
    <3>2. ASSUME NEW i \in 1..(Len(f) - n - 1) PROVE Tail(rest)[i] = f[n + 1 + i]
      <4>1. i + 1 \in 1..(Len(f) - n) /\ n + (i + 1) = n + 1 + i BY <2>2
      <4>2. Tail(rest)[i] = rest[i + 1] BY <3>1, <2>4
      <4>3. rest[i + 1] = f[n + (i + 1)] BY <2>4, <4>1
      <4> QED BY <4>1, <4>2, <4>3
    <3> QED BY <2>4, <3>1, <3>2
  <2> DEFINE uri == Tail(rest)
             S   == Range(W) \cup {"/"} \cup Range(f)
             whole == (W \o <<"/">>) \o uri
  <2>9. f[n + 1] = "/" BY <2>1, <2>2, <2>4
  <2>10. W \in Seq(S) /\ <<"/">> \in Seq(S) /\ uri \in Seq(S) /\ f \in Seq(S)
    BY <1>1, <2>8
  <2>11. /\ Len(uri) = Len(f) - n - 1
         /\ \A i \in 1..(Len(f) - n - 1) : uri[i] = f[n + 1 + i]
    BY <2>8
  <2> HIDE DEF uri, S
  <2>12. /\ whole \in Seq(S) /\ Len(whole) = Len(f)
         /\ \A i \in 1..n : whole[i] = W[i]
         /\ whole[n + 1] = "/"
         /\ \A i \in (n + 2)..Len(f) : whole[i] = uri[i - (n + 1)]
    BY <2>10, <2>11
  <2>13. ASSUME NEW i \in 1..Len(f) PROVE whole[i] = f[i]
    <3>1. CASE i <= n BY <3>1, <2>2, <2>3, <2>12
    <3>2. CASE i = n + 1 BY <3>2, <2>9, <2>12
    <3>3. CASE i > n + 1
      <4>1. i \in (n + 2)..Len(f) /\ i - (n + 1) \in 1..(Len(f) - n - 1)
            /\ n + 1 + (i - (n + 1)) = i
        BY <3>3, <2>2
      <4>2. whole[i] = uri[i - (n + 1)] BY <2>12, <4>1
      <4>3. uri[i - (n + 1)] = f[n + 1 + (i - (n + 1))] BY <2>11, <4>1
      <4> QED BY <4>1, <4>2, <4>3
    <3> HIDE DEF whole, n
    <3> QED BY <3>1, <3>2, <3>3, <2>2
  <2> HIDE DEF whole
  <2>14. whole = f
    <3>1. f = [i \in 1..Len(f) |-> f[i]] BY <2>10
    <3>2. whole = [i \in 1..Len(f) |-> whole[i]] BY <2>12
    <3> QED BY <2>13, <3>1, <3>2, Zenon
  <2>15. RelPath(f) = uri /\ Head(uri) # "/" BY <2>6, <2>7 DEF uri
  <2>16. f = (Workspace \o <<"/">>) \o uri BY <2>14 DEF whole
  <2> QED BY <2>15, <2>16
<1> QED BY <1>2, <1>3

\* A report says where each finding is and lists each rule once with its level,
\* for every set of findings of every project (main.cpp:55-116).
THEOREM Reports == Spec => []ReportResolves
<1>1. Reporting => ReportResolves
  <2> SUFFICES ASSUME Reporting, state = "written" PROVE ReportResolves
    BY DEF ReportResolves
  <2> DEFINE all == AllFindings
             rules == ListRules(all)
             n == Len(all)
  <2>1. ProperSeq(all)
    <3> DEFINE each == [b \in DOMAIN batches |-> FlattenSeq(batches[b].found)]
    <3>1. batches \in Seq(Range(batches)) BY DEF Reporting, IsSequence
    <3>2. \A b \in DOMAIN batches : batches[b] \in Range(batches) BY DEF Range
    <3>3. \A b \in DOMAIN each : ProperSeq(each[b]) BY <3>2 DEF Reporting
    <3>4. IsSequence(each)
      <4>1. each \in Seq({each[b] : b \in DOMAIN batches}) BY <3>1
      <4> HIDE DEF each
      <4> QED BY <4>1, Sequences
    <3>5. all = FlattenSeq(each) BY DEF AllFindings
    <3> HIDE DEF each, all
    <3> QED BY <3>3, <3>4, <3>5, ProperFlattened
  <2>2. report = Sarif(all) BY DEF Reporting
  <2> HIDE DEF all
  <2>3. all \in Seq(Range(all)) /\ n \in Nat /\ DOMAIN all = 1..n
    BY <2>1 DEF ProperSeq, IsSequence
  <2>4. ListOf(rules, all, n) BY <2>3, RulesListed
  <2>5. /\ report.rules = rules
        /\ report.results = [k \in DOMAIN all |-> [rule |-> all[k].rule,
                                                   level |-> Level(all[k]),
                                                   uri |-> RelPath(all[k].file)]]
        /\ report.base = Workspace \o <<"/">>
    BY <2>2 DEF Sarif
  <2> HIDE DEF rules
  <2>6. Len(report.results) = Len(all)
    <3> DEFINE results == report.results
    <3>1. DOMAIN results = 1..n BY <2>3, <2>5
    <3>2. results \in Seq({results[k] : k \in 1..n}) BY <2>3, <2>5
    <3> HIDE DEF results, n
    <3>3. Len(results) = n BY <2>3, <3>1, <3>2
    <3> QED BY <3>3 DEF results, n
  <2>7. ASSUME NEW k \in DOMAIN all
        PROVE  LET result == report.results[k]
                   listed == {j \in DOMAIN report.rules :
                                report.rules[j].id = result.rule}
               IN /\ Cardinality(listed) = 1
                  /\ \A j \in listed : report.rules[j].level = result.level
                  /\ Misread(all[k].file) \/ Resolve(result.uri) = all[k].file
    <3> DEFINE listed == {j \in DOMAIN rules : rules[j].id = all[k].rule}
    <3>1. /\ report.results[k].rule = all[k].rule
          /\ report.results[k].level = Level(all[k])
          /\ report.results[k].uri = RelPath(all[k].file)
      BY <2>5
    <3>2. PICK j \in DOMAIN rules : rules[j].id = all[k].rule
      BY <2>3, <2>4 DEF ListOf
    <3>3. listed = {j} BY <2>4, <3>2 DEF ListOf
    <3>4. Cardinality(listed) = 1
      <4>1. Cardinality({j}) = 1 BY FS_Singleton
      <4> QED BY <3>3, <4>1
    <3>5. rules[j].level = Level(all[k])
      <4>1. PICK i \in 1..n : rules[j] = [id |-> all[i].rule, level |-> Level(all[i])]
        BY <2>4 DEF ListOf
      <4>2. all[i].rule = all[k].rule BY <3>2, <4>1
      <4>3. Proper(all[i]) /\ Proper(all[k]) BY <2>1, <2>3 DEF ProperSeq, Range
      <4>4. Level(all[i]) = Level(all[k]) BY <4>2, <4>3 DEF Proper, Level
      <4> QED BY <4>1, <4>4
    <3>6. Misread(all[k].file) \/ Resolve(RelPath(all[k].file)) = all[k].file
      <4>1. all[k].file \in DOMAIN Trees BY <2>1, <2>3 DEF ProperSeq, Proper, Range
      <4> QED BY <4>1, <2>5, PathIsFound DEF Resolve
    <3>7. \A q \in listed : rules[q].level = Level(all[k]) BY <3>3, <3>5
    <3> QED BY <2>5, <3>1, <3>4, <3>6, <3>7
  <2>8. \A j \in DOMAIN report.rules : \E k \in DOMAIN report.results :
          report.results[k].rule = report.rules[j].id
    BY <2>3, <2>4, <2>5 DEF ListOf
  <2>9. DOMAIN report.results = DOMAIN all BY <2>5
  <2> QED BY <2>6, <2>7, <2>8, <2>9 DEF ReportResolves, all
<1> QED BY <1>1, ReportingHolds, PTL

-----------------------------------------------------------------------------
(* Source maps                                                             *)

IsLoc(l) == l.kind = "loc" /\ l.line > 0

\* Locs, KeptUpTo and Until, of any lines.
LocsOf(r) == {i \in 1..Len(r) : IsLoc(r[i])}
KeptOf(r, n) == Cardinality({m \in 1..n : Kept(r[m])})
UntilOf(r, i) == IF \E j \in LocsOf(r) : j > i THEN Min({j \in LocsOf(r) : j > i}) ELSE Len(r) + 1

\* The range of the .loc at i, which has lines of its own.
EntryOf(r, i) == [first |-> KeptOf(r, i), last |-> KeptOf(r, UntilOf(r, i) - 1) - 1,
                  line |-> r[i].line, column |-> r[i].column]
HasLines(r, i) == KeptOf(r, UntilOf(r, i) - 1) > KeptOf(r, i)

LEMMA LeastIs ==
  ASSUME NEW S, S \subseteq Nat, NEW m \in S, \A x \in S : m <= x
  PROVE  Min(S) = m
<1>1. \A x \in S : (\A y \in S : x <= y) => x = m OBVIOUS
<1>2. Min(S) \in S /\ \A y \in S : Min(S) <= y
  BY DEF Min
<1> QED BY <1>1, <1>2

\* What one more line changes.
LEMMA OneMoreLine ==
  ASSUME NEW r \in Seq(Lines), NEW l \in Lines
  PROVE  LET s == Append(r, l) IN
         /\ \A n \in 0..Len(r) : KeptOf(s, n) = KeptOf(r, n)
         /\ KeptOf(s, Len(s)) = IF Kept(l) THEN KeptOf(r, Len(r)) + 1 ELSE KeptOf(r, Len(r))
         /\ LocsOf(s) = IF IsLoc(l) THEN LocsOf(r) \cup {Len(s)} ELSE LocsOf(r)
<1> DEFINE s == Append(r, l)
           n == Len(r)
<1>1. /\ n \in Nat /\ Len(s) = n + 1 /\ s[n + 1] = l
      /\ \A i \in 1..n : s[i] = r[i]
  OBVIOUS
<1> HIDE DEF s, n
<1>2. ASSUME NEW k \in 0..n PROVE KeptOf(s, k) = KeptOf(r, k)
  <2>1. {m \in 1..k : Kept(s[m])} = {m \in 1..k : Kept(r[m])}
    <3>1. \A m \in 1..k : s[m] = r[m] BY <1>1
    <3> QED BY <3>1
  <2> QED BY <2>1 DEF KeptOf
<1>3. KeptOf(s, n + 1) = IF Kept(l) THEN KeptOf(r, n) + 1 ELSE KeptOf(r, n)
  <2> DEFINE old == {m \in 1..n : Kept(r[m])}
             new == {m \in 1..(n + 1) : Kept(s[m])}
  <2>1. IsFiniteSet(old) /\ n + 1 \notin old
    <3>1. old \subseteq 1..n /\ IsFiniteSet(1..n) BY <1>1, FS_Interval
    <3> QED BY <3>1, <1>1, FS_Subset
  <2>2. new = IF Kept(l) THEN old \cup {n + 1} ELSE old
    <3>1. \A m \in 1..(n + 1) : m = n + 1 \/ m \in 1..n BY <1>1
    <3>2. 1..n \subseteq 1..(n + 1) /\ n + 1 \in 1..(n + 1) BY <1>1
    <3>3. ASSUME NEW m PROVE m \in new <=> m \in old \/ (m = n + 1 /\ Kept(l))
      <4>1. CASE m = n + 1 BY <4>1, <3>2, <1>1, <2>1
      <4>2. CASE m # n + 1 BY <4>2, <3>1, <3>2, <1>1
      <4> QED BY <4>1, <4>2
    <3> HIDE DEF old, new
    <3> QED BY <3>3
  <2>3. Cardinality(old \cup {n + 1}) = Cardinality(old) + 1
    <3> HIDE DEF old
    <3> QED BY <2>1, FS_AddElement
  <2> QED BY <2>2, <2>3 DEF KeptOf
<1>4. LocsOf(s) = IF IsLoc(l) THEN LocsOf(r) \cup {n + 1} ELSE LocsOf(r)
  <2>1. \A m \in 1..(n + 1) : m = n + 1 \/ m \in 1..n BY <1>1
  <2>2. 1..n \subseteq 1..(n + 1) /\ n + 1 \in 1..(n + 1) BY <1>1
  <2>3. n + 1 \notin 1..n BY <1>1
  <2>4. ASSUME NEW m PROVE m \in LocsOf(s) <=> m \in LocsOf(r) \/ (m = n + 1 /\ IsLoc(l))
    <3>1. /\ m \in LocsOf(s) <=> m \in 1..(n + 1) /\ IsLoc(s[m])
          /\ m \in LocsOf(r) <=> m \in 1..n /\ IsLoc(r[m])
      BY <1>1 DEF LocsOf, n
    <3>2. CASE m = n + 1 BY <3>1, <3>2, <2>2, <2>3, <1>1
    <3>3. CASE m # n + 1 BY <3>1, <3>3, <2>1, <2>2, <1>1
    <3> QED BY <3>2, <3>3
  <2> QED BY <2>4
<1> QED BY <1>1, <1>2, <1>3, <1>4 DEF s, n

\* Kept lines are counted by a number.
LEMMA KeptIsNumber ==
  ASSUME NEW r, NEW n \in Nat
  PROVE  KeptOf(r, n) \in Nat
<1>1. {m \in 1..n : Kept(r[m])} \subseteq 1..n /\ IsFiniteSet(1..n) BY FS_Interval
<1> QED BY <1>1, FS_Subset, FS_CardinalityType DEF KeptOf

\* A later .loc ends a range where the first of them stands; what follows
\* does not move it.
LEMMA UntilStays ==
  ASSUME NEW r \in Seq(Lines), NEW l \in Lines,
         NEW i \in LocsOf(r), NEW c \in LocsOf(r), i < c
  PROVE  /\ UntilOf(r, i) - 1 \in 0..Len(r)
         /\ UntilOf(Append(r, l), i) = UntilOf(r, i)
<1> DEFINE s == Append(r, l)
           later == {j \in LocsOf(r) : j > i}
           laterStill == {j \in LocsOf(s) : j > i}
<1>1. Len(s) = Len(r) + 1 /\ Len(r) \in Nat OBVIOUS
<1>2. LocsOf(s) = IF IsLoc(l) THEN LocsOf(r) \cup {Len(s)} ELSE LocsOf(r)
  BY OneMoreLine
<1> HIDE DEF s
<1>3. LocsOf(r) \subseteq 1..Len(r) BY DEF LocsOf
<1>4. LocsOf(s) \subseteq Nat BY <1>1, <1>2, <1>3
<1>5. PICK m \in later : \A x \in later : m <= x
  <2>1. later \subseteq Nat /\ c \in later BY <1>3
  <2> HIDE DEF later
  <2> QED BY <2>1, LeastExists
<1>6. m \in laterStill /\ \A x \in laterStill : m <= x
  <2>1. \A x \in laterStill : x \in later \/ x = Len(s) BY <1>2
  <2>2. m <= Len(s) BY <1>1, <1>3
  <2> QED BY <2>1, <2>2, <1>2, <1>5
<1>7. UntilOf(r, i) = m
  <2>1. later \subseteq Nat BY <1>3
  <2>2. Min(later) = m
    <3> HIDE DEF later
    <3> QED BY <2>1, <1>5, LeastIs
  <2> QED BY <2>2 DEF UntilOf
<1>8. UntilOf(s, i) = m
  <2>1. laterStill \subseteq Nat BY <1>4
  <2>2. Min(laterStill) = m
    <3> HIDE DEF laterStill
    <3> QED BY <2>1, <1>6, LeastIs
  <2> QED BY <2>2, <1>6 DEF UntilOf
<1>9. m \in 1..Len(r) BY <1>3
<1> QED BY <1>7, <1>8, <1>9 DEF s

\* The ranges of earlier .loc lines are what they were.
LEMMA EntryStays ==
  ASSUME NEW r \in Seq(Lines), NEW l \in Lines,
         NEW i \in LocsOf(r), NEW c \in LocsOf(r), i < c
  PROVE  /\ EntryOf(Append(r, l), i) = EntryOf(r, i)
         /\ HasLines(Append(r, l), i) <=> HasLines(r, i)
<1>1. i \in 1..Len(r) BY DEF LocsOf
<1>2. Append(r, l)[i] = r[i] BY <1>1
<1>3. KeptOf(Append(r, l), i) = KeptOf(r, i)
  <2>1. i \in 0..Len(r) BY <1>1
  <2> QED BY <2>1, OneMoreLine
<1>4. /\ UntilOf(Append(r, l), i) = UntilOf(r, i)
      /\ UntilOf(r, i) - 1 \in 0..Len(r)
  BY UntilStays
<1>5. KeptOf(Append(r, l), UntilOf(r, i) - 1) = KeptOf(r, UntilOf(r, i) - 1)
  BY <1>4, OneMoreLine
<1> QED BY <1>2, <1>3, <1>4, <1>5 DEF EntryOf, HasLines

\* The last .loc reaches to the end.
LEMMA LastUntil ==
  ASSUME NEW r, NEW c \in LocsOf(r), \A j \in LocsOf(r) : j <= c, Len(r) \in Nat
  PROVE  UntilOf(r, c) = Len(r) + 1
<1>1. LocsOf(r) \subseteq Nat BY DEF LocsOf
<1>2. ~ \E j \in LocsOf(r) : j > c BY <1>1
<1> QED BY <1>2 DEF UntilOf

\* The next one ends it.
LEMMA NextUntil ==
  ASSUME NEW r \in Seq(Lines), NEW l \in Lines, IsLoc(l),
         NEW c \in LocsOf(r), \A j \in LocsOf(r) : j <= c
  PROVE  UntilOf(Append(r, l), c) = Len(r) + 1
<1> DEFINE s == Append(r, l)
           later == {j \in LocsOf(s) : j > c}
<1>1. LocsOf(s) = LocsOf(r) \cup {Len(r) + 1}
  <2>1. Len(s) = Len(r) + 1 OBVIOUS
  <2> QED BY <2>1, OneMoreLine
<1>2. LocsOf(r) \subseteq 1..Len(r) /\ Len(r) \in Nat BY DEF LocsOf
<1> HIDE DEF s
<1>3. Len(r) + 1 \in later /\ \A x \in later : Len(r) + 1 <= x /\ x \in Nat
  BY <1>1, <1>2
<1>4. Min(later) = Len(r) + 1
  <2>1. later \subseteq Nat BY <1>3
  <2> HIDE DEF later
  <2> QED BY <1>3, <2>1, LeastIs
<1> QED BY <1>3, <1>4 DEF UntilOf, s

\* A later .loc ends the last range, at the end of what was read before it.
LEMMA RangesStay ==
  ASSUME NEW r \in Seq(Lines), NEW l \in Lines, IsLoc(l),
         NEW c \in LocsOf(r), \A j \in LocsOf(r) : j <= c, NEW i \in LocsOf(r)
  PROVE  /\ EntryOf(Append(r, l), i) = EntryOf(r, i)
         /\ HasLines(Append(r, l), i) <=> HasLines(r, i)
<1>0. c \in Nat /\ i \in Nat /\ i \in 1..Len(r) /\ Len(r) \in Nat BY DEF LocsOf
<1>1. CASE i < c BY <1>1, EntryStays
<1>2. CASE i = c
  <2>1. UntilOf(Append(r, l), c) = Len(r) + 1 /\ UntilOf(r, c) = Len(r) + 1
    BY NextUntil, LastUntil, <1>0
  <2>2. Append(r, l)[i] = r[i] BY <1>0
  <2>3. i \in 0..Len(r) /\ Len(r) + 1 - 1 \in 0..Len(r) BY <1>0
  <2>4. /\ KeptOf(Append(r, l), i) = KeptOf(r, i)
        /\ KeptOf(Append(r, l), Len(r) + 1 - 1) = KeptOf(r, Len(r) + 1 - 1)
    BY <2>3, OneMoreLine
  <2> QED BY <1>2, <2>1, <2>2, <2>4 DEF EntryOf, HasLines
<1> QED BY <1>0, <1>1, <1>2

\* The source map so far: its ranges are those of the .loc lines before the
\* last one, without a gap, and the last one's is open where they end.
Entries == [first : Nat, last : Int, line : {l.line : l \in Lines},
            column : {l.column : l \in Lines}]

Gapless(map) == \A m \in 2..Len(map) : map[m].first = map[m - 1].last + 1
EndsAt(map, n) == map = <<>> \/ map[Len(map)].last + 1 = n

RangeIsOpen ==
  IF LocsOf(raw) = {} THEN range = NoRange /\ sourceMap = <<>>
  ELSE \E c \in LocsOf(raw) :
    /\ \A j \in LocsOf(raw) : j <= c
    /\ range = [start |-> KeptOf(raw, c), line |-> raw[c].line, column |-> raw[c].column]
    /\ ToSet(sourceMap) =
         {EntryOf(raw, i) : i \in {j \in LocsOf(raw) : j < c /\ HasLines(raw, j)}}
    /\ EndsAt(sourceMap, range.start)

Closed(map) ==
  ToSet(map) = {EntryOf(raw, i) : i \in {j \in LocsOf(raw) : HasLines(raw, j)}}

Widths == {DetectVectorWidth(s) : s \in Seq(Lines)}
ParsedListings == [instrs : Seq(Lines), width : Widths]

MapInvariant ==
  /\ raw \in Seq(Lines) /\ clean \in Seq(Lines) /\ Len(clean) = KeptOf(raw, Len(raw))
  /\ sourceMap \in Seq(Entries) /\ Gapless(sourceMap)
  /\ range.start \in 0..Len(clean)
  /\ phase \in {"reading", "parsed"}
  /\ listings \in Seq(ParsedListings) /\ Len(listings) <= 2
  /\ phase = "reading" => RangeIsOpen
  /\ phase = "parsed" => Closed(sourceMap)

LEMMA AppendedSet ==
  ASSUME NEW S, NEW s \in Seq(S), NEW x
  PROVE  ToSet(Append(s, x)) = ToSet(s) \cup {x}
<1>1. DOMAIN Append(s, x) = DOMAIN s \cup {Len(s) + 1} OBVIOUS
<1>2. \A i \in DOMAIN s : Append(s, x)[i] = s[i] OBVIOUS
<1>3. Append(s, x)[Len(s) + 1] = x OBVIOUS
<1> QED BY <1>1, <1>2, <1>3 DEF ToSet

\* What flush_mapping leaves is the map of all that was read.
LEMMA Flushed ==
  ASSUME MapInvariant, RangeIsOpen
  PROVE  /\ Flush \in Seq(Entries) /\ Gapless(Flush)
         /\ EndsAt(Flush, Len(clean)) /\ Closed(Flush)
<1> USE DEF MapInvariant
<1>1. CASE LocsOf(raw) = {}
  <2>1. Flush = <<>> BY <1>1 DEF RangeIsOpen, Flush, NoRange
  <2> QED BY <2>1, <1>1 DEF Gapless, EndsAt, Closed, ToSet
<1>2. CASE LocsOf(raw) # {}
  <2>1. PICK c \in LocsOf(raw) :
          /\ \A j \in LocsOf(raw) : j <= c
          /\ range = [start |-> KeptOf(raw, c), line |-> raw[c].line, column |-> raw[c].column]
          /\ ToSet(sourceMap) =
               {EntryOf(raw, i) : i \in {j \in LocsOf(raw) : j < c /\ HasLines(raw, j)}}
          /\ EndsAt(sourceMap, range.start)
    BY <1>2 DEF RangeIsOpen
  <2>2. c \in 1..Len(raw) /\ Len(raw) \in Nat /\ LocsOf(raw) \subseteq Nat BY DEF LocsOf
  <2>3. IsLoc(raw[c]) /\ raw[c] \in Lines BY DEF LocsOf
  <2>4. UntilOf(raw, c) = Len(raw) + 1 BY <2>1, <2>2, LastUntil
  <2>5. HasLines(raw, c) <=> Len(clean) > range.start
    <3>1. KeptOf(raw, UntilOf(raw, c) - 1) = Len(clean)
      <4>1. UntilOf(raw, c) - 1 = Len(raw) BY <2>2, <2>4
      <4> QED BY <4>1
    <3> QED BY <3>1, <2>1 DEF HasLines
  <2>6. range.line > 0 BY <2>1, <2>3 DEF IsLoc
  <2> DEFINE e == [first |-> range.start, last |-> Len(clean) - 1,
                   line |-> range.line, column |-> range.column]
  <2>7. EntryOf(raw, c) = e
    <3>1. KeptOf(raw, UntilOf(raw, c) - 1) = Len(clean)
      <4>1. UntilOf(raw, c) - 1 = Len(raw) BY <2>2, <2>4
      <4> QED BY <4>1
    <3> QED BY <3>1, <2>1 DEF EntryOf
  <2>8. \A j \in LocsOf(raw) : j < c \/ j = c BY <2>1, <2>2
  <2>9. Len(clean) \in Nat /\ range.start \in Nat /\ range.start <= Len(clean) OBVIOUS
  <2>10. CASE Len(clean) > range.start
    <3>1. Flush = Append(sourceMap, e) BY <2>6, <2>10 DEF Flush
    <3>2. e \in Entries
      <4>1. range.line \in {l.line : l \in Lines} /\ range.column \in {l.column : l \in Lines}
        BY <2>1, <2>3
      <4> QED BY <4>1, <2>9 DEF Entries
    <3> HIDE DEF e
    <3>3. Flush \in Seq(Entries) BY <3>1, <3>2
    <3>4. e.first = range.start /\ e.last = Len(clean) - 1 BY DEF e
    <3>5. Gapless(Flush)
      <4> SUFFICES ASSUME NEW m \in 2..Len(Flush)
                   PROVE  Flush[m].first = Flush[m - 1].last + 1
        BY DEF Gapless
      <4>1. Len(Flush) = Len(sourceMap) + 1 /\ Len(sourceMap) \in Nat BY <3>1
      <4>2. CASE m <= Len(sourceMap)
        <5>1. m \in 1..Len(sourceMap) /\ m - 1 \in 1..Len(sourceMap) BY <4>2, <4>1
        <5>2. Flush[m] = sourceMap[m] /\ Flush[m - 1] = sourceMap[m - 1] BY <5>1, <3>1
        <5>3. m \in 2..Len(sourceMap) BY <4>2, <4>1
        <5> QED BY <5>2, <5>3 DEF Gapless
      <4>3. CASE m = Len(sourceMap) + 1
        <5>1. m - 1 = Len(sourceMap) /\ m - 1 \in 1..Len(sourceMap) BY <4>3, <4>1
        <5>2. Flush[m] = e /\ Flush[m - 1] = sourceMap[Len(sourceMap)] BY <5>1, <3>1, <4>3
        <5>3. sourceMap[Len(sourceMap)].last + 1 = range.start BY <5>1, <2>1 DEF EndsAt
        <5> QED BY <5>2, <5>3, <3>4
      <4>4. m <= Len(sourceMap) \/ m = Len(sourceMap) + 1 BY <4>1
      <4> QED BY <4>2, <4>3, <4>4
    <3>6. EndsAt(Flush, Len(clean))
      <4>1. Flush[Len(Flush)] = e BY <3>1
      <4> QED BY <4>1, <3>4, <2>9 DEF EndsAt
    <3>7. ToSet(Flush) = ToSet(sourceMap) \cup {e} BY <3>1, AppendedSet
    <3>8. Closed(Flush) BY <3>7, <2>1, <2>5, <2>7, <2>8, <2>10 DEF Closed
    <3> QED BY <3>3, <3>5, <3>6, <3>8
  <2>11. CASE ~(Len(clean) > range.start)
    <3>1. Flush = sourceMap BY <2>11 DEF Flush
    <3>2. range.start = Len(clean) BY <2>9, <2>11
    <3>3. Closed(sourceMap)
      <4>1. ~HasLines(raw, c) BY <2>5, <2>11
      <4>2. \A j \in LocsOf(raw) : HasLines(raw, j) <=> j < c /\ HasLines(raw, j)
        BY <4>1, <2>8
      <4>3. {j \in LocsOf(raw) : j < c /\ HasLines(raw, j)} = {j \in LocsOf(raw) : HasLines(raw, j)}
        BY <4>2
      <4> QED BY <4>3, <2>1 DEF Closed
    <3> QED BY <3>1, <3>2, <3>3, <2>1
  <2> QED BY <2>10, <2>11
<1> QED BY <1>1, <1>2

LEMMA InstructionsTyped ==
  ASSUME NEW lines \in Seq(Lines)
  PROVE  ExtractInstructions(lines) \in Seq(Lines)
<1> DEFINE picked == [i \in DOMAIN lines |->
                        IF lines[i].kind = "instr" THEN <<lines[i]>> ELSE <<>>]
<1>1. picked \in Seq(Seq(Lines))
  <2>1. \A i \in DOMAIN lines :
          (IF lines[i].kind = "instr" THEN <<lines[i]>> ELSE <<>>) \in Seq(Lines)
    OBVIOUS
  <2>2. DOMAIN lines = 1..Len(lines) /\ Len(lines) \in Nat OBVIOUS
  <2> QED BY <2>1, <2>2
<1>2. ExtractInstructions(lines) = FlattenSeq(picked) BY DEF ExtractInstructions
<1> HIDE DEF picked
<1> QED BY <1>1, <1>2, FlattenTyped

LEMMA NothingRead == raw = <<>> /\ clean = <<>> => Len(clean) = KeptOf(raw, Len(raw))
<1>1. {m \in 1..0 : Kept(raw[m])} = {} OBVIOUS
<1> QED BY <1>1, FS_EmptySet DEF KeptOf

\* While a listing is read, its map is that of the .loc lines before the last
\* one, whose range is open (parseAssembly).
THEOREM MapInvariantHolds == AsmSpec => []MapInvariant
<1>1. AsmInit => MapInvariant
  <2> SUFFICES ASSUME AsmInit PROVE MapInvariant OBVIOUS
  <2> USE DEF AsmInit
  <2>1. LocsOf(raw) = {} BY DEF LocsOf
  <2>2. Len(clean) = KeptOf(raw, Len(raw)) BY NothingRead
  <2> QED BY <2>1, <2>2 DEF MapInvariant, RangeIsOpen, NoRange, Gapless
<1>2. MapInvariant /\ [AsmNext]_asmVars => MapInvariant'
  <2> SUFFICES ASSUME MapInvariant, [AsmNext]_asmVars PROVE MapInvariant' OBVIOUS
  <2> USE DEF MapInvariant
  <2>1. ASSUME NEW l \in Lines, ReadLoc(l) PROVE MapInvariant'
    <3>1. /\ phase = "reading" /\ raw' = Append(raw, l) /\ l.kind = "loc" /\ l.line > 0
          /\ sourceMap' = Flush
          /\ range' = [start |-> Len(clean), line |-> l.line, column |-> l.column]
          /\ clean' = clean /\ phase' = phase /\ listings' = listings
      BY <2>1 DEF ReadLoc, Read
    <3> DEFINE n == Len(raw')
    <3>2. IsLoc(l) /\ ~Kept(l) BY <3>1 DEF IsLoc, Kept
    <3>3. n = Len(raw) + 1 /\ n \in Nat /\ raw'[n] = l /\ raw' \in Seq(Lines) BY <3>1
    <3>4. /\ LocsOf(raw') = LocsOf(raw) \cup {n}
          /\ KeptOf(raw', n) = Len(clean)
      BY <3>1, <3>2, OneMoreLine
    <3>5. Flush \in Seq(Entries) /\ Gapless(Flush) /\ EndsAt(Flush, Len(clean)) /\ Closed(Flush)
      BY <3>1, Flushed
    <3>6. ASSUME NEW i \in LocsOf(raw)
          PROVE  /\ EntryOf(raw', i) = EntryOf(raw, i)
                 /\ HasLines(raw', i) <=> HasLines(raw, i)
      <4>1. PICK c \in LocsOf(raw) : \A j \in LocsOf(raw) : j <= c BY <3>1 DEF RangeIsOpen
      <4> QED BY <4>1, <3>1, <3>2, RangesStay
    <3>7. \A i \in LocsOf(raw) : i \in Nat /\ i < n BY <3>3 DEF LocsOf
    <3>8. {j \in LocsOf(raw') : j < n /\ HasLines(raw', j)} = {j \in LocsOf(raw) : HasLines(raw, j)}
      BY <3>3, <3>4, <3>6, <3>7
    <3>9. ToSet(Flush) = {EntryOf(raw', i) : i \in {j \in LocsOf(raw') : j < n /\ HasLines(raw', j)}}
      <4>1. ToSet(Flush) = {EntryOf(raw, i) : i \in {j \in LocsOf(raw) : HasLines(raw, j)}}
        BY <3>5 DEF Closed
      <4>2. \A i \in {j \in LocsOf(raw) : HasLines(raw, j)} : EntryOf(raw', i) = EntryOf(raw, i)
        BY <3>6
      <4> QED BY <4>1, <4>2, <3>8
    <3>10. \A j \in LocsOf(raw') : j <= n BY <3>3, <3>4, <3>7
    <3>11. RangeIsOpen'
      <4>1. n \in LocsOf(raw') BY <3>4
      <4>2. range' = [start |-> KeptOf(raw', n), line |-> raw'[n].line, column |-> raw'[n].column]
        BY <3>1, <3>3, <3>4
      <4>3. EndsAt(sourceMap', range'.start) BY <3>1, <3>5 DEF EndsAt
      <4> HIDE DEF n
      <4> QED BY <4>1, <4>2, <4>3, <3>1, <3>9, <3>10 DEF RangeIsOpen, EndsAt
    <3>12. Gapless(sourceMap)' BY <3>1, <3>5 DEF Gapless
    <3> QED BY <3>1, <3>3, <3>4, <3>5, <3>11, <3>12
  <2>2. ASSUME NEW l \in Lines, Drop(l) \/ Keep(l) PROVE MapInvariant'
    <3>1. /\ phase = "reading" /\ raw' = Append(raw, l) /\ sourceMap' = sourceMap
          /\ range' = range /\ phase' = phase /\ listings' = listings
          /\ ~IsLoc(l)
          /\ clean' = IF Kept(l) THEN Append(clean, l) ELSE clean
      BY <2>2 DEF Drop, Keep, Read, IsLoc, Kept
    <3>2. raw' \in Seq(Lines) /\ clean' \in Seq(Lines) BY <3>1
    <3>3. LocsOf(raw') = LocsOf(raw) BY <3>1, OneMoreLine
    <3>4. Len(clean') = KeptOf(raw', Len(raw')) BY <3>1, OneMoreLine
    <3>5. ASSUME NEW c \in LocsOf(raw)
          PROVE  KeptOf(raw', c) = KeptOf(raw, c) /\ raw'[c] = raw[c]
      <4>1. c \in 1..Len(raw) /\ c \in 0..Len(raw) BY DEF LocsOf
      <4> QED BY <4>1, <3>1, OneMoreLine
    <3>6. ASSUME NEW c \in LocsOf(raw), NEW i \in LocsOf(raw), i < c
          PROVE  /\ EntryOf(raw', i) = EntryOf(raw, i)
                 /\ HasLines(raw', i) <=> HasLines(raw, i)
      BY <3>1, <3>6, EntryStays
    <3>7. RangeIsOpen'
      <4>1. CASE LocsOf(raw) = {} BY <4>1, <3>1, <3>3 DEF RangeIsOpen
      <4>2. CASE LocsOf(raw) # {}
        <5>1. PICK c \in LocsOf(raw) :
                /\ \A j \in LocsOf(raw) : j <= c
                /\ range = [start |-> KeptOf(raw, c), line |-> raw[c].line, column |-> raw[c].column]
                /\ ToSet(sourceMap) =
                     {EntryOf(raw, i) : i \in {j \in LocsOf(raw) : j < c /\ HasLines(raw, j)}}
                /\ EndsAt(sourceMap, range.start)
          BY <4>2, <3>1 DEF RangeIsOpen
        <5>2. {j \in LocsOf(raw') : j < c /\ HasLines(raw', j)} =
                {j \in LocsOf(raw) : j < c /\ HasLines(raw, j)}
          BY <3>3, <3>6
        <5>3. \A i \in {j \in LocsOf(raw) : j < c /\ HasLines(raw, j)} :
                EntryOf(raw', i) = EntryOf(raw, i)
          BY <3>6
        <5>4. ToSet(sourceMap) =
                {EntryOf(raw', i) : i \in {j \in LocsOf(raw') : j < c /\ HasLines(raw', j)}}
          BY <5>1, <5>2, <5>3
        <5>5. range' = [start |-> KeptOf(raw', c), line |-> raw'[c].line, column |-> raw'[c].column]
          BY <5>1, <3>1, <3>5
        <5> QED BY <5>1, <5>4, <5>5, <3>1, <3>3 DEF RangeIsOpen, EndsAt
      <4> QED BY <4>1, <4>2
    <3>8. range'.start \in 0..Len(clean')
      <4>1. Len(clean') = Len(clean) \/ Len(clean') = Len(clean) + 1 BY <3>1
      <4>2. Len(clean) \in Nat /\ range'.start = range.start BY <3>1
      <4> QED BY <4>1, <4>2
    <3>9. Gapless(sourceMap)' BY <3>1 DEF Gapless
    <3> QED BY <3>1, <3>2, <3>4, <3>7, <3>8, <3>9
  <2>3. CASE EndOfListing
    <3>1. /\ phase = "reading" /\ phase' = "parsed" /\ sourceMap' = Flush
          /\ raw' = raw /\ clean' = clean /\ range' = range /\ listings' = listings
      BY <2>3 DEF EndOfListing
    <3>2. Flush \in Seq(Entries) /\ Gapless(Flush) /\ Closed(Flush)
      BY <3>1, Flushed
    <3>3. Gapless(sourceMap)' /\ Closed(sourceMap)'
      BY <3>1, <3>2 DEF Gapless, Closed
    <3> QED BY <3>1, <3>2, <3>3
  <2>4. CASE Parsed
    <3> DEFINE instrs == ExtractInstructions(clean)
               listing == [instrs |-> instrs, width |-> DetectVectorWidth(instrs)]
    <3>1. instrs \in Seq(Lines) BY InstructionsTyped
    <3>2. /\ Len(listings) < 2 /\ listings' = Append(listings, listing) /\ phase = "parsed"
          /\ IF Len(listings) = 0
               THEN /\ raw' = <<>> /\ clean' = <<>> /\ sourceMap' = <<>>
                    /\ range' = NoRange /\ phase' = "reading"
               ELSE UNCHANGED <<raw, clean, range, sourceMap, phase>>
      BY <2>4 DEF Parsed
    <3> HIDE DEF instrs
    <3>3. listing \in ParsedListings BY <3>1 DEF ParsedListings, Widths
    <3> HIDE DEF listing
    <3>4. listings' \in Seq(ParsedListings) /\ Len(listings') <= 2
      <4>1. Len(listings) \in Nat /\ Len(listings') = Len(listings) + 1 BY <3>2, <3>3
      <4> QED BY <4>1, <3>2, <3>3
    <3>5. CASE Len(listings) = 0
      <4>1. raw' = <<>> /\ clean' = <<>> /\ sourceMap' = <<>> /\ range' = NoRange
            /\ phase' = "reading"
        BY <3>2, <3>5
      <4>2. LocsOf(raw') = {} BY <4>1 DEF LocsOf
      <4>3. Len(clean') = KeptOf(raw', Len(raw'))
        <5>1. KeptOf(<<>>, 0) = 0
          <6>1. {m \in 1..0 : Kept(<<>>[m])} = {} OBVIOUS
          <6> QED BY <6>1, FS_EmptySet DEF KeptOf
        <5>2. Len(<<>>) = 0 OBVIOUS
        <5> QED BY <4>1, <5>1, <5>2
      <4>4. RangeIsOpen' BY <4>1, <4>2 DEF RangeIsOpen
      <4>5. Gapless(sourceMap)' BY <4>1 DEF Gapless
      <4>6. range'.start = 0 BY <4>1 DEF NoRange
      <4> QED BY <3>4, <4>1, <4>3, <4>4, <4>5, <4>6
    <3>6. CASE Len(listings) # 0
      <4>1. UNCHANGED <<raw, clean, range, sourceMap, phase>> BY <3>2, <3>6
      <4>2. Gapless(sourceMap)' /\ Closed(sourceMap)' BY <4>1, <3>2 DEF Gapless, Closed
      <4> QED BY <3>2, <3>4, <4>1, <4>2
    <3> QED BY <3>5, <3>6
  <2>5. CASE UNCHANGED asmVars
    <3>1. UNCHANGED asmVars BY <2>5
    <3> QED BY <3>1 DEF asmVars, RangeIsOpen, Closed, Gapless, EndsAt
  <2> QED BY <2>1, <2>2, <2>3, <2>4, <2>5 DEF AsmNext
<1> QED BY <1>1, <1>2, PTL DEF AsmSpec

\* The map of every listing is what its .loc lines say.
THEOREM SourceMaps == AsmSpec => []SourceMapIsExact
<1>1. MapInvariant => SourceMapIsExact
  <2> SUFFICES ASSUME MapInvariant PROVE SourceMapIsExact OBVIOUS
  <2> USE DEF MapInvariant
  <2>1. AsmTypeOK BY DEF AsmTypeOK
  <2>2. Locs = LocsOf(raw) BY DEF Locs, LocsOf, IsLoc
  <2>3. ASSUME NEW n PROVE KeptUpTo(n) = KeptOf(raw, n) BY DEF KeptUpTo, KeptOf
  <2>4. ASSUME NEW i PROVE Until(i) = UntilOf(raw, i) BY <2>2 DEF Until, UntilOf
  <2>5. ASSUME phase = "parsed"
        PROVE  ToSet(sourceMap) =
                 {[first |-> KeptUpTo(i), last |-> KeptUpTo(Until(i) - 1) - 1,
                   line |-> raw[i].line, column |-> raw[i].column] :
                    i \in {j \in Locs : KeptUpTo(Until(j) - 1) > KeptUpTo(j)}}
    BY <2>2, <2>3, <2>4, <2>5 DEF Closed, EntryOf, HasLines
  <2> QED BY <2>1, <2>5 DEF SourceMapIsExact, Gapless
<1> QED BY <1>1, MapInvariantHolds, PTL

-----------------------------------------------------------------------------
(* Alignments                                                              *)

\* The larger of two numbers.
LEMMA LargerIs ==
  ASSUME NEW x \in Nat, NEW y \in Nat
  PROVE  Max({x, y}) = IF x >= y THEN x ELSE y
<1> DEFINE m == IF x >= y THEN x ELSE y
<1>1. m \in {x, y} /\ \A z \in {x, y} : m >= z OBVIOUS
<1>2. Max({x, y}) \in {x, y} /\ \A z \in {x, y} : Max({x, y}) >= z
  BY <1>1 DEF Max
<1> QED BY <1>1, <1>2

\* What a row of the table holds.
Cell(a, b, i, up, row, j) ==
  IF i = 0 \/ j = 0 THEN 0
  ELSE IF Same(a[i], b[j]) THEN up[j - 1] + 1
  ELSE Max({up[j], row[j - 1]})

LEMMA LcsRowIs ==
  ASSUME NEW a \in Seq(Lines), NEW b \in Seq(Lines), NEW i \in 0..Len(a),
         NEW up, i # 0 => up \in [0..Len(b) -> Nat]
  PROVE  LET row == LcsRow(a, b, i, up) IN
         /\ row \in [0..Len(b) -> Nat]
         /\ \A j \in 0..Len(b) : row[j] = Cell(a, b, i, up, row, j)
<1> DEFINE n == Len(b)
           IsRow(row) == row = [j \in 0..n |-> IF i = 0 \/ j = 0 THEN 0
                                               ELSE IF Same(a[i], b[j]) THEN up[j - 1] + 1
                                               ELSE Max({up[j], row[j - 1]})]
           step == [j \in 1..n |-> [v \in Nat |->
                      IF i = 0 THEN 0
                      ELSE IF Same(a[i], b[j]) THEN up[j - 1] + 1
                      ELSE Max({up[j], v})]]
<1>1. n \in Nat OBVIOUS
<1>2. step \in [1..n -> [Nat -> Nat]]
  <2> SUFFICES ASSUME NEW j \in 1..n, NEW v \in Nat
               PROVE  (IF i = 0 THEN 0
                       ELSE IF Same(a[i], b[j]) THEN up[j - 1] + 1
                       ELSE Max({up[j], v})) \in Nat
    OBVIOUS
  <2>1. CASE i = 0 BY <2>1
  <2>2. CASE i # 0
    <3>1. up[j - 1] \in Nat /\ up[j] \in Nat BY <2>2
    <3>2. Max({up[j], v}) \in Nat BY <3>1, LargerIs
    <3> QED BY <2>2, <3>1, <3>2
  <2> QED BY <2>1, <2>2
<1>3. PICK f \in [0..n -> Nat] : f[0] = 0 /\ \A j \in 1..n : f[j] = step[j][f[j - 1]]
  <2> HIDE DEF step, n
  <2>1. 0 \in Nat OBVIOUS
  <2>2. \E f : StepsFrom(f, Nat, n, 0, step) BY <1>1, <1>2, <2>1, StepsExist
  <2> QED BY <2>2 DEF StepsFrom
<1>4. ASSUME NEW j \in 0..n PROVE f[j] = Cell(a, b, i, up, f, j)
  <2>1. CASE j = 0 BY <2>1, <1>3 DEF Cell
  <2>2. CASE j # 0
    <3>1. j \in 1..n /\ j - 1 \in 0..n BY <2>2
    <3>2. f[j - 1] \in Nat BY <3>1
    <3>3. f[j] = step[j][f[j - 1]] BY <3>1, <1>3
    <3> QED BY <2>2, <3>1, <3>2, <3>3 DEF Cell
  <2> QED BY <2>1, <2>2
<1>5. IsRow(f)
  <2>1. f = [j \in 0..n |-> f[j]] OBVIOUS
  <2> QED BY <2>1, <1>4 DEF Cell
<1>6. LcsRow(a, b, i, up) = CHOOSE row : IsRow(row) BY DEF LcsRow
<1>7. IsRow(LcsRow(a, b, i, up)) BY <1>5, <1>6
<1> DEFINE row == LcsRow(a, b, i, up)
<1>8. \A j \in 0..n : row[j] = Cell(a, b, i, up, row, j)
  <2> HIDE DEF row
  <2> QED BY <1>7 DEF Cell, row
<1>9. row \in [0..n -> Nat]
  <2>1. row = [j \in 0..n |-> row[j]]
    <3> HIDE DEF row
    <3> QED BY <1>7 DEF row
  <2> HIDE DEF row, n
  <2>2. row[0] \in Nat
    <3>1. row[0] = Cell(a, b, i, up, row, 0)
      <4>1. 0 \in 0..n BY <1>1
      <4> QED BY <4>1, <1>8
    <3>2. Cell(a, b, i, up, row, 0) = 0 BY DEF Cell
    <3> QED BY <3>1, <3>2
  <2>3. ASSUME NEW j \in 1..n, row[j - 1] \in Nat PROVE row[j] \in Nat
    <3>1. j \in 0..n /\ j # 0 /\ j - 1 \in 0..n BY <1>1
    <3>2. row[j] = Cell(a, b, i, up, row, j) BY <3>1, <1>8
    <3>3. CASE i = 0 BY <3>2, <3>3 DEF Cell
    <3>4. CASE i # 0
      <4>1. up[j - 1] \in Nat /\ up[j] \in Nat BY <3>1, <3>4 DEF n
      <4>2. Max({up[j], row[j - 1]}) \in Nat BY <4>1, <2>3, LargerIs
      <4> QED BY <3>1, <3>2, <3>4, <4>1, <4>2 DEF Cell
    <3> QED BY <3>3, <3>4
  <2>4. \A j \in 0..n : row[j] \in Nat BY <1>1, <2>2, <2>3, StepsTyped
  <2> QED BY <2>1, <2>4
<1> QED BY <1>8, <1>9

\* What the table holds.
LEMMA TableIs ==
  ASSUME NEW a \in Seq(Lines), NEW b \in Seq(Lines)
  PROVE  LET dp == LcsTable(a, b) IN
         /\ dp \in [0..Len(a) -> [0..Len(b) -> Nat]]
         /\ \A i \in 0..Len(a), j \in 0..Len(b) :
              dp[i][j] = IF i = 0 \/ j = 0 THEN 0
                         ELSE IF Same(a[i], b[j]) THEN dp[i - 1][j - 1] + 1
                         ELSE Max({dp[i - 1][j], dp[i][j - 1]})
<1> DEFINE m == Len(a)
           V == [0..Len(b) -> Nat]
           Above(f, i) == IF i = 0 THEN <<>> ELSE f[i - 1]
           IsTable(f) == f = [i \in 0..m |-> LcsRow(a, b, i, IF i = 0 THEN <<>> ELSE f[i - 1])]
           step == [i \in 1..m |-> [up \in V |-> LcsRow(a, b, i, up)]]
           first == LcsRow(a, b, 0, <<>>)
           dp == LcsTable(a, b)
<1>1. m \in Nat OBVIOUS
<1>2. first \in V
  <2>1. 0 \in 0..Len(a) OBVIOUS
  <2> QED BY <2>1, LcsRowIs
<1>3. step \in [1..m -> [V -> V]]
  <2> SUFFICES ASSUME NEW i \in 1..m, NEW up \in V PROVE LcsRow(a, b, i, up) \in V
    OBVIOUS
  <2>1. i \in 0..Len(a) OBVIOUS
  <2> QED BY <2>1, LcsRowIs
<1>4. PICK f : StepsFrom(f, V, m, first, step)
  <2> HIDE DEF step, first, V, m
  <2> QED BY <1>1, <1>2, <1>3, StepsExist
<1>5. IsTable(f)
  <2> HIDE DEF V, first
  <2>1. f \in [0..m -> V] /\ f[0] = first /\ \A i \in 1..m : f[i] = step[i][f[i - 1]]
    BY <1>4 DEF StepsFrom
  <2>2. ASSUME NEW i \in 0..m
        PROVE  f[i] = LcsRow(a, b, i, IF i = 0 THEN <<>> ELSE f[i - 1])
    <3>1. CASE i = 0 BY <3>1, <2>1 DEF first
    <3>2. CASE i # 0
      <4>1. i \in 1..m /\ i - 1 \in 0..m BY <3>2
      <4>2. f[i - 1] \in V BY <4>1, <2>1
      <4> QED BY <3>2, <4>1, <4>2, <2>1
    <3> QED BY <3>1, <3>2
  <2>3. f = [i \in 0..m |-> f[i]] BY <2>1
  <2> QED BY <2>2, <2>3, Zenon
<1>6. IsTable(dp)
  <2>1. dp = CHOOSE g : IsTable(g) BY DEF LcsTable
  <2> HIDE DEF dp, IsTable
  <2> QED BY <1>5, <2>1
<1>7. dp = [i \in 0..m |-> dp[i]] /\ \A i \in 0..m : dp[i] = LcsRow(a, b, i, Above(dp, i))
  <2> HIDE DEF dp
  <2> QED BY <1>6
<1> HIDE DEF dp
<1>8. \A i \in 0..m : dp[i] \in V
  <2>1. dp[0] \in V
    <3>1. 0 \in 0..m BY <1>1
    <3>2. dp[0] = first BY <3>1, <1>7
    <3> HIDE DEF first, V
    <3> QED BY <3>2, <1>2
  <2>2. ASSUME NEW i \in 1..m, dp[i - 1] \in V PROVE dp[i] \in V
    <3>1. i \in 0..m /\ i # 0 OBVIOUS
    <3>2. dp[i] = LcsRow(a, b, i, dp[i - 1]) BY <3>1, <1>7
    <3> QED BY <2>2, <3>1, <3>2, LcsRowIs
  <2> HIDE DEF V, m
  <2> QED BY <1>1, <2>1, <2>2, StepsTyped
<1>9. ASSUME NEW i \in 0..m, NEW j \in 0..Len(b)
      PROVE  dp[i][j] = Cell(a, b, i, Above(dp, i), dp[i], j)
  <2>1. i # 0 => Above(dp, i) \in V
    <3>1. i # 0 => i - 1 \in 0..m OBVIOUS
    <3> QED BY <3>1, <1>8
  <2> DEFINE up == Above(dp, i)
  <2>2. dp[i] = LcsRow(a, b, i, up) BY <1>7
  <2> HIDE DEF up
  <2>3. i # 0 => up \in [0..Len(b) -> Nat] BY <2>1 DEF up
  <2>4. \A k \in 0..Len(b) : dp[i][k] = Cell(a, b, i, up, dp[i], k)
    BY <2>2, <2>3, LcsRowIs
  <2> QED BY <2>4 DEF up
<1>10. dp \in [0..m -> V] BY <1>7, <1>8
<1> QED BY <1>9, <1>10 DEF Cell, dp

Categories == {"", "vectorised", "eliminated"}
ChangeSet == [kind : {"unchanged", "added", "removed"}, before : Seq(Lines),
              after : Seq(Lines), category : Categories]

LEMMA UnchangedTyped ==
  ASSUME NEW x \in Lines, NEW y \in Lines
  PROVE  Unchanged(x, y) \in ChangeSet
<1>1. <<x>> \in Seq(Lines) /\ <<y>> \in Seq(Lines) OBVIOUS
<1> QED BY <1>1 DEF ChangeSet, Categories, Unchanged

LEMMA AddedTyped ==
  ASSUME NEW y \in Lines
  PROVE  Added(y) \in ChangeSet
<1>1. <<y>> \in Seq(Lines) /\ <<>> \in Seq(Lines) OBVIOUS
<1> DEFINE c == IF y.seen THEN "vectorised" ELSE ""
<1>2. c \in Categories BY DEF Categories
<1> HIDE DEF c
<1>3. [kind |-> "added", before |-> <<>>, after |-> <<y>>, category |-> c] \in ChangeSet
  BY <1>1, <1>2 DEF ChangeSet
<1> QED BY <1>3 DEF Added, c

LEMMA RemovedTyped ==
  ASSUME NEW x \in Lines, NEW improved
  PROVE  Removed(x, improved) \in ChangeSet
<1>1. <<x>> \in Seq(Lines) /\ <<>> \in Seq(Lines) OBVIOUS
<1> DEFINE c == IF ~x.seen /\ improved THEN "eliminated" ELSE ""
<1>2. c \in Categories BY DEF Categories
<1> HIDE DEF c
<1>3. [kind |-> "removed", before |-> <<x>>, after |-> <<>>, category |-> c] \in ChangeSet
  BY <1>1, <1>2 DEF ChangeSet
<1> QED BY <1>3 DEF Removed, c

\* What a row of the walks holds.
WalkCell(a, b, improved, dp, i, up, row, j) ==
  IF i = 0 /\ j = 0 THEN <<>>
  ELSE IF i > 0 /\ j > 0 /\ Same(a[i], b[j])
    THEN Append(up[j - 1], Unchanged(a[i], b[j]))
  ELSE IF StepsLeft(dp, i, j) THEN Append(row[j - 1], Added(b[j]))
  ELSE Append(up[j], Removed(a[i], improved))

LEMMA WalkCellTyped ==
  ASSUME NEW a \in Seq(Lines), NEW b \in Seq(Lines), NEW i \in 0..Len(a),
         NEW up, i # 0 => up \in [0..Len(b) -> Seq(ChangeSet)],
         NEW improved, NEW dp, NEW row, NEW j \in 0..Len(b),
         j # 0 => row[j - 1] \in Seq(ChangeSet)
  PROVE  WalkCell(a, b, improved, dp, i, up, row, j) \in Seq(ChangeSet)
<1>1. CASE i = 0 /\ j = 0 BY <1>1 DEF WalkCell
<1>2. CASE i > 0 /\ j > 0 /\ Same(a[i], b[j])
  <2>1. /\ a[i] \in Lines /\ b[j] \in Lines /\ up[j - 1] \in Seq(ChangeSet)
    <3>1. i \in 1..Len(a) /\ j \in 1..Len(b) /\ j - 1 \in 0..Len(b) /\ i # 0 BY <1>2
    <3>2. a[i] \in Lines /\ b[j] \in Lines BY <3>1
    <3>3. up[j - 1] \in Seq(ChangeSet) BY <3>1
    <3> QED BY <3>2, <3>3
  <2>2. Append(up[j - 1], Unchanged(a[i], b[j])) \in Seq(ChangeSet)
    <3>1. Unchanged(a[i], b[j]) \in ChangeSet BY <2>1, UnchangedTyped
    <3> QED BY <2>1, <3>1
  <2> QED BY <1>2, <2>2 DEF WalkCell
<1>3. CASE /\ ~(i = 0 /\ j = 0) /\ ~(i > 0 /\ j > 0 /\ Same(a[i], b[j]))
           /\ StepsLeft(dp, i, j)
  <2>1. j > 0 BY <1>3 DEF StepsLeft
  <2>2. b[j] \in Lines /\ row[j - 1] \in Seq(ChangeSet) BY <2>1
  <2>3. Append(row[j - 1], Added(b[j])) \in Seq(ChangeSet)
    <3>1. Added(b[j]) \in ChangeSet BY <2>2, AddedTyped
    <3> QED BY <2>2, <3>1
  <2> QED BY <1>3, <2>3 DEF WalkCell
<1>4. CASE /\ ~(i = 0 /\ j = 0) /\ ~(i > 0 /\ j > 0 /\ Same(a[i], b[j]))
           /\ ~StepsLeft(dp, i, j)
  <2>1. i # 0 BY <1>4 DEF StepsLeft
  <2>2. a[i] \in Lines /\ up[j] \in Seq(ChangeSet) BY <2>1
  <2>3. Append(up[j], Removed(a[i], improved)) \in Seq(ChangeSet)
    <3>1. Removed(a[i], improved) \in ChangeSet BY <2>2, RemovedTyped
    <3> QED BY <2>2, <3>1
  <2> QED BY <1>4, <2>3 DEF WalkCell
<1> QED BY <1>1, <1>2, <1>3, <1>4

LEMMA WalkRowIs ==
  ASSUME NEW a \in Seq(Lines), NEW b \in Seq(Lines), NEW i \in 0..Len(a),
         NEW up, i # 0 => up \in [0..Len(b) -> Seq(ChangeSet)],
         NEW improved, NEW dp
  PROVE  LET row == WalkRow(a, b, improved, dp, i, up) IN
         /\ row \in [0..Len(b) -> Seq(ChangeSet)]
         /\ \A j \in 0..Len(b) : row[j] = WalkCell(a, b, improved, dp, i, up, row, j)
<1> DEFINE n == Len(b)
           V == Seq(ChangeSet)
           none == [k \in 0..n |-> <<>>]
           IsRow(row) == row = [j \in 0..n |->
             IF i = 0 /\ j = 0 THEN <<>>
             ELSE IF i > 0 /\ j > 0 /\ Same(a[i], b[j])
               THEN Append(up[j - 1], Unchanged(a[i], b[j]))
             ELSE IF StepsLeft(dp, i, j) THEN Append(row[j - 1], Added(b[j]))
             ELSE Append(up[j], Removed(a[i], improved))]
           step == [j \in 1..n |-> [v \in V |->
                      WalkCell(a, b, improved, dp, i, up, [k \in {j - 1} |-> v], j)]]
           first == WalkCell(a, b, improved, dp, i, up, <<>>, 0)
           row == WalkRow(a, b, improved, dp, i, up)
<1>1. n \in Nat /\ 0 \in 0..n OBVIOUS
<1>2. first \in V BY <1>1, WalkCellTyped
<1>3. step \in [1..n -> [V -> V]]
  <2> SUFFICES ASSUME NEW j \in 1..n, NEW v \in V
               PROVE  WalkCell(a, b, improved, dp, i, up, [k \in {j - 1} |-> v], j) \in V
    OBVIOUS
  <2>1. j \in 0..Len(b) /\ [k \in {j - 1} |-> v][j - 1] \in Seq(ChangeSet) OBVIOUS
  <2> QED BY <2>1, WalkCellTyped
<1>4. PICK f : StepsFrom(f, V, n, first, step)
  <2> HIDE DEF step, n, V, first
  <2> QED BY <1>1, <1>2, <1>3, StepsExist
<1>5. ASSUME NEW g, NEW h, NEW j \in 0..n, j # 0 => g[j - 1] = h[j - 1]
      PROVE  WalkCell(a, b, improved, dp, i, up, g, j) =
             WalkCell(a, b, improved, dp, i, up, h, j)
  <2>1. CASE j = 0 BY <2>1 DEF WalkCell, StepsLeft
  <2>2. CASE j # 0 BY <2>2, <1>5 DEF WalkCell
  <2> QED BY <2>1, <2>2
<1>6. \A j \in 0..n : f[j] = WalkCell(a, b, improved, dp, i, up, f, j)
  <2> HIDE DEF first, V
  <2>1. f \in [0..n -> V] /\ f[0] = first /\ \A j \in 1..n : f[j] = step[j][f[j - 1]]
    BY <1>4 DEF StepsFrom
  <2> TAKE j \in 0..n
  <2>2. CASE j = 0
    <3>1. f[j] = WalkCell(a, b, improved, dp, i, up, <<>>, j) BY <2>1, <2>2 DEF first
    <3>2. j # 0 => f[j - 1] = <<>>[j - 1] BY <2>2
    <3> QED BY <3>1, <3>2, <1>5
  <2>3. CASE j # 0
    <3>1. j \in 1..n /\ j - 1 \in 0..n BY <2>3
    <3>2. f[j - 1] \in V BY <3>1, <2>1
    <3> DEFINE g == [k \in {j - 1} |-> f[j - 1]]
    <3>3. f[j] = WalkCell(a, b, improved, dp, i, up, g, j) BY <3>1, <3>2, <2>1
    <3>4. f[j - 1] = g[j - 1] OBVIOUS
    <3> HIDE DEF g, n
    <3> QED BY <3>3, <3>4, <1>5
  <2> QED BY <2>2, <2>3
<1>7. IsRow(row)
  <2>1. f \in [0..n -> V] BY <1>4 DEF StepsFrom
  <2>2. f = [j \in 0..n |-> f[j]] BY <2>1
  <2>3. IsRow(f)
    <3> HIDE DEF n
    <3> QED BY <2>2, <1>6, Zenon DEF WalkCell
  <2>4. row = CHOOSE g : IsRow(g) BY DEF WalkRow
  <2> HIDE DEF row, IsRow
  <2> QED BY <2>3, <2>4
<1>8. /\ row = [j \in 0..n |-> row[j]]
      /\ \A j \in 0..n : row[j] = WalkCell(a, b, improved, dp, i, up, row, j)
  <2> HIDE DEF row, n
  <2> QED BY <1>7 DEF WalkCell
<1> HIDE DEF row
<1>9. \A j \in 0..n : row[j] \in V
  <2>1. row[0] \in V
    <3>1. row[0] = WalkCell(a, b, improved, dp, i, up, row, 0) BY <1>1, <1>8
    <3>2. WalkCell(a, b, improved, dp, i, up, row, 0) \in V BY <1>1, WalkCellTyped
    <3> QED BY <3>1, <3>2
  <2>2. ASSUME NEW j \in 1..n, row[j - 1] \in V PROVE row[j] \in V
    <3>1. j \in 0..n OBVIOUS
    <3>2. WalkCell(a, b, improved, dp, i, up, row, j) \in V
      BY <3>1, <2>2, WalkCellTyped
    <3> QED BY <3>1, <3>2, <1>8
  <2> HIDE DEF V, n
  <2> QED BY <1>1, <2>1, <2>2, StepsTyped
<1>10. row \in [0..n -> V]
  <2> HIDE DEF V, n
  <2> QED BY <1>8, <1>9
<1> QED BY <1>8, <1>10 DEF row

\* The walks from all cells of the table.
WalksOf(walk, a, b, improved) ==
  /\ walk \in [0..Len(a) -> [0..Len(b) -> Seq(ChangeSet)]]
  /\ Changes(a, b, improved) = walk[Len(a)][Len(b)]
  /\ \A i \in 0..Len(a), j \in 0..Len(b) :
       walk[i][j] = IF i = 0 /\ j = 0 THEN <<>>
                    ELSE IF i > 0 /\ j > 0 /\ Same(a[i], b[j])
                      THEN Append(walk[i - 1][j - 1], Unchanged(a[i], b[j]))
                    ELSE IF StepsLeft(LcsTable(a, b), i, j)
                      THEN Append(walk[i][j - 1], Added(b[j]))
                    ELSE Append(walk[i - 1][j], Removed(a[i], improved))

LEMMA WalksExist ==
  ASSUME NEW a \in Seq(Lines), NEW b \in Seq(Lines), NEW improved
  PROVE  \E walk : WalksOf(walk, a, b, improved)
<1> DEFINE m == Len(a)
           dp == LcsTable(a, b)
           V == [0..Len(b) -> Seq(ChangeSet)]
           Above(f, i) == IF i = 0 THEN <<>> ELSE f[i - 1]
           IsWalk(f) == f = [i \in 0..m |->
             WalkRow(a, b, improved, dp, i, IF i = 0 THEN <<>> ELSE f[i - 1])]
           step == [i \in 1..m |-> [up \in V |-> WalkRow(a, b, improved, dp, i, up)]]
           first == WalkRow(a, b, improved, dp, 0, <<>>)
           walk == CHOOSE f : IsWalk(f)
<1>1. m \in Nat OBVIOUS
<1>2. Changes(a, b, improved) = walk[Len(a)][Len(b)] BY DEF Changes
<1> HIDE DEF dp
<1>3. first \in V
  <2>1. 0 \in 0..Len(a) OBVIOUS
  <2> QED BY <2>1, WalkRowIs
<1>4. step \in [1..m -> [V -> V]]
  <2> SUFFICES ASSUME NEW i \in 1..m, NEW up \in V
               PROVE  WalkRow(a, b, improved, dp, i, up) \in V
    OBVIOUS
  <2>1. i \in 0..Len(a) OBVIOUS
  <2> QED BY <2>1, WalkRowIs
<1>5. PICK f : StepsFrom(f, V, m, first, step)
  <2> HIDE DEF step, first, V, m
  <2> QED BY <1>1, <1>3, <1>4, StepsExist
<1>6. IsWalk(f)
  <2> HIDE DEF V, first
  <2>1. f \in [0..m -> V] /\ f[0] = first /\ \A i \in 1..m : f[i] = step[i][f[i - 1]]
    BY <1>5 DEF StepsFrom
  <2>2. ASSUME NEW i \in 0..m
        PROVE  f[i] = WalkRow(a, b, improved, dp, i, IF i = 0 THEN <<>> ELSE f[i - 1])
    <3>1. CASE i = 0 BY <3>1, <2>1 DEF first
    <3>2. CASE i # 0
      <4>1. i \in 1..m /\ i - 1 \in 0..m BY <3>2
      <4>2. f[i - 1] \in V BY <4>1, <2>1
      <4> QED BY <3>2, <4>1, <4>2, <2>1
    <3> QED BY <3>1, <3>2
  <2>3. f = [i \in 0..m |-> f[i]] BY <2>1
  <2> QED BY <2>2, <2>3, Zenon
<1>7. IsWalk(walk)
  <2> HIDE DEF IsWalk
  <2> QED BY <1>6
<1>8. /\ walk = [i \in 0..m |-> walk[i]]
      /\ \A i \in 0..m : walk[i] = WalkRow(a, b, improved, dp, i, Above(walk, i))
  <2> HIDE DEF walk
  <2> QED BY <1>7
<1> HIDE DEF walk
<1>9. \A i \in 0..m : walk[i] \in V
  <2>1. walk[0] \in V
    <3>1. 0 \in 0..m BY <1>1
    <3>2. walk[0] = first BY <3>1, <1>8
    <3> HIDE DEF first, V
    <3> QED BY <3>2, <1>3
  <2>2. ASSUME NEW i \in 1..m, walk[i - 1] \in V PROVE walk[i] \in V
    <3>1. i \in 0..m /\ i # 0 OBVIOUS
    <3>2. walk[i] = WalkRow(a, b, improved, dp, i, walk[i - 1]) BY <3>1, <1>8
    <3> QED BY <2>2, <3>1, <3>2, WalkRowIs
  <2> HIDE DEF V, m
  <2> QED BY <1>1, <2>1, <2>2, StepsTyped
<1>10. ASSUME NEW i \in 0..m, NEW j \in 0..Len(b)
       PROVE  walk[i][j] = WalkCell(a, b, improved, dp, i, Above(walk, i), walk[i], j)
  <2>1. i # 0 => Above(walk, i) \in V
    <3>1. i # 0 => i - 1 \in 0..m OBVIOUS
    <3> QED BY <3>1, <1>9
  <2> DEFINE up == Above(walk, i)
  <2>2. walk[i] = WalkRow(a, b, improved, dp, i, up) BY <1>8
  <2> HIDE DEF up
  <2>3. i # 0 => up \in [0..Len(b) -> Seq(ChangeSet)] BY <2>1 DEF up
  <2> DEFINE row == WalkRow(a, b, improved, dp, i, up)
  <2>5. \A k \in 0..Len(b) : row[k] = WalkCell(a, b, improved, dp, i, up, row, k)
    <3>1. i \in 0..Len(a) OBVIOUS
    <3> QED BY <3>1, <2>3, WalkRowIs
  <2> HIDE DEF row
  <2>6. walk[i] = row BY <2>2 DEF row
  <2>4. \A k \in 0..Len(b) : walk[i][k] = WalkCell(a, b, improved, dp, i, up, walk[i], k)
    BY <2>5, <2>6
  <2> QED BY <2>4 DEF up
<1>11. walk \in [0..m -> V] BY <1>8, <1>9
<1>12. \A i \in 0..Len(a), j \in 0..Len(b) :
         walk[i][j] = IF i = 0 /\ j = 0 THEN <<>>
                      ELSE IF i > 0 /\ j > 0 /\ Same(a[i], b[j])
                        THEN Append(walk[i - 1][j - 1], Unchanged(a[i], b[j]))
                      ELSE IF StepsLeft(LcsTable(a, b), i, j)
                        THEN Append(walk[i][j - 1], Added(b[j]))
                      ELSE Append(walk[i - 1][j], Removed(a[i], improved))
  <2> TAKE i \in 0..Len(a), j \in 0..Len(b)
  <2>1. walk[i][j] = WalkCell(a, b, improved, dp, i, Above(walk, i), walk[i], j) BY <1>10
  <2>2. CASE i = 0
    <3>1. ~(i > 0) BY <2>2
    <3>2. j # 0 => StepsLeft(dp, i, j) BY <2>2 DEF StepsLeft
    <3> QED BY <2>1, <2>2, <3>1, <3>2 DEF WalkCell, dp
  <2>3. CASE i # 0 BY <2>1, <2>3 DEF WalkCell, dp
  <2> QED BY <2>2, <2>3
<1>13. WalksOf(walk, a, b, improved) BY <1>2, <1>11, <1>12 DEF WalksOf
<1> QED BY <1>13

-----------------------------------------------------------------------------
(* Diffs                                                                   *)

Befores(w) == FlattenSeq([n \in 1..Len(w) |-> w[n].before])
Afters(w) == FlattenSeq([n \in 1..Len(w) |-> w[n].after])
KeptIn(w) == Cardinality({n \in 1..Len(w) : w[n].kind = "unchanged"})

\* One more change adds its lines to each side, and itself to what is kept.
LEMMA OneMoreChange ==
  ASSUME NEW w \in Seq(ChangeSet), NEW c \in ChangeSet
  PROVE  /\ Befores(Append(w, c)) = Befores(w) \o c.before
         /\ Afters(Append(w, c)) = Afters(w) \o c.after
         /\ KeptIn(Append(w, c)) = IF c.kind = "unchanged" THEN KeptIn(w) + 1 ELSE KeptIn(w)
<1> DEFINE v == Append(w, c)
           n == Len(w)
           befores == [k \in 1..n |-> w[k].before]
           afters == [k \in 1..n |-> w[k].after]
<1>1. /\ n \in Nat /\ Len(v) = n + 1 /\ v[n + 1] = c
      /\ \A k \in 1..n : v[k] = w[k]
  OBVIOUS
<1>2. befores \in Seq(Seq(Lines)) /\ afters \in Seq(Seq(Lines))
      /\ c.before \in Seq(Lines) /\ c.after \in Seq(Lines)
      /\ Len(befores) = n /\ Len(afters) = n
  <2>1. \A k \in 1..n : w[k] \in ChangeSet OBVIOUS
  <2>2. \A k \in 1..n : w[k].before \in Seq(Lines) /\ w[k].after \in Seq(Lines)
    BY <2>1 DEF ChangeSet
  <2> QED BY <1>1, <2>2 DEF ChangeSet
<1> HIDE DEF v, n
<1>3. [k \in 1..(n + 1) |-> v[k].before] = Append(befores, c.before)
  <2>1. Append(befores, c.before) =
          [k \in 1..(n + 1) |-> IF k = n + 1 THEN c.before ELSE befores[k]]
    <3> HIDE DEF befores
    <3> QED BY <1>1, <1>2
  <2>2. ASSUME NEW k \in 1..(n + 1)
        PROVE  v[k].before = IF k = n + 1 THEN c.before ELSE befores[k]
    <3>1. k = n + 1 \/ k \in 1..n BY <1>1
    <3> QED BY <3>1, <1>1
  <2> QED BY <2>1, <2>2
<1>4. [k \in 1..(n + 1) |-> v[k].after] = Append(afters, c.after)
  <2>1. Append(afters, c.after) =
          [k \in 1..(n + 1) |-> IF k = n + 1 THEN c.after ELSE afters[k]]
    <3> HIDE DEF afters
    <3> QED BY <1>1, <1>2
  <2>2. ASSUME NEW k \in 1..(n + 1)
        PROVE  v[k].after = IF k = n + 1 THEN c.after ELSE afters[k]
    <3>1. k = n + 1 \/ k \in 1..n BY <1>1
    <3> QED BY <3>1, <1>1
  <2> QED BY <2>1, <2>2
<1>5. Befores(v) = Befores(w) \o c.before
  <2>1. Befores(v) = FlattenSeq(Append(befores, c.before)) BY <1>1, <1>3 DEF Befores
  <2>2. Befores(w) = FlattenSeq(befores) BY DEF Befores, n
  <2> HIDE DEF befores
  <2>3. FlattenSeq(Append(befores, c.before)) = FlattenSeq(befores) \o c.before
    BY <1>2, FlattenAppend
  <2> QED BY <2>1, <2>2, <2>3
<1>6. Afters(v) = Afters(w) \o c.after
  <2>1. Afters(v) = FlattenSeq(Append(afters, c.after)) BY <1>1, <1>4 DEF Afters
  <2>2. Afters(w) = FlattenSeq(afters) BY DEF Afters, n
  <2> HIDE DEF afters
  <2>3. FlattenSeq(Append(afters, c.after)) = FlattenSeq(afters) \o c.after
    BY <1>2, FlattenAppend
  <2> QED BY <2>1, <2>2, <2>3
<1>7. KeptIn(v) = IF c.kind = "unchanged" THEN KeptIn(w) + 1 ELSE KeptIn(w)
  <2> DEFINE old == {k \in 1..n : w[k].kind = "unchanged"}
             new == {k \in 1..(n + 1) : v[k].kind = "unchanged"}
  <2>1. IsFiniteSet(old) /\ n + 1 \notin old
    <3>1. old \subseteq 1..n /\ IsFiniteSet(1..n) BY <1>1, FS_Interval
    <3> QED BY <3>1, <1>1, FS_Subset
  <2>2. new = IF c.kind = "unchanged" THEN old \cup {n + 1} ELSE old
    <3>1. \A k \in 1..(n + 1) : k = n + 1 \/ k \in 1..n BY <1>1
    <3>2. 1..n \subseteq 1..(n + 1) /\ n + 1 \in 1..(n + 1) BY <1>1
    <3>3. ASSUME NEW k PROVE k \in new <=> k \in old \/ (k = n + 1 /\ c.kind = "unchanged")
      <4>1. CASE k = n + 1 BY <4>1, <3>2, <1>1, <2>1
      <4>2. CASE k # n + 1 BY <4>2, <3>1, <3>2, <1>1
      <4> QED BY <4>1, <4>2
    <3> HIDE DEF old, new
    <3> QED BY <3>3
  <2>3. Cardinality(old \cup {n + 1}) = Cardinality(old) + 1
    <3> HIDE DEF old
    <3> QED BY <2>1, FS_AddElement
  <2>4. KeptIn(w) = Cardinality(old) /\ KeptIn(v) = Cardinality(new)
    BY <1>1 DEF KeptIn, n
  <2> HIDE DEF old, new
  <2> QED BY <2>2, <2>3, <2>4
<1> QED BY <1>5, <1>6, <1>7 DEF v

LEMMA OneMoreOfPrefix ==
  ASSUME NEW S, NEW s \in Seq(S), NEW i \in 1..Len(s)
  PROVE  SubSeq(s, 1, i) = SubSeq(s, 1, i - 1) \o <<s[i]>>
<1>1. i \in Nat /\ i - 1 \in Nat /\ i <= Len(s) OBVIOUS
<1>2. SubSeq(s, 1, i) \in Seq(S) /\ SubSeq(s, 1, i - 1) \in Seq(S) /\ <<s[i]>> \in Seq(S)
  OBVIOUS
<1>3. /\ Len(SubSeq(s, 1, i)) = i /\ Len(SubSeq(s, 1, i - 1)) = i - 1
      /\ \A k \in 1..i : SubSeq(s, 1, i)[k] = s[k]
      /\ \A k \in 1..(i - 1) : SubSeq(s, 1, i - 1)[k] = s[k]
  OBVIOUS
<1> QED BY <1>1, <1>2, <1>3

LEMMA NothingChanged ==
  /\ Befores(<<>>) = <<>> /\ Afters(<<>>) = <<>> /\ KeptIn(<<>>) = 0
<1>1. FlattenSeq([n \in 1..0 |-> <<>>[n].before]) = <<>> BY DEF FlattenSeq
<1>2. FlattenSeq([n \in 1..0 |-> <<>>[n].after]) = <<>> BY DEF FlattenSeq
<1>3. {n \in 1..0 : <<>>[n].kind = "unchanged"} = {} OBVIOUS
<1>4. Len(<<>>) = 0 OBVIOUS
<1> QED BY <1>1, <1>2, <1>3, <1>4, FS_EmptySet DEF Befores, Afters, KeptIn

\* The changes make one listing of the other, and keep what the table says.
LEMMA ChangesSay ==
  ASSUME NEW a \in Seq(Lines), NEW b \in Seq(Lines), NEW improved
  PROVE  /\ Befores(Changes(a, b, improved)) = a
         /\ Afters(Changes(a, b, improved)) = b
         /\ KeptIn(Changes(a, b, improved)) = LcsTable(a, b)[Len(a)][Len(b)]
<1> DEFINE m == Len(a)
           n == Len(b)
           dp == LcsTable(a, b)
<1>1. m \in Nat /\ n \in Nat OBVIOUS
<1>2. /\ dp \in [0..m -> [0..n -> Nat]]
      /\ \A i \in 0..m, j \in 0..n :
           dp[i][j] = IF i = 0 \/ j = 0 THEN 0
                      ELSE IF Same(a[i], b[j]) THEN dp[i - 1][j - 1] + 1
                      ELSE Max({dp[i - 1][j], dp[i][j - 1]})
  BY TableIs
<1>3. PICK walk : WalksOf(walk, a, b, improved) BY WalksExist
<1>4. /\ walk \in [0..m -> [0..n -> Seq(ChangeSet)]]
       /\ Changes(a, b, improved) = walk[m][n]
       /\ \A i \in 0..m, j \in 0..n :
            walk[i][j] = IF i = 0 /\ j = 0 THEN <<>>
                         ELSE IF i > 0 /\ j > 0 /\ Same(a[i], b[j])
                           THEN Append(walk[i - 1][j - 1], Unchanged(a[i], b[j]))
                         ELSE IF StepsLeft(dp, i, j)
                           THEN Append(walk[i][j - 1], Added(b[j]))
                         ELSE Append(walk[i - 1][j], Removed(a[i], improved))
  BY <1>3 DEF WalksOf
<1> HIDE DEF dp
<1> DEFINE Says(i, j) == /\ Befores(walk[i][j]) = SubSeq(a, 1, i)
                         /\ Afters(walk[i][j]) = SubSeq(b, 1, j)
                         /\ KeptIn(walk[i][j]) = dp[i][j]
           Good == {k \in Nat : \A i \in 0..m, j \in 0..n : i + j <= k => Says(i, j)}
<1>5. Says(0, 0)
  <2>1. 0 \in 0..m /\ 0 \in 0..n BY <1>1
  <2>2. walk[0][0] = <<>> BY <2>1, <1>4
  <2>3. dp[0][0] = 0 BY <2>1, <1>2
  <2>4. SubSeq(a, 1, 0) = <<>> /\ SubSeq(b, 1, 0) = <<>> OBVIOUS
  <2> QED BY <2>2, <2>3, <2>4, NothingChanged
<1>6. ASSUME NEW k \in Nat, k \in Good, NEW i \in 0..m, NEW j \in 0..n, i + j = k + 1
      PROVE  Says(i, j)
  <2>1. \A x \in 0..m, y \in 0..n : x + y <= k => Says(x, y) BY <1>6
  <2>2. CASE i > 0 /\ j > 0 /\ Same(a[i], b[j])
    <3> DEFINE w == walk[i - 1][j - 1]
               c == Unchanged(a[i], b[j])
    <3>1. i - 1 \in 0..m /\ j - 1 \in 0..n /\ (i - 1) + (j - 1) <= k
          /\ i \in 1..m /\ j \in 1..n
      BY <2>2, <1>6
    <3>2. Says(i - 1, j - 1) BY <3>1, <2>1
    <3>3. w \in Seq(ChangeSet) BY <3>1, <1>4
    <3>4. a[i] \in Lines /\ b[j] \in Lines BY <3>1
    <3>5. c \in ChangeSet BY <3>4, UnchangedTyped
    <3>6. walk[i][j] = Append(w, c)
      <4>1. ~(i = 0 /\ j = 0) BY <2>2
      <4> QED BY <4>1, <2>2, <1>4
    <3>7. c.before = <<a[i]>> /\ c.after = <<b[j]>> /\ c.kind = "unchanged" BY DEF Unchanged
    <3>8. SubSeq(a, 1, i) = SubSeq(a, 1, i - 1) \o <<a[i]>> BY <3>1, OneMoreOfPrefix
    <3>9. SubSeq(b, 1, j) = SubSeq(b, 1, j - 1) \o <<b[j]>> BY <3>1, OneMoreOfPrefix
    <3>10. dp[i][j] = dp[i - 1][j - 1] + 1
      <4>1. ~(i = 0 \/ j = 0) BY <2>2
      <4> QED BY <4>1, <2>2, <1>2
    <3> HIDE DEF c, w
    <3>11. /\ Befores(walk[i][j]) = Befores(w) \o c.before
           /\ Afters(walk[i][j]) = Afters(w) \o c.after
           /\ KeptIn(walk[i][j]) = KeptIn(w) + 1
      BY <3>3, <3>5, <3>6, <3>7, OneMoreChange
    <3> QED BY <3>2, <3>7, <3>8, <3>9, <3>10, <3>11 DEF w
  <2>3. CASE ~(i > 0 /\ j > 0 /\ Same(a[i], b[j])) /\ StepsLeft(dp, i, j)
    <3> DEFINE w == walk[i][j - 1]
               c == Added(b[j])
    <3>1. j > 0 /\ (i = 0 \/ dp[i][j - 1] >= dp[i - 1][j]) BY <2>3 DEF StepsLeft
    <3>2. j - 1 \in 0..n /\ i + (j - 1) <= k /\ j \in 1..n BY <3>1, <1>6
    <3>3. Says(i, j - 1) BY <3>2, <2>1
    <3>4. w \in Seq(ChangeSet) BY <3>2, <1>4
    <3>5. b[j] \in Lines BY <3>2
    <3>6. c \in ChangeSet BY <3>5, AddedTyped
    <3>7. walk[i][j] = Append(w, c)
      <4>1. ~(i = 0 /\ j = 0) BY <3>1
      <4> QED BY <4>1, <2>3, <1>4
    <3>8. c.before = <<>> /\ c.after = <<b[j]>> /\ c.kind # "unchanged" BY DEF Added
    <3>9. SubSeq(b, 1, j) = SubSeq(b, 1, j - 1) \o <<b[j]>> BY <3>2, OneMoreOfPrefix
    <3>10. dp[i][j] = dp[i][j - 1]
      <4>1. CASE i = 0 BY <4>1, <3>1, <3>2, <1>2
      <4>2. CASE i # 0
        <5>1. i - 1 \in 0..m BY <4>2
        <5>5. ~(i = 0 \/ j = 0) /\ ~Same(a[i], b[j]) BY <4>2, <3>1, <2>3
        <5>2. dp[i][j] = Max({dp[i - 1][j], dp[i][j - 1]}) BY <5>5, <1>2
        <5>3. dp[i - 1][j] \in Nat /\ dp[i][j - 1] \in Nat BY <5>1, <3>2, <1>2
        <5>4. Max({dp[i - 1][j], dp[i][j - 1]}) =
                IF dp[i - 1][j] >= dp[i][j - 1] THEN dp[i - 1][j] ELSE dp[i][j - 1]
          BY <5>3, LargerIs
        <5> QED BY <5>2, <5>3, <5>4, <4>2, <3>1
      <4> QED BY <4>1, <4>2
    <3>11. SubSeq(a, 1, i) \o <<>> = SubSeq(a, 1, i)
      <4>1. SubSeq(a, 1, i) \in Seq(Lines) OBVIOUS
      <4> QED BY <4>1
    <3> HIDE DEF c, w
    <3>12. /\ Befores(walk[i][j]) = Befores(w) \o c.before
           /\ Afters(walk[i][j]) = Afters(w) \o c.after
           /\ KeptIn(walk[i][j]) = KeptIn(w)
      BY <3>4, <3>6, <3>7, <3>8, OneMoreChange
    <3> QED BY <3>3, <3>8, <3>9, <3>10, <3>11, <3>12 DEF w
  <2>4. CASE ~(i > 0 /\ j > 0 /\ Same(a[i], b[j])) /\ ~StepsLeft(dp, i, j)
    <3> DEFINE w == walk[i - 1][j]
               c == Removed(a[i], improved)
    <3>0. i + j > 0 BY <1>6
    <3>1. i > 0 /\ (j = 0 \/ ~(dp[i][j - 1] >= dp[i - 1][j])) BY <3>0, <2>4 DEF StepsLeft
    <3>2. i - 1 \in 0..m /\ (i - 1) + j <= k /\ i \in 1..m BY <3>1, <1>6
    <3>3. Says(i - 1, j) BY <3>2, <2>1
    <3>4. w \in Seq(ChangeSet) BY <3>2, <1>4
    <3>5. a[i] \in Lines BY <3>2
    <3>6. c \in ChangeSet BY <3>5, RemovedTyped
    <3>7. walk[i][j] = Append(w, c)
      <4>1. ~(i = 0 /\ j = 0) BY <3>1
      <4> QED BY <4>1, <2>4, <1>4
    <3>8. c.after = <<>> /\ c.before = <<a[i]>> /\ c.kind # "unchanged" BY DEF Removed
    <3>9. SubSeq(a, 1, i) = SubSeq(a, 1, i - 1) \o <<a[i]>> BY <3>2, OneMoreOfPrefix
    <3>10. dp[i][j] = dp[i - 1][j]
      <4>1. CASE j = 0 BY <4>1, <3>1, <3>2, <1>2
      <4>2. CASE j # 0
        <5>1. j - 1 \in 0..n BY <4>2
        <5>5. ~(i = 0 \/ j = 0) /\ ~Same(a[i], b[j]) BY <4>2, <3>1, <2>4
        <5>2. dp[i][j] = Max({dp[i - 1][j], dp[i][j - 1]}) BY <5>5, <1>2
        <5>3. dp[i - 1][j] \in Nat /\ dp[i][j - 1] \in Nat BY <5>1, <3>2, <1>2
        <5>4. Max({dp[i - 1][j], dp[i][j - 1]}) =
                IF dp[i - 1][j] >= dp[i][j - 1] THEN dp[i - 1][j] ELSE dp[i][j - 1]
          BY <5>3, LargerIs
        <5> QED BY <5>2, <5>3, <5>4, <4>2, <3>1
      <4> QED BY <4>1, <4>2
    <3>11. SubSeq(b, 1, j) \o <<>> = SubSeq(b, 1, j)
      <4>1. SubSeq(b, 1, j) \in Seq(Lines) OBVIOUS
      <4> QED BY <4>1
    <3> HIDE DEF c, w
    <3>12. /\ Befores(walk[i][j]) = Befores(w) \o c.before
           /\ Afters(walk[i][j]) = Afters(w) \o c.after
           /\ KeptIn(walk[i][j]) = KeptIn(w)
      BY <3>4, <3>6, <3>7, <3>8, OneMoreChange
    <3> QED BY <3>3, <3>8, <3>9, <3>10, <3>11, <3>12 DEF w
  <2> QED BY <2>2, <2>3, <2>4
<1> HIDE DEF Says
<1>7. 0 \in Good
  <2>1. ASSUME NEW i \in 0..m, NEW j \in 0..n, i + j <= 0 PROVE i = 0 /\ j = 0 BY <2>1
  <2> QED BY <2>1, <1>5
<1>8. ASSUME NEW k \in Nat, k \in Good PROVE k + 1 \in Good
  <2> SUFFICES ASSUME NEW i \in 0..m, NEW j \in 0..n, i + j <= k + 1 PROVE Says(i, j)
    OBVIOUS
  <2>1. CASE i + j <= k BY <2>1, <1>8
  <2>2. CASE i + j = k + 1 BY <2>2, <1>6, <1>8
  <2> QED BY <2>1, <2>2, <1>1
<1> HIDE DEF Good
<1>9. Nat \subseteq Good BY <1>7, <1>8, NumberByNumber
<1>10. Says(m, n)
  <2>1. m + n \in Good /\ m \in 0..m /\ n \in 0..n BY <1>1, <1>9
  <2>2. \A i \in 0..m, j \in 0..n : i + j <= m + n => Says(i, j) BY <2>1 DEF Good
  <2>3. m + n <= m + n BY <1>1
  <2> QED BY <2>1, <2>2, <2>3
<1>11. SubSeq(a, 1, m) = a /\ SubSeq(b, 1, n) = b OBVIOUS
<1> QED BY <1>4, <1>10, <1>11 DEF Says, dp

LEMMA ParsedAreSequences ==
  ASSUME MapInvariant, Len(listings) = 2
  PROVE  listings[1].instrs \in Seq(Lines) /\ listings[2].instrs \in Seq(Lines)
<1>1. listings[1] \in ParsedListings /\ listings[2] \in ParsedListings
  <2>1. listings \in Seq(ParsedListings) BY DEF MapInvariant
  <2>2. 1 \in 1..Len(listings) /\ 2 \in 1..Len(listings) OBVIOUS
  <2> QED BY <2>1, <2>2
<1> QED BY <1>1 DEF ParsedListings

\* The diff shows both listings as they are, whatever they hold.
THEOREM DiffsAreFaithful == AsmSpec => []DiffIsFaithful
<1>1. MapInvariant => DiffIsFaithful
  <2> SUFFICES ASSUME MapInvariant, Len(listings) = 2
               PROVE  Befores(Diff) = listings[1].instrs /\ Afters(Diff) = listings[2].instrs
    BY DEF DiffIsFaithful, Befores, Afters
  <2> QED BY ParsedAreSequences, ChangesSay DEF Diff, DiffInstructions
<1> QED BY <1>1, MapInvariantHolds, PTL

\* What is below another number up to i is not i.
LEMMA BelowAnother ==
  ASSUME NEW i \in Nat, NEW x \in 1..i, NEW y \in 1..i, x < y
  PROVE  x \in 1..(i - 1)
OBVIOUS

\* No common subsequence is longer than the table says.
LEMMA TableIsLongest ==
  ASSUME NEW a \in Seq(Lines), NEW b \in Seq(Lines), NEW k \in Nat, HaveCommon(a, b, k)
  PROVE  k <= LcsTable(a, b)[Len(a)][Len(b)]
<1> DEFINE m == Len(a)
           n == Len(b)
           dp == LcsTable(a, b)
           Common(i, j, h, p, q) ==
             /\ p \in [1..h -> 1..i] /\ q \in [1..h -> 1..j]
             /\ \A x, y \in 1..h : x < y => p[x] < p[y] /\ q[x] < q[y]
             /\ \A x \in 1..h : Same(a[p[x]], b[q[x]])
           Bound(i, j) == \A h \in Nat : \A p, q : Common(i, j, h, p, q) => h <= dp[i][j]
           Good == {s \in Nat : \A i \in 0..m, j \in 0..n : i + j <= s => Bound(i, j)}
<1>1. m \in Nat /\ n \in Nat OBVIOUS
<1>2. /\ dp \in [0..m -> [0..n -> Nat]]
      /\ \A i \in 0..m, j \in 0..n :
           dp[i][j] = IF i = 0 \/ j = 0 THEN 0
                      ELSE IF Same(a[i], b[j]) THEN dp[i - 1][j - 1] + 1
                      ELSE Max({dp[i - 1][j], dp[i][j - 1]})
  BY TableIs
<1> HIDE DEF dp
<1>3. ASSUME NEW i \in 0..m, NEW j \in 0..n, i = 0 \/ j = 0 PROVE Bound(i, j)
  <2> SUFFICES ASSUME NEW h \in Nat, NEW p, NEW q, Common(i, j, h, p, q)
               PROVE  h <= dp[i][j]
    OBVIOUS
  <2>1. dp[i][j] = 0 BY <1>2, <1>3
  <2>2. ASSUME h > 0 PROVE FALSE
    <3>1. 1 \in 1..h BY <2>2
    <3>2. p[1] \in 1..i /\ q[1] \in 1..j BY <3>1
    <3> QED BY <3>2, <1>3
  <2> QED BY <2>1, <2>2
<1>4. ASSUME NEW s \in Nat, s \in Good, NEW i \in 1..m, NEW j \in 1..n, i + j = s + 1
      PROVE  Bound(i, j)
  <2> SUFFICES ASSUME NEW h \in Nat, NEW p, NEW q, Common(i, j, h, p, q)
               PROVE  h <= dp[i][j]
    OBVIOUS
  <2>0. /\ p \in [1..h -> 1..i] /\ q \in [1..h -> 1..j]
        /\ \A x, y \in 1..h : x < y => p[x] < p[y] /\ q[x] < q[y]
        /\ \A x \in 1..h : Same(a[p[x]], b[q[x]])
    OBVIOUS
  <2> HIDE DEF Common
  <2>1. /\ i \in 0..m /\ j \in 0..n /\ i - 1 \in 0..m /\ j - 1 \in 0..n
        /\ i \in Nat /\ j \in Nat
    OBVIOUS
  <2>2. /\ dp[i - 1][j - 1] \in Nat /\ dp[i - 1][j] \in Nat /\ dp[i][j - 1] \in Nat
        /\ dp[i][j] \in Nat
    <3>1. dp[i - 1] \in [0..n -> Nat] /\ dp[i] \in [0..n -> Nat] BY <2>1, <1>2
    <3> HIDE DEF n
    <3> QED BY <2>1, <3>1
  <2>3. CASE h = 0 BY <2>2, <2>3
  <2>4. ASSUME h > 0, Same(a[i], b[j]) PROVE h <= dp[i][j]
    <3> DEFINE g == h - 1
               u == [x \in 1..g |-> p[x]]
               v == [x \in 1..g |-> q[x]]
    <3>1. g \in Nat /\ h = g + 1 /\ 1..g \subseteq 1..h /\ h \in 1..h BY <2>4
    <3>2. \A x \in 1..g : x \in 1..h /\ x < h BY <3>1
    <3>3. \A x \in 1..g : p[x] < p[h] /\ q[x] < q[h] BY <2>0, <3>1, <3>2
    <3>4. p[h] \in 1..i /\ q[h] \in 1..j BY <2>0, <3>1
    <3>5. \A x \in 1..g : p[x] \in 1..i /\ q[x] \in 1..j BY <2>0, <3>2
    <3>6. ASSUME NEW x \in 1..g PROVE p[x] \in 1..(i - 1) /\ q[x] \in 1..(j - 1)
      <4>1. p[x] \in 1..i /\ q[x] \in 1..j /\ p[x] < p[h] /\ q[x] < q[h] BY <3>3, <3>5
      <4>2. p[x] \in 1..(i - 1) BY <4>1, <2>1, <3>4, BelowAnother
      <4>3. q[x] \in 1..(j - 1) BY <4>1, <2>1, <3>4, BelowAnother
      <4> QED BY <4>2, <4>3
    <3>7. Common(i - 1, j - 1, g, u, v)
      <4>1. u \in [1..g -> 1..(i - 1)] /\ v \in [1..g -> 1..(j - 1)] BY <3>6
      <4>2. \A x \in 1..g : u[x] = p[x] /\ v[x] = q[x] OBVIOUS
      <4>3. \A x, y \in 1..g : x < y => u[x] < u[y] /\ v[x] < v[y] BY <2>0, <3>2, <4>2
      <4>4. \A x \in 1..g : Same(a[u[x]], b[v[x]]) BY <2>0, <3>2, <4>2
      <4> HIDE DEF u, v, g
      <4> QED BY <4>1, <4>3, <4>4 DEF Common
    <3> HIDE DEF g, u, v
    <3>8. Bound(i - 1, j - 1)
      <4>1. (i - 1) + (j - 1) <= s BY <1>4, <2>1
      <4> HIDE DEF Bound
      <4> QED BY <4>1, <2>1, <1>4
    <3>9. g <= dp[i - 1][j - 1]
      <4> QED BY <3>1, <3>7, <3>8
    <3>10. dp[i][j] = dp[i - 1][j - 1] + 1
      <4>1. ~(i = 0 \/ j = 0) OBVIOUS
      <4> QED BY <4>1, <2>1, <2>4, <1>2
    <3> DEFINE x == dp[i][j]
               y == dp[i - 1][j - 1]
    <3>11. x = y + 1 /\ y \in Nat /\ g <= y BY <3>9, <3>10, <2>2
    <3> HIDE DEF x, y
    <3>12. h <= x BY <3>1, <3>11
    <3> QED BY <3>12 DEF x
  <2>5. ASSUME h > 0, ~Same(a[i], b[j]) PROVE h <= dp[i][j]
    <3>1. h \in 1..h /\ \A x \in 1..h : x <= h /\ (x < h \/ x = h) BY <2>5
    <3>2. p[h] \in 1..i /\ q[h] \in 1..j /\ ~(p[h] = i /\ q[h] = j)
      BY <2>0, <3>1, <2>5
    <3>3. dp[i][j] >= dp[i - 1][j] /\ dp[i][j] >= dp[i][j - 1]
      <4>1. dp[i][j] = Max({dp[i - 1][j], dp[i][j - 1]})
        <5>1. ~(i = 0 \/ j = 0) OBVIOUS
        <5> QED BY <5>1, <2>1, <2>5, <1>2
      <4>2. Max({dp[i - 1][j], dp[i][j - 1]}) =
              IF dp[i - 1][j] >= dp[i][j - 1] THEN dp[i - 1][j] ELSE dp[i][j - 1]
        BY <2>2, LargerIs
      <4> QED BY <4>1, <4>2, <2>2
    <3>4. \A x \in 1..h : p[x] \in 1..i /\ q[x] \in 1..j /\ p[x] <= p[h] /\ q[x] <= q[h]
      <4> TAKE x \in 1..h
      <4>1. p[x] \in 1..i /\ q[x] \in 1..j BY <2>0
      <4>2. CASE x < h
        <5>1. p[x] < p[h] /\ q[x] < q[h] BY <4>2, <3>1, <2>0
        <5> QED BY <5>1, <4>1, <3>2
      <4>3. CASE x = h BY <4>1, <4>3, <3>2
      <4> QED BY <4>1, <4>2, <4>3, <3>1
    <3>5. CASE p[h] # i
      <4>1. p[h] < i BY <3>2, <3>5, <2>1
      <4>2. \A x \in 1..h : p[x] \in 1..(i - 1) BY <4>1, <3>2, <3>4, <2>1
      <4>3. Common(i - 1, j, h, p, q) BY <4>2, <2>0 DEF Common
      <4>4. Bound(i - 1, j)
        <5>1. (i - 1) + j <= s BY <1>4, <2>1
        <5> HIDE DEF Bound
        <5> QED BY <5>1, <2>1, <1>4
      <4>5. h <= dp[i - 1][j]
        <5> QED BY <4>3, <4>4
      <4> DEFINE x == dp[i][j]
                 y == dp[i - 1][j]
      <4>6. x \in Nat /\ y \in Nat /\ h <= y /\ x >= y BY <4>5, <3>3, <2>2
      <4> HIDE DEF x, y
      <4>7. h <= x BY <4>6
      <4> QED BY <4>7 DEF x
    <3>6. CASE q[h] # j
      <4>1. q[h] < j BY <3>2, <3>6, <2>1
      <4>2. \A x \in 1..h : q[x] \in 1..(j - 1) BY <4>1, <3>2, <3>4, <2>1
      <4>3. Common(i, j - 1, h, p, q) BY <4>2, <2>0 DEF Common
      <4>4. Bound(i, j - 1)
        <5>1. i + (j - 1) <= s BY <1>4, <2>1
        <5> HIDE DEF Bound
        <5> QED BY <5>1, <2>1, <1>4
      <4>5. h <= dp[i][j - 1]
        <5> QED BY <4>3, <4>4
      <4> DEFINE x == dp[i][j]
                 y == dp[i][j - 1]
      <4>6. x \in Nat /\ y \in Nat /\ h <= y /\ x >= y BY <4>5, <3>3, <2>2
      <4> HIDE DEF x, y
      <4>7. h <= x BY <4>6
      <4> QED BY <4>7 DEF x
    <3> QED BY <3>2, <3>5, <3>6
  <2> QED BY <2>3, <2>4, <2>5
<1> HIDE DEF Bound
<1>5. 0 \in Good
  <2>1. ASSUME NEW i \in 0..m, NEW j \in 0..n, i + j <= 0 PROVE i = 0 \/ j = 0 BY <2>1
  <2> QED BY <2>1, <1>3
<1>6. ASSUME NEW s \in Nat, s \in Good PROVE s + 1 \in Good
  <2> SUFFICES ASSUME NEW i \in 0..m, NEW j \in 0..n, i + j <= s + 1 PROVE Bound(i, j)
    OBVIOUS
  <2>1. CASE i + j <= s BY <2>1, <1>6
  <2>2. CASE i = 0 \/ j = 0 BY <2>2, <1>3
  <2>3. CASE i + j = s + 1 /\ i # 0 /\ j # 0
    <3>1. i \in 1..m /\ j \in 1..n BY <2>3
    <3> QED BY <2>3, <3>1, <1>4, <1>6
  <2> QED BY <2>1, <2>2, <2>3, <1>1
<1> HIDE DEF Good
<1>7. Nat \subseteq Good BY <1>5, <1>6, NumberByNumber
<1>8. Bound(m, n)
  <2>1. m + n \in Good /\ m \in 0..m /\ n \in 0..n /\ m + n <= m + n BY <1>1, <1>7
  <2>2. \A i \in 0..m, j \in 0..n : i + j <= m + n => Bound(i, j) BY <2>1 DEF Good
  <2> QED BY <2>1, <2>2
<1>9. PICK p \in Picks(a, k), q \in Picks(b, k) : \A x \in 1..k : Same(a[p[x]], b[q[x]])
  BY DEF HaveCommon
<1>10. Common(m, n, k, p, q) BY <1>9 DEF Picks
<1> HIDE DEF Common
<1> QED BY <1>8, <1>10 DEF Bound, dp

\* No way to align them keeps more of the two listings.
THEOREM DiffsAreShortest == AsmSpec => []DiffIsShortest
<1>1. MapInvariant => DiffIsShortest
  <2> SUFFICES ASSUME MapInvariant, Len(listings) = 2,
                      HaveCommon(listings[1].instrs, listings[2].instrs, KeptIn(Diff) + 1)
               PROVE  FALSE
    BY DEF DiffIsShortest, KeptIn
  <2> DEFINE a == listings[1].instrs
             b == listings[2].instrs
             kept == LcsTable(a, b)[Len(a)][Len(b)]
  <2>1. a \in Seq(Lines) /\ b \in Seq(Lines) BY ParsedAreSequences
  <2>2. KeptIn(Diff) = kept BY <2>1, ChangesSay DEF Diff, DiffInstructions
  <2>3. kept \in Nat
    <3>1. Len(a) \in 0..Len(a) /\ Len(b) \in 0..Len(b) BY <2>1
    <3> HIDE DEF a, b
    <3> DEFINE dp == LcsTable(a, b)
    <3>2. dp \in [0..Len(a) -> [0..Len(b) -> Nat]] BY <2>1, TableIs
    <3> HIDE DEF dp
    <3>3. dp[Len(a)] \in [0..Len(b) -> Nat] BY <3>1, <3>2 DEF a, b
    <3>4. dp[Len(a)][Len(b)] \in Nat BY <3>1, <3>3
    <3> QED BY <3>4 DEF dp
  <2> HIDE DEF a, b
  <2>4. kept + 1 <= kept
    <3>1. HaveCommon(a, b, kept + 1) BY <2>2 DEF a, b
    <3>2. kept + 1 \in Nat BY <2>3
    <3> QED BY <2>1, <3>1, <3>2, TableIsLongest
  <2> HIDE DEF kept
  <2> QED BY <2>3, <2>4
<1> QED BY <1>1, MapInvariantHolds, PTL
===============================================================================
