--------------------------- MODULE RemarkTreeProofs ---------------------------
(***************************************************************************)
(* For any reports, any shadow compilations and any number of loads that   *)
(* overlap: the tree holds nothing the store does not, shows all of it     *)
(* once everything is answered, and never goes back while nothing fails.   *)
(*                                                                         *)
(* The argument has three parts.  The requests of the loads are in order   *)
(* and each load counts the answers it waits for, so that what it has      *)
(* gathered and what it waits for make up its list (TreeInv).  Whatever    *)
(* changes the store is followed by something on its way that will cause a *)
(* load, or by one that will show the change (Caught).  What a load will   *)
(* show of a remark is settled in the order of the loads: an older load    *)
(* never shows more of it than a newer one (Growing).                      *)
(***************************************************************************)
EXTENDS RemarkTree, FiniteSetTheorems, TLAPS

-----------------------------------------------------------------------------
(* The inductive invariant                                                 *)

\* The requests that are on their way, those that are answered among them.
On == Range(inbox) \cup Range(outbox)

\* What load n waits for: the files it has asked for, or None for their list.
Awaited(n)  == {m.arg : m \in {m \in On : m.load = n}}
Lists(n) == \E m \in On : m.what = "files" /\ m.load = n

\* Lists are asked for and answered in the order of the loads, and so are
\* remarks, none of them twice; a load whose list is to come has asked for no
\* remarks, and is newer than any that has.
Precedes(a, b) ==
  /\ a.what = "files" /\ b.what = "files" => a.load < b.load
  /\ a.what = "get" /\ b.what = "get" =>
       a.load <= b.load /\ (a.arg = b.arg => a.load # b.load)
  /\ a.what = "files" /\ b.what = "get" => b.load < a.load
  /\ a.what = "get" /\ b.what = "files" => a.load < b.load

Ordered(s) == \A i, j \in DOMAIN s : i < j => Precedes(s[i], s[j])

Queues ==
  /\ inbox \in Seq(Range(inbox)) /\ outbox \in Seq(Range(outbox))
  /\ Ordered(inbox) /\ Ordered(outbox)
  /\ \A a \in Range(outbox), b \in Range(inbox) : Precedes(a, b)

\* Whom a message is for.
Address(m) ==
  \/ m.what = "files" /\ m.load \in DOMAIN loads /\ m.arg = None
  \/ m.what = "get" /\ m.load \in DOMAIN loads /\ m.arg \in RemarkedFiles
  \/ m.what \in {"ingest", "recompile", "trace"} /\ m.load = 0 /\ m.arg \in Paths
  \/ m.what = "show" /\ m.load = 0

\* A load counts the answers that are to come.
Counted ==
  /\ \A m \in On : Address(m)
  /\ IsFiniteSet(DOMAIN loads) /\ DOMAIN loads \subseteq Nat \ {0}
  /\ \A n \in DOMAIN loads :
       /\ IsFiniteSet(Awaited(n)) /\ Awaited(n) # {}
       /\ loads[n] = [waiting |-> Cardinality(Awaited(n)), next |-> loads[n].next]
       /\ Lists(n) => loads[n].next = NoNodes

IsList(a)    == a.what = "files" /\ ~a.failed
IsRemarks(a) == a.what = "get" /\ ~a.failed

\* A list has remarked files.  Without a fault, a load asks for all that older
\* ones ask for.
Covering ==
  /\ \A a \in Range(outbox) : IsList(a) =>
       /\ IsFiniteSet(a.files) /\ a.files \subseteq RemarkedFiles
       /\ faults = 0 =>
            /\ \A m \in On : m.what = "get" => m.arg \in a.files
            /\ \A b \in Range(outbox) :
                 IsList(b) /\ a.load <= b.load => a.files \subseteq b.files
  /\ faults = 0 => \A m \in On, n \in DOMAIN loads :
       m.what = "get" /\ m.load < n => Lists(n) \/ m.arg \in Awaited(n)

\* The nodes hold remarks of the store, under their category and file.
Fits(nodes, store) ==
  /\ nodes = [k \in DOMAIN nodes |-> nodes[k]]
  /\ \A k \in DOMAIN nodes :
       /\ IsABag(nodes[k]) /\ DOMAIN nodes[k] # {}
       /\ \A r \in DOMAIN nodes[k] :
            /\ k = <<r.category, r.loc.file>> /\ r.loc.file # None
            /\ r \in DOMAIN store /\ nodes[k][r] <= store[r]

\* The remarks of one file were read from the store.
ReadFrom(remarks, file, store) ==
  /\ file # None /\ IsABag(remarks)
  /\ \A r \in DOMAIN remarks :
       r.loc.file = file /\ r \in DOMAIN store /\ remarks[r] <= store[r]

\* What has been read is in the store, and is added to a load once.
Contents ==
  /\ IsABag(rows) /\ IsFiniteSet(DOMAIN rows)
  /\ Fits(tree, rows)
  /\ \A n \in DOMAIN loads :
       /\ Fits(loads[n].next, rows)
       /\ \A k \in DOMAIN loads[n].next : k[2] \notin Awaited(n)
  /\ \A a \in Range(outbox) : IsRemarks(a) => ReadFrom(a.remarks, a.arg, rows)

Counters ==
  requests \in 0..MaxRequests /\ faults \in 0..MaxFaults /\ unseen \in BOOLEAN

TreeInv == Queues /\ Counted /\ Covering /\ Contents /\ Counters

-----------------------------------------------------------------------------
(* What is to come                                                         *)

CopiesOf(bag, r) == IF r \in DOMAIN bag THEN bag[r] ELSE 0

Node(nodes, k)   == IF k \in DOMAIN nodes THEN nodes[k] ELSE EmptyBag
Copies(nodes, r) == CopiesOf(Node(nodes, <<r.category, r.loc.file>>), r)

\* An answer that is on its way causes a refresh, or is a failure.
Pending ==
  \/ \E m \in On : m.what = "show"
  \/ \E a \in Range(outbox) : ~a.failed /\ a.what \in {"ingest", "recompile"}
Doomed ==
  \E a \in Range(outbox) :
    a.failed /\ (a.what = "files" \/ (a.what = "get" /\ a.arg # None))

\* Load n will show what is in the store now.
Current(n) ==
  /\ n \in DOMAIN loads /\ \A m \in DOMAIN loads : m <= n
  /\ \A a \in Range(outbox) : a.load = n =>
       /\ IsList(a) => a.files = RemarkedFiles
       /\ IsRemarks(a) => a.remarks = RowsOf(a.arg)
  /\ ~Lists(n) =>
       \A r \in DOMAIN rows : r.loc.file # None =>
         Copies(loads[n].next, r) = IF r.loc.file \in Awaited(n) THEN 0 ELSE rows[r]

Shown == DOMAIN loads = {} /\ tree = Grouped

\* What is in the store is in the tree, or something on its way will show it.
Caught == unseen \/ Pending \/ Doomed \/ Shown \/ \E n \in DOMAIN loads : Current(n)

\* How often load n will show r, as far as that is settled: the store's count
\* until the remarks of its file are read.
ListOf(n)       == CHOOSE a \in Range(outbox) : a.what = "files" /\ a.load = n
RemarksOf(n, f) == CHOOSE a \in Range(outbox) : a.what = "get" /\ a.load = n /\ a.arg = f

Shows(n, r) ==
  IF \E a \in Range(outbox) : a.what = "files" /\ a.load = n
    THEN IF r.loc.file \in ListOf(n).files THEN CopiesOf(rows, r) ELSE 0
  ELSE IF \E a \in Range(outbox) : a.what = "get" /\ a.load = n /\ a.arg = r.loc.file
    THEN CopiesOf(RemarksOf(n, r.loc.file).remarks, r)
  ELSE IF \E m \in Range(inbox) : m.load = n /\ (m.what = "files" \/ m.arg = r.loc.file)
    THEN CopiesOf(rows, r)
  ELSE Copies(loads[n].next, r)

\* Shows by what is on its way: the list, the remarks of the file, a request
\* for either, or none of them and what the load has gathered.
AsRead ==
  \A n \in DOMAIN loads : \A r : r.loc.file # None =>
    /\ \A a \in Range(outbox) : a.load = n =>
         /\ a.what = "files" =>
              Shows(n, r) = IF r.loc.file \in a.files THEN CopiesOf(rows, r) ELSE 0
         /\ a.what = "get" /\ a.arg = r.loc.file => Shows(n, r) = CopiesOf(a.remarks, r)
    /\ \A m \in Range(inbox) : m.load = n /\ (m.what = "files" \/ m.arg = r.loc.file) =>
         Shows(n, r) = CopiesOf(rows, r)
    /\ ~Lists(n) /\ r.loc.file \notin Awaited(n) => Shows(n, r) = Copies(loads[n].next, r)

\* One of the four is the case for each load and remark.
Ways ==
  \A n \in DOMAIN loads : \A r : r.loc.file # None =>
    \/ \E a \in Range(outbox) :
         a.load = n /\ (a.what = "files" \/ (a.what = "get" /\ a.arg = r.loc.file))
    \/ \E m \in Range(inbox) : m.load = n /\ (m.what = "files" \/ m.arg = r.loc.file)
    \/ ~Lists(n) /\ r.loc.file \notin Awaited(n)

\* Without a failure, no load will show less than an older one, or the tree.
Growing ==
  faults = 0 =>
    /\ ~Doomed
    /\ \A r : r.loc.file # None =>
         /\ \A n \in DOMAIN loads :
              /\ Shows(n, r) \in Nat
              /\ Copies(tree, r) <= Shows(n, r) /\ Shows(n, r) <= CopiesOf(rows, r)
         /\ \A m, n \in DOMAIN loads : m < n => Shows(m, r) <= Shows(n, r)

-----------------------------------------------------------------------------
(* Sets and sequences                                                      *)

\* A finite set of numbers that is not empty has a greatest: of what is above
\* its elements, something is least.
LEMMA Greatest ==
  ASSUME NEW S \in SUBSET Nat, IsFiniteSet(S), S # {}
  PROVE  Max(S) \in S /\ \A n \in S : n <= Max(S)
<1> DEFINE Above(n) == {m \in S : m > n}
           parts == {Above(n) : n \in S}
<1>1. parts \subseteq FiniteSubsetsOf(S)
  <2>1. \A n \in S : IsFiniteSet(Above(n)) /\ Above(n) \in SUBSET S BY FS_Subset
  <2> QED BY <2>1 DEF FiniteSubsetsOf
<1>2. \E least \in parts : \A other \in parts : <<other, least>> \notin StrictSubsetOrdering(S)
  <2>1. IsWellFoundedOn(StrictSubsetOrdering(S), FiniteSubsetsOf(S))
    BY FS_StrictSubsetOrderingWellFounded
  <2>2. parts # {} OBVIOUS
  <2> HIDE DEF parts
  <2> QED BY <1>1, <2>1, <2>2, WFMin
<1>3. PICK n \in S : \A m \in S : <<Above(m), Above(n)>> \notin StrictSubsetOrdering(S)
  BY <1>2
<1>4. ASSUME NEW m \in S, m > n PROVE FALSE
  <2>0. \A k \in S : k \in Nat OBVIOUS
  <2>1. \A k \in S : k > m => k > n BY <1>4, <2>0
  <2>2. ~(m > m) BY <2>0
  <2>3. Above(m) \subseteq Above(n) /\ m \in Above(n) /\ m \notin Above(m)
    BY <1>4, <2>1, <2>2
  <2>4. Above(m) \in SUBSET S /\ Above(n) \in SUBSET S OBVIOUS
  <2>5. <<Above(m), Above(n)>> \in StrictSubsetOrdering(S)
    BY <2>3, <2>4 DEF StrictSubsetOrdering
  <2> QED BY <1>3, <2>5
<1>5. \E x \in S : \A y \in S : x >= y BY <1>4
<1> QED BY <1>5 DEF Max

\* A finite set as a sequence.
LEMMA AsSequence ==
  ASSUME NEW S, IsFiniteSet(S)
  PROVE  /\ SetToSeq(S) \in Seq(Range(SetToSeq(S))) /\ Range(SetToSeq(S)) = S
         /\ \A i, j \in DOMAIN SetToSeq(S) : i # j => SetToSeq(S)[i] # SetToSeq(S)[j]
<1>1. PICK n \in Nat : ExistsBijection(1..n, S) BY FS_NatBijection
<1>2. Cardinality(S) = n BY <1>1, FS_CountingElements
<1>3. \E f \in [1..Cardinality(S) -> S] : IsInjective(f)
  BY <1>1, <1>2 DEF ExistsBijection, Bijection, Injection, IsInjective
<1>4. SetToSeq(S) \in [1..Cardinality(S) -> S] /\ IsInjective(SetToSeq(S))
  BY <1>3 DEF SetToSeq
<1> DEFINE s == SetToSeq(S)
<1>5. s \in Injection(1..n, S)
  BY <1>2, <1>4 DEF Injection, IsInjective
<1>6. IsFiniteSet(1..n) /\ Cardinality(1..n) = n BY FS_Interval
<1>7. s \in Surjection(1..n, S) BY <1>2, <1>5, <1>6, FS_Injection
<1>8. Range(s) = S BY <1>7 DEF Surjection, Range
<1>9. s \in Seq(Range(s)) BY <1>2, <1>4, <1>8
<1> QED BY <1>4, <1>8, <1>9 DEF IsInjective

\* The head of a queue precedes what is behind it.
LEMMA HeadAndTail ==
  ASSUME NEW s, s \in Seq(Range(s)), s # <<>>
  PROVE  /\ Tail(s) \in Seq(Range(Tail(s)))
         /\ Range(s) = {Head(s)} \cup Range(Tail(s))
         /\ Ordered(s) => Ordered(Tail(s)) /\ \A m \in Range(Tail(s)) : Precedes(Head(s), m)
<1> DEFINE t == Tail(s)
<1>1. Len(s) \in Nat /\ Len(s) > 0 /\ DOMAIN s = 1..Len(s) OBVIOUS
<1>2. /\ Len(t) = Len(s) - 1 /\ DOMAIN t = 1..(Len(s) - 1)
      /\ \A i \in 1..(Len(s) - 1) : t[i] = s[i + 1]
      /\ Head(s) = s[1] /\ t \in Seq(Range(s))
  BY <1>1
<1> HIDE DEF t
<1>3. t \in Seq(Range(t))
  <2>1. \A i \in 1..Len(t) : t[i] \in Range(t) BY <1>1, <1>2 DEF Range
  <2> QED BY <1>1, <1>2, <2>1
<1>4. Range(s) = {Head(s)} \cup Range(t)
  <2>1. ASSUME NEW i \in 1..Len(s) PROVE s[i] = Head(s) \/ s[i] \in Range(t)
    <3>1. CASE i = 1 BY <1>2, <3>1
    <3>2. CASE i # 1
      <4> DEFINE j == i - 1
      <4>1. j \in 1..(Len(s) - 1) /\ j + 1 = i BY <1>1, <3>2
      <4> HIDE DEF j
      <4> QED BY <1>2, <4>1 DEF Range
    <3> QED BY <3>1, <3>2
  <2>2. \A i \in 1..(Len(s) - 1) : i + 1 \in DOMAIN s BY <1>1
  <2>3. Range(t) \subseteq Range(s) BY <1>2, <2>2 DEF Range
  <2>4. Head(s) \in Range(s) BY <1>1, <1>2 DEF Range
  <2> QED BY <1>1, <2>1, <2>3, <2>4 DEF Range
<1>5. ASSUME Ordered(s) PROVE Ordered(t) /\ \A m \in Range(t) : Precedes(Head(s), m)
  <2>1. ASSUME NEW i \in 1..(Len(s) - 1), NEW j \in 1..(Len(s) - 1), i < j
        PROVE  Precedes(t[i], t[j])
    <3>1. i + 1 \in DOMAIN s /\ j + 1 \in DOMAIN s /\ i + 1 < j + 1 BY <1>1, <2>1
    <3> QED BY <1>2, <1>5, <3>1 DEF Ordered
  <2>2. ASSUME NEW i \in 1..(Len(s) - 1) PROVE Precedes(Head(s), t[i])
    <3>1. 1 \in DOMAIN s /\ i + 1 \in DOMAIN s /\ 1 < i + 1 BY <1>1
    <3> QED BY <1>2, <1>5, <3>1 DEF Ordered
  <2> QED BY <1>2, <2>1, <2>2 DEF Ordered, Range
<1> QED BY <1>3, <1>4, <1>5 DEF t

\* What is put behind a queue comes after all that is in it.
LEMMA Joined ==
  ASSUME NEW s, s \in Seq(Range(s)), NEW t, t \in Seq(Range(t))
  PROVE  /\ s \o t \in Seq(Range(s \o t)) /\ Range(s \o t) = Range(s) \cup Range(t)
         /\ /\ Ordered(s) /\ Ordered(t)
            /\ \A a \in Range(s), b \in Range(t) : Precedes(a, b)
            => Ordered(s \o t)
<1> DEFINE u == s \o t
           k == Len(s)
           l == Len(t)
<1>1. k \in Nat /\ l \in Nat /\ DOMAIN s = 1..k /\ DOMAIN t = 1..l OBVIOUS
<1>2. /\ u \in Seq(Range(s) \cup Range(t)) /\ Len(u) = k + l /\ DOMAIN u = 1..(k + l)
      /\ \A i \in 1..(k + l) : u[i] = IF i <= k THEN s[i] ELSE t[i - k]
  OBVIOUS
<1> HIDE DEF u, k, l
<1>3. \A i \in 1..k : i \in DOMAIN u /\ u[i] = s[i] BY <1>1, <1>2
<1>4. ASSUME NEW i \in 1..l PROVE k + i \in DOMAIN u /\ u[k + i] = t[i]
  <2>1. k + i \in 1..(k + l) /\ ~(k + i <= k) /\ (k + i) - k = i BY <1>1
  <2> QED BY <1>2, <2>1
<1>5. ASSUME NEW i \in DOMAIN u
      PROVE  i \in 1..k \/ \E j \in 1..l : i = k + j
  <2>1. CASE i > k
    <3>1. i - k \in 1..l /\ i = k + (i - k) BY <1>1, <1>2, <2>1
    <3> QED BY <3>1
  <2> QED BY <1>1, <1>2, <2>1
<1>6. Range(u) = Range(s) \cup Range(t)
  <2>1. \A i \in DOMAIN s : s[i] \in Range(u) BY <1>1, <1>3 DEF Range
  <2>2. \A i \in DOMAIN t : t[i] \in Range(u) BY <1>1, <1>4 DEF Range
  <2>3. \A i \in DOMAIN u : u[i] \in Range(s) \/ u[i] \in Range(t)
    <3>1. \A i \in 1..k : u[i] \in Range(s) BY <1>1, <1>3 DEF Range
    <3>2. \A i \in 1..l : u[k + i] \in Range(t) BY <1>1, <1>4 DEF Range
    <3> QED BY <1>5, <3>1, <3>2
  <2> QED BY <2>1, <2>2, <2>3 DEF Range
<1>7. ASSUME Ordered(s), Ordered(t), \A a \in Range(s), b \in Range(t) : Precedes(a, b),
             NEW i \in DOMAIN u, NEW j \in DOMAIN u, i < j
      PROVE  Precedes(u[i], u[j])
  <2>1. CASE i \in 1..k /\ j \in 1..k BY <1>1, <1>3, <1>7, <2>1 DEF Ordered
  <2>2. CASE i \in 1..k /\ \E n \in 1..l : j = k + n
    BY <1>1, <1>3, <1>4, <1>7, <2>2 DEF Range
  <2>3. ASSUME NEW m \in 1..l, i = k + m PROVE Precedes(u[i], u[j])
    <3>1. j \notin 1..k BY <1>1, <1>7, <2>3
    <3>2. PICK n \in 1..l : j = k + n BY <1>5, <3>1
    <3>3. m < n BY <1>1, <1>7, <2>3, <3>2
    <3> QED BY <1>1, <1>4, <1>7, <2>3, <3>2, <3>3 DEF Ordered
  <2> QED BY <1>5, <2>1, <2>2, <2>3
<1>8. u \in Seq(Range(u)) BY <1>2, <1>6
<1> QED BY <1>6, <1>7, <1>8 DEF u, Ordered

LEMMA Appended ==
  ASSUME NEW s, s \in Seq(Range(s)), NEW e
  PROVE  /\ Append(s, e) \in Seq(Range(Append(s, e)))
         /\ Range(Append(s, e)) = Range(s) \cup {e}
         /\ Ordered(s) /\ (\A m \in Range(s) : Precedes(m, e)) => Ordered(Append(s, e))
<1> DEFINE u == Append(s, e)
           k == Len(s)
<1>1. k \in Nat /\ DOMAIN s = 1..k OBVIOUS
<1>2. /\ u \in Seq(Range(s) \cup {e}) /\ DOMAIN u = 1..(k + 1)
      /\ (\A i \in 1..k : u[i] = s[i]) /\ u[k + 1] = e
  OBVIOUS
<1> HIDE DEF u, k
<1>3. \A i \in 1..(k + 1) : i \in 1..k \/ i = k + 1 BY <1>1
<1>4. Range(u) = Range(s) \cup {e}
  <2>1. \A i \in 1..k : i \in DOMAIN u BY <1>1, <1>2
  <2>2. k + 1 \in DOMAIN u BY <1>1, <1>2
  <2> QED BY <1>1, <1>2, <1>3, <2>1, <2>2 DEF Range
<1>5. ASSUME Ordered(s), \A m \in Range(s) : Precedes(m, e),
             NEW i \in 1..(k + 1), NEW j \in 1..(k + 1), i < j
      PROVE  Precedes(u[i], u[j])
  <2>1. i \in 1..k BY <1>1, <1>5
  <2>2. CASE j = k + 1 BY <1>1, <1>2, <1>5, <2>1, <2>2 DEF Range
  <2>3. CASE j \in 1..k BY <1>1, <1>2, <1>5, <2>1, <2>3 DEF Ordered
  <2> QED BY <1>3, <2>2, <2>3
<1>6. u \in Seq(Range(u)) BY <1>2, <1>4
<1> QED BY <1>2, <1>4, <1>5, <1>6 DEF u, Ordered

-----------------------------------------------------------------------------
(* The queues                                                              *)

\* The sidecar answers the first request, and what waits for it goes on to.
LEMMA AnswerSent ==
  ASSUME Queues, inbox # <<>>, NEW failed, NEW files, NEW remarks,
         Answer(failed, files, remarks)
  PROVE  LET h == Head(inbox)
             a == [what |-> h.what, load |-> h.load, arg |-> h.arg,
                   failed |-> failed, files |-> files, remarks |-> remarks]
         IN  /\ Queues'
             /\ Range(inbox) = {h} \cup Range(inbox')
             /\ Range(outbox') = Range(outbox) \cup {a}
             /\ \A m \in Range(inbox') : Precedes(h, m)
             /\ \A b \in Range(outbox) : Precedes(b, h)
             /\ \A n : Awaited(n)' = Awaited(n) /\ Lists(n)' = Lists(n)
<1> DEFINE h == Head(inbox)
           a == [what |-> h.what, load |-> h.load, arg |-> h.arg,
                 failed |-> failed, files |-> files, remarks |-> remarks]
<1>1. inbox' = Tail(inbox) /\ outbox' = Append(outbox, a) BY DEF Answer
<1>2. a.what = h.what /\ a.load = h.load /\ a.arg = h.arg OBVIOUS
<1> HIDE DEF a
<1>3. /\ inbox' \in Seq(Range(inbox')) /\ Range(inbox) = {h} \cup Range(inbox')
      /\ Ordered(inbox') /\ \A m \in Range(inbox') : Precedes(h, m)
  BY <1>1, HeadAndTail DEF Queues
<1>4. \A b \in Range(outbox) : Precedes(b, h) BY <1>3 DEF Queues
<1>5. /\ \A m \in Range(inbox') : Precedes(a, m)
      /\ \A b \in Range(outbox) : Precedes(b, a)
  BY <1>2, <1>3, <1>4 DEF Precedes
<1>6. /\ outbox' \in Seq(Range(outbox')) /\ Range(outbox') = Range(outbox) \cup {a}
      /\ Ordered(outbox')
  BY <1>1, <1>5, Appended DEF Queues
<1>7. ASSUME NEW b \in Range(outbox'), NEW m \in Range(inbox') PROVE Precedes(b, m)
  <2>1. CASE b = a BY <1>5, <2>1
  <2>2. CASE b \in Range(outbox) /\ m \in Range(inbox) BY <2>2 DEF Queues
  <2> QED BY <1>3, <1>6, <2>1, <2>2
<1>8. Queues' BY <1>3, <1>6, <1>7 DEF Queues, Ordered
<1>9. ASSUME NEW n PROVE Awaited(n)' = Awaited(n) /\ Lists(n)' = Lists(n)
  <2>1. /\ \A m \in On : m \in On' \/ (m = h /\ a \in On')
        /\ \A m \in On' : m \in On \/ (m = a /\ h \in On)
    BY <1>3, <1>6 DEF On
  <2>2. Awaited(n)' = {m.arg : m \in {m \in On' : m.load = n}} BY DEF Awaited
  <2>3. Awaited(n)' = Awaited(n) BY <1>2, <2>1, <2>2 DEF Awaited
  <2>4. Lists(n)' = Lists(n) BY <1>2, <2>1 DEF Lists
  <2> QED BY <2>3, <2>4
<1> QED BY <1>3, <1>4, <1>6, <1>8, <1>9 DEF a

\* The extension takes the first answer; nothing is put into the other queue.
LEMMA AnswerTaken ==
  ASSUME Queues, outbox # <<>>
  PROVE  /\ Tail(outbox) \in Seq(Range(Tail(outbox))) /\ Ordered(Tail(outbox))
         /\ Head(outbox) \in Range(outbox)
         /\ Range(outbox) = {Head(outbox)} \cup Range(Tail(outbox))
         /\ \A m \in Range(inbox) \cup Range(Tail(outbox)) : Precedes(Head(outbox), m)
<1>1. Head(outbox) \in Range(outbox) BY HeadAndTail DEF Queues
<1> QED BY <1>1, HeadAndTail DEF Queues

\* A queue is left alone, or one request is put at its end.
LEMMA OneMore ==
  ASSUME Queues, NEW m, inbox' = Append(inbox, m),
         \/ outbox' = outbox
         \/ outbox # <<>> /\ outbox' = Tail(outbox),
         \A b \in Range(inbox) \cup Range(outbox') : Precedes(b, m)
  PROVE  Queues' /\ Range(inbox') = Range(inbox) \cup {m}
<1>1. /\ inbox' \in Seq(Range(inbox')) /\ Range(inbox') = Range(inbox) \cup {m}
      /\ Ordered(inbox')
  BY Appended DEF Queues
<1>2. /\ outbox' \in Seq(Range(outbox')) /\ Ordered(outbox')
      /\ Range(outbox') \subseteq Range(outbox)
  BY AnswerTaken DEF Queues
<1>3. \A a \in Range(outbox'), b \in Range(inbox') : Precedes(a, b)
  BY <1>1, <1>2 DEF Queues
<1> QED BY <1>1, <1>2, <1>3 DEF Queues, Ordered

LEMMA NoneMore ==
  ASSUME Queues, outbox # <<>>, inbox' = inbox, outbox' = Tail(outbox)
  PROVE  Queues'
<1>1. /\ outbox' \in Seq(Range(outbox')) /\ Ordered(outbox')
      /\ Range(outbox') \subseteq Range(outbox)
  BY AnswerTaken
<1> QED BY <1>1 DEF Queues, Ordered

-----------------------------------------------------------------------------
(* The store                                                               *)

Grown == /\ IsABag(rows') /\ IsFiniteSet(DOMAIN rows')
         /\ \A r \in DOMAIN rows : r \in DOMAIN rows' /\ rows[r] <= rows'[r]

LEMMA ImageIsFinite ==
  ASSUME NEW f, IsFiniteSet(DOMAIN f)
  PROVE  IsFiniteSet(Range(f))
<1> DEFINE g == [x \in DOMAIN f |-> f[x]]
<1>1. g \in Surjection(DOMAIN f, Range(f)) BY DEF Surjection, Range
<1> QED BY <1>1, FS_Surjection

LEMMA BagOfTypes ==
  ASSUME NEW remarks, IsFiniteSet(DOMAIN remarks)
  PROVE  IsABag(BagOf(remarks)) /\ IsFiniteSet(DOMAIN BagOf(remarks))
<1>1. DOMAIN BagOf(remarks) = Range(remarks) BY DEF BagOf
<1>2. ASSUME NEW r \in Range(remarks)
      PROVE  BagOf(remarks)[r] \in Nat /\ BagOf(remarks)[r] > 0
  <2> DEFINE S == {i \in DOMAIN remarks : remarks[i] = r}
  <2>1. BagOf(remarks)[r] = Cardinality(S) BY DEF BagOf
  <2>2. IsFiniteSet(S) BY FS_Subset
  <2>3. S # {} BY DEF Range
  <2> HIDE DEF S
  <2>4. Cardinality(S) \in Nat /\ Cardinality(S) # 0
    BY <2>2, <2>3, FS_CardinalityType, FS_EmptySet
  <2> QED BY <2>1, <2>4
<1>3. BagOf(remarks) = [r \in Range(remarks) |-> BagOf(remarks)[r]] BY DEF BagOf
<1>4. IsABag(BagOf(remarks)) BY <1>1, <1>2, <1>3 DEF IsABag
<1> QED BY <1>1, <1>4, ImageIsFinite

\* What an element of a bag counts.
LEMMA BagTypes ==
  ASSUME NEW b, IsABag(b)
  PROVE  /\ \A r \in DOMAIN b : b[r] \in Nat /\ b[r] > 0
         /\ \A r : CopiesOf(b, r) \in Nat /\ (r \in DOMAIN b <=> CopiesOf(b, r) > 0)
         /\ b = [r \in DOMAIN b |-> b[r]]
<1>1. b \in [DOMAIN b -> {n \in Nat : n > 0}] BY DEF IsABag
<1>2. \A r \in DOMAIN b : b[r] \in Nat /\ b[r] > 0 BY <1>1
<1> QED BY <1>1, <1>2 DEF CopiesOf

\* The copies add up.
LEMMA BagSum ==
  ASSUME NEW b, NEW c, IsABag(b), IsABag(c)
  PROVE  /\ IsABag(b (+) c) /\ DOMAIN (b (+) c) = DOMAIN b \cup DOMAIN c
         /\ \A r : CopiesOf(b (+) c, r) = CopiesOf(b, r) + CopiesOf(c, r)
<1> DEFINE s == b (+) c
<1>1. s = [r \in DOMAIN b \cup DOMAIN c |->
             (IF r \in DOMAIN b THEN b[r] ELSE 0) + (IF r \in DOMAIN c THEN c[r] ELSE 0)]
  BY DEF (+)
<1>2. /\ \A r \in DOMAIN b : b[r] \in Nat /\ b[r] > 0
      /\ \A r \in DOMAIN c : c[r] \in Nat /\ c[r] > 0
  BY BagTypes
<1>3. DOMAIN s = DOMAIN b \cup DOMAIN c BY <1>1
<1>4. \A r \in DOMAIN s : s[r] = CopiesOf(b, r) + CopiesOf(c, r) BY <1>1 DEF CopiesOf
<1>5. \A r \in DOMAIN s : s[r] \in Nat /\ s[r] > 0 BY <1>2, <1>3, <1>4 DEF CopiesOf
<1>6. s = [r \in DOMAIN s |-> s[r]] BY <1>1
<1> HIDE DEF s
<1>7. IsABag(s) BY <1>5, <1>6 DEF IsABag
<1>8. \A r : CopiesOf(s, r) = CopiesOf(b, r) + CopiesOf(c, r)
  <2> SUFFICES ASSUME NEW r PROVE CopiesOf(s, r) = CopiesOf(b, r) + CopiesOf(c, r) OBVIOUS
  <2>1. CASE r \in DOMAIN s BY <1>4, <2>1 DEF CopiesOf
  <2>2. CASE r \notin DOMAIN s BY <1>3, <2>2 DEF CopiesOf
  <2> QED BY <2>1, <2>2
<1> QED BY <1>3, <1>7, <1>8 DEF s

\* An insertion takes nothing away.
LEMMA RowsGrow ==
  ASSUME IsABag(rows), IsFiniteSet(DOMAIN rows), NEW remarks, IsFiniteSet(DOMAIN remarks),
         InsertBulk(remarks)
  PROVE  Grown /\ (faults' = faults \/ Fault)
<1>1. PICK more : /\ IsFiniteSet(DOMAIN more) /\ rows' = rows (+) BagOf(more)
                  /\ faults' = faults \/ Fault
  <2>1. CASE rows' = rows (+) BagOf(remarks) /\ UNCHANGED faults BY <2>1
  <2>2. CASE Fault /\ \E kept \in (SUBSET DOMAIN remarks) \ {DOMAIN remarks} :
                rows' = rows (+) BagOf(Restrict(remarks, kept))
    <3>1. PICK kept \in SUBSET DOMAIN remarks : rows' = rows (+) BagOf(Restrict(remarks, kept))
      BY <2>2
    <3> DEFINE more == Restrict(remarks, kept)
    <3>2. DOMAIN more = kept BY DEF Restrict
    <3>3. IsFiniteSet(DOMAIN more) BY <3>2, FS_Subset
    <3> QED BY <2>2, <3>1, <3>3
  <2> QED BY <2>1, <2>2 DEF InsertBulk
<1> DEFINE b == BagOf(more)
<1>2. IsABag(b) /\ IsFiniteSet(DOMAIN b) BY <1>1, BagOfTypes
<1> HIDE DEF b
<1>3. rows' = rows (+) b BY <1>1 DEF b
<1>4. /\ IsABag(rows') /\ DOMAIN rows' = DOMAIN rows \cup DOMAIN b
      /\ \A r : CopiesOf(rows', r) = CopiesOf(rows, r) + CopiesOf(b, r)
  BY <1>2, <1>3, BagSum
<1>5. IsFiniteSet(DOMAIN rows') BY <1>2, <1>4, FS_Union
<1>6. ASSUME NEW r \in DOMAIN rows PROVE r \in DOMAIN rows' /\ rows[r] <= rows'[r]
  <2>1. r \in DOMAIN rows' BY <1>4
  <2>2. CopiesOf(rows', r) = rows'[r] /\ CopiesOf(rows, r) = rows[r] BY <2>1 DEF CopiesOf
  <2>3. CopiesOf(b, r) \in Nat /\ rows[r] \in Nat BY <1>2, BagTypes
  <2> QED BY <1>4, <2>1, <2>2, <2>3
<1> QED BY <1>1, <1>4, <1>5, <1>6 DEF Grown

\* A report is finite, and so are its remarks.
LEMMA ParsedIsFinite ==
  ASSUME NEW path \in Paths, NEW build \in {"manual", "shadow"}
  PROVE  IsFiniteSet(DOMAIN Parsed[path][build])
<1>1. IsFiniteSet(DOMAIN Reports[path].items) BY TreeAssumption DEF Paths
<1>2. \A S : S \subseteq DOMAIN Reports[path].items => IsFiniteSet(S)
  BY <1>1, FS_Subset
<1>3. IsFiniteSet(DOMAIN ParseClangYaml(Reports[path], build))
  <2>1. DOMAIN ParseClangYaml(Reports[path], build) \subseteq DOMAIN Reports[path].items
    BY DEF ParseClangYaml
  <2> QED BY <1>2, <2>1
<1>4. IsFiniteSet(DOMAIN ParseGccOptInfo(Reports[path], build))
  <2>1. DOMAIN ParseGccOptInfo(Reports[path], build) \subseteq DOMAIN Reports[path].items
    BY DEF ParseGccOptInfo
  <2> QED BY <1>2, <2>1
<1>5. Parsed[path][build] = IF Reports[path].kind = "yaml"
                              THEN ParseClangYaml(Reports[path], build)
                              ELSE ParseGccOptInfo(Reports[path], build)
  BY DEF Parsed
<1> QED BY <1>3, <1>4, <1>5

LEMMA SameRows ==
  ASSUME IsABag(rows), IsFiniteSet(DOMAIN rows), rows' = rows
  PROVE  Grown
<1>1. \A r \in DOMAIN rows : rows[r] \in Nat BY BagTypes
<1> QED BY <1>1 DEF Grown

LEMMA FilesGrow ==
  ASSUME Grown
  PROVE  RemarkedFiles \subseteq RemarkedFiles'
<1>1. RemarkedFiles' = {r.loc.file : r \in DOMAIN rows'} BY DEF RemarkedFiles, BagToSet
<1> QED BY <1>1 DEF Grown, RemarkedFiles, BagToSet

LEMMA FilesAreFinite ==
  ASSUME IsFiniteSet(DOMAIN rows)
  PROVE  IsFiniteSet(RemarkedFiles)
<1> DEFINE f == [r \in DOMAIN rows |-> r.loc.file]
<1>1. RemarkedFiles = Range(f) BY DEF RemarkedFiles, BagToSet, Range
<1>2. IsFiniteSet(DOMAIN f) OBVIOUS
<1> HIDE DEF f
<1> QED BY <1>1, <1>2, ImageIsFinite

-----------------------------------------------------------------------------
(* What the sidecar does                                                   *)

\* A query has ended at a failing step.
CutShort == Fault /\ unseen' = TRUE

\* It answers its first request, and the store grows or is read.
Served(failed, files, remarks) ==
  LET h == Head(inbox) IN
  /\ inbox # <<>> /\ Answer(failed, files, remarks)
  /\ UNCHANGED extension
  /\ Grown /\ (faults' = faults \/ Fault)
  /\ \/ UNCHANGED <<rows, unseen>>
     \/ h.what = "trace" /\ unseen' = TRUE
     \/ h.what \in {"files", "get"} /\ Fault /\ unseen' = TRUE /\ UNCHANGED rows
     \/ h.what \in {"ingest", "recompile"} /\ ~failed /\ UNCHANGED unseen
  /\ h.what = "files" =>
       IF failed THEN Fault
       ELSE files = RemarkedFiles \/ (CutShort /\ files \subseteq RemarkedFiles)
  /\ h.what = "get" =>
       IF failed THEN h.arg = None \/ Fault
       ELSE /\ h.arg # None
            /\ remarks = RowsOf(h.arg) \/ (CutShort /\ ReadFrom(remarks, h.arg, rows))

LEMMA FailureServes ==
  ASSUME IsABag(rows), IsFiniteSet(DOMAIN rows), inbox # <<>>, UNCHANGED extension,
         Head(inbox).what \in {"ingest", "recompile", "trace"},
         NEW remarks, InsertFails(remarks)
  PROVE  \E failed \in BOOLEAN : \E files, more : Served(failed, files, more)
<1>1. Fault /\ Answer(TRUE, {}, EmptyBag) /\ UNCHANGED <<rows, unseen>>
  BY DEF InsertFails, Error
<1>2. Served(TRUE, {}, EmptyBag) BY <1>1, SameRows DEF Served
<1> QED BY <1>2

\* What has been read of a file's rows when a step fails.
LEMMA BeginningIsRead ==
  ASSUME IsABag(rows), NEW f, f # None, NEW part \in RowsReadSoFar(f)
  PROVE  ReadFrom(part, f, rows)
<1> DEFINE S == {r \in DOMAIN rows : r.loc.file = f}
<1>1. RowsOf(f) = [r \in S |-> rows[r]] BY DEF RowsOf
<1>2. PICK D \in SUBSET S : /\ part \in [D -> UNION {1..RowsOf(f)[r] : r \in D}]
                           /\ \A r \in D : part[r] <= RowsOf(f)[r]
  BY <1>1 DEF RowsReadSoFar
<1>3. \A r \in S : RowsOf(f)[r] = rows[r] /\ rows[r] \in Nat BY <1>1, BagTypes
<1>4. \A r \in D : part[r] \in Nat /\ part[r] > 0 /\ part[r] <= rows[r] BY <1>2, <1>3
<1>5. part \in [D -> {n \in Nat : n > 0}] BY <1>2, <1>4
<1> QED BY <1>2, <1>4, <1>5 DEF ReadFrom, IsABag

LEMMA SidecarServes ==
  ASSUME TreeInv, Sidecar
  PROVE  \E failed \in BOOLEAN : \E files, remarks : Served(failed, files, remarks)
<1>0. IsABag(rows) /\ IsFiniteSet(DOMAIN rows) BY DEF TreeInv, Contents
<1> DEFINE h == Head(inbox)
<1>1. ASSUME inbox # <<>>, h.what \in {"ingest", "recompile", "trace"} PROVE h.arg \in Paths
  <2>1. h \in Range(inbox) BY <1>1, HeadAndTail DEF TreeInv, Queues
  <2>2. Address(h) BY <2>1 DEF TreeInv, Counted, On
  <2> QED BY <1>1, <2>2 DEF Address
<1>2. CASE IngestRemarksFile
  <2>1. inbox # <<>> /\ h.what = "ingest" /\ UNCHANGED <<extension, unseen>>
    BY <1>2 DEF IngestRemarksFile, Handles
  <2>2. \/ Error /\ UNCHANGED <<rows, faults>>
        \/ InsertBulk(Parsed[h.arg]["manual"]) /\ Reply
        \/ InsertFails(Parsed[h.arg]["manual"])
    BY <1>2 DEF IngestRemarksFile
  <2>3. CASE Error /\ UNCHANGED <<rows, faults>>
    <3>1. Answer(TRUE, {}, EmptyBag) BY <2>3 DEF Error
    <3>2. Served(TRUE, {}, EmptyBag) BY <1>0, <2>1, <2>3, <3>1, SameRows DEF Served
    <3> QED BY <3>2
  <2>4. CASE InsertBulk(Parsed[h.arg]["manual"]) /\ Reply
    <3>1. IsFiniteSet(DOMAIN Parsed[h.arg]["manual"]) BY <1>1, <2>1, ParsedIsFinite
    <3>2. Grown /\ (faults' = faults \/ Fault) BY <1>0, <2>4, <3>1, RowsGrow
    <3>3. Answer(FALSE, {}, EmptyBag) BY <2>4 DEF Reply
    <3>4. Served(FALSE, {}, EmptyBag) BY <2>1, <3>2, <3>3 DEF Served
    <3> QED BY <3>4
  <2>5. CASE InsertFails(Parsed[h.arg]["manual"]) BY <1>0, <2>1, <2>5, FailureServes
  <2> QED BY <2>2, <2>3, <2>4, <2>5
<1>3. CASE ShadowFails
  <2>1. /\ inbox # <<>> /\ h.what \in {"recompile", "trace"}
        /\ UNCHANGED <<rows, extension, faults, unseen>>
    BY <1>3 DEF ShadowFails, Handles
  <2>2. Answer(TRUE, {}, EmptyBag) BY <1>3 DEF ShadowFails, Error
  <2>3. Served(TRUE, {}, EmptyBag) BY <1>0, <2>1, <2>2, SameRows DEF Served
  <2> QED BY <2>3
<1>4. CASE RecompileWithRemarks
  <2>1. inbox # <<>> /\ h.what = "recompile" /\ UNCHANGED <<extension, unseen>>
    BY <1>4 DEF RecompileWithRemarks, Handles
  <2>2. IsFiniteSet(DOMAIN Parsed[h.arg]["shadow"]) BY <1>1, <2>1, ParsedIsFinite
  <2>3. CASE InsertBulk(Parsed[h.arg]["shadow"]) /\ Reply
    <3>1. Grown /\ (faults' = faults \/ Fault) BY <1>0, <2>2, <2>3, RowsGrow
    <3>2. Answer(FALSE, {}, EmptyBag) BY <2>3 DEF Reply
    <3>3. Served(FALSE, {}, EmptyBag) BY <2>1, <3>1, <3>2 DEF Served
    <3> QED BY <3>3
  <2>4. CASE InsertFails(Parsed[h.arg]["shadow"]) BY <1>0, <2>1, <2>4, FailureServes
  <2> QED BY <1>4, <2>3, <2>4 DEF RecompileWithRemarks
<1>5. CASE ProfileCompileTime
  <2>1. inbox # <<>> /\ h.what = "trace" /\ UNCHANGED extension
    BY <1>5 DEF ProfileCompileTime, Handles
  <2>2. IsFiniteSet(DOMAIN Parsed[h.arg]["shadow"]) BY <1>1, <2>1, ParsedIsFinite
  <2>3. CASE InsertBulk(Parsed[h.arg]["shadow"]) /\ (Reply \/ Error) /\ unseen' = TRUE
    <3>1. Grown /\ (faults' = faults \/ Fault) BY <1>0, <2>2, <2>3, RowsGrow
    <3>2. PICK failed \in BOOLEAN : Answer(failed, {}, EmptyBag)
      BY <2>3 DEF Reply, Error
    <3>3. Served(failed, {}, EmptyBag) BY <2>1, <2>3, <3>1, <3>2 DEF Served
    <3> QED BY <3>3
  <2>4. CASE InsertFails(Parsed[h.arg]["shadow"]) BY <1>0, <2>1, <2>4, FailureServes
  <2> QED BY <1>5, <2>3, <2>4 DEF ProfileCompileTime
<1>6. CASE GetRemarkedFiles
  <2>1. inbox # <<>> /\ h.what = "files" /\ UNCHANGED <<rows, extension>> /\ Grown
    BY <1>0, <1>6, SameRows DEF GetRemarkedFiles, Handles
  <2>2. CASE Answer(FALSE, RemarkedFiles, EmptyBag) /\ UNCHANGED <<faults, unseen>>
    <3>1. Served(FALSE, RemarkedFiles, EmptyBag) BY <2>1, <2>2 DEF Served
    <3> QED BY <3>1
  <2>3. CASE Fault /\ Error /\ UNCHANGED unseen
    <3>1. Answer(TRUE, {}, EmptyBag) BY <2>3 DEF Error
    <3>2. Served(TRUE, {}, EmptyBag) BY <2>1, <2>3, <3>1 DEF Served
    <3> QED BY <3>2
  <2>4. CASE /\ Fault /\ unseen' = TRUE
             /\ \E part \in FilesReadSoFar : Answer(FALSE, part, EmptyBag)
    <3>1. PICK part \in SUBSET RemarkedFiles : Answer(FALSE, part, EmptyBag)
      BY <2>4 DEF FilesReadSoFar
    <3>2. Served(FALSE, part, EmptyBag) BY <2>1, <2>4, <3>1 DEF Served, CutShort
    <3> QED BY <3>2
  <2> QED BY <1>6, <2>2, <2>3, <2>4 DEF GetRemarkedFiles
<1>7. CASE GetRemarks
  <2>1. /\ inbox # <<>> /\ h.what \in {"get", "show"}
        /\ UNCHANGED <<rows, extension>> /\ Grown
    BY <1>0, <1>7, SameRows DEF GetRemarks, Handles
  <2>2. CASE h.what = "get" /\ h.arg = None
    <3>1. Answer(TRUE, {}, EmptyBag) /\ faults' = faults /\ unseen' = unseen
      BY <1>7, <2>2 DEF GetRemarks, Error
    <3>2. Served(TRUE, {}, EmptyBag) BY <2>1, <2>2, <3>1 DEF Served
    <3> QED BY <3>2
  <2>3. CASE /\ ~(h.what = "get" /\ h.arg = None)
             /\ Answer(FALSE, {}, RowsOf(h.arg)) /\ UNCHANGED <<faults, unseen>>
    <3>1. Served(FALSE, {}, RowsOf(h.arg)) BY <2>1, <2>3 DEF Served
    <3> QED BY <3>1
  <2>4. CASE Fault /\ Error /\ UNCHANGED unseen
    <3>1. Answer(TRUE, {}, EmptyBag) BY <2>4 DEF Error
    <3>2. Served(TRUE, {}, EmptyBag) BY <2>1, <2>4, <3>1 DEF Served
    <3> QED BY <3>2
  <2>5. CASE /\ ~(h.what = "get" /\ h.arg = None)
             /\ Fault /\ unseen' = (unseen \/ h.what = "get")
             /\ \E part \in RowsReadSoFar(h.arg) : Answer(FALSE, {}, part)
    <3>1. PICK part \in RowsReadSoFar(h.arg) : Answer(FALSE, {}, part) BY <2>5
    <3>2. h.what = "get" => ReadFrom(part, h.arg, rows) BY <1>0, <2>5, BeginningIsRead
    <3>3. unseen' = IF h.what = "get" THEN TRUE ELSE unseen
      BY <2>5 DEF TreeInv, Counters
    <3>4. Served(FALSE, {}, part) BY <2>1, <2>5, <3>1, <3>2, <3>3 DEF Served, CutShort
    <3> QED BY <3>4
  <2> QED BY <1>7, <2>2, <2>3, <2>4, <2>5 DEF GetRemarks
<1> QED BY <1>2, <1>3, <1>4, <1>5, <1>6, <1>7 DEF Sidecar

\* What fits the store fits it when it has grown.
LEMMA StillFits ==
  ASSUME IsABag(rows), Grown
  PROVE  /\ \A nodes : Fits(nodes, rows) => Fits(nodes, rows')
         /\ \A remarks, file : ReadFrom(remarks, file, rows) => ReadFrom(remarks, file, rows')
<1>1. /\ \A r \in DOMAIN rows : rows[r] \in Nat /\ rows'[r] \in Nat
      /\ \A r \in DOMAIN rows : r \in DOMAIN rows' /\ rows[r] <= rows'[r]
  BY BagTypes DEF Grown
<1>2. ASSUME NEW nodes, Fits(nodes, rows) PROVE Fits(nodes, rows')
  <2>1. ASSUME NEW k \in DOMAIN nodes, NEW r \in DOMAIN nodes[k]
        PROVE  r \in DOMAIN rows' /\ nodes[k][r] <= rows'[r]
    <3>1. IsABag(nodes[k]) /\ r \in DOMAIN rows /\ nodes[k][r] <= rows[r]
      BY <1>2, <2>1 DEF Fits
    <3>2. nodes[k][r] \in Nat BY <2>1, <3>1, BagTypes
    <3> QED BY <1>1, <3>1, <3>2
  <2> QED BY <1>2, <2>1 DEF Fits
<1>3. ASSUME NEW remarks, NEW file, ReadFrom(remarks, file, rows)
      PROVE  ReadFrom(remarks, file, rows')
  <2>1. ASSUME NEW r \in DOMAIN remarks PROVE r \in DOMAIN rows' /\ remarks[r] <= rows'[r]
    <3>1. IsABag(remarks) /\ r \in DOMAIN rows /\ remarks[r] <= rows[r]
      BY <1>3, <2>1 DEF ReadFrom
    <3>2. remarks[r] \in Nat BY <2>1, <3>1, BagTypes
    <3> QED BY <1>1, <3>1, <3>2
  <2> QED BY <1>3, <2>1 DEF ReadFrom
<1> QED BY <1>2, <1>3

\* What getRemarks reads.
LEMMA RowsAreRead ==
  ASSUME IsABag(rows), NEW f, f # None
  PROVE  ReadFrom(RowsOf(f), f, rows)
<1> DEFINE S == {r \in DOMAIN rows : r.loc.file = f}
<1>1. RowsOf(f) = [r \in S |-> rows[r]] BY DEF RowsOf
<1>2. \A r \in DOMAIN rows : rows[r] \in Nat /\ rows[r] > 0 BY BagTypes
<1>3. IsABag(RowsOf(f)) BY <1>1, <1>2 DEF IsABag
<1> QED BY <1>1, <1>2, <1>3 DEF ReadFrom

LEMMA ServedKeeps ==
  ASSUME TreeInv, NEW failed \in BOOLEAN, NEW files, NEW remarks,
         Served(failed, files, remarks)
  PROVE  TreeInv'
<1> DEFINE h == Head(inbox)
           a == [what |-> h.what, load |-> h.load, arg |-> h.arg,
                 failed |-> failed, files |-> files, remarks |-> remarks]
<1>1. /\ inbox # <<>> /\ Answer(failed, files, remarks)
      /\ loads' = loads /\ tree' = tree /\ requests' = requests
      /\ Grown /\ (faults' = faults \/ Fault)
  BY DEF Served, extension
<1>2. /\ Queues'
      /\ Range(inbox) = {h} \cup Range(inbox')
      /\ Range(outbox') = Range(outbox) \cup {a}
      /\ \A m \in Range(inbox') : Precedes(h, m)
      /\ \A b \in Range(outbox) : Precedes(b, h)
      /\ \A n : Awaited(n)' = Awaited(n) /\ Lists(n)' = Lists(n)
  BY <1>1, AnswerSent DEF TreeInv
<1>3. /\ a.what = h.what /\ a.load = h.load /\ a.arg = h.arg
      /\ a.failed = failed /\ a.files = files /\ a.remarks = remarks
  OBVIOUS
<1> HIDE DEF a
<1>4. \A m \in On' : m \in On \/ m = a BY <1>2 DEF On
<1>5. h \in On /\ Address(h) BY <1>2 DEF On, TreeInv, Counted
<1>6. RemarkedFiles \subseteq RemarkedFiles' BY <1>1, FilesGrow
<1>7. IsABag(rows) /\ IsFiniteSet(DOMAIN rows) BY DEF TreeInv, Contents
<1>8. Counted'
  <2>1. ASSUME NEW m \in On' PROVE Address(m)'
    <3>1. m \in On => Address(m) BY DEF TreeInv, Counted
    <3>2. \E l \in On : Address(l) /\ l.what = m.what /\ l.load = m.load /\ l.arg = m.arg
      BY <1>3, <1>4, <1>5, <2>1, <3>1
    <3>3. Address(m) BY <3>2 DEF Address
    <3> QED BY <1>1, <1>6, <3>3 DEF Address
  <2>2. ASSUME NEW n \in DOMAIN loads
        PROVE  /\ IsFiniteSet(Awaited(n)) /\ Awaited(n) # {}
               /\ loads[n] = [waiting |-> Cardinality(Awaited(n)), next |-> loads[n].next]
               /\ Lists(n) => loads[n].next = NoNodes
    BY DEF TreeInv, Counted
  <2>3. IsFiniteSet(DOMAIN loads) /\ DOMAIN loads \subseteq Nat \ {0} BY DEF TreeInv, Counted
  <2> QED BY <1>1, <1>2, <2>1, <2>2, <2>3 DEF Counted
<1>9. Covering'
  <2>1. ASSUME NEW m \in On', m.what = "get" PROVE \E l \in On : l.what = "get" /\ l.arg = m.arg /\ l.load = m.load
    BY <1>3, <1>4, <1>5, <2>1
  <2>2. ASSUME NEW b \in Range(outbox), IsList(b)
        PROVE  /\ IsFiniteSet(b.files) /\ b.files \subseteq RemarkedFiles
               /\ faults = 0 =>
                    /\ \A m \in On' : m.what = "get" => m.arg \in b.files
                    /\ \A c \in Range(outbox) :
                         IsList(c) /\ b.load <= c.load => b.files \subseteq c.files
    BY <2>1, <2>2 DEF TreeInv, Covering
  <2>0. faults' = 0 => faults = 0 /\ ~Fault
    BY <1>1 DEF TreeInv, Counters, Fault
  <2>3. ASSUME IsList(a)
        PROVE  /\ a.files \subseteq RemarkedFiles /\ IsFiniteSet(a.files)
               /\ faults' = 0 => /\ a.files = RemarkedFiles
                                 /\ \A m \in On' : m.what = "get" => m.arg \in a.files
               /\ \A b \in Range(outbox) : IsList(b) => ~(a.load <= b.load)
    <3>1. /\ a.files \subseteq RemarkedFiles
          /\ faults' = 0 => a.files = RemarkedFiles
      BY <1>3, <2>0, <2>3 DEF Served, IsList, CutShort
    <3>2. IsFiniteSet(a.files) BY <1>7, <3>1, FilesAreFinite, FS_Subset
    <3>3. \A m \in On : m.what = "get" => m.arg \in RemarkedFiles
      BY DEF TreeInv, Counted, Address
    <3>4. ASSUME NEW b \in Range(outbox), IsList(b) PROVE ~(a.load <= b.load)
      <4>1. Precedes(b, h) /\ b.what = "files" /\ h.what = "files"
        BY <1>2, <1>3, <2>3, <3>4 DEF IsList
      <4>2. b.load < h.load BY <4>1 DEF Precedes
      <4>3. b \in On BY DEF On
      <4>4. b.load \in Nat /\ h.load \in Nat
        BY <1>5, <4>1, <4>3 DEF TreeInv, Counted, Address
      <4> QED BY <1>3, <4>2, <4>4
    <3> QED BY <2>1, <3>1, <3>2, <3>3, <3>4
  <2>4. ASSUME NEW b \in Range(outbox'), IsList(b)
        PROVE  /\ IsFiniteSet(b.files) /\ b.files \subseteq RemarkedFiles'
               /\ faults' = 0 =>
                    /\ \A m \in On' : m.what = "get" => m.arg \in b.files
                    /\ \A c \in Range(outbox') :
                         IsList(c) /\ b.load <= c.load => b.files \subseteq c.files
    <3>1. CASE b \in Range(outbox) BY <1>2, <1>6, <2>0, <2>2, <2>3, <2>4, <3>1
    <3>2. CASE b = a BY <1>2, <1>6, <2>0, <2>3, <2>4, <3>2
    <3> QED BY <1>2, <3>1, <3>2
  <2>5. ASSUME faults = 0, NEW m \in On', NEW n \in DOMAIN loads, m.what = "get", m.load < n
        PROVE  Lists(n) \/ m.arg \in Awaited(n)
    BY <2>1, <2>5 DEF TreeInv, Covering
  <2> QED BY <1>1, <1>2, <2>0, <2>4, <2>5 DEF Covering, IsList
<1>10. Contents'
  <2>1. /\ \A nodes : Fits(nodes, rows) => Fits(nodes, rows')
        /\ \A b \in Range(outbox) : IsRemarks(b) => ReadFrom(b.remarks, b.arg, rows')
    BY <1>1, <1>7, StillFits DEF TreeInv, Contents
  <2>2. ASSUME IsRemarks(a) PROVE ReadFrom(a.remarks, a.arg, rows')
    <3>1. /\ a.arg # None
          /\ a.remarks = RowsOf(a.arg) \/ ReadFrom(a.remarks, a.arg, rows)
      BY <1>3, <2>2 DEF Served, IsRemarks
    <3> QED BY <1>1, <1>7, <3>1, RowsAreRead, StillFits
  <2>3. \A b \in Range(outbox') : IsRemarks(b) => ReadFrom(b.remarks, b.arg, rows')
    BY <1>2, <2>1, <2>2
  <2>4. /\ Fits(tree, rows')
        /\ \A n \in DOMAIN loads : /\ Fits(loads[n].next, rows')
                                   /\ \A k \in DOMAIN loads[n].next : k[2] \notin Awaited(n)
    BY <2>1 DEF TreeInv, Contents
  <2> QED BY <1>1, <1>2, <2>3, <2>4 DEF Contents, Grown, IsRemarks
<1>11. Counters'
  <2>1. faults' \in 0..MaxFaults BY <1>1, TreeAssumption DEF TreeInv, Counters, Fault
  <2>2. unseen' = unseen \/ unseen' = TRUE BY DEF Served
  <2>3. unseen' \in BOOLEAN BY <2>2 DEF TreeInv, Counters
  <2> QED BY <1>1, <2>1, <2>3 DEF TreeInv, Counters
<1> QED BY <1>2, <1>8, <1>9, <1>10, <1>11 DEF TreeInv

-----------------------------------------------------------------------------
(* What the extension does                                                 *)

\* What is on its way beside the first answer.
Rest == Range(inbox) \cup Range(Tail(outbox))

LEMMA FirstAnswer ==
  ASSUME TreeInv, outbox # <<>>
  PROVE  LET h == Head(outbox) IN
         /\ h \in Range(outbox) /\ h \in On /\ Address(h) /\ On = {h} \cup Rest
         /\ Range(outbox) = {h} \cup Range(Tail(outbox))
         /\ \A m \in Rest : Address(m) /\ Precedes(h, m)
         /\ h.what = "files" => \A m \in Rest : m.load # h.load
         /\ h.what = "get" =>
              \A m \in Rest : m.load = h.load => m.what = "get" /\ m.arg # h.arg
         /\ \A n \in DOMAIN loads :
              {m.arg : m \in {m \in Rest : m.load = n}} =
                IF n = h.load THEN Awaited(n) \ {h.arg} ELSE Awaited(n)
         /\ h.load \in DOMAIN loads => h.arg \in Awaited(h.load)
         /\ \A m \in On : m.load \in Nat
<1> DEFINE h == Head(outbox)
<1>1. /\ h \in Range(outbox) /\ Range(outbox) = {h} \cup Range(Tail(outbox))
      /\ \A m \in Rest : Precedes(h, m)
  BY AnswerTaken DEF TreeInv, Rest
<1>2. On = {h} \cup Rest BY <1>1 DEF On, Rest
<1>3. \A m \in On : Address(m) BY DEF TreeInv, Counted
<1>4. DOMAIN loads \subseteq Nat \ {0} BY DEF TreeInv, Counted
<1>5. \A m \in On : m.load \in Nat BY <1>3, <1>4 DEF Address
<1> HIDE DEF h
<1>6. ASSUME h.what = "files", NEW m \in Rest PROVE m.load # h.load
  <2>1. Address(h) /\ Address(m) /\ Precedes(h, m) /\ h.load \in Nat /\ m.load \in Nat
    BY <1>1, <1>2, <1>3, <1>5
  <2> QED BY <1>4, <1>6, <2>1 DEF Address, Precedes
<1>7. ASSUME h.what = "get", NEW m \in Rest, m.load = h.load
      PROVE  m.what = "get" /\ m.arg # h.arg
  <2>1. Address(h) /\ Address(m) /\ Precedes(h, m) /\ h.load \in Nat /\ m.load \in Nat
    BY <1>1, <1>2, <1>3, <1>5
  <2> QED BY <1>4, <1>7, <2>1 DEF Address, Precedes
<1>8. ASSUME NEW n \in DOMAIN loads
      PROVE  {m.arg : m \in {m \in Rest : m.load = n}} =
               IF n = h.load THEN Awaited(n) \ {h.arg} ELSE Awaited(n)
  <2>1. CASE n = h.load
    <3>1. h.what \in {"files", "get"} BY <1>2, <1>3, <1>4, <2>1 DEF Address
    <3>2. \A m \in Rest : m.load = n => m.arg # h.arg BY <1>6, <1>7, <2>1, <3>1
    <3> QED BY <1>2, <2>1, <3>2 DEF Awaited
  <2>2. CASE n # h.load BY <1>2, <2>2 DEF Awaited
  <2> QED BY <2>1, <2>2
<1>9. h.load \in DOMAIN loads => h.arg \in Awaited(h.load) BY <1>2 DEF Awaited
<1> QED BY <1>1, <1>2, <1>3, <1>5, <1>6, <1>7, <1>8, <1>9 DEF h

\* Requests and answers that belong to no load leave the loads as they are.
Taken == \/ outbox' = outbox
         \/ outbox # <<>> /\ Head(outbox).load = 0 /\ outbox' = Tail(outbox)

LEMMA TakenParts ==
  ASSUME TreeInv, Taken
  PROVE  /\ Range(outbox') \subseteq Range(outbox)
         /\ \A m \in Range(outbox) : m.load # 0 => m \in Range(outbox')
<1>1. CASE outbox' = outbox BY <1>1
<1>2. CASE outbox # <<>> /\ Head(outbox).load = 0 /\ outbox' = Tail(outbox)
  BY <1>2, AnswerTaken DEF TreeInv
<1> QED BY <1>1, <1>2 DEF Taken

LEMMA NoLoadKeeps ==
  ASSUME TreeInv, Queues', Taken, NEW new, Range(inbox') = Range(inbox) \cup new,
         \A m \in new : m.load = 0 /\ Address(m),
         rows' = rows, loads' = loads, tree' = tree, Counters', faults' = faults
  PROVE  TreeInv' /\ \A n \in DOMAIN loads : Awaited(n)' = Awaited(n) /\ Lists(n)' = Lists(n)
<1>1. /\ Range(outbox') \subseteq Range(outbox)
      /\ \A m \in Range(outbox) : m.load # 0 => m \in Range(outbox')
  BY TakenParts
<1>2. /\ \A m \in On' : m \in On \/ (m.load = 0 /\ Address(m))
      /\ \A m \in On : m.load # 0 => m \in On'
  BY <1>1 DEF On
<1>3. DOMAIN loads \subseteq Nat \ {0} BY DEF TreeInv, Counted
<1>4. ASSUME NEW n \in DOMAIN loads
      PROVE  Awaited(n)' = Awaited(n) /\ Lists(n)' = Lists(n)
  <2>1. n # 0 BY <1>3
  <2>2. \A m : m.load = n => (m \in On' <=> m \in On) BY <1>2, <2>1
  <2>3. Awaited(n)' = {m.arg : m \in {m \in On' : m.load = n}} BY DEF Awaited
  <2>4. {m \in On' : m.load = n} = {m \in On : m.load = n} BY <2>2
  <2>5. Awaited(n)' = Awaited(n) BY <2>3, <2>4 DEF Awaited
  <2>6. Lists(n)' = Lists(n) BY <2>2 DEF Lists
  <2> QED BY <2>5, <2>6
<1>5. RemarkedFiles' = RemarkedFiles BY DEF RemarkedFiles
<1>6. Counted'
  <2>1. ASSUME NEW m \in On' PROVE Address(m)'
    <3>1. Address(m) BY <1>2 DEF TreeInv, Counted
    <3> QED BY <1>5, <3>1 DEF Address
  <2>2. ASSUME NEW n \in DOMAIN loads
        PROVE  /\ IsFiniteSet(Awaited(n)) /\ Awaited(n) # {}
               /\ loads[n] = [waiting |-> Cardinality(Awaited(n)), next |-> loads[n].next]
               /\ Lists(n) => loads[n].next = NoNodes
    BY DEF TreeInv, Counted
  <2>3. IsFiniteSet(DOMAIN loads) BY DEF TreeInv, Counted
  <2> QED BY <1>3, <1>4, <2>1, <2>2, <2>3 DEF Counted
<1>7. Covering'
  <2>1. \A m \in On' : m.what = "get" => m \in On
    BY <1>2, <1>3 DEF Address
  <2>2. ASSUME NEW b \in Range(outbox'), IsList(b)
        PROVE  /\ IsFiniteSet(b.files) /\ b.files \subseteq RemarkedFiles
               /\ faults = 0 =>
                    /\ \A m \in On' : m.what = "get" => m.arg \in b.files
                    /\ \A c \in Range(outbox') :
                         IsList(c) /\ b.load <= c.load => b.files \subseteq c.files
    BY <1>1, <2>1, <2>2 DEF TreeInv, Covering
  <2>3. ASSUME faults = 0, NEW m \in On', NEW n \in DOMAIN loads, m.what = "get", m.load < n
        PROVE  Lists(n) \/ m.arg \in Awaited(n)
    BY <2>1, <2>3 DEF TreeInv, Covering
  <2> QED BY <1>4, <1>5, <2>2, <2>3 DEF Covering, IsList
<1>8. Contents'
  <2>1. /\ Fits(tree, rows)
        /\ \A n \in DOMAIN loads : /\ Fits(loads[n].next, rows)
                                   /\ \A k \in DOMAIN loads[n].next : k[2] \notin Awaited(n)
        /\ \A b \in Range(outbox') : IsRemarks(b) => ReadFrom(b.remarks, b.arg, rows)
    BY <1>1 DEF TreeInv, Contents
  <2> QED BY <1>4, <2>1 DEF TreeInv, Contents, IsRemarks
<1> QED BY <1>4, <1>6, <1>7, <1>8 DEF TreeInv

\* A refresh begins the newest load.
LEMMA NewLoad ==
  ASSUME TreeInv, Taken, Refresh
  PROVE  \E n \in Nat \ {0} :
           /\ n \notin DOMAIN loads /\ \A m \in DOMAIN loads : m < n
           /\ DOMAIN loads' = DOMAIN loads \cup {n}
           /\ loads'[n] = [waiting |-> 1, next |-> NoNodes]
           /\ \A m \in DOMAIN loads : loads'[m] = loads[m]
           /\ Queues' /\ Range(inbox') = Range(inbox) \cup {Request("files", n, None)}
<1> DEFINE n == 1 + Max({0} \cup DOMAIN loads)
           m == Request("files", n, None)
<1>1. /\ loads' = [l \in DOMAIN loads \cup {n} |->
                     IF l = n THEN [waiting |-> 1, next |-> NoNodes] ELSE loads[l]]
      /\ inbox' = Append(inbox, m)
  BY DEF Refresh
<1>2. /\ Max({0} \cup DOMAIN loads) \in Nat
      /\ \A l \in DOMAIN loads : l \in Nat /\ l # 0 /\ l <= Max({0} \cup DOMAIN loads)
  <2> DEFINE S == {0} \cup DOMAIN loads
  <2>1. IsFiniteSet(DOMAIN loads) /\ DOMAIN loads \subseteq Nat \ {0}
    BY DEF TreeInv, Counted
  <2>2. IsFiniteSet(S) /\ S \in SUBSET Nat /\ S # {}
    BY <2>1, FS_AddElement
  <2>3. Max(S) \in S /\ \A l \in S : l <= Max(S)
    <3> HIDE DEF S
    <3> QED BY <2>2, Greatest
  <2> QED BY <2>1, <2>2, <2>3
<1>3. n \in Nat \ {0} /\ \A l \in DOMAIN loads : l < n BY <1>2
<1> HIDE DEF n
<1>4. n \notin DOMAIN loads BY <1>2, <1>3
<1>5. ASSUME NEW b \in Range(inbox) \cup Range(outbox') PROVE Precedes(b, m)
  <2>1. b \in On BY TakenParts DEF On
  <2>2. Address(b) BY <2>1 DEF TreeInv, Counted
  <2>3. m.what = "files" /\ m.load = n BY DEF Request
  <2> QED BY <1>3, <2>2, <2>3 DEF Address, Precedes
<1>6. Queues' /\ Range(inbox') = Range(inbox) \cup {m}
  <2>1. outbox' = outbox \/ (outbox # <<>> /\ outbox' = Tail(outbox)) BY DEF Taken
  <2> HIDE DEF m
  <2> QED BY <1>1, <1>5, <2>1, OneMore DEF TreeInv
<1> QED BY <1>1, <1>3, <1>4, <1>6

LEMMA RefreshKeeps ==
  ASSUME TreeInv, Taken, Refresh, rows' = rows, Counters', faults' = faults,
         NEW n \in Nat \ {0},
         n \notin DOMAIN loads, \A m \in DOMAIN loads : m < n,
         DOMAIN loads' = DOMAIN loads \cup {n},
         loads'[n] = [waiting |-> 1, next |-> NoNodes],
         \A m \in DOMAIN loads : loads'[m] = loads[m],
         Queues', Range(inbox') = Range(inbox) \cup {Request("files", n, None)}
  PROVE  /\ TreeInv'
         /\ \A m \in DOMAIN loads : Awaited(m)' = Awaited(m) /\ Lists(m)' = Lists(m)
         /\ Lists(n)'
<1> DEFINE r == Request("files", n, None)
<1>1. r.what = "files" /\ r.load = n /\ r.arg = None BY DEF Request
<1> HIDE DEF r
<1>2. /\ Range(outbox') \subseteq Range(outbox)
      /\ \A m \in Range(outbox) : m.load # 0 => m \in Range(outbox')
  BY TakenParts
<1>3. /\ \A m \in On' : m \in On \/ m = r
      /\ \A m \in On : m.load # 0 => m \in On'
      /\ r \in On'
  BY <1>2 DEF On, r
<1>4. IsFiniteSet(DOMAIN loads) /\ DOMAIN loads \subseteq Nat \ {0} BY DEF TreeInv, Counted
<1>5. \A m \in On : Address(m) /\ m.load # n
  BY <1>4 DEF TreeInv, Counted, Address
<1>6. ASSUME NEW l \in DOMAIN loads
      PROVE  Awaited(l)' = Awaited(l) /\ Lists(l)' = Lists(l)
  <2>1. l # 0 /\ l # n BY <1>4
  <2>2. \A m : m.load = l => (m \in On' <=> m \in On) BY <1>1, <1>3, <2>1
  <2>3. Awaited(l)' = {m.arg : m \in {m \in On' : m.load = l}} BY DEF Awaited
  <2>4. {m \in On' : m.load = l} = {m \in On : m.load = l} BY <2>2
  <2>5. Awaited(l)' = Awaited(l) BY <2>3, <2>4 DEF Awaited
  <2>6. Lists(l)' = Lists(l) BY <2>2 DEF Lists
  <2> QED BY <2>5, <2>6
<1>7. Awaited(n)' = {None} /\ Lists(n)'
  <2>1. {m \in On' : m.load = n} = {r} BY <1>1, <1>3, <1>5
  <2>2. Awaited(n)' = {m.arg : m \in {m \in On' : m.load = n}} BY DEF Awaited
  <2> QED BY <1>1, <1>3, <2>1, <2>2 DEF Lists
<1>8. RemarkedFiles' = RemarkedFiles BY DEF RemarkedFiles
<1>9. tree' = tree BY DEF Refresh
<1>10. Counted'
  <2>1. ASSUME NEW m \in On' PROVE Address(m)'
    <3>1. CASE m \in On BY <1>5, <1>8, <3>1 DEF Address
    <3>2. CASE m = r BY <1>1, <3>2 DEF Address
    <3> QED BY <1>3, <3>1, <3>2
  <2>2. ASSUME NEW l \in DOMAIN loads'
        PROVE  /\ IsFiniteSet(Awaited(l)') /\ Awaited(l)' # {}
               /\ loads'[l] = [waiting |-> Cardinality(Awaited(l)'), next |-> loads'[l].next]
               /\ Lists(l)' => loads'[l].next = NoNodes
    <3>1. CASE l \in DOMAIN loads
      <4>1. /\ IsFiniteSet(Awaited(l)) /\ Awaited(l) # {}
            /\ loads[l] = [waiting |-> Cardinality(Awaited(l)), next |-> loads[l].next]
            /\ Lists(l) => loads[l].next = NoNodes
        BY <3>1 DEF TreeInv, Counted
      <4> QED BY <1>6, <3>1, <4>1
    <3>2. CASE l = n
      <4>1. IsFiniteSet({None}) /\ Cardinality({None}) = 1 BY FS_Singleton
      <4> QED BY <1>7, <3>2, <4>1
    <3> QED BY <3>1, <3>2
  <2>3. IsFiniteSet(DOMAIN loads') BY <1>4, FS_AddElement
  <2>4. DOMAIN loads' \subseteq Nat \ {0} BY <1>4
  <2> QED BY <2>1, <2>2, <2>3, <2>4 DEF Counted
<1>11. Covering'
  <2>1. \A m \in On' : m.what = "get" => m \in On BY <1>1, <1>3
  <2>2. ASSUME NEW b \in Range(outbox'), IsList(b)
        PROVE  /\ IsFiniteSet(b.files) /\ b.files \subseteq RemarkedFiles
               /\ faults = 0 =>
                    /\ \A m \in On' : m.what = "get" => m.arg \in b.files
                    /\ \A c \in Range(outbox') :
                         IsList(c) /\ b.load <= c.load => b.files \subseteq c.files
    BY <1>2, <2>1, <2>2 DEF TreeInv, Covering
  <2>3. ASSUME faults = 0, NEW m \in On', NEW l \in DOMAIN loads', m.what = "get", m.load < l
        PROVE  Lists(l)' \/ m.arg \in Awaited(l)'
    BY <1>6, <1>7, <2>1, <2>3 DEF TreeInv, Covering
  <2> QED BY <1>8, <2>2, <2>3 DEF Covering, IsList
<1>12. Contents'
  <2>1. /\ Fits(tree, rows)
        /\ \A b \in Range(outbox') : IsRemarks(b) => ReadFrom(b.remarks, b.arg, rows)
    BY <1>2 DEF TreeInv, Contents
  <2>2. DOMAIN NoNodes = {} BY DEF NoNodes
  <2>3. Fits(NoNodes, rows) BY <2>2 DEF Fits
  <2>4. ASSUME NEW l \in DOMAIN loads'
        PROVE  /\ Fits(loads'[l].next, rows)
               /\ \A k \in DOMAIN loads'[l].next : k[2] \notin Awaited(l)'
    <3>1. CASE l \in DOMAIN loads BY <1>6, <3>1 DEF TreeInv, Contents
    <3>2. CASE l = n BY <2>2, <2>3, <3>2
    <3> QED BY <3>1, <3>2
  <2> QED BY <1>9, <2>1, <2>4 DEF TreeInv, Contents, IsRemarks
<1> QED BY <1>6, <1>7, <1>10, <1>11, <1>12 DEF TreeInv

\* The remarks of a file are put into nodes of their own.
LEMMA Added ==
  ASSUME NEW next, Fits(next, rows), NEW remarks, NEW f, ReadFrom(remarks, f, rows),
         \A k \in DOMAIN next : k[2] # f
  PROVE  /\ Fits(Add(next, remarks), rows)
         /\ \A k \in DOMAIN Add(next, remarks) : k \in DOMAIN next \/ k[2] = f
         /\ \A r : Copies(Add(next, remarks), r) =
                     IF r.loc.file = f THEN CopiesOf(remarks, r) ELSE Copies(next, r)
<1> DEFINE Under(r) == <<r.category, r.loc.file>>
           Of(k) == [r \in {r \in DOMAIN remarks : Under(r) = k} |-> remarks[r]]
           keys  == {Under(r) : r \in DOMAIN remarks}
           sum   == Add(next, remarks)
<1>1. sum = [k \in DOMAIN next \cup keys |->
               (IF k \in DOMAIN next THEN next[k] ELSE EmptyBag) (+) Of(k)]
  BY DEF Add
<1>2. DOMAIN sum = DOMAIN next \cup keys /\ sum = [k \in DOMAIN sum |-> sum[k]]
  BY <1>1
<1>3. \A k \in DOMAIN sum : sum[k] = Node(next, k) (+) Of(k) BY <1>1 DEF Node
<1>4. IsABag(remarks) /\ \A r \in DOMAIN remarks : r.loc.file = f /\ remarks[r] \in Nat /\ remarks[r] > 0
  BY BagTypes DEF ReadFrom
<1>5. ASSUME NEW k PROVE IsABag(Of(k)) BY <1>4 DEF IsABag
<1>6. \A k : DOMAIN Of(k) = {r \in DOMAIN remarks : Under(r) = k} OBVIOUS
<1>7. \A k : \A r \in DOMAIN Of(k) : Of(k)[r] = remarks[r] OBVIOUS
<1>8. \A r : Under(r)[1] = r.category /\ Under(r)[2] = r.loc.file OBVIOUS
<1>9. \A k \in keys : k[2] = f BY <1>4
<1>10. IsABag(EmptyBag) /\ DOMAIN EmptyBag = {} BY DEF EmptyBag, SetToBag, IsABag
<1>11. ASSUME NEW k PROVE IsABag(Node(next, k)) BY <1>10 DEF Node, Fits
<1> HIDE DEF Of, sum, Under
<1>12. ASSUME NEW k \in DOMAIN sum
       PROVE  /\ IsABag(sum[k]) /\ DOMAIN sum[k] = DOMAIN Node(next, k) \cup DOMAIN Of(k)
              /\ \A r : CopiesOf(sum[k], r) = CopiesOf(Node(next, k), r) + CopiesOf(Of(k), r)
  <2> DEFINE b == Node(next, k)
             c == Of(k)
  <2>1. IsABag(b) /\ IsABag(c) /\ sum[k] = b (+) c BY <1>3, <1>5, <1>11
  <2> HIDE DEF b, c
  <2>2. /\ IsABag(b (+) c) /\ DOMAIN (b (+) c) = DOMAIN b \cup DOMAIN c
        /\ \A r : CopiesOf(b (+) c, r) = CopiesOf(b, r) + CopiesOf(c, r)
    BY <2>1, BagSum
  <2> QED BY <2>1, <2>2 DEF b, c
<1>13. ASSUME NEW k \in DOMAIN next
       PROVE  /\ DOMAIN Of(k) = {} /\ k \in DOMAIN sum
              /\ DOMAIN sum[k] = DOMAIN next[k]
              /\ \A r : CopiesOf(sum[k], r) = CopiesOf(next[k], r)
  <2>1. k \in DOMAIN sum /\ Node(next, k) = next[k] BY <1>2 DEF Node
  <2>2. DOMAIN Of(k) = {} BY <1>4, <1>6, <1>8
  <2>3. \A r : CopiesOf(Of(k), r) = 0 BY <2>2 DEF CopiesOf
  <2>4. \A r : CopiesOf(next[k], r) \in Nat BY <1>11, <2>1, BagTypes
  <2>5. ASSUME NEW r PROVE CopiesOf(sum[k], r) = CopiesOf(next[k], r)
    <3>1. CopiesOf(sum[k], r) = CopiesOf(next[k], r) + CopiesOf(Of(k), r) BY <1>12, <2>1
    <3> QED BY <2>3, <2>4, <3>1
  <2>6. DOMAIN sum[k] = DOMAIN next[k] BY <1>12, <2>1, <2>2
  <2> QED BY <2>1, <2>2, <2>5, <2>6
<1>14. ASSUME NEW k \in DOMAIN sum, k \notin DOMAIN next
       PROVE  /\ k \in keys /\ DOMAIN sum[k] = DOMAIN Of(k)
              /\ \A r : CopiesOf(sum[k], r) = CopiesOf(Of(k), r)
  <2>1. Node(next, k) = EmptyBag BY <1>14 DEF Node
  <2>2. \A r : CopiesOf(EmptyBag, r) = 0 BY <1>10 DEF CopiesOf
  <2>3. \A r : CopiesOf(Of(k), r) \in Nat BY <1>5, BagTypes
  <2>4. ASSUME NEW r PROVE CopiesOf(sum[k], r) = CopiesOf(Of(k), r)
    <3>1. CopiesOf(sum[k], r) = CopiesOf(EmptyBag, r) + CopiesOf(Of(k), r) BY <1>12, <2>1
    <3> QED BY <2>2, <2>3, <3>1
  <2>5. DOMAIN sum[k] = DOMAIN Of(k) BY <1>10, <1>12, <2>1
  <2> QED BY <1>2, <1>14, <2>4, <2>5
<1>15. ASSUME NEW k \in DOMAIN sum
       PROVE  /\ DOMAIN sum[k] # {}
              /\ \A r \in DOMAIN sum[k] : /\ k = Under(r) /\ r.loc.file # None
                                          /\ r \in DOMAIN rows /\ sum[k][r] <= rows[r]
  <2>1. \A r \in DOMAIN sum[k] : sum[k][r] = CopiesOf(sum[k], r) BY DEF CopiesOf
  <2>2. CASE k \in DOMAIN next
    <3>1. \A r \in DOMAIN sum[k] : sum[k][r] = next[k][r] BY <1>13, <2>1, <2>2 DEF CopiesOf
    <3>2. /\ DOMAIN next[k] # {}
          /\ \A r \in DOMAIN next[k] : /\ k = Under(r) /\ r.loc.file # None
                                       /\ r \in DOMAIN rows /\ next[k][r] <= rows[r]
      BY <2>2 DEF Fits, Under
    <3> QED BY <1>13, <2>2, <3>1, <3>2
  <2>3. CASE k \notin DOMAIN next
    <3>1. PICK r \in DOMAIN remarks : k = Under(r) BY <1>14, <2>3
    <3>2. DOMAIN sum[k] # {} BY <1>6, <1>14, <2>3, <3>1
    <3>3. ASSUME NEW q \in DOMAIN sum[k]
          PROVE  /\ k = Under(q) /\ q.loc.file # None
                 /\ q \in DOMAIN rows /\ sum[k][q] <= rows[q]
      <4>1. q \in DOMAIN Of(k) /\ q \in DOMAIN remarks /\ Under(q) = k
        BY <1>6, <1>14, <2>3, <3>3
      <4>2. sum[k][q] = remarks[q] BY <1>7, <1>14, <2>1, <2>3, <3>3, <4>1 DEF CopiesOf
      <4> QED BY <4>1, <4>2 DEF ReadFrom
    <3> QED BY <3>2, <3>3
  <2> QED BY <2>2, <2>3
<1>16. Fits(sum, rows) BY <1>2, <1>12, <1>15 DEF Fits, Under
<1>17. ASSUME NEW r
       PROVE  Copies(sum, r) = IF r.loc.file = f THEN CopiesOf(remarks, r) ELSE Copies(next, r)
  <2> DEFINE k == Under(r)
  <2>1. /\ Copies(sum, r) = CopiesOf(Node(sum, k), r)
        /\ Copies(next, r) = CopiesOf(Node(next, k), r)
    BY DEF Copies, Under
  <2>2. \A q : CopiesOf(EmptyBag, q) = 0 BY <1>10 DEF CopiesOf
  <2>3. CASE r.loc.file = f
    <3>1. k \notin DOMAIN next BY <1>8, <2>3
    <3>2. CASE k \in DOMAIN sum
      <4>1. Node(sum, k) = sum[k] BY <3>2 DEF Node
      <4>2. CopiesOf(sum[k], r) = CopiesOf(Of(k), r) BY <1>14, <3>1, <3>2
      <4>3. CopiesOf(Of(k), r) = CopiesOf(remarks, r) BY <1>6, <1>7 DEF CopiesOf
      <4> QED BY <2>1, <2>3, <4>1, <4>2, <4>3
    <3>3. CASE k \notin DOMAIN sum
      <4>1. Node(sum, k) = EmptyBag BY <3>3 DEF Node
      <4>2. r \notin DOMAIN remarks BY <1>2, <3>3
      <4> QED BY <2>1, <2>2, <2>3, <4>1, <4>2 DEF CopiesOf
    <3> QED BY <3>2, <3>3
  <2>4. CASE r.loc.file # f
    <3>1. k \notin keys BY <1>8, <1>9, <2>4
    <3>2. CASE k \in DOMAIN next
      <4>1. Node(sum, k) = sum[k] /\ Node(next, k) = next[k] BY <1>13, <3>2 DEF Node
      <4> QED BY <1>13, <2>1, <2>4, <3>2, <4>1
    <3>3. CASE k \notin DOMAIN next
      <4>1. Node(sum, k) = EmptyBag /\ Node(next, k) = EmptyBag BY <1>2, <3>1, <3>3 DEF Node
      <4> QED BY <2>1, <2>4, <4>1
    <3> QED BY <3>2, <3>3
  <2> QED BY <2>3, <2>4
<1> QED BY <1>2, <1>9, <1>16, <1>17 DEF sum

\* A load is over when nothing more is on its way for it.
LEMMA FinishedKeeps ==
  ASSUME TreeInv, outbox # <<>>, outbox' = Tail(outbox), inbox' = inbox,
         NEW n \in DOMAIN loads, \A m \in Rest : m.load # n,
         n = Head(outbox).load,
         loads' = Without(n), rows' = rows, Fits(tree', rows), Counters', faults' = faults
  PROVE  /\ TreeInv'
         /\ \A l \in DOMAIN loads' : Awaited(l)' = Awaited(l) /\ Lists(l)' = Lists(l)
<1> DEFINE h == Head(outbox)
<1>1. /\ On = {h} \cup Rest
      /\ Range(outbox) = {h} \cup Range(Tail(outbox))
      /\ \A m \in Rest : Address(m)
  BY FirstAnswer
<1>2. On' = Rest /\ On' \subseteq On BY <1>1 DEF On, Rest
<1>3. DOMAIN loads' = DOMAIN loads \ {n} /\ \A l \in DOMAIN loads' : loads'[l] = loads[l]
  BY DEF Without
<1>4. IsFiniteSet(DOMAIN loads) /\ DOMAIN loads \subseteq Nat \ {0} BY DEF TreeInv, Counted
<1>5. Queues' BY NoneMore DEF TreeInv
<1>6. ASSUME NEW l \in DOMAIN loads'
      PROVE  Awaited(l)' = Awaited(l) /\ Lists(l)' = Lists(l)
  <2>1. \A m : m.load = l => (m \in On' <=> m \in On) BY <1>1, <1>2, <1>3
  <2>2. Awaited(l)' = {m.arg : m \in {m \in On' : m.load = l}} BY DEF Awaited
  <2>3. {m \in On' : m.load = l} = {m \in On : m.load = l} BY <2>1
  <2>4. Awaited(l)' = Awaited(l) BY <2>2, <2>3 DEF Awaited
  <2>5. Lists(l)' = Lists(l) BY <2>1 DEF Lists
  <2> QED BY <2>4, <2>5
<1>7. RemarkedFiles' = RemarkedFiles BY DEF RemarkedFiles
<1>8. Counted'
  <2>1. ASSUME NEW m \in On' PROVE Address(m)'
    <3>1. Address(m) /\ m.load # n BY <1>1, <1>2, <2>1
    <3> QED BY <1>3, <1>7, <3>1 DEF Address
  <2>2. ASSUME NEW l \in DOMAIN loads'
        PROVE  /\ IsFiniteSet(Awaited(l)) /\ Awaited(l) # {}
               /\ loads[l] = [waiting |-> Cardinality(Awaited(l)), next |-> loads[l].next]
               /\ Lists(l) => loads[l].next = NoNodes
    BY <1>3 DEF TreeInv, Counted
  <2>3. IsFiniteSet(DOMAIN loads') BY <1>3, <1>4, FS_RemoveElement
  <2>4. DOMAIN loads' \subseteq Nat \ {0} BY <1>3, <1>4
  <2> QED BY <1>3, <1>6, <2>1, <2>2, <2>3, <2>4 DEF Counted
<1>9. Covering'
  <2>1. ASSUME NEW b \in Range(outbox'), IsList(b)
        PROVE  /\ IsFiniteSet(b.files) /\ b.files \subseteq RemarkedFiles
               /\ faults = 0 =>
                    /\ \A m \in On' : m.what = "get" => m.arg \in b.files
                    /\ \A c \in Range(outbox') :
                         IsList(c) /\ b.load <= c.load => b.files \subseteq c.files
    BY <1>1, <1>2, <2>1 DEF TreeInv, Covering
  <2>2. ASSUME faults = 0, NEW m \in On', NEW l \in DOMAIN loads', m.what = "get", m.load < l
        PROVE  Lists(l) \/ m.arg \in Awaited(l)
    BY <1>2, <1>3, <2>2 DEF TreeInv, Covering
  <2> QED BY <1>6, <1>7, <2>1, <2>2 DEF Covering, IsList
<1>10. Contents'
  <2>1. \A b \in Range(outbox') : IsRemarks(b) => ReadFrom(b.remarks, b.arg, rows)
    BY <1>1 DEF TreeInv, Contents
  <2>2. \A l \in DOMAIN loads' : /\ Fits(loads[l].next, rows)
                                 /\ \A k \in DOMAIN loads[l].next : k[2] \notin Awaited(l)
    BY <1>3 DEF TreeInv, Contents
  <2> QED BY <1>3, <1>6, <2>1, <2>2 DEF TreeInv, Contents, IsRemarks
<1> QED BY <1>5, <1>6, <1>8, <1>9, <1>10 DEF TreeInv

\* The answer for one file is counted, and its remarks are added.
LEMMA ProgressKeeps ==
  ASSUME TreeInv, outbox # <<>>, outbox' = Tail(outbox), inbox' = inbox,
         Head(outbox).what = "get", NEW n \in DOMAIN loads, n = Head(outbox).load,
         loads[n].waiting # 1, NEW next,
         loads' = [loads EXCEPT ![n] = [waiting |-> @.waiting - 1, next |-> next]],
         Fits(next, rows),
         \A k \in DOMAIN next : k \in DOMAIN loads[n].next \/ k[2] = Head(outbox).arg,
         rows' = rows, tree' = tree, Counters', faults' = faults
  PROVE  /\ TreeInv' /\ ~Lists(n)
         /\ \A l \in DOMAIN loads :
              /\ Awaited(l)' = IF l = n THEN Awaited(n) \ {Head(outbox).arg} ELSE Awaited(l)
              /\ Lists(l)' = Lists(l)
<1> DEFINE h == Head(outbox)
<1>1. /\ On = {h} \cup Rest /\ h \in On
      /\ Range(outbox) = {h} \cup Range(Tail(outbox))
      /\ \A m \in Rest : Address(m)
      /\ \A m \in Rest : m.load = h.load => m.what = "get" /\ m.arg # h.arg
      /\ \A l \in DOMAIN loads :
           {m.arg : m \in {m \in Rest : m.load = l}} =
             IF l = h.load THEN Awaited(l) \ {h.arg} ELSE Awaited(l)
      /\ h.arg \in Awaited(n)
  BY FirstAnswer
<1>2. On' = Rest /\ On' \subseteq On BY <1>1 DEF On, Rest
<1>3. /\ DOMAIN loads' = DOMAIN loads
      /\ \A l \in DOMAIN loads : l # n => loads'[l] = loads[l]
      /\ loads'[n] = [waiting |-> loads[n].waiting - 1, next |-> next]
  OBVIOUS
<1>4. IsFiniteSet(DOMAIN loads) /\ DOMAIN loads \subseteq Nat \ {0} BY DEF TreeInv, Counted
<1>5. Queues' BY NoneMore DEF TreeInv
<1>6. \A m \in On : m.load = n => m.what = "get" BY <1>1
<1>7. ~Lists(n) BY <1>6 DEF Lists
<1>8. ASSUME NEW l \in DOMAIN loads
      PROVE  /\ Awaited(l)' = IF l = n THEN Awaited(n) \ {h.arg} ELSE Awaited(l)
             /\ Lists(l)' = Lists(l)
  <2>1. Awaited(l)' = {m.arg : m \in {m \in On' : m.load = l}} BY DEF Awaited
  <2>2. Lists(l)' = \E m \in On' : m.what = "files" /\ m.load = l BY DEF Lists
  <2>3. Lists(l)' = Lists(l) BY <1>1, <1>2, <2>2 DEF Lists
  <2> QED BY <1>1, <1>2, <2>1, <2>3
<1>9. RemarkedFiles' = RemarkedFiles BY DEF RemarkedFiles
<1>10. Counted'
  <2>1. ASSUME NEW m \in On' PROVE Address(m)'
    <3>1. Address(m) BY <1>1, <1>2, <2>1
    <3> QED BY <1>3, <1>9, <3>1 DEF Address
  <2>2. ASSUME NEW l \in DOMAIN loads
        PROVE  /\ IsFiniteSet(Awaited(l)) /\ Awaited(l) # {}
               /\ loads[l] = [waiting |-> Cardinality(Awaited(l)), next |-> loads[l].next]
               /\ Lists(l) => loads[l].next = NoNodes
    BY DEF TreeInv, Counted
  <2>3. /\ IsFiniteSet(Awaited(n)') /\ Awaited(n)' # {}
        /\ loads'[n] = [waiting |-> Cardinality(Awaited(n)'), next |-> loads'[n].next]
        /\ ~Lists(n)'
    <3> DEFINE S == Awaited(n) \ {h.arg}
    <3>1. /\ IsFiniteSet(S) /\ Cardinality(S) = Cardinality(Awaited(n)) - 1
          /\ Cardinality(Awaited(n)) \in Nat
      BY <1>1, <2>2, FS_RemoveElement, FS_CardinalityType
    <3>2. loads[n].waiting = Cardinality(Awaited(n)) BY <2>2
    <3>3. Cardinality(S) # 0 BY <3>1, <3>2
    <3>4. S # {} BY <3>3, FS_EmptySet
    <3>5. Awaited(n)' = S BY <1>8
    <3>6. loads'[n] = [waiting |-> Cardinality(S), next |-> next] BY <1>3, <3>1, <3>2
    <3> HIDE DEF S
    <3> QED BY <1>7, <1>8, <3>1, <3>4, <3>5, <3>6
  <2>4. ASSUME NEW l \in DOMAIN loads
        PROVE  /\ IsFiniteSet(Awaited(l)') /\ Awaited(l)' # {}
               /\ loads'[l] = [waiting |-> Cardinality(Awaited(l)'), next |-> loads'[l].next]
               /\ Lists(l)' => loads'[l].next = NoNodes
    <3>1. CASE l = n BY <2>3, <3>1
    <3>2. CASE l # n BY <1>3, <1>8, <2>2, <3>2
    <3> QED BY <3>1, <3>2
  <2> QED BY <1>3, <1>4, <2>1, <2>4 DEF Counted
<1>11. Covering'
  <2>1. ASSUME NEW b \in Range(outbox'), IsList(b)
        PROVE  /\ IsFiniteSet(b.files) /\ b.files \subseteq RemarkedFiles
               /\ faults = 0 =>
                    /\ \A m \in On' : m.what = "get" => m.arg \in b.files
                    /\ \A c \in Range(outbox') :
                         IsList(c) /\ b.load <= c.load => b.files \subseteq c.files
    BY <1>1, <1>2, <2>1 DEF TreeInv, Covering
  <2>2. ASSUME faults = 0, NEW m \in On', NEW l \in DOMAIN loads, m.what = "get", m.load < l
        PROVE  Lists(l)' \/ m.arg \in Awaited(l)'
    <3>1. Lists(l) \/ m.arg \in Awaited(l) BY <1>2, <2>2 DEF TreeInv, Covering
    <3>2. ASSUME l = n, m.arg = h.arg PROVE FALSE
      <4>1. Precedes(h, m) BY <1>2, <2>2, FirstAnswer
      <4>2. h.load <= m.load /\ m.load \in Nat /\ h.load \in Nat
        BY <1>2, <2>2, <4>1, FirstAnswer DEF Precedes
      <4> QED BY <2>2, <3>2, <4>2
    <3> QED BY <1>8, <3>1, <3>2
  <2> QED BY <1>3, <1>9, <2>1, <2>2 DEF Covering, IsList
<1>12. Contents'
  <2>1. \A b \in Range(outbox') : IsRemarks(b) => ReadFrom(b.remarks, b.arg, rows)
    BY <1>1 DEF TreeInv, Contents
  <2>2. ASSUME NEW l \in DOMAIN loads
        PROVE  /\ Fits(loads'[l].next, rows)
               /\ \A k \in DOMAIN loads'[l].next : k[2] \notin Awaited(l)'
    <3>1. /\ Fits(loads[l].next, rows)
          /\ \A k \in DOMAIN loads[l].next : k[2] \notin Awaited(l)
      BY DEF TreeInv, Contents
    <3>2. CASE l = n
      <4>1. loads'[l].next = next BY <1>3, <3>2
      <4> QED BY <1>8, <3>1, <3>2, <4>1
    <3>3. CASE l # n BY <1>3, <1>8, <3>1, <3>3
    <3> QED BY <3>2, <3>3
  <2> QED BY <1>3, <2>1, <2>2 DEF TreeInv, Contents, IsRemarks
<1> QED BY <1>5, <1>7, <1>8, <1>10, <1>11, <1>12 DEF TreeInv

\* The files of a load are asked for.
LEMMA ListedKeeps ==
  ASSUME TreeInv, outbox # <<>>, outbox' = Tail(outbox),
         IsList(Head(outbox)), Head(outbox).files # {},
         GotFiles(Head(outbox)), rows' = rows, Counters', faults' = faults,
         NEW n, n = Head(outbox).load
  PROVE  /\ TreeInv' /\ n \in DOMAIN loads /\ Lists(n) /\ ~Lists(n)'
         /\ tree' = tree /\ DOMAIN loads' = DOMAIN loads
         /\ \A l \in DOMAIN loads : loads'[l].next = loads[l].next
         /\ Awaited(n)' = Head(outbox).files
         /\ \A l \in DOMAIN loads :
              l # n => Awaited(l)' = Awaited(l) /\ Lists(l)' = Lists(l)
         /\ Range(inbox') = Range(inbox) \cup {Request("get", n, f) : f \in Head(outbox).files}
<1> DEFINE h == Head(outbox)
           new == {Request("get", n, f) : f \in h.files}
<1>1. /\ On = {h} \cup Rest /\ h \in On /\ h \in Range(outbox)
      /\ Range(outbox) = {h} \cup Range(Tail(outbox))
      /\ \A m \in Rest : Address(m) /\ Precedes(h, m) /\ m.load \in Nat
      /\ \A m \in Rest : m.load # n
      /\ Address(h) /\ n \in Nat /\ h.load = n
      /\ \A l \in DOMAIN loads :
           {m.arg : m \in {m \in Rest : m.load = l}} =
             IF l = n THEN Awaited(l) \ {h.arg} ELSE Awaited(l)
  BY FirstAnswer DEF IsList
<1>2. h.what = "files" /\ n \in DOMAIN loads BY <1>1 DEF Address, IsList
<1>3. /\ loads' = [loads EXCEPT ![n].waiting = Cardinality(h.files)]
      /\ inbox' = inbox \o SetToSeq(new) /\ tree' = tree
  BY DEF GotFiles
<1>4. /\ IsFiniteSet(h.files) /\ h.files \subseteq RemarkedFiles
      /\ faults = 0 =>
           /\ \A m \in On : m.what = "get" => m.arg \in h.files
           /\ \A b \in Range(outbox) : IsList(b) /\ n <= b.load => h.files \subseteq b.files
  BY <1>1 DEF TreeInv, Covering
<1> HIDE DEF h
<1>5. \A m \in new : m.what = "get" /\ m.load = n /\ m.arg \in h.files BY DEF Request
<1>6. \A f \in h.files : Request("get", n, f) \in new /\ Request("get", n, f).arg = f
  BY DEF Request
<1>7. \A a, b \in new : a # b => a.arg # b.arg BY DEF Request
<1>8. IsFiniteSet(new)
  <2> DEFINE g == [f \in h.files |-> Request("get", n, f)]
  <2>1. new = Range(g) BY DEF Range
  <2>2. IsFiniteSet(DOMAIN g) BY <1>4
  <2> HIDE DEF g
  <2> QED BY <2>1, <2>2, ImageIsFinite
<1> DEFINE s == SetToSeq(new)
<1> HIDE DEF new
<1>9. /\ s \in Seq(Range(s)) /\ Range(s) = new
      /\ \A i, j \in DOMAIN s : i # j => s[i] # s[j]
  BY <1>8, AsSequence
<1>10. inbox' = inbox \o s BY <1>3
<1> HIDE DEF s
<1>11. Ordered(s)
  <2> SUFFICES ASSUME NEW i \in DOMAIN s, NEW j \in DOMAIN s, i < j
               PROVE  Precedes(s[i], s[j])
    BY DEF Ordered
  <2>1. s[i] \in new /\ s[j] \in new BY <1>9 DEF Range
  <2>2. DOMAIN s = 1..Len(s) BY <1>9
  <2>3. s[i] # s[j] BY <1>9, <2>2
  <2>4. s[i].arg # s[j].arg BY <1>7, <2>1, <2>3
  <2> QED BY <1>1, <1>5, <2>1, <2>4 DEF Precedes
<1>12. ASSUME NEW m \in Rest, NEW e \in new PROVE Precedes(m, e)
  <2>1. m.what = "files" => n < m.load BY <1>1, <1>2, <1>12 DEF Precedes
  <2>2. m.what = "get" => m.load < n BY <1>1, <1>2, <1>12 DEF Precedes
  <2>3. n \in Nat /\ m.load \in Nat BY <1>1, <1>12
  <2> QED BY <1>5, <1>12, <2>1, <2>2, <2>3 DEF Precedes
<1>13. Queues' /\ Range(inbox') = Range(inbox) \cup new
  <2>1. /\ outbox' \in Seq(Range(outbox')) /\ Ordered(outbox')
        /\ Range(outbox') \subseteq Range(outbox)
    BY <1>1, AnswerTaken DEF TreeInv
  <2>2. /\ inbox' \in Seq(Range(inbox')) /\ Range(inbox') = Range(inbox) \cup new
        /\ Ordered(inbox')
    <3>1. inbox \in Seq(Range(inbox)) /\ Ordered(inbox) BY DEF TreeInv, Queues
    <3>2. \A a \in Range(inbox), b \in Range(s) : Precedes(a, b) BY <1>9, <1>12 DEF Rest
    <3> QED BY <1>9, <1>10, <1>11, <3>1, <3>2, Joined
  <2>3. \A a \in Range(outbox'), b \in Range(inbox') : Precedes(a, b)
    BY <1>12, <2>1, <2>2 DEF TreeInv, Queues, Rest
  <2> QED BY <2>1, <2>2, <2>3 DEF Queues, Ordered
<1>14. On' = Rest \cup new BY <1>13 DEF On, Rest
<1>15. /\ DOMAIN loads' = DOMAIN loads
       /\ \A l \in DOMAIN loads : l # n => loads'[l] = loads[l]
       /\ loads'[n] = [loads[n] EXCEPT !.waiting = Cardinality(h.files)]
  BY <1>2, <1>3
<1>16. \A l \in DOMAIN loads :
         /\ IsFiniteSet(Awaited(l)) /\ Awaited(l) # {}
         /\ loads[l] = [waiting |-> Cardinality(Awaited(l)), next |-> loads[l].next]
         /\ Lists(l) => loads[l].next = NoNodes
  BY DEF TreeInv, Counted
<1>17. Lists(n) /\ loads[n].next = NoNodes BY <1>1, <1>2, <1>16 DEF Lists
<1>18. loads'[n] = [waiting |-> Cardinality(h.files), next |-> NoNodes]
  BY <1>2, <1>15, <1>16, <1>17
<1>19. ASSUME NEW l \in DOMAIN loads, l # n
       PROVE  Awaited(l)' = Awaited(l) /\ Lists(l)' = Lists(l)
  <2>1. \A m : m.load = l => (m \in On' <=> m \in On) BY <1>1, <1>5, <1>14, <1>19
  <2>2. Awaited(l)' = {m.arg : m \in {m \in On' : m.load = l}} BY DEF Awaited
  <2>3. {m \in On' : m.load = l} = {m \in On : m.load = l} BY <2>1
  <2>4. Awaited(l)' = Awaited(l) BY <2>2, <2>3 DEF Awaited
  <2>5. Lists(l)' = Lists(l) BY <2>1 DEF Lists
  <2> QED BY <2>4, <2>5
<1>20. Awaited(n)' = h.files /\ ~Lists(n)'
  <2>1. {m \in On' : m.load = n} = new BY <1>1, <1>5, <1>14
  <2>2. Awaited(n)' = {m.arg : m \in {m \in On' : m.load = n}} BY DEF Awaited
  <2>3. {m.arg : m \in new} = h.files BY <1>5, <1>6
  <2>4. ~Lists(n)' BY <1>1, <1>5, <1>14 DEF Lists
  <2> QED BY <2>1, <2>2, <2>3, <2>4
<1>21. RemarkedFiles' = RemarkedFiles BY DEF RemarkedFiles
<1>22. Counted'
  <2>1. ASSUME NEW m \in On' PROVE Address(m)'
    <3>1. Address(m) BY <1>1, <1>2, <1>4, <1>5, <1>14, <2>1 DEF Address
    <3> QED BY <1>15, <1>21, <3>1 DEF Address
  <2>2. ASSUME NEW l \in DOMAIN loads
        PROVE  /\ IsFiniteSet(Awaited(l)') /\ Awaited(l)' # {}
               /\ loads'[l] = [waiting |-> Cardinality(Awaited(l)'), next |-> loads'[l].next]
               /\ Lists(l)' => loads'[l].next = NoNodes
    <3>1. CASE l = n
      <4>1. h.files # {} BY DEF h
      <4> QED BY <1>4, <1>18, <1>20, <3>1, <4>1
    <3>2. CASE l # n BY <1>15, <1>16, <1>19, <3>2
    <3> QED BY <3>1, <3>2
  <2>3. IsFiniteSet(DOMAIN loads) /\ DOMAIN loads \subseteq Nat \ {0} BY DEF TreeInv, Counted
  <2> QED BY <1>15, <2>1, <2>2, <2>3 DEF Counted
<1>23. Covering'
  <2>1. ASSUME NEW b \in Range(outbox'), IsList(b)
        PROVE  /\ IsFiniteSet(b.files) /\ b.files \subseteq RemarkedFiles
               /\ faults = 0 =>
                    /\ \A m \in On' : m.what = "get" => m.arg \in b.files
                    /\ \A c \in Range(outbox') :
                         IsList(c) /\ b.load <= c.load => b.files \subseteq c.files
    <3>1. b \in Range(outbox) /\ b \in Rest BY <1>1, <2>1 DEF Rest
    <3>2. /\ IsFiniteSet(b.files) /\ b.files \subseteq RemarkedFiles
          /\ faults = 0 =>
               /\ \A m \in On : m.what = "get" => m.arg \in b.files
               /\ \A c \in Range(outbox) :
                    IsList(c) /\ b.load <= c.load => b.files \subseteq c.files
      BY <2>1, <3>1 DEF TreeInv, Covering
    <3>3. faults = 0 => h.files \subseteq b.files
      <4>1. n < b.load BY <1>1, <1>2, <2>1, <3>1 DEF Precedes, IsList
      <4> QED BY <1>1, <1>4, <2>1, <3>1, <4>1
    <3> QED BY <1>1, <1>5, <1>14, <3>2, <3>3
  <2>2. ASSUME faults = 0, NEW m \in On', NEW l \in DOMAIN loads, m.what = "get", m.load < l
        PROVE  Lists(l)' \/ m.arg \in Awaited(l)'
    <3>1. CASE l = n
      <4>1. m \in On BY <1>1, <1>5, <1>14, <2>2, <3>1
      <4> QED BY <1>4, <1>20, <2>2, <3>1, <4>1
    <3>2. CASE l # n /\ m \in Rest
      <4>1. Lists(l) \/ m.arg \in Awaited(l)
        BY <1>1, <2>2, <3>2 DEF TreeInv, Covering
      <4> QED BY <1>19, <3>2, <4>1
    <3>3. CASE l # n /\ m \in new
      <4>1. n < l BY <1>5, <2>2, <3>3
      <4>2. PICK o \in On : o.load = l BY <1>16 DEF Awaited
      <4>3. o \in Rest BY <1>1, <3>3, <4>2
      <4>4. o.what = "files"
        <5>1. Address(o) /\ Precedes(h, o) /\ l \in Nat /\ l # 0 BY <1>1, <4>2, <4>3 DEF TreeInv, Counted
        <5>2. o.what = "get" => o.load < n BY <1>1, <1>2, <5>1 DEF Precedes
        <5> QED BY <1>1, <4>1, <4>2, <5>1, <5>2 DEF Address
      <4>5. Lists(l) BY <4>2, <4>4 DEF Lists
      <4> QED BY <1>19, <3>3, <4>5
    <3> QED BY <1>14, <3>1, <3>2, <3>3
  <2> QED BY <1>15, <1>21, <2>1, <2>2 DEF Covering, IsList
<1>24. Contents'
  <2>1. \A b \in Range(outbox') : IsRemarks(b) => ReadFrom(b.remarks, b.arg, rows)
    BY <1>1 DEF TreeInv, Contents
  <2>2. ASSUME NEW l \in DOMAIN loads
        PROVE  /\ Fits(loads'[l].next, rows)
               /\ \A k \in DOMAIN loads'[l].next : k[2] \notin Awaited(l)'
    <3>1. CASE l = n
      <4>1. DOMAIN NoNodes = {} BY DEF NoNodes
      <4> QED BY <1>18, <3>1, <4>1 DEF Fits
    <3>2. CASE l # n BY <1>15, <1>19, <3>2 DEF TreeInv, Contents
    <3> QED BY <3>1, <3>2
  <2> QED BY <1>3, <1>15, <2>1, <2>2 DEF TreeInv, Contents, IsRemarks
<1>25. \A l \in DOMAIN loads : loads'[l].next = loads[l].next BY <1>15, <1>17, <1>18
<1>26. TreeInv' BY <1>13, <1>22, <1>23, <1>24 DEF TreeInv
<1> QED BY <1>2, <1>3, <1>13, <1>15, <1>17, <1>19, <1>20, <1>25, <1>26 DEF h, new

\* What the first answer may cause.
LEMMA ReceiveCases ==
  ASSUME TreeInv, Receive
  PROVE  LET h == Head(outbox) IN
         /\ outbox # <<>> /\ outbox' = Tail(outbox) /\ UNCHANGED <<rows, requests, faults>>
         /\ \/ /\ h.load = 0 /\ h.what # "show"
               /\ h.what \in {"ingest", "recompile"} => h.failed
               /\ UNCHANGED <<inbox, loads, tree, unseen>>
            \/ h.what = "recompile" /\ h.load = 0 /\ Show(h)
            \/ h.load = 0 /\ Refresh
            \/ /\ h.what = "files" /\ h.failed
               /\ loads' = Without(h.load) /\ unseen' = TRUE /\ UNCHANGED <<inbox, tree>>
            \/ IsList(h) /\ GotFiles(h)
            \/ /\ h.what = "get" /\ UNCHANGED inbox
               /\ \E next :
                    /\ Progress(h.load, next)
                    /\ \/ ~h.failed /\ next = Add(loads[h.load].next, h.remarks) /\ UNCHANGED unseen
                       \/ h.failed /\ next = loads[h.load].next /\ unseen' = (unseen \/ h.arg # None)
<1> DEFINE h == Head(outbox)
<1>1. outbox # <<>> /\ outbox' = Tail(outbox) /\ UNCHANGED <<rows, requests, faults>>
  BY DEF Receive
<1>2. Address(h) BY <1>1, FirstAnswer
<1>3. \/ h.failed /\ Failed(h)
      \/ ~h.failed /\ h.what \in {"ingest", "show"} /\ Refresh
      \/ ~h.failed /\ h.what = "recompile" /\ Show(h)
      \/ ~h.failed /\ h.what = "trace" /\ Ignored
      \/ ~h.failed /\ h.what = "files" /\ GotFiles(h)
      \/ ~h.failed /\ h.what = "get" /\ GotRemarks(h)
  BY DEF Receive
<1> HIDE DEF h
<1>4. CASE h.failed /\ Failed(h)
  <2>1. CASE h.what = "get"
    <3>1. GotNoRemarks(h) BY <1>4, <2>1 DEF Failed
    <3> QED BY <1>1, <1>4, <2>1, <3>1 DEF GotNoRemarks, h
  <2>2. CASE h.what = "files"
    <3>1. loads' = Without(h.load) /\ unseen' = TRUE /\ UNCHANGED <<inbox, tree>>
      BY <1>4, <2>2 DEF Failed
    <3> QED BY <1>1, <1>4, <2>2, <3>1 DEF h
  <2>3. CASE h.what = "show"
    <3>1. Refresh BY <1>4, <2>3 DEF Failed
    <3>2. h.load = 0 BY <1>2, <2>3 DEF Address
    <3> QED BY <1>1, <3>1, <3>2 DEF h
  <2>4. CASE h.what \notin {"get", "files", "show"}
    <3>1. Ignored BY <1>4, <2>4 DEF Failed
    <3>2. h.load = 0 BY <1>2, <2>4 DEF Address
    <3> QED BY <1>1, <1>4, <2>4, <3>1, <3>2 DEF h, Ignored
  <2> QED BY <2>1, <2>2, <2>3, <2>4
<1>5. CASE ~h.failed /\ h.what \in {"ingest", "show"} /\ Refresh
  <2>1. h.load = 0 BY <1>2, <1>5 DEF Address
  <2> QED BY <1>1, <1>5, <2>1 DEF h
<1>6. CASE ~h.failed /\ h.what = "recompile" /\ Show(h)
  <2>1. h.load = 0 BY <1>2, <1>6 DEF Address
  <2> QED BY <1>1, <1>6, <2>1 DEF h
<1>7. CASE ~h.failed /\ h.what = "trace" /\ Ignored
  <2>1. h.load = 0 BY <1>2, <1>7 DEF Address
  <2> QED BY <1>1, <1>7, <2>1 DEF h, Ignored
<1>8. CASE ~h.failed /\ h.what = "files" /\ GotFiles(h) BY <1>1, <1>8 DEF h, IsList
<1>9. CASE ~h.failed /\ h.what = "get" /\ GotRemarks(h)
  BY <1>1, <1>9 DEF h, GotRemarks
<1> QED BY <1>3, <1>4, <1>5, <1>6, <1>7, <1>8, <1>9

\* What a load has when the answer for one of its files has come.
LEMMA NextNodes ==
  ASSUME TreeInv, outbox # <<>>, Head(outbox).what = "get",
         NEW n, n = Head(outbox).load, NEW next,
         \/ ~Head(outbox).failed /\ next = Add(loads[n].next, Head(outbox).remarks)
         \/ Head(outbox).failed /\ next = loads[n].next
  PROVE  LET h == Head(outbox) IN
         /\ n \in DOMAIN loads /\ h.arg \in Awaited(n)
         /\ Fits(next, rows)
         /\ \A k \in DOMAIN next : k \in DOMAIN loads[n].next \/ k[2] = h.arg
         /\ \A r : Copies(next, r) = IF ~h.failed /\ r.loc.file = h.arg
                                       THEN CopiesOf(h.remarks, r)
                                       ELSE Copies(loads[n].next, r)
<1> DEFINE h == Head(outbox)
<1>1. h \in Range(outbox) /\ Address(h) /\ (n \in DOMAIN loads => h.arg \in Awaited(n))
  BY FirstAnswer
<1>2. n \in DOMAIN loads BY <1>1 DEF Address
<1>3. /\ Fits(loads[n].next, rows)
      /\ \A k \in DOMAIN loads[n].next : k[2] \notin Awaited(n)
      /\ IsRemarks(h) => ReadFrom(h.remarks, h.arg, rows)
  BY <1>1, <1>2 DEF TreeInv, Contents
<1> HIDE DEF h
<1>4. h.what = "get" BY DEF h
<1>5. CASE ~h.failed /\ next = Add(loads[n].next, h.remarks)
  <2>1. ReadFrom(h.remarks, h.arg, rows) BY <1>3, <1>4, <1>5 DEF IsRemarks
  <2>2. \A k \in DOMAIN loads[n].next : k[2] # h.arg BY <1>1, <1>2, <1>3
  <2>3. /\ Fits(next, rows)
        /\ \A k \in DOMAIN next : k \in DOMAIN loads[n].next \/ k[2] = h.arg
        /\ \A r : Copies(next, r) = IF r.loc.file = h.arg
                                       THEN CopiesOf(h.remarks, r)
                                       ELSE Copies(loads[n].next, r)
    BY <1>3, <1>5, <2>1, <2>2, Added
  <2> QED BY <1>1, <1>2, <1>5, <2>3 DEF h
<1>6. CASE h.failed /\ next = loads[n].next BY <1>1, <1>2, <1>3, <1>6 DEF h
<1> QED BY <1>5, <1>6 DEF h

\* The answer for a file is the last that a load waits for, or it is not.
LEMMA LastOfLoad ==
  ASSUME TreeInv, outbox # <<>>, Head(outbox).what = "get",
         NEW n \in DOMAIN loads, n = Head(outbox).load, loads[n].waiting = 1
  PROVE  Awaited(n) = {Head(outbox).arg} /\ \A m \in Rest : m.load # n
<1> DEFINE h == Head(outbox)
<1>1. IsFiniteSet(Awaited(n)) /\ Cardinality(Awaited(n)) = 1
  <2>1. /\ IsFiniteSet(Awaited(n))
        /\ loads[n] = [waiting |-> Cardinality(Awaited(n)), next |-> loads[n].next]
    BY DEF TreeInv, Counted
  <2> QED BY <2>1
<1>2. PICK x : Awaited(n) = {x} BY <1>1, FS_Singleton
<1>3. /\ h.arg \in Awaited(n)
      /\ {m.arg : m \in {m \in Rest : m.load = n}} = Awaited(n) \ {h.arg}
  BY FirstAnswer
<1>4. {m.arg : m \in {m \in Rest : m.load = n}} = {} BY <1>2, <1>3
<1> QED BY <1>2, <1>3, <1>4

-----------------------------------------------------------------------------
(* The invariant holds                                                     *)

LEMMA AskKeeps ==
  ASSUME TreeInv, NEW what \in {"ingest", "recompile", "trace"}, NEW path \in Paths,
         Ask(what, path)
  PROVE  /\ TreeInv' /\ Range(inbox') = Range(inbox) \cup {Request(what, 0, path)}
         /\ \A n \in DOMAIN loads : Awaited(n)' = Awaited(n) /\ Lists(n)' = Lists(n)
<1> DEFINE m == Request(what, 0, path)
<1>1. m.what = what /\ m.load = 0 /\ m.arg = path BY DEF Request
<1>2. /\ inbox' = Append(inbox, m) /\ outbox' = outbox /\ rows' = rows /\ loads' = loads
      /\ tree' = tree /\ faults' = faults /\ unseen' = unseen /\ Count
  BY DEF Ask
<1> HIDE DEF m
<1>3. \A b : Precedes(b, m) BY <1>1 DEF Precedes
<1>4. Queues' /\ Range(inbox') = Range(inbox) \cup {m} BY <1>2, <1>3, OneMore DEF TreeInv
<1>5. Address(m) BY <1>1 DEF Address
<1>6. Counters'
  <2>1. requests' \in 0..MaxRequests BY <1>2, TreeAssumption DEF TreeInv, Counters, Count
  <2> QED BY <1>2, <2>1 DEF TreeInv, Counters
<1> DEFINE new == {m}
<1>7. (\A b \in new : b.load = 0 /\ Address(b)) /\ Range(inbox') = Range(inbox) \cup new
  BY <1>1, <1>4, <1>5
<1>8. Taken BY <1>2 DEF Taken
<1> HIDE DEF new
<1>9. /\ TreeInv'
      /\ \A n \in DOMAIN loads : Awaited(n)' = Awaited(n) /\ Lists(n)' = Lists(n)
  BY <1>2, <1>4, <1>6, <1>7, <1>8, NoLoadKeeps
<1> QED BY <1>4, <1>9 DEF m

LEMMA DeletedKeeps ==
  ASSUME TreeInv, Deleted
  PROVE  TreeInv'
<1>1. Taken /\ Refresh /\ rows' = rows /\ faults' = faults /\ Count
  BY DEF Deleted, Taken
<1>2. Counters'
  <2>1. requests' \in 0..MaxRequests BY <1>1, TreeAssumption DEF TreeInv, Counters, Count
  <2> QED BY <1>1, <2>1 DEF TreeInv, Counters, Refresh
<1> QED BY <1>1, <1>2, NewLoad, RefreshKeeps

LEMMA Emptied ==
  ASSUME inbox = <<>>, outbox = <<>>, DOMAIN loads = {}, tree = NoNodes,
         IsABag(rows), IsFiniteSet(DOMAIN rows), Counters
  PROVE  TreeInv
<1>1. On = {} /\ Range(inbox) = {} /\ Range(outbox) = {} BY DEF On, Range
<1>2. Queues BY <1>1 DEF Queues, Ordered
<1>3. Counted BY <1>1, FS_EmptySet DEF Counted
<1>4. Covering BY <1>1 DEF Covering
<1>5. Contents BY <1>1 DEF Contents, Fits, NoNodes
<1> QED BY <1>2, <1>3, <1>4, <1>5 DEF TreeInv

LEMMA ReloadKeeps ==
  ASSUME TreeInv, Reload
  PROVE  TreeInv' /\ On' = {} /\ DOMAIN loads' = {} /\ tree' = NoNodes /\ unseen' = TRUE
<1>1. /\ inbox' = <<>> /\ outbox' = <<>> /\ DOMAIN loads' = {} /\ tree' = NoNodes
      /\ rows' = rows /\ unseen' = TRUE
  BY DEF Reload
<1>2. Counters'
  <2>1. requests' \in 0..MaxRequests BY TreeAssumption DEF TreeInv, Counters, Reload, Count
  <2>2. faults' = faults BY DEF Reload
  <2> QED BY <1>1, <2>1, <2>2 DEF TreeInv, Counters
<1>3. On' = {} /\ Range(inbox') = {} /\ Range(outbox') = {} BY <1>1 DEF On, Range
<1>4. Queues' BY <1>1, <1>3 DEF Queues, Ordered
<1>5. Counted' BY <1>1, <1>3, FS_EmptySet DEF Counted
<1>6. Covering' BY <1>1, <1>3 DEF Covering
<1>7. Contents' BY <1>1, <1>3 DEF TreeInv, Contents, Fits, NoNodes
<1> QED BY <1>1, <1>2, <1>3, <1>4, <1>5, <1>6, <1>7 DEF TreeInv

LEMMA ReceiveCounts ==
  ASSUME TreeInv, Receive
  PROVE  Counters'
<1> DEFINE h == Head(outbox)
<1>1. rows' = rows /\ requests' = requests /\ faults' = faults BY DEF Receive
<1>2. \/ unseen' = unseen \/ unseen' = TRUE \/ unseen' = FALSE
      \/ unseen' = (unseen \/ h.arg # None)
  BY ReceiveCases DEF Show, Refresh, GotFiles
<1>3. unseen \in BOOLEAN BY DEF TreeInv, Counters
<1> HIDE DEF h
<1>4. unseen' \in BOOLEAN BY <1>2, <1>3
<1> QED BY <1>1, <1>4 DEF TreeInv, Counters

\* An answer that belongs to no load.
LEMMA NoticeKeeps ==
  ASSUME TreeInv, outbox # <<>>, outbox' = Tail(outbox), Head(outbox).load = 0,
         \/ inbox' = inbox
         \/ inbox' = Append(inbox, Request("show", 0, Head(outbox).arg)),
         rows' = rows, loads' = loads, tree' = tree, Counters', faults' = faults
  PROVE  /\ TreeInv'
         /\ \A n \in DOMAIN loads : Awaited(n)' = Awaited(n) /\ Lists(n)' = Lists(n)
         /\ \A m \in Range(inbox') : m \in Range(inbox) \/ m = Request("show", 0, Head(outbox).arg)
<1>1. Taken BY DEF Taken
<1>2. CASE inbox' = inbox
  <2>1. Queues' BY <1>2, NoneMore DEF TreeInv
  <2> DEFINE new == {}
  <2>2. (\A b \in new : b.load = 0 /\ Address(b)) /\ Range(inbox') = Range(inbox) \cup new
    BY <1>2
  <2> HIDE DEF new
  <2>3. /\ TreeInv'
        /\ \A n \in DOMAIN loads : Awaited(n)' = Awaited(n) /\ Lists(n)' = Lists(n)
    BY <1>1, <2>1, <2>2, NoLoadKeeps
  <2> QED BY <1>2, <2>3
<1>3. CASE inbox' = Append(inbox, Request("show", 0, Head(outbox).arg))
  <2> DEFINE m == Request("show", 0, Head(outbox).arg)
             new == {m}
  <2>1. m.what = "show" /\ m.load = 0 BY DEF Request
  <2>2. inbox' = Append(inbox, m) BY <1>3
  <2> HIDE DEF m
  <2>3. \A b : Precedes(b, m) BY <2>1 DEF Precedes
  <2>4. Queues' /\ Range(inbox') = Range(inbox) \cup {m} BY <2>2, <2>3, OneMore DEF TreeInv
  <2>5. Address(m) BY <2>1 DEF Address
  <2>6. (\A b \in new : b.load = 0 /\ Address(b)) /\ Range(inbox') = Range(inbox) \cup new
    BY <2>1, <2>4, <2>5
  <2> HIDE DEF new
  <2>7. /\ TreeInv'
        /\ \A n \in DOMAIN loads : Awaited(n)' = Awaited(n) /\ Lists(n)' = Lists(n)
    BY <1>1, <2>4, <2>6, NoLoadKeeps
  <2> QED BY <2>4, <2>7 DEF m
<1> QED BY <1>2, <1>3

\* The last answer of a load: its list, when that failed or is empty, or the
\* remarks of the last file.
Finished(n) ==
  LET h == Head(outbox) IN
  /\ outbox # <<>> /\ outbox' = Tail(outbox) /\ inbox' = inbox /\ rows' = rows
  /\ h \in Range(outbox) /\ h.load = n /\ n \in DOMAIN loads /\ loads' = Without(n)
  /\ \A m \in Rest : m.load # n
  /\ \/ h.what = "files" /\ h.failed /\ unseen' = TRUE /\ tree' = tree
     \/ IsList(h) /\ h.files = {} /\ unseen' = unseen /\ tree' = NoNodes
     \/ /\ h.what = "get" /\ Awaited(n) = {h.arg}
        /\ unseen' = IF h.failed THEN unseen \/ h.arg # None ELSE unseen
        /\ \A r : Copies(tree', r) = IF ~h.failed /\ r.loc.file = h.arg
                                       THEN CopiesOf(h.remarks, r)
                                       ELSE Copies(loads[n].next, r)

\* An answer for a file that is not the last.
Gathered(n, next) ==
  LET h == Head(outbox) IN
  /\ outbox # <<>> /\ outbox' = Tail(outbox) /\ inbox' = inbox /\ rows' = rows
  /\ h \in Range(outbox) /\ h.what = "get" /\ h.load = n /\ n \in DOMAIN loads
  /\ loads[n].waiting # 1 /\ h.arg \in Awaited(n)
  /\ loads' = [loads EXCEPT ![n] = [waiting |-> @.waiting - 1, next |-> next]]
  /\ tree' = tree
  /\ unseen' = IF h.failed THEN unseen \/ h.arg # None ELSE unseen
  /\ Fits(next, rows)
  /\ \A k \in DOMAIN next : k \in DOMAIN loads[n].next \/ k[2] = h.arg
  /\ \A r : Copies(next, r) = IF ~h.failed /\ r.loc.file = h.arg
                                THEN CopiesOf(h.remarks, r)
                                ELSE Copies(loads[n].next, r)

\* The list of the files, when there are some.
Listed(n) ==
  LET h == Head(outbox) IN
  /\ outbox # <<>> /\ outbox' = Tail(outbox) /\ rows' = rows
  /\ IsList(h) /\ h.files # {} /\ h.load = n /\ GotFiles(h) /\ unseen' = unseen

\* An answer that belongs to no load and causes none.
Noticed ==
  LET h == Head(outbox) IN
  /\ outbox # <<>> /\ outbox' = Tail(outbox) /\ rows' = rows /\ h.load = 0
  /\ loads' = loads /\ tree' = tree /\ unseen' = unseen
  /\ \/ /\ inbox' = inbox /\ h.what # "show"
        /\ h.what \in {"ingest", "recompile"} => h.failed
     \/ h.what = "recompile" /\ inbox' = Append(inbox, Request("show", 0, h.arg))

LEMMA ReceiveEffects ==
  ASSUME TreeInv, Receive
  PROVE  /\ TreeInv' /\ rows' = rows /\ faults' = faults
         /\ \/ Noticed
            \/ Taken /\ Refresh
            \/ \E n \in DOMAIN loads : Finished(n)
            \/ \E n \in DOMAIN loads : Listed(n)
            \/ \E n \in DOMAIN loads, next \in {loads'[m].next : m \in DOMAIN loads} :
                 Gathered(n, next)
<1> DEFINE h == Head(outbox)
           n == h.load
<1>1. outbox # <<>> /\ outbox' = Tail(outbox) /\ rows' = rows /\ faults' = faults
  BY DEF Receive
<1>2. Counters' BY ReceiveCounts
<1>3. /\ h \in Range(outbox) /\ Address(h)
      /\ h.what = "files" => \A m \in Rest : m.load # h.load
  BY <1>1, FirstAnswer
<1>4. Fits(tree, rows) BY DEF TreeInv, Contents
<1>5. CASE /\ h.load = 0 /\ h.what # "show"
           /\ h.what \in {"ingest", "recompile"} => h.failed
           /\ UNCHANGED <<inbox, loads, tree, unseen>>
  <2>1. Noticed BY <1>1, <1>5 DEF Noticed
  <2>2. TreeInv' BY <1>1, <1>2, <1>5, NoticeKeeps
  <2> QED BY <1>1, <2>1, <2>2
<1>6. CASE h.what = "recompile" /\ h.load = 0 /\ Show(h)
  <2>1. Noticed BY <1>1, <1>6 DEF Noticed, Show
  <2>2. inbox' = Append(inbox, Request("show", 0, h.arg)) /\ loads' = loads /\ tree' = tree
    BY <1>6 DEF Show
  <2>3. TreeInv' BY <1>1, <1>2, <1>6, <2>2, NoticeKeeps
  <2> QED BY <1>1, <2>1, <2>3
<1>7. CASE h.load = 0 /\ Refresh
  <2>1. Taken BY <1>1, <1>7 DEF Taken
  <2>2. TreeInv' BY <1>1, <1>2, <1>7, <2>1, NewLoad, RefreshKeeps
  <2> QED BY <1>1, <1>7, <2>1, <2>2
<1>8. CASE /\ h.what = "files" /\ h.failed
           /\ loads' = Without(h.load) /\ unseen' = TRUE /\ UNCHANGED <<inbox, tree>>
  <2>1. n \in DOMAIN loads /\ \A m \in Rest : m.load # n BY <1>3, <1>8 DEF Address
  <2>2. Finished(n) BY <1>1, <1>3, <1>8, <2>1 DEF Finished
  <2>3. TreeInv' BY <1>1, <1>2, <1>4, <1>8, <2>1, FinishedKeeps
  <2> QED BY <1>1, <2>1, <2>2, <2>3
<1>9. CASE IsList(h) /\ GotFiles(h)
  <2>1. n \in DOMAIN loads /\ \A m \in Rest : m.load # n
    BY <1>3, <1>9 DEF Address, IsList
  <2>2. CASE h.files = {}
    <3>1. loads' = Without(n) /\ tree' = NoNodes /\ inbox' = inbox /\ unseen' = unseen
      BY <1>9, <2>2 DEF GotFiles
    <3>2. Finished(n) BY <1>1, <1>3, <1>9, <2>1, <2>2, <3>1 DEF Finished
    <3>3. Fits(tree', rows) BY <3>1 DEF Fits, NoNodes
    <3>4. TreeInv' BY <1>1, <1>2, <2>1, <3>1, <3>3, FinishedKeeps
    <3> QED BY <1>1, <2>1, <3>2, <3>4
  <2>3. CASE h.files # {}
    <3>1. Listed(n) BY <1>1, <1>9, <2>3 DEF Listed, GotFiles
    <3>2. TreeInv' BY <1>1, <1>2, <1>9, <2>3, ListedKeeps
    <3> QED BY <1>1, <2>1, <3>1, <3>2
  <2> QED BY <2>2, <2>3
<1>10. ASSUME h.what = "get", inbox' = inbox, NEW next,
              Progress(h.load, next),
              \/ ~h.failed /\ next = Add(loads[h.load].next, h.remarks) /\ unseen' = unseen
              \/ h.failed /\ next = loads[h.load].next /\ unseen' = (unseen \/ h.arg # None)
       PROVE /\ TreeInv'
             /\ \/ \E l \in DOMAIN loads : Finished(l)
                \/ \E l \in DOMAIN loads, k \in {loads'[m].next : m \in DOMAIN loads} :
                     Gathered(l, k)
  <2>1. /\ n \in DOMAIN loads /\ h.arg \in Awaited(n)
        /\ Fits(next, rows)
        /\ \A k \in DOMAIN next : k \in DOMAIN loads[n].next \/ k[2] = h.arg
        /\ \A r : Copies(next, r) = IF ~h.failed /\ r.loc.file = h.arg
                                      THEN CopiesOf(h.remarks, r)
                                      ELSE Copies(loads[n].next, r)
    BY <1>1, <1>10, NextNodes
  <2>2. unseen' = IF h.failed THEN unseen \/ h.arg # None ELSE unseen BY <1>10
  <2>3. CASE loads[n].waiting = 1
    <3>1. loads' = Without(n) /\ tree' = next BY <1>10, <2>3 DEF Progress
    <3>2. Awaited(n) = {h.arg} /\ \A m \in Rest : m.load # n
      BY <1>1, <1>10, <2>1, <2>3, LastOfLoad
    <3>3. Finished(n) BY <1>1, <1>3, <1>10, <2>1, <2>2, <3>1, <3>2 DEF Finished
    <3>4. TreeInv' BY <1>1, <1>2, <1>10, <2>1, <3>1, <3>2, FinishedKeeps
    <3> QED BY <2>1, <3>3, <3>4
  <2>4. CASE loads[n].waiting # 1
    <3>1. /\ loads' = [loads EXCEPT ![n] = [waiting |-> @.waiting - 1, next |-> next]]
          /\ tree' = tree
      BY <1>10, <2>4 DEF Progress
    <3>2. Gathered(n, next) BY <1>1, <1>3, <1>10, <2>1, <2>2, <2>4, <3>1 DEF Gathered
    <3>3. TreeInv' BY <1>1, <1>2, <1>10, <2>1, <2>4, <3>1, ProgressKeeps
    <3>4. loads'[n].next = next BY <2>1, <3>1
    <3> QED BY <2>1, <3>2, <3>3, <3>4
  <2> QED BY <2>3, <2>4
<1> QED BY <1>1, <1>5, <1>6, <1>7, <1>8, <1>9, <1>10, ReceiveCases

\* The inductive invariant holds in every reachable state: the two queues,
\* the counts of the loads and the nodes they gather agree.
THEOREM TreeInvariant == Spec => []TreeInv
<1>1. Init => TreeInv
  <2> SUFFICES ASSUME Init PROVE TreeInv OBVIOUS
  <2>1. inbox = <<>> /\ outbox = <<>> /\ DOMAIN loads = {} /\ tree = NoNodes BY DEF Init
  <2>2. IsABag(rows) /\ IsFiniteSet(DOMAIN rows)
    <3>1. rows = [r \in {} |-> 1] BY DEF Init, EmptyBag, SetToBag
    <3>2. DOMAIN rows = {} BY <3>1
    <3>3. rows \in [DOMAIN rows -> {n \in Nat : n > 0}] BY <3>1, <3>2
    <3> QED BY <3>2, <3>3, FS_EmptySet DEF IsABag
  <2>3. Counters
    <3>1. requests = 0 /\ faults = 0 /\ unseen \in BOOLEAN BY Zenon DEF Init
    <3> QED BY <3>1, TreeAssumption DEF Counters
  <2> QED BY <2>1, <2>2, <2>3, Emptied
<1>2. TreeInv /\ [Next]_vars => TreeInv'
  <2> SUFFICES ASSUME TreeInv, [Next]_vars PROVE TreeInv' OBVIOUS
  <2>1. ASSUME NEW what \in {"ingest", "recompile", "trace"}, NEW path \in Paths,
               Ask(what, path)
        PROVE  TreeInv'
    BY <2>1, AskKeeps
  <2>2. CASE Deleted BY <2>2, DeletedKeeps
  <2>3. CASE Reload BY <2>3, ReloadKeeps
  <2>4. CASE Receive BY <2>4, ReceiveEffects
  <2>5. CASE Sidecar BY <2>5, SidecarServes, ServedKeeps
  <2>6. CASE UNCHANGED vars
    <3>1. /\ rows' = rows /\ inbox' = inbox /\ outbox' = outbox /\ loads' = loads
          /\ tree' = tree /\ requests' = requests /\ faults' = faults /\ unseen' = unseen
      BY <2>6 DEF vars, extension
    <3>2. Queues' BY <3>1 DEF TreeInv, Queues, Ordered
    <3>3. On' = On /\ RemarkedFiles' = RemarkedFiles BY <3>1 DEF On, RemarkedFiles
    <3>4. \A n : Awaited(n)' = Awaited(n) /\ Lists(n)' = Lists(n) BY <3>3 DEF Awaited, Lists
    <3>5. Counted' BY <3>1, <3>3, <3>4 DEF TreeInv, Counted, Address
    <3>6. Covering' BY <3>1, <3>3, <3>4 DEF TreeInv, Covering, IsList
    <3>7. Contents' BY <3>1, <3>4 DEF TreeInv, Contents, IsRemarks
    <3>8. Counters' BY <3>1 DEF TreeInv, Counters
    <3> QED BY <3>2, <3>5, <3>6, <3>7, <3>8 DEF TreeInv
  <2> QED BY <2>1, <2>2, <2>3, <2>4, <2>5, <2>6 DEF Next
<1> QED BY <1>1, <1>2, PTL DEF Spec

\* What the invariant says of the types and of the nodes that are shown.
LEMMA BelongsFromInv ==
  ASSUME TreeInv
  PROVE  TreeBelongs
<1>1. IsABag(rows) /\ IsFiniteSet(DOMAIN rows) /\ Fits(tree, rows)
  BY DEF TreeInv, Contents
<1>2. \A m \in On : m.load \in DOMAIN loads \cup {0} BY DEF TreeInv, Counted, Address
<1>3. /\ \A n \in DOMAIN inbox : inbox[n].load \in DOMAIN loads \cup {0}
      /\ \A n \in DOMAIN outbox : outbox[n].load \in DOMAIN loads \cup {0}
  BY <1>2 DEF On, Range
<1>4. IsFiniteSet(RemarkedFiles \cup {None})
      /\ Cardinality(RemarkedFiles \cup {None}) <= Cardinality(RemarkedFiles) + 1
  <2>1. IsFiniteSet(RemarkedFiles) BY <1>1, FilesAreFinite
  <2>2. Cardinality(RemarkedFiles) \in Nat BY <2>1, FS_CardinalityType
  <2> QED BY <2>1, <2>2, FS_AddElement
<1>5. ASSUME NEW n \in DOMAIN loads
      PROVE  loads[n].waiting \in 1..(Cardinality(RemarkedFiles) + 1)
  <2>1. /\ IsFiniteSet(Awaited(n)) /\ Awaited(n) # {}
        /\ loads[n] = [waiting |-> Cardinality(Awaited(n)), next |-> loads[n].next]
    BY DEF TreeInv, Counted
  <2>2. \A m \in On : m.load = n => m.arg \in RemarkedFiles \cup {None}
    BY DEF TreeInv, Counted, Address
  <2>3. Awaited(n) \subseteq RemarkedFiles \cup {None} BY <2>2 DEF Awaited
  <2>4. Cardinality(Awaited(n)) <= Cardinality(RemarkedFiles \cup {None}) BY <1>4, <2>3, FS_Subset
  <2>5. /\ Cardinality(Awaited(n)) \in Nat /\ Cardinality(Awaited(n)) # 0
        /\ Cardinality(RemarkedFiles \cup {None}) \in Nat /\ Cardinality(RemarkedFiles) \in Nat
    <3>1. IsFiniteSet(RemarkedFiles) BY <1>1, FilesAreFinite
    <3> QED BY <1>4, <2>1, <3>1, FS_CardinalityType, FS_EmptySet
  <2>6. loads[n].waiting = Cardinality(Awaited(n)) BY <2>1
  <2> QED BY <1>4, <2>4, <2>5, <2>6
<1>6. \A k \in DOMAIN tree : IsABag(tree[k]) /\ tree[k] # EmptyBag
  <2>1. DOMAIN EmptyBag = {} BY DEF EmptyBag, SetToBag
  <2> QED BY <1>1, <2>1 DEF Fits
<1>7. \A k \in DOMAIN tree : \A r \in DOMAIN tree[k] :
        k = <<r.category, r.loc.file>> /\ BagIn(r, rows) /\ tree[k][r] <= rows[r]
  BY <1>1 DEF Fits, BagIn, BagToSet
<1> QED BY <1>1, <1>3, <1>5, <1>6, <1>7 DEF TreeBelongs, TypeOK, TreeInv, Counters

\* A node of the tree holds the remarks of its category and file, and none
\* more often than the store does (remarksPanel.ts:88-105).
THEOREM TreeShowsTheStore == Spec => []TreeBelongs
BY TreeInvariant, BelongsFromInv, PTL

-----------------------------------------------------------------------------
(* The tree catches up                                                     *)

LEMMA NoNodesShowNothing ==
  ASSUME NEW r
  PROVE  Copies(NoNodes, r) = 0
BY DEF Copies, CopiesOf, Node, NoNodes, EmptyBag, SetToBag

\* Nodes with all remarks of the store are the store, grouped.
LEMMA AllIsGrouped ==
  ASSUME IsABag(rows), NEW nodes, Fits(nodes, rows),
         \A r \in DOMAIN rows : r.loc.file # None => Copies(nodes, r) = rows[r]
  PROVE  nodes = Grouped
<1> DEFINE Under(r) == <<r.category, r.loc.file>>
           placed   == {r \in DOMAIN rows : r.loc.file # None}
           Of(k)    == {r \in placed : Under(r) = k}
<1>1. Grouped = [k \in {Under(r) : r \in placed} |-> [r \in Of(k) |-> rows[r]]]
  BY DEF Grouped, BagToSet
<1>2. DOMAIN EmptyBag = {} BY DEF EmptyBag, SetToBag
<1>3. \A r \in placed : Copies(nodes, r) = rows[r] /\ rows[r] > 0 BY BagTypes
<1>4. \A r : Copies(nodes, r) = CopiesOf(Node(nodes, Under(r)), r) BY DEF Copies
<1>5. ASSUME NEW k \in DOMAIN nodes
      PROVE  /\ nodes[k] = [r \in DOMAIN nodes[k] |-> nodes[k][r]] /\ DOMAIN nodes[k] # {}
             /\ \A r \in DOMAIN nodes[k] : r \in Of(k)
  <2>1. IsABag(nodes[k]) BY DEF Fits
  <2>2. nodes[k] = [r \in DOMAIN nodes[k] |-> nodes[k][r]] BY <2>1, BagTypes
  <2> QED BY <2>2 DEF Fits
<1>6. nodes = [k \in DOMAIN nodes |-> nodes[k]] BY DEF Fits
<1> HIDE DEF Under, placed
<1>7. ASSUME NEW r \in placed
      PROVE  Under(r) \in DOMAIN nodes /\ r \in DOMAIN nodes[Under(r)] /\ nodes[Under(r)][r] = rows[r]
  <2>1. CopiesOf(Node(nodes, Under(r)), r) = rows[r] /\ rows[r] > 0 BY <1>3, <1>4
  <2>2. Under(r) \in DOMAIN nodes BY <1>2, <2>1 DEF Node, CopiesOf
  <2> QED BY <2>1, <2>2 DEF Node, CopiesOf
<1>8. DOMAIN nodes = {Under(r) : r \in placed} BY <1>5, <1>7
<1>9. ASSUME NEW k \in DOMAIN nodes PROVE nodes[k] = [r \in Of(k) |-> rows[r]]
  <2>1. DOMAIN nodes[k] = Of(k) BY <1>5, <1>7
  <2>2. \A r \in Of(k) : nodes[k][r] = rows[r] BY <1>7
  <2>3. nodes[k] = [r \in DOMAIN nodes[k] |-> nodes[k][r]] BY <1>5
  <2> HIDE DEF Of
  <2> QED BY <2>1, <2>2, <2>3
<1> HIDE DEF Of
<1> QED BY <1>1, <1>6, <1>8, <1>9

\* What is pending stays so until the answer that causes it is taken.
LEMMA StillPending ==
  ASSUME TreeInv, outbox # <<>>, outbox' = Tail(outbox), Range(inbox) \subseteq Range(inbox'),
         Pending, Head(outbox).what # "show",
         Head(outbox).what \in {"ingest", "recompile"} => Head(outbox).failed
  PROVE  Pending'
<1>1. Range(outbox) = {Head(outbox)} \cup Range(outbox') BY FirstAnswer
<1>2. \A m \in On : m = Head(outbox) \/ m \in On' BY <1>1 DEF On
<1> QED BY <1>1, <1>2 DEF Pending

LEMMA StillDoomed ==
  ASSUME TreeInv, outbox # <<>>, outbox' = Tail(outbox), Doomed,
         Head(outbox).failed =>
           Head(outbox).what # "files" /\ (Head(outbox).what = "get" => Head(outbox).arg = None)
  PROVE  Doomed'
<1>1. Range(outbox) = {Head(outbox)} \cup Range(outbox') BY FirstAnswer
<1> QED BY <1>1 DEF Doomed

\* A load that is not touched stays what it is.
LEMMA StillCurrent ==
  ASSUME TreeInv, NEW n, Current(n), rows' = rows,
         n \in DOMAIN loads', DOMAIN loads' \subseteq DOMAIN loads,
         loads'[n].next = loads[n].next, Awaited(n)' = Awaited(n), Lists(n)' = Lists(n),
         \A a \in Range(outbox') : a.load = n => a \in Range(outbox)
  PROVE  Current(n)'
<1>1. RemarkedFiles' = RemarkedFiles /\ \A f : RowsOf(f)' = RowsOf(f)
  BY DEF RemarkedFiles, RowsOf
<1>2. \A r : Copies(loads'[n].next, r) = Copies(loads[n].next, r) OBVIOUS
<1>3. /\ \A m \in DOMAIN loads' : m <= n
      /\ \A a \in Range(outbox) : a.load = n =>
            /\ IsList(a) => a.files = RemarkedFiles
            /\ IsRemarks(a) => a.remarks = RowsOf(a.arg)
      /\ ~Lists(n) =>
            \A r \in DOMAIN rows : r.loc.file # None =>
              Copies(loads[n].next, r) = IF r.loc.file \in Awaited(n) THEN 0 ELSE rows[r]
  BY DEF Current
<1>4. ~Lists(n)' =>
        \A r \in DOMAIN rows' : r.loc.file # None =>
          Copies(loads'[n].next, r) = IF r.loc.file \in Awaited(n)' THEN 0 ELSE rows'[r]
  BY <1>2, <1>3
<1> QED BY <1>1, <1>3, <1>4 DEF Current, IsList, IsRemarks

\* A load that begins will show what is in the store.
LEMMA BegunIsCaught ==
  ASSUME TreeInv, Taken, Refresh, rows' = rows, Counters', faults' = faults
  PROVE  Caught'
<1>1. PICK n \in Nat \ {0} :
        /\ n \notin DOMAIN loads /\ \A m \in DOMAIN loads : m < n
        /\ DOMAIN loads' = DOMAIN loads \cup {n}
        /\ loads'[n] = [waiting |-> 1, next |-> NoNodes]
        /\ \A m \in DOMAIN loads : loads'[m] = loads[m]
        /\ Queues' /\ Range(inbox') = Range(inbox) \cup {Request("files", n, None)}
  BY NewLoad
<1>2. Lists(n)' BY <1>1, RefreshKeeps
<1>3. \A a \in Range(outbox') : a.load # n
  <2>1. \A a \in Range(outbox) : a.load \in DOMAIN loads \/ a.load = 0
    BY DEF TreeInv, Counted, Address, On
  <2> QED BY <1>1, <2>1, TakenParts
<1>4. \A m \in DOMAIN loads' : m <= n
  <2>1. DOMAIN loads \subseteq Nat BY DEF TreeInv, Counted
  <2> QED BY <1>1, <2>1
<1>5. Current(n)' BY <1>1, <1>2, <1>3, <1>4 DEF Current
<1> QED BY <1>1, <1>5 DEF Caught

\* An answer that is sent causes a refresh, or is what the newest load needs.
LEMMA ServedIsCaught ==
  ASSUME TreeInv, Caught, NEW failed \in BOOLEAN, NEW files, NEW remarks,
         Served(failed, files, remarks)
  PROVE  Caught'
<1> DEFINE h == Head(inbox)
           a == [what |-> h.what, load |-> h.load, arg |-> h.arg,
                 failed |-> failed, files |-> files, remarks |-> remarks]
<1>1. inbox # <<>> /\ Answer(failed, files, remarks) /\ loads' = loads /\ tree' = tree
  BY DEF Served, extension
<1>2. /\ Range(inbox) = {h} \cup Range(inbox')
      /\ Range(outbox') = Range(outbox) \cup {a}
      /\ \A n : Awaited(n)' = Awaited(n) /\ Lists(n)' = Lists(n)
  BY <1>1, AnswerSent DEF TreeInv
<1>3. /\ a.what = h.what /\ a.load = h.load /\ a.arg = h.arg
      /\ a.failed = failed /\ a.files = files /\ a.remarks = remarks
  OBVIOUS
<1> HIDE DEF a
<1>4. CASE unseen' = TRUE BY <1>4 DEF Caught
<1>5. CASE h.what \in {"ingest", "recompile"} /\ ~failed
  <2>1. Pending' BY <1>2, <1>3, <1>5 DEF Pending
  <2> QED BY <2>1 DEF Caught
<1>6. CASE rows' = rows /\ unseen' = unseen /\ unseen' # TRUE
  <2>1. CASE unseen BY <1>6, <2>1 DEF Caught
  <2>2. CASE Pending
    <3>1. \A m \in On : \E o \in On' : o.what = m.what BY <1>2, <1>3 DEF On
    <3>2. Pending' BY <1>2, <2>2, <3>1 DEF Pending
    <3> QED BY <3>2 DEF Caught
  <2>3. CASE Doomed
    <3>1. Doomed' BY <1>2, <2>3 DEF Doomed
    <3> QED BY <3>1 DEF Caught
  <2>4. CASE Shown
    <3>1. Shown' BY <1>1, <1>6, <2>4 DEF Shown, Grouped
    <3> QED BY <3>1 DEF Caught
  <2>5. ASSUME NEW n \in DOMAIN loads, Current(n) PROVE Caught'
    <3>1. RemarkedFiles' = RemarkedFiles /\ \A f : RowsOf(f)' = RowsOf(f)
      BY <1>6 DEF RemarkedFiles, RowsOf
    <3>2. IsList(a) => a.files = RemarkedFiles
      BY <1>3, <1>6 DEF Served, IsList, CutShort
    <3>3. IsRemarks(a) => a.remarks = RowsOf(a.arg)
      BY <1>3, <1>6 DEF Served, IsRemarks, CutShort
    <3>4. Current(n)' BY <1>1, <1>2, <1>6, <2>5, <3>1, <3>2, <3>3 DEF Current, IsList, IsRemarks
    <3> QED BY <1>1, <3>4 DEF Caught
  <2> QED BY <2>1, <2>2, <2>3, <2>4, <2>5 DEF Caught
<1> QED BY <1>4, <1>5, <1>6 DEF Served

LEMMA NoticedIsCaught ==
  ASSUME TreeInv, Caught, Noticed, Counters', faults' = faults
  PROVE  Caught'
<1> DEFINE h == Head(outbox)
<1>1. /\ outbox # <<>> /\ outbox' = Tail(outbox) /\ rows' = rows /\ h.load = 0
      /\ loads' = loads /\ tree' = tree /\ unseen' = unseen
      /\ \/ /\ inbox' = inbox /\ h.what # "show"
            /\ h.what \in {"ingest", "recompile"} => h.failed
         \/ h.what = "recompile" /\ inbox' = Append(inbox, Request("show", 0, h.arg))
  BY DEF Noticed
<1>2. Address(h) /\ Range(outbox) = {h} \cup Range(outbox') BY <1>1, FirstAnswer
<1>3. \A n \in DOMAIN loads : Awaited(n)' = Awaited(n) /\ Lists(n)' = Lists(n)
  BY <1>1, NoticeKeeps
<1>4. CASE unseen BY <1>1, <1>4 DEF Caught
<1>5. CASE Pending
  <2>1. CASE h.what = "recompile" /\ inbox' = Append(inbox, Request("show", 0, h.arg))
    <3> DEFINE m == Request("show", 0, h.arg)
    <3>1. m.what = "show" BY DEF Request
    <3> HIDE DEF m
    <3>2. m \in Range(inbox')
      <4>1. inbox' = Append(inbox, m) BY <2>1 DEF m
      <4> QED BY <4>1, Appended DEF TreeInv, Queues
    <3>3. Pending' BY <3>1, <3>2 DEF Pending, On
    <3> QED BY <3>3 DEF Caught
  <2>2. CASE /\ inbox' = inbox /\ h.what # "show"
             /\ h.what \in {"ingest", "recompile"} => h.failed
    <3>1. Pending' BY <1>1, <1>5, <2>2, StillPending
    <3> QED BY <3>1 DEF Caught
  <2> QED BY <1>1, <2>1, <2>2
<1>6. CASE Doomed
  <2>1. h.what \notin {"files", "get"}
    BY <1>1, <1>2 DEF Address, TreeInv, Counted
  <2>2. Doomed' BY <1>1, <1>6, <2>1, StillDoomed
  <2> QED BY <2>2 DEF Caught
<1>7. CASE Shown
  <2>1. Shown' BY <1>1, <1>7 DEF Shown, Grouped
  <2> QED BY <2>1 DEF Caught
<1>8. ASSUME NEW n \in DOMAIN loads, Current(n) PROVE Caught'
  <2>1. Current(n)' BY <1>1, <1>2, <1>3, <1>8, StillCurrent
  <2> QED BY <1>1, <2>1 DEF Caught
<1> QED BY <1>4, <1>5, <1>6, <1>7, <1>8 DEF Caught

\* Older loads have ended before the newest one is shown.
LEMMA OlderHaveEnded ==
  ASSUME TreeInv, NEW n, Finished(n), \A m \in DOMAIN loads : m <= n,
         Head(outbox).what = "files" => IsList(Head(outbox)) /\ RemarkedFiles = {}
  PROVE  DOMAIN loads' = {}
<1> DEFINE h == Head(outbox)
<1>1. /\ outbox # <<>> /\ h \in Range(outbox) /\ h.load = n /\ n \in DOMAIN loads
      /\ loads' = Without(n) /\ \A m \in Rest : m.load # n
      /\ h.what = "files" \/ h.what = "get"
  BY DEF Finished, IsList
<1>2. On = {h} \cup Rest /\ \A m \in Rest : Address(m) /\ Precedes(h, m)
  BY <1>1, FirstAnswer
<1>3. DOMAIN loads' = DOMAIN loads \ {n} BY <1>1 DEF Without
<1>4. DOMAIN loads \subseteq Nat \ {0} BY DEF TreeInv, Counted
<1>5. ASSUME NEW m \in DOMAIN loads, m # n PROVE FALSE
  <2>0. Awaited(m) # {} BY DEF TreeInv, Counted
  <2>1. PICK o \in On : o.load = m BY <2>0 DEF Awaited
  <2>2. o \in Rest BY <1>1, <1>2, <1>5, <2>1
  <2>3. m < n BY <1>1, <1>4, <1>5
  <2>4. o.what = "files" \/ o.what = "get" BY <1>2, <1>4, <2>1, <2>2 DEF Address
  <2>5. CASE h.what = "files"
    <3>1. RemarkedFiles = {} BY <2>5
    <3>2. o.what # "get" BY <1>2, <1>4, <2>1, <2>2, <3>1 DEF Address
    <3>3. h.load < o.load BY <1>2, <2>2, <2>4, <2>5, <3>2 DEF Precedes
    <3> QED BY <1>1, <1>4, <2>1, <2>3, <3>3
  <2>6. CASE h.what = "get"
    <3>1. h.load <= o.load BY <1>1, <1>2, <1>4, <2>1, <2>2, <2>4, <2>6 DEF Precedes
    <3> QED BY <1>1, <1>4, <2>1, <2>3, <3>1
  <2> QED BY <1>1, <2>5, <2>6
<1> QED BY <1>3, <1>5

\* The newest load shows the store when it ends; the end of another leaves it.
LEMMA FinishedIsCaught ==
  ASSUME TreeInv, TreeInv', Caught, NEW n, Finished(n)
  PROVE  Caught'
<1> DEFINE h == Head(outbox)
<1>1. /\ outbox # <<>> /\ outbox' = Tail(outbox) /\ inbox' = inbox /\ rows' = rows
      /\ h \in Range(outbox) /\ h.load = n /\ n \in DOMAIN loads /\ loads' = Without(n)
      /\ \A m \in Rest : m.load # n
  BY DEF Finished
<1>2. h.what = "files" \/ h.what = "get" BY DEF Finished, IsList
<1>3. \/ h.what = "files" /\ h.failed /\ unseen' = TRUE /\ tree' = tree
      \/ IsList(h) /\ h.files = {} /\ unseen' = unseen /\ tree' = NoNodes
      \/ /\ h.what = "get" /\ Awaited(n) = {h.arg}
         /\ unseen' = IF h.failed THEN unseen \/ h.arg # None ELSE unseen
         /\ \A r : Copies(tree', r) = IF ~h.failed /\ r.loc.file = h.arg
                                        THEN CopiesOf(h.remarks, r)
                                        ELSE Copies(loads[n].next, r)
  BY DEF Finished
<1>4. On = {h} \cup Rest BY <1>1, FirstAnswer
<1>5. On' = Rest /\ Range(outbox') \subseteq Range(outbox) BY <1>1, FirstAnswer DEF On, Rest
<1>6. DOMAIN loads' = DOMAIN loads \ {n} /\ \A l \in DOMAIN loads' : loads'[l] = loads[l]
  BY <1>1 DEF Without
<1>7. ASSUME NEW l \in DOMAIN loads' PROVE Awaited(l)' = Awaited(l) /\ Lists(l)' = Lists(l)
  <2>1. \A m : m.load = l => (m \in On' <=> m \in On) BY <1>1, <1>4, <1>5, <1>6
  <2>2. Awaited(l)' = {m.arg : m \in {m \in On' : m.load = l}} BY DEF Awaited
  <2>3. {m \in On' : m.load = l} = {m \in On : m.load = l} BY <2>1
  <2>4. Lists(l)' = Lists(l) BY <2>1 DEF Lists
  <2> QED BY <2>2, <2>3, <2>4 DEF Awaited
<1>8. Fits(tree', rows) /\ IsABag(rows) BY <1>1 DEF TreeInv, Contents
<1>9. CASE h.failed /\ ~(h.what = "get" /\ h.arg = None)
  <2>1. unseen' \in BOOLEAN BY DEF TreeInv, Counters
  <2>2. unseen' = TRUE BY <1>2, <1>3, <1>9, <2>1 DEF IsList
  <2> QED BY <2>2 DEF Caught
<1>10. CASE ~(h.failed /\ ~(h.what = "get" /\ h.arg = None))
  <2>1. unseen' = unseen BY <1>2, <1>3, <1>10 DEF IsList, TreeInv, Counters
  <2>2. CASE unseen BY <2>1, <2>2 DEF Caught
  <2>3. CASE Pending
    <3>1. Pending' BY <1>1, <1>2, <2>3, StillPending
    <3> QED BY <3>1 DEF Caught
  <2>4. CASE Doomed
    <3>1. Doomed' BY <1>1, <1>2, <1>10, <2>4, StillDoomed
    <3> QED BY <3>1 DEF Caught
  <2>5. ASSUME NEW l \in DOMAIN loads, Current(l), l # n PROVE Caught'
    <3>1. Current(l)' BY <1>1, <1>5, <1>6, <1>7, <2>5, StillCurrent
    <3> QED BY <1>6, <2>5, <3>1 DEF Caught
  <2>6. ASSUME Current(n) PROVE Caught'
    <3>1. \A m \in DOMAIN loads : m <= n BY <2>6 DEF Current
    <3>2. /\ IsList(h) => h.files = RemarkedFiles
          /\ IsRemarks(h) => h.remarks = RowsOf(h.arg)
      BY <1>1, <2>6 DEF Current
    <3>3. tree' = Grouped /\ (h.what = "files" => IsList(h) /\ RemarkedFiles = {})
      <4>1. CASE IsList(h) /\ h.files = {} /\ tree' = NoNodes
        <5>1. \A r \in DOMAIN rows : r.loc.file \in RemarkedFiles
          BY DEF RemarkedFiles, BagToSet
        <5>2. DOMAIN rows = {} BY <3>2, <4>1, <5>1
        <5> QED BY <1>8, <3>2, <4>1, <5>2, AllIsGrouped
      <4>2. CASE /\ h.what = "get" /\ Awaited(n) = {h.arg}
                 /\ \A r : Copies(tree', r) = IF ~h.failed /\ r.loc.file = h.arg
                                                THEN CopiesOf(h.remarks, r)
                                                ELSE Copies(loads[n].next, r)
        <5>1. ~Lists(n) BY <1>1, <1>4, <4>2 DEF Lists
        <5>2. ASSUME NEW r \in DOMAIN rows, r.loc.file # None
              PROVE  Copies(tree', r) = rows[r]
          <6>1. Copies(loads[n].next, r) = IF r.loc.file \in Awaited(n) THEN 0 ELSE rows[r]
            BY <2>6, <5>1, <5>2 DEF Current
          <6>2. CASE ~h.failed /\ r.loc.file = h.arg
            <7>1. h.remarks = RowsOf(h.arg) BY <3>2, <4>2, <6>2 DEF IsRemarks
            <7>2. CopiesOf(RowsOf(h.arg), r) = rows[r] BY <6>2 DEF CopiesOf, RowsOf
            <7> QED BY <4>2, <6>2, <7>1, <7>2
          <6>3. CASE ~(~h.failed /\ r.loc.file = h.arg)
            <7>1. r.loc.file # h.arg BY <1>10, <5>2, <6>3
            <7> QED BY <4>2, <6>1, <6>3, <7>1
          <6> QED BY <6>2, <6>3
        <5>3. tree' = Grouped BY <1>8, <5>2, AllIsGrouped
        <5> QED BY <4>2, <5>3
      <4>3. ~(h.what = "files" /\ h.failed) BY <1>10
      <4> QED BY <1>3, <4>1, <4>2, <4>3
    <3>4. DOMAIN loads' = {} BY <3>1, <3>3, OlderHaveEnded
    <3>5. Grouped' = Grouped BY <1>1 DEF Grouped
    <3>6. Shown' BY <3>3, <3>4, <3>5 DEF Shown
    <3> QED BY <3>6 DEF Caught
  <2> QED BY <1>1, <2>2, <2>3, <2>4, <2>5, <2>6 DEF Caught, Shown
<1> QED BY <1>9, <1>10

LEMMA ListedIsCaught ==
  ASSUME TreeInv, Caught, NEW n, Listed(n), Counters', faults' = faults
  PROVE  Caught'
<1> DEFINE h == Head(outbox)
<1>1. /\ outbox # <<>> /\ outbox' = Tail(outbox) /\ rows' = rows /\ unseen' = unseen
      /\ IsList(h) /\ h.files # {} /\ h.load = n /\ GotFiles(h)
  BY DEF Listed
<1>2. /\ n \in DOMAIN loads /\ Lists(n) /\ ~Lists(n)'
      /\ DOMAIN loads' = DOMAIN loads
      /\ \A l \in DOMAIN loads : loads'[l].next = loads[l].next
      /\ Awaited(n)' = h.files
      /\ \A l \in DOMAIN loads :
           l # n => Awaited(l)' = Awaited(l) /\ Lists(l)' = Lists(l)
      /\ Range(inbox') = Range(inbox) \cup {Request("get", n, f) : f \in h.files}
  BY <1>1, ListedKeeps
<1>3. /\ Range(outbox') \subseteq Range(outbox) /\ h \in Range(outbox)
      /\ \A a \in Range(outbox') : a.load # n
  <2>1. h.what = "files" BY <1>1 DEF IsList
  <2> QED BY <1>1, <2>1, FirstAnswer DEF Rest
<1>4. CASE unseen BY <1>1, <1>4 DEF Caught
<1>5. CASE Pending
  <2>1. h.what = "files" BY <1>1 DEF IsList
  <2>2. Range(inbox) \subseteq Range(inbox') BY <1>2
  <2>3. Pending' BY <1>1, <1>5, <2>1, <2>2, StillPending
  <2> QED BY <2>3 DEF Caught
<1>6. CASE Doomed
  <2>1. Doomed' BY <1>1, <1>6, StillDoomed DEF IsList
  <2> QED BY <2>1 DEF Caught
<1>7. ASSUME NEW l \in DOMAIN loads, Current(l), l # n PROVE Caught'
  <2>1. Current(l)' BY <1>1, <1>2, <1>3, <1>7, StillCurrent
  <2> QED BY <1>2, <2>1 DEF Caught
<1>8. ASSUME Current(n) PROVE Caught'
  <2>1. h.files = RemarkedFiles /\ \A m \in DOMAIN loads : m <= n
    BY <1>1, <1>3, <1>8 DEF Current
  <2>2. loads'[n].next = NoNodes BY <1>2 DEF TreeInv, Counted
  <2>3. \A r \in DOMAIN rows' : r.loc.file \in Awaited(n)'
    BY <1>1, <1>2, <2>1 DEF RemarkedFiles, BagToSet
  <2>4. \A r : Copies(loads'[n].next, r) = 0 BY <2>2, NoNodesShowNothing
  <2>5. Current(n)' BY <1>2, <1>3, <2>1, <2>3, <2>4 DEF Current
  <2> QED BY <1>2, <2>5 DEF Caught
<1> QED BY <1>2, <1>4, <1>5, <1>6, <1>7, <1>8 DEF Caught, Shown

LEMMA GatheredIsCaught ==
  ASSUME TreeInv, Caught, NEW n, NEW next, Gathered(n, next), Counters', faults' = faults
  PROVE  Caught'
<1> DEFINE h == Head(outbox)
<1>1. /\ outbox # <<>> /\ outbox' = Tail(outbox) /\ inbox' = inbox /\ rows' = rows
      /\ h \in Range(outbox) /\ h.what = "get" /\ h.load = n /\ n \in DOMAIN loads
      /\ loads[n].waiting # 1 /\ tree' = tree
      /\ loads' = [loads EXCEPT ![n] = [waiting |-> @.waiting - 1, next |-> next]]
      /\ unseen' = IF h.failed THEN unseen \/ h.arg # None ELSE unseen
      /\ Fits(next, rows)
      /\ \A k \in DOMAIN next : k \in DOMAIN loads[n].next \/ k[2] = h.arg
      /\ \A r : Copies(next, r) = IF ~h.failed /\ r.loc.file = h.arg
                                    THEN CopiesOf(h.remarks, r)
                                    ELSE Copies(loads[n].next, r)
  BY DEF Gathered
<1>2. /\ ~Lists(n)
      /\ \A l \in DOMAIN loads :
           /\ Awaited(l)' = IF l = n THEN Awaited(n) \ {h.arg} ELSE Awaited(l)
           /\ Lists(l)' = Lists(l)
  BY <1>1, ProgressKeeps
<1>3. /\ DOMAIN loads' = DOMAIN loads /\ loads'[n].next = next
      /\ \A l \in DOMAIN loads : l # n => loads'[l] = loads[l]
  BY <1>1
<1>4. Range(outbox') \subseteq Range(outbox) BY <1>1, FirstAnswer
<1>5. CASE h.failed /\ h.arg # None
  <2>1. unseen' = (unseen \/ h.arg # None) /\ unseen \in BOOLEAN
    BY <1>1, <1>5 DEF TreeInv, Counters
  <2>2. unseen' BY <1>5, <2>1
  <2> QED BY <2>2 DEF Caught
<1>6. CASE ~(h.failed /\ h.arg # None)
  <2>1. unseen' = unseen BY <1>1, <1>6 DEF TreeInv, Counters
  <2>2. CASE unseen BY <2>1, <2>2 DEF Caught
  <2>3. CASE Pending
    <3>1. Pending' BY <1>1, <2>3, StillPending
    <3> QED BY <3>1 DEF Caught
  <2>4. CASE Doomed
    <3>1. Doomed' BY <1>1, <1>6, <2>4, StillDoomed
    <3> QED BY <3>1 DEF Caught
  <2>5. ASSUME NEW l \in DOMAIN loads, Current(l), l # n PROVE Caught'
    <3>1. Current(l)' BY <1>1, <1>2, <1>3, <1>4, <2>5, StillCurrent
    <3> QED BY <1>3, <3>1 DEF Caught
  <2>6. ASSUME Current(n) PROVE Caught'
    <3>1. /\ \A m \in DOMAIN loads : m <= n
          /\ \A a \in Range(outbox) : a.load = n =>
               /\ IsList(a) => a.files = RemarkedFiles
               /\ IsRemarks(a) => a.remarks = RowsOf(a.arg)
      BY <2>6 DEF Current
    <3>2. ASSUME NEW r \in DOMAIN rows, r.loc.file # None
          PROVE  Copies(next, r) = IF r.loc.file \in Awaited(n) \ {h.arg} THEN 0 ELSE rows[r]
      <4>1. Copies(loads[n].next, r) = IF r.loc.file \in Awaited(n) THEN 0 ELSE rows[r]
        BY <1>2, <2>6, <3>2 DEF Current
      <4>2. CASE ~h.failed /\ r.loc.file = h.arg
        <5>1. h.remarks = RowsOf(h.arg) BY <1>1, <3>1, <4>2 DEF IsRemarks
        <5>2. CopiesOf(RowsOf(h.arg), r) = rows[r] BY <4>2 DEF CopiesOf, RowsOf
        <5> QED BY <1>1, <4>2, <5>1, <5>2
      <4>3. CASE ~(~h.failed /\ r.loc.file = h.arg)
        <5>1. r.loc.file # h.arg BY <1>6, <3>2, <4>3
        <5> QED BY <1>1, <4>1, <4>3, <5>1
      <4> QED BY <4>2, <4>3
    <3>3. Awaited(n)' = Awaited(n) \ {h.arg} BY <1>1, <1>2
    <3>4. \A r \in DOMAIN rows' : r.loc.file # None =>
            Copies(loads'[n].next, r) = IF r.loc.file \in Awaited(n)' THEN 0 ELSE rows'[r]
      BY <1>1, <1>3, <3>2, <3>3
    <3>5. RemarkedFiles' = RemarkedFiles /\ \A f : RowsOf(f)' = RowsOf(f)
      BY <1>1 DEF RemarkedFiles, RowsOf
    <3>6. Current(n)'
      BY <1>1, <1>3, <1>4, <3>1, <3>4, <3>5 DEF Current, IsList, IsRemarks
    <3> QED BY <1>1, <1>3, <3>6 DEF Caught
  <2> QED BY <1>1, <2>2, <2>3, <2>4, <2>5, <2>6 DEF Caught, Shown
<1> QED BY <1>5, <1>6

\* Whatever has happened is seen by a load that is to come or is the newest,
\* or the tree shows it.
THEOREM ChangesAreCaught == Spec => []Caught
<1>1. Init => Caught
  <2> SUFFICES ASSUME Init PROVE Caught OBVIOUS
  <2>1. DOMAIN loads = {} /\ tree = NoNodes /\ rows = EmptyBag BY DEF Init
  <2>2. DOMAIN rows = {} /\ IsABag(rows)
    <3>1. rows = [r \in {} |-> 1] BY <2>1 DEF EmptyBag, SetToBag
    <3>2. DOMAIN rows = {} BY <3>1
    <3>3. rows \in [DOMAIN rows -> {n \in Nat : n > 0}] BY <3>1, <3>2
    <3> QED BY <3>2, <3>3 DEF IsABag
  <2>3. Fits(tree, rows) BY <2>1 DEF Fits, NoNodes
  <2>4. tree = Grouped BY <2>2, <2>3, AllIsGrouped
  <2> QED BY <2>1, <2>4 DEF Caught, Shown
<1>2. TreeInv /\ Caught /\ TreeInv' /\ [Next]_vars => Caught'
  <2> SUFFICES ASSUME TreeInv, Caught, TreeInv', [Next]_vars PROVE Caught' OBVIOUS
  <2>0. Counters' BY DEF TreeInv
  <2>1. ASSUME NEW what \in {"ingest", "recompile", "trace"}, NEW path \in Paths,
               Ask(what, path)
        PROVE  Caught'
    <3>1. /\ outbox' = outbox /\ rows' = rows /\ loads' = loads /\ tree' = tree
          /\ unseen' = unseen
      BY <2>1 DEF Ask
    <3>2. /\ Range(inbox) \subseteq Range(inbox')
          /\ \A n \in DOMAIN loads : Awaited(n)' = Awaited(n) /\ Lists(n)' = Lists(n)
      BY <2>1, AskKeeps
    <3>3. Pending => Pending' BY <3>1, <3>2 DEF Pending, On
    <3>4. Doomed => Doomed' BY <3>1 DEF Doomed
    <3>5. Shown => Shown' BY <3>1 DEF Shown, Grouped
    <3>6. \A n \in DOMAIN loads : Current(n) => Current(n)' BY <3>1, <3>2, StillCurrent
    <3> QED BY <3>1, <3>3, <3>4, <3>5, <3>6 DEF Caught
  <2>2. CASE Deleted
    <3>1. Taken /\ Refresh /\ rows' = rows /\ faults' = faults BY <2>2 DEF Deleted, Taken
    <3> QED BY <2>0, <3>1, BegunIsCaught
  <2>3. CASE Reload BY <2>3 DEF Reload, Caught
  <2>4. CASE Receive
    <3>1. rows' = rows /\ faults' = faults BY <2>4, ReceiveEffects
    <3>2. CASE Noticed BY <2>0, <3>1, <3>2, NoticedIsCaught
    <3>3. CASE Taken /\ Refresh BY <2>0, <3>1, <3>3, BegunIsCaught
    <3>4. CASE \E n \in DOMAIN loads : Finished(n) BY <3>4, FinishedIsCaught
    <3>5. CASE \E n \in DOMAIN loads : Listed(n) BY <2>0, <3>1, <3>5, ListedIsCaught
    <3>6. CASE \E n \in DOMAIN loads, next \in {loads'[m].next : m \in DOMAIN loads} :
                 Gathered(n, next)
      BY <2>0, <3>1, <3>6, GatheredIsCaught
    <3> QED BY <2>4, <3>2, <3>3, <3>4, <3>5, <3>6, ReceiveEffects
  <2>5. CASE Sidecar BY <2>5, SidecarServes, ServedIsCaught
  <2>6. CASE UNCHANGED vars
    <3>1. /\ rows' = rows /\ inbox' = inbox /\ outbox' = outbox /\ loads' = loads
          /\ tree' = tree /\ unseen' = unseen
      BY <2>6 DEF vars, extension
    <3>2. On' = On BY <3>1 DEF On
    <3>3. \A n : Awaited(n)' = Awaited(n) /\ Lists(n)' = Lists(n) BY <3>2 DEF Awaited, Lists
    <3>4. Pending => Pending' BY <3>1, <3>2 DEF Pending
    <3>5. Doomed => Doomed' BY <3>1 DEF Doomed
    <3>6. Shown => Shown' BY <3>1 DEF Shown, Grouped
    <3>7. \A n \in DOMAIN loads : Current(n) => Current(n)' BY <3>1, <3>3, StillCurrent
    <3> QED BY <3>1, <3>4, <3>5, <3>6, <3>7 DEF Caught
  <2> QED BY <2>1, <2>2, <2>3, <2>4, <2>5, <2>6 DEF Next
<1> QED BY <1>1, <1>2, TreeInvariant, PTL DEF Spec

\* With nothing on its way, the tree shows the store: no overlap of loads and
\* ingestions leaves it behind (remarksPanel.ts:80-106, watcher.ts:45,
\* extension.ts:244).
THEOREM TreeCatchesStore == Spec => []TreeIsStored
<1>1. TreeInv /\ Caught => TreeIsStored
  <2> SUFFICES ASSUME TreeInv, Caught, inbox = <<>>, outbox = <<>>, ~unseen
               PROVE  tree = Grouped
    BY DEF TreeIsStored
  <2>1. On = {} /\ Range(outbox) = {} BY DEF On, Range
  <2>2. ~Pending /\ ~Doomed BY <2>1 DEF Pending, Doomed
  <2>3. \A n \in DOMAIN loads : Awaited(n) # {} BY DEF TreeInv, Counted
  <2>4. DOMAIN loads = {} BY <2>1, <2>3 DEF Awaited
  <2> QED BY <2>2, <2>4 DEF Caught, Shown
<1> QED BY <1>1, TreeInvariant, ChangesAreCaught, PTL

-----------------------------------------------------------------------------
(* The tree never regresses                                                *)

\* No load has two messages of one content.
LEMMA Alone ==
  ASSUME TreeInv, NEW a \in Range(outbox), a.load # 0
  PROVE  /\ a.what = "files" \/ a.what = "get"
         /\ \A b \in Range(outbox) : b.load = a.load /\ b.what = a.what /\ b.arg = a.arg => b = a
         /\ \A m \in On : m.load = a.load => m.what = a.what
         /\ \A m \in Range(inbox) : m.load = a.load => m.what = "get" /\ m.arg # a.arg
<1>1. \A m \in On : Address(m) /\ m.load \in Nat BY DEF TreeInv, Counted, Address
<1>2. /\ a \in On /\ (a.what = "files" \/ a.what = "get")
      /\ \A b \in Range(outbox) : b \in On /\ (b.load = a.load => b.what = "files" \/ b.what = "get")
      /\ \A b \in Range(inbox) : b \in On /\ (b.load = a.load => b.what = "files" \/ b.what = "get")
      /\ a.what = "files" => a.arg = None
  BY <1>1 DEF On, Address
<1>3. \A b \in Range(outbox) : b = a \/ Precedes(a, b) \/ Precedes(b, a)
  <2> SUFFICES ASSUME NEW b \in Range(outbox) PROVE b = a \/ Precedes(a, b) \/ Precedes(b, a)
    OBVIOUS
  <2>1. DOMAIN outbox = 1..Len(outbox) /\ Len(outbox) \in Nat BY DEF TreeInv, Queues
  <2>2. PICK i \in DOMAIN outbox : outbox[i] = a BY DEF Range
  <2>3. PICK j \in DOMAIN outbox : outbox[j] = b BY DEF Range
  <2>4. i = j \/ i < j \/ j < i BY <2>1
  <2> QED BY <2>2, <2>3, <2>4 DEF TreeInv, Queues, Ordered
<1>4. \A b \in Range(inbox) : Precedes(a, b) BY DEF TreeInv, Queues
<1>5. \A b \in Range(outbox) : b.load = a.load => b.what = a.what
  BY <1>1, <1>2, <1>3 DEF Precedes
<1>6. \A b \in Range(outbox) : b.load = a.load /\ b.what = a.what /\ b.arg = a.arg => b = a
  BY <1>1, <1>2, <1>3 DEF Precedes
<1>7. \A m \in Range(inbox) : m.load = a.load => m.what = a.what /\ m.what = "get" /\ m.arg # a.arg
  BY <1>1, <1>2, <1>4 DEF Precedes
<1> QED BY <1>2, <1>5, <1>6, <1>7 DEF On

\* What load n will show of r is what the message for it holds, or the store,
\* or the nodes that it has gathered.
LEMMA ShowsAsRead ==
  TreeInv => AsRead
<1> SUFFICES ASSUME TreeInv, NEW n \in DOMAIN loads, NEW r, r.loc.file # None
             PROVE  /\ \A a \in Range(outbox) : a.load = n =>
                         /\ a.what = "files" =>
                              Shows(n, r) = IF r.loc.file \in a.files THEN CopiesOf(rows, r) ELSE 0
                         /\ a.what = "get" /\ a.arg = r.loc.file =>
                              Shows(n, r) = CopiesOf(a.remarks, r)
                    /\ \A m \in Range(inbox) :
                         m.load = n /\ (m.what = "files" \/ m.arg = r.loc.file) =>
                           Shows(n, r) = CopiesOf(rows, r)
                    /\ ~Lists(n) /\ r.loc.file \notin Awaited(n) =>
                         Shows(n, r) = Copies(loads[n].next, r)
  BY DEF AsRead
<1> DEFINE f == r.loc.file
<1>1. n # 0 BY DEF TreeInv, Counted
<1>2. ASSUME NEW a \in Range(outbox), a.load = n, a.what = "files"
      PROVE  Shows(n, r) = IF f \in a.files THEN CopiesOf(rows, r) ELSE 0
  <2>1. \A b \in Range(outbox) : b.load = n /\ b.what = "files" => b = a
    <3>1. \A b \in Range(outbox) : b.load = n /\ b.what = "files" => b.arg = None
      BY <1>1 DEF TreeInv, Counted, Address, On
    <3> QED BY <1>1, <1>2, <3>1, Alone
  <2>2. ListOf(n) = a BY <1>2, <2>1 DEF ListOf
  <2> QED BY <1>2, <2>2 DEF Shows
<1>3. ASSUME NEW a \in Range(outbox), a.load = n, a.what = "get", a.arg = f
      PROVE  Shows(n, r) = CopiesOf(a.remarks, r)
  <2>1. ~ \E b \in Range(outbox) : b.what = "files" /\ b.load = n
    BY <1>1, <1>3, Alone DEF On
  <2>2. \A b \in Range(outbox) : b.what = "get" /\ b.load = n /\ b.arg = f => b = a
    BY <1>1, <1>3, Alone
  <2>3. RemarksOf(n, f) = a BY <1>3, <2>2 DEF RemarksOf
  <2> QED BY <1>3, <2>1, <2>3 DEF Shows
<1>4. ASSUME NEW m \in Range(inbox), m.load = n, m.what = "files" \/ m.arg = f
      PROVE  Shows(n, r) = CopiesOf(rows, r)
  <2>1. \A a \in Range(outbox) : a.load = n => m.what = "get" /\ m.arg # a.arg /\ m.what = a.what
    BY <1>1, <1>4, Alone DEF On
  <2>2. ~ \E a \in Range(outbox) : a.what = "files" /\ a.load = n BY <2>1
  <2>3. ~ \E a \in Range(outbox) : a.what = "get" /\ a.load = n /\ a.arg = f BY <1>4, <2>1
  <2> QED BY <1>4, <2>2, <2>3 DEF Shows
<1>5. ASSUME ~Lists(n), f \notin Awaited(n) PROVE Shows(n, r) = Copies(loads[n].next, r)
  <2>1. \A m \in On : m.load = n => m.what # "files" /\ m.arg # f BY <1>5 DEF Lists, Awaited
  <2> QED BY <2>1 DEF Shows, On
<1> QED BY <1>2, <1>3, <1>4, <1>5

LEMMA EachIsRead ==
  TreeInv => Ways
<1> SUFFICES ASSUME TreeInv, NEW n \in DOMAIN loads, NEW r, r.loc.file # None
             PROVE  \/ \E a \in Range(outbox) :
                         a.load = n /\ (a.what = "files" \/ (a.what = "get" /\ a.arg = r.loc.file))
                    \/ \E m \in Range(inbox) :
                         m.load = n /\ (m.what = "files" \/ m.arg = r.loc.file)
                    \/ ~Lists(n) /\ r.loc.file \notin Awaited(n)
  BY DEF Ways
<1>1. n # 0 BY DEF TreeInv, Counted
<1>2. \A m \in On : m.load = n /\ m.arg = r.loc.file => m.what = "get"
  BY <1>1 DEF TreeInv, Counted, Address
<1> QED BY <1>2 DEF Lists, Awaited, On

LEMMA ReadNext == TreeInv' => AsRead' /\ Ways'
BY ShowsAsRead, EachIsRead, PTL

\* A load whose messages and nodes stay will show what it would of a remark.
LEMMA SameShows ==
  ASSUME TreeInv, TreeInv', NEW n \in DOMAIN loads, n \in DOMAIN loads',
         loads'[n].next = loads[n].next, NEW r, r.loc.file # None,
         CopiesOf(rows', r) = CopiesOf(rows, r),
         \A m : m.load = n /\ (m.what = "files" \/ m.arg = r.loc.file) =>
           /\ m \in Range(outbox') <=> m \in Range(outbox)
           /\ m \in Range(inbox') <=> m \in Range(inbox)
  PROVE  Shows(n, r)' = Shows(n, r)
<1> DEFINE f == r.loc.file
<1>1. AsRead' BY ReadNext
<1>2. AsRead /\ Ways BY ShowsAsRead, EachIsRead
<1>3. ASSUME NEW a \in Range(outbox), a.load = n, a.what = "files"
      PROVE  Shows(n, r)' = Shows(n, r)
  <2>1. Shows(n, r) = IF f \in a.files THEN CopiesOf(rows, r) ELSE 0 BY <1>2, <1>3 DEF AsRead
  <2>2. a \in Range(outbox') BY <1>3
  <2>3. Shows(n, r)' = IF f \in a.files THEN CopiesOf(rows', r) ELSE 0
    BY <1>1, <1>3, <2>2 DEF AsRead
  <2> QED BY <2>1, <2>3
<1>4. ASSUME NEW a \in Range(outbox), a.load = n, a.what = "get", a.arg = f
      PROVE  Shows(n, r)' = Shows(n, r)
  <2>1. Shows(n, r) = CopiesOf(a.remarks, r) BY <1>2, <1>4 DEF AsRead
  <2>2. a \in Range(outbox') BY <1>4
  <2>3. Shows(n, r)' = CopiesOf(a.remarks, r) BY <1>1, <1>4, <2>2 DEF AsRead
  <2> QED BY <2>1, <2>3
<1>5. ASSUME NEW m \in Range(inbox), m.load = n, m.what = "files" \/ m.arg = f
      PROVE  Shows(n, r)' = Shows(n, r)
  <2>1. Shows(n, r) = CopiesOf(rows, r) BY <1>2, <1>5 DEF AsRead
  <2>2. m \in Range(inbox') BY <1>5
  <2>3. Shows(n, r)' = CopiesOf(rows', r) BY <1>1, <1>5, <2>2 DEF AsRead
  <2> QED BY <2>1, <2>3
<1>6. ASSUME ~Lists(n), f \notin Awaited(n) PROVE Shows(n, r)' = Shows(n, r)
  <2>1. \A m : m.load = n /\ (m.what = "files" \/ m.arg = f) => (m \in On' <=> m \in On)
    BY DEF On
  <2>2. ~Lists(n)' BY <1>6, <2>1 DEF Lists
  <2>3. Awaited(n)' = {m.arg : m \in {m \in On' : m.load = n}} BY DEF Awaited
  <2>4. f \notin Awaited(n)' BY <1>6, <2>1, <2>3 DEF Awaited
  <2>5. Shows(n, r) = Copies(loads[n].next, r) BY <1>2, <1>6 DEF AsRead
  <2>6. Shows(n, r)' = Copies(loads'[n].next, r)
    <3>1. /\ n \in DOMAIN loads' /\ r.loc.file # None /\ ~Lists(n)'
          /\ r.loc.file \notin Awaited(n)'
      BY <2>2, <2>4
    <3> HIDE DEF f
    <3>2. Shows(n, r)' = Copies(loads[n].next, r)' BY <1>1, <3>1 DEF AsRead
    <3> QED BY <3>2
  <2> QED BY <2>5, <2>6
<1> QED BY <1>2, <1>3, <1>4, <1>5, <1>6 DEF Ways

\* Load n has yet to read r from the store.
Open(n, r) ==
  \/ \E a \in Range(outbox) : a.load = n /\ a.what = "files" /\ r.loc.file \in a.files
  \/ \E m \in Range(inbox) : m.load = n /\ (m.what = "files" \/ m.arg = r.loc.file)

\* Newer loads read later.
LEMMA NewerIsOpen ==
  ASSUME TreeInv, faults = 0, ~Doomed, NEW m \in DOMAIN loads, NEW n \in DOMAIN loads, m < n,
         NEW r, r.loc.file # None, Open(m, r)
  PROVE  Open(n, r)
<1> DEFINE f == r.loc.file
<1>1. m \in Nat \ {0} /\ n \in Nat \ {0} BY DEF TreeInv, Counted
<1>2. \A o \in On : /\ o.load = m \/ o.load = n => o.what = "files" \/ o.what = "get"
                    /\ o.arg = f /\ o.load # 0 => o.what = "get"
  BY <1>1 DEF TreeInv, Counted, Address
<1>3. /\ \A a \in Range(outbox), b \in Range(inbox) : Precedes(a, b)
      /\ \A a, b \in Range(outbox) : a = b \/ Precedes(a, b) \/ Precedes(b, a)
      /\ \A a, b \in Range(inbox) : a = b \/ Precedes(a, b) \/ Precedes(b, a)
  <2>1. /\ DOMAIN outbox = 1..Len(outbox) /\ Len(outbox) \in Nat
        /\ DOMAIN inbox = 1..Len(inbox) /\ Len(inbox) \in Nat
    BY DEF TreeInv, Queues
  <2>2. \A i, j \in DOMAIN outbox : i = j \/ i < j \/ j < i BY <2>1
  <2>3. \A i, j \in DOMAIN inbox : i = j \/ i < j \/ j < i BY <2>1
  <2>4. \A a, b \in Range(outbox) : a = b \/ Precedes(a, b) \/ Precedes(b, a)
    BY <2>2 DEF TreeInv, Queues, Ordered, Range
  <2>5. \A a, b \in Range(inbox) : a = b \/ Precedes(a, b) \/ Precedes(b, a)
    BY <2>3 DEF TreeInv, Queues, Ordered, Range
  <2> QED BY <2>4, <2>5 DEF TreeInv, Queues
<1>4. PICK o \in On : o.load = n
  <2>1. Awaited(n) # {} BY DEF TreeInv, Counted
  <2> QED BY <2>1 DEF Awaited
<1>5. ASSUME NEW l \in On, l.what = "files", l.load = m PROVE o.what = "files"
  <2>1. l = o \/ Precedes(l, o) \/ Precedes(o, l) BY <1>3, <1>4 DEF On
  <2>2. o.what = "files" \/ o.what = "get" BY <1>2, <1>4
  <2> QED BY <1>1, <1>4, <1>5, <2>1, <2>2 DEF Precedes
<1>6. CASE \E a \in Range(outbox) : a.load = m /\ a.what = "files" /\ f \in a.files
  <2>1. PICK a \in Range(outbox) : a.load = m /\ a.what = "files" /\ f \in a.files BY <1>6
  <2>2. o.what = "files" BY <1>5, <2>1 DEF On
  <2>3. CASE o \in Range(inbox) BY <1>4, <2>2, <2>3 DEF Open
  <2>4. CASE o \in Range(outbox)
    <3>1. IsList(a) /\ IsList(o) BY <2>1, <2>2, <2>4 DEF Doomed, IsList
    <3>2. a.load <= o.load BY <1>1, <1>4, <2>1
    <3>3. a.files \subseteq o.files BY <2>1, <2>4, <3>1, <3>2 DEF TreeInv, Covering
    <3> QED BY <1>4, <2>1, <2>2, <2>4, <3>3 DEF Open
  <2> QED BY <1>4, <2>3, <2>4 DEF On
<1>7. CASE \E l \in Range(inbox) : l.load = m /\ l.what = "files"
  <2>1. PICK l \in Range(inbox) : l.load = m /\ l.what = "files" BY <1>7
  <2>2. o.what = "files" BY <1>5, <2>1 DEF On
  <2>3. o \notin Range(outbox)
    <3>1. o \in Range(outbox) => Precedes(o, l) BY <1>3, <2>1
    <3> QED BY <1>1, <1>4, <2>1, <2>2, <3>1 DEF Precedes
  <2> QED BY <1>4, <2>2, <2>3 DEF On, Open
<1>8. CASE \E l \in Range(inbox) : l.load = m /\ l.arg = f
  <2>1. PICK l \in Range(inbox) : l.load = m /\ l.arg = f BY <1>8
  <2>2. l \in On /\ l.what = "get" BY <1>1, <1>2, <2>1 DEF On
  <2>3. Lists(n) \/ f \in Awaited(n) BY <2>1, <2>2 DEF TreeInv, Covering
  <2>4. ASSUME NEW q \in On, q.load = n, q.what = "files" PROVE Open(n, r)
    <3>1. CASE q \in Range(inbox) BY <2>4, <3>1 DEF Open
    <3>2. CASE q \in Range(outbox)
      <4>1. IsList(q) BY <2>4, <3>2 DEF Doomed, IsList
      <4>2. f \in q.files BY <2>1, <2>2, <3>2, <4>1 DEF TreeInv, Covering
      <4> QED BY <2>4, <3>2, <4>2 DEF Open
    <3> QED BY <3>1, <3>2 DEF On
  <2>5. ASSUME NEW q \in On, q.load = n, q.arg = f PROVE Open(n, r)
    <3>1. q.what = "get" BY <1>1, <1>2, <2>5
    <3>2. q \in Range(outbox) => Precedes(q, l) BY <1>3, <2>1
    <3>3. q \in Range(inbox) BY <1>1, <2>1, <2>2, <2>5, <3>1, <3>2 DEF Precedes, On
    <3> QED BY <2>5, <3>3 DEF Open
  <2> QED BY <2>3, <2>4, <2>5 DEF Lists, Awaited
<1> QED BY <1>6, <1>7, <1>8 DEF Open

\* When the store grows, a load that has yet to read it will show more.
LEMMA OpenShowsMore ==
  ASSUME TreeInv, TreeInv', NEW n \in DOMAIN loads, loads' = loads,
         NEW r, r.loc.file # None,
         \A m : m.load = n => /\ m \in Range(outbox') <=> m \in Range(outbox)
                              /\ m \in Range(inbox') <=> m \in Range(inbox)
  PROVE  Shows(n, r)' = IF Open(n, r) THEN CopiesOf(rows', r) ELSE Shows(n, r)
<1> DEFINE f == r.loc.file
<1>1. AsRead' BY ReadNext
<1>2. AsRead /\ Ways BY ShowsAsRead, EachIsRead
<1>3. CASE Open(n, r)
  <2>1. ASSUME NEW a \in Range(outbox), a.load = n, a.what = "files", f \in a.files
        PROVE  Shows(n, r)' = CopiesOf(rows', r)
    <3>1. a \in Range(outbox') BY <2>1
    <3> QED BY <1>1, <2>1, <3>1 DEF AsRead
  <2>2. ASSUME NEW m \in Range(inbox), m.load = n, m.what = "files" \/ m.arg = f
        PROVE  Shows(n, r)' = CopiesOf(rows', r)
    <3>1. m \in Range(inbox') BY <2>2
    <3> QED BY <1>1, <2>2, <3>1 DEF AsRead
  <2> QED BY <1>3, <2>1, <2>2 DEF Open
<1>4. CASE ~Open(n, r)
  <2>1. ASSUME NEW a \in Range(outbox), a.load = n, a.what = "files"
        PROVE  Shows(n, r)' = Shows(n, r)
    <3>1. f \notin a.files BY <1>4, <2>1 DEF Open
    <3>2. Shows(n, r) = 0 BY <1>2, <2>1, <3>1 DEF AsRead
    <3>3. a \in Range(outbox') BY <2>1
    <3>4. Shows(n, r)' = 0 BY <1>1, <2>1, <3>1, <3>3 DEF AsRead
    <3> QED BY <3>2, <3>4
  <2>2. ASSUME NEW a \in Range(outbox), a.load = n, a.what = "get", a.arg = f
        PROVE  Shows(n, r)' = Shows(n, r)
    <3>1. Shows(n, r) = CopiesOf(a.remarks, r) BY <1>2, <2>2 DEF AsRead
    <3>2. a \in Range(outbox') BY <2>2
    <3>3. Shows(n, r)' = CopiesOf(a.remarks, r) BY <1>1, <2>2, <3>2 DEF AsRead
    <3> QED BY <3>1, <3>3
  <2>3. ASSUME ~Lists(n), f \notin Awaited(n) PROVE Shows(n, r)' = Shows(n, r)
    <3>1. \A m : m.load = n => (m \in On' <=> m \in On) BY DEF On
    <3>2. ~Lists(n)' BY <2>3, <3>1 DEF Lists
    <3>3. Awaited(n)' = {m.arg : m \in {m \in On' : m.load = n}} BY DEF Awaited
    <3>4. f \notin Awaited(n)' BY <2>3, <3>1, <3>3 DEF Awaited
    <3>5. Shows(n, r) = Copies(loads[n].next, r) BY <1>2, <2>3 DEF AsRead
    <3>6. /\ n \in DOMAIN loads' /\ r.loc.file # None /\ ~Lists(n)'
          /\ r.loc.file \notin Awaited(n)'
      BY <3>2, <3>4
    <3> HIDE DEF f
    <3>7. Shows(n, r)' = Copies(loads[n].next, r)' BY <1>1, <3>6 DEF AsRead
    <3> QED BY <3>5, <3>7
  <2> QED BY <1>2, <1>4, <2>1, <2>2, <2>3 DEF Ways, Open
<1> QED BY <1>3, <1>4

LEMMA StillGrowing ==
  ASSUME Growing, faults' = 0 => faults = 0 /\ ~Doomed', tree' = tree, rows' = rows,
         DOMAIN loads' \subseteq DOMAIN loads,
         faults' = 0 => \A n \in DOMAIN loads' : \A r : r.loc.file # None =>
                           Shows(n, r)' = Shows(n, r)
  PROVE  Growing'
<1>0. \A r : Copies(tree, r)' = Copies(tree, r) /\ CopiesOf(rows, r)' = CopiesOf(rows, r)
  OBVIOUS
<1> SUFFICES ASSUME faults' = 0, NEW r, r.loc.file # None
             PROVE  /\ \A n \in DOMAIN loads' :
                         /\ Shows(n, r)' \in Nat
                         /\ Copies(tree, r) <= Shows(n, r)' /\ Shows(n, r)' <= CopiesOf(rows, r)
                    /\ \A m, n \in DOMAIN loads' : m < n => Shows(m, r)' <= Shows(n, r)'
  BY <1>0 DEF Growing
<1>1. \A n \in DOMAIN loads' : n \in DOMAIN loads /\ Shows(n, r)' = Shows(n, r) OBVIOUS
<1>2. faults = 0 OBVIOUS
<1> QED BY <1>1, <1>2 DEF Growing

\* An answer that is sent holds what was to be read; the store shows in all later ones.
LEMMA ServedStillGrows ==
  ASSUME TreeInv, TreeInv', Growing, NEW failed \in BOOLEAN, NEW files, NEW remarks,
         Served(failed, files, remarks)
  PROVE  Growing'
<1> DEFINE h == Head(inbox)
           a == [what |-> h.what, load |-> h.load, arg |-> h.arg,
                 failed |-> failed, files |-> files, remarks |-> remarks]
<1>1. inbox # <<>> /\ Answer(failed, files, remarks) /\ loads' = loads /\ tree' = tree
  BY DEF Served, extension
<1>2. /\ Range(inbox) = {h} \cup Range(inbox')
      /\ Range(outbox') = Range(outbox) \cup {a}
      /\ \A m \in Range(inbox') : Precedes(h, m)
      /\ \A n : Awaited(n)' = Awaited(n) /\ Lists(n)' = Lists(n)
  BY <1>1, AnswerSent DEF TreeInv
<1>3. /\ a.what = h.what /\ a.load = h.load /\ a.arg = h.arg
      /\ a.failed = failed /\ a.files = files /\ a.remarks = remarks
  OBVIOUS
<1> HIDE DEF a
<1>4. faults' = 0 => faults = 0 /\ ~Fault
  BY DEF TreeInv, Counters, Served, Fault
<1>5. faults' = 0 => ~Doomed'
  <2>1. faults' = 0 => ~Doomed BY <1>4 DEF Growing
  <2>2. faults' = 0 /\ failed => h.what # "files" /\ (h.what = "get" => h.arg = None)
    BY <1>4 DEF Served
  <2> QED BY <1>2, <1>3, <2>1, <2>2 DEF Doomed
<1>6. Address(h) /\ h \in On BY <1>2 DEF On, TreeInv, Counted
<1>7. DOMAIN loads \subseteq Nat \ {0} /\ IsABag(rows) BY DEF TreeInv, Counted, Contents
<1>8. CASE rows' = rows
  <2> SUFFICES ASSUME faults' = 0, NEW n \in DOMAIN loads, NEW r, r.loc.file # None
               PROVE  Shows(n, r)' = Shows(n, r)
    BY <1>1, <1>4, <1>5, <1>8, StillGrowing
  <2> DEFINE f == r.loc.file
  <2>1. CASE h.load = n /\ (h.what = "files" \/ h.arg = f)
    <3>1. Shows(n, r) = CopiesOf(rows, r)
      <4>1. AsRead BY ShowsAsRead
      <4> QED BY <1>2, <2>1, <4>1 DEF AsRead
    <3>2. AsRead' /\ a \in Range(outbox') BY <1>2, ReadNext
    <3>3. CASE h.what = "files"
      <4>1. files = RemarkedFiles BY <1>4, <3>3 DEF Served, CutShort
      <4>2. f \notin RemarkedFiles => CopiesOf(rows, r) = 0
        BY DEF RemarkedFiles, BagToSet, CopiesOf
      <4>3. Shows(n, r)' = IF f \in files THEN CopiesOf(rows', r) ELSE 0
        BY <1>1, <1>3, <2>1, <3>2, <3>3 DEF AsRead
      <4> QED BY <1>8, <3>1, <4>1, <4>2, <4>3
    <3>4. CASE h.what = "get" /\ h.arg = f
      <4>1. remarks = RowsOf(f) BY <1>4, <3>4 DEF Served, CutShort
      <4>2. CopiesOf(RowsOf(f), r) = CopiesOf(rows, r) BY DEF RowsOf, CopiesOf
      <4>3. Shows(n, r)' = CopiesOf(remarks, r) BY <1>1, <1>3, <2>1, <3>2, <3>4 DEF AsRead
      <4> QED BY <3>1, <4>1, <4>2, <4>3
    <3> QED BY <1>6, <1>7, <2>1, <3>3, <3>4 DEF Address
  <2>2. CASE ~(h.load = n /\ (h.what = "files" \/ h.arg = f))
    <3>1. \A m : m.load = n /\ (m.what = "files" \/ m.arg = r.loc.file) =>
            /\ m \in Range(outbox') <=> m \in Range(outbox)
            /\ m \in Range(inbox') <=> m \in Range(inbox)
      BY <1>2, <1>3, <2>2
    <3>2. CopiesOf(rows', r) = CopiesOf(rows, r) BY <1>8
    <3>3. n \in DOMAIN loads' /\ loads'[n].next = loads[n].next BY <1>1
    <3> HIDE DEF f
    <3> QED BY <3>1, <3>2, <3>3, SameShows
  <2> QED BY <2>1, <2>2
<1>9. CASE h.what \in {"ingest", "recompile", "trace"}
  <2> SUFFICES ASSUME faults' = 0, NEW r, r.loc.file # None
               PROVE  /\ \A n \in DOMAIN loads :
                           /\ Shows(n, r)' \in Nat
                           /\ Copies(tree, r) <= Shows(n, r)' /\ Shows(n, r)' <= CopiesOf(rows', r)
                      /\ \A m, n \in DOMAIN loads : m < n => Shows(m, r)' <= Shows(n, r)'
    <3>1. \A r : Copies(tree, r)' = Copies(tree, r) BY <1>1
    <3> QED BY <1>1, <1>5, <3>1 DEF Growing
  <2>1. h.load = 0 BY <1>6, <1>9 DEF Address
  <2>2. ASSUME NEW n \in DOMAIN loads
        PROVE  Shows(n, r)' = IF Open(n, r) THEN CopiesOf(rows', r) ELSE Shows(n, r)
    <3>1. \A m : m.load = n => /\ m \in Range(outbox') <=> m \in Range(outbox)
                               /\ m \in Range(inbox') <=> m \in Range(inbox)
      BY <1>2, <1>3, <1>7, <2>1
    <3> QED BY <1>1, <3>1, OpenShowsMore
  <2>3. CopiesOf(rows, r) \in Nat /\ CopiesOf(rows', r) \in Nat /\ CopiesOf(rows, r) <= CopiesOf(rows', r)
    <3>1. IsABag(rows') /\ \A q \in DOMAIN rows : q \in DOMAIN rows' /\ rows[q] <= rows'[q]
      BY DEF Served, Grown
    <3>2. CopiesOf(rows, r) \in Nat /\ CopiesOf(rows', r) \in Nat BY <1>7, <3>1, BagTypes
    <3> QED BY <3>1, <3>2 DEF CopiesOf
  <2>4. /\ \A n \in DOMAIN loads :
             /\ Shows(n, r) \in Nat
             /\ Copies(tree, r) <= Shows(n, r) /\ Shows(n, r) <= CopiesOf(rows, r)
        /\ \A m, n \in DOMAIN loads : m < n => Shows(m, r) <= Shows(n, r)
    BY <1>4 DEF Growing
  <2>5. Copies(tree, r) \in Nat
    <3>1. IsABag(EmptyBag) BY DEF EmptyBag, SetToBag, IsABag
    <3>2. IsABag(Node(tree, <<r.category, r.loc.file>>))
      BY <3>1 DEF Node, TreeInv, Contents, Fits
    <3> QED BY <3>2, BagTypes DEF Copies
  <2>6. ASSUME NEW n \in DOMAIN loads
        PROVE  /\ Shows(n, r)' \in Nat
               /\ Copies(tree, r) <= Shows(n, r)' /\ Shows(n, r)' <= CopiesOf(rows', r)
    BY <2>2, <2>3, <2>4, <2>5
  <2>7. ASSUME NEW m \in DOMAIN loads, NEW n \in DOMAIN loads, m < n
        PROVE  Shows(m, r)' <= Shows(n, r)'
    <3>1. CASE Open(n, r)
      <4>1. Shows(n, r)' = CopiesOf(rows', r) BY <2>2, <3>1
      <4> QED BY <2>6, <4>1
    <3>2. CASE ~Open(n, r)
      <4>1. faults = 0 /\ ~Doomed BY <1>4 DEF Growing
      <4>2. ~Open(m, r) BY <2>7, <3>2, <4>1, NewerIsOpen
      <4> QED BY <2>2, <2>4, <2>7, <3>2, <4>2
    <3> QED BY <3>1, <3>2
  <2> QED BY <2>6, <2>7
<1> QED BY <1>8, <1>9 DEF Served

\* What belongs to no load changes no load.
LEMMA NoLoadGrows ==
  ASSUME TreeInv, TreeInv', Growing, faults' = faults, rows' = rows, loads' = loads,
         tree' = tree, Doomed' => Doomed,
         \A m : m.load # 0 => /\ m \in Range(outbox') <=> m \in Range(outbox)
                              /\ m \in Range(inbox') <=> m \in Range(inbox)
  PROVE  Growing'
<1>1. ASSUME NEW n \in DOMAIN loads, NEW r, r.loc.file # None
      PROVE  Shows(n, r)' = Shows(n, r)
  <2>1. n # 0 BY DEF TreeInv, Counted
  <2>2. \A m : m.load = n /\ (m.what = "files" \/ m.arg = r.loc.file) =>
          /\ m \in Range(outbox') <=> m \in Range(outbox)
          /\ m \in Range(inbox') <=> m \in Range(inbox)
    BY <2>1
  <2>3. CopiesOf(rows', r) = CopiesOf(rows, r) OBVIOUS
  <2> QED BY <1>1, <2>2, <2>3, SameShows
<1>2. faults' = 0 => faults = 0 /\ ~Doomed' BY DEF Growing
<1> QED BY <1>1, <1>2, StillGrowing

LEMMA AskGrows ==
  ASSUME TreeInv, TreeInv', Growing, NEW what \in {"ingest", "recompile", "trace"},
         NEW path \in Paths, Ask(what, path)
  PROVE  Growing'
<1>1. /\ outbox' = outbox /\ rows' = rows /\ loads' = loads /\ tree' = tree
      /\ faults' = faults
  BY DEF Ask
<1>2. Range(inbox') = Range(inbox) \cup {Request(what, 0, path)} BY AskKeeps
<1>3. Request(what, 0, path).load = 0 BY DEF Request
<1>4. Doomed' => Doomed BY <1>1 DEF Doomed
<1>5. \A m : m.load # 0 => /\ m \in Range(outbox') <=> m \in Range(outbox)
                           /\ m \in Range(inbox') <=> m \in Range(inbox)
  BY <1>1, <1>2, <1>3
<1> QED BY <1>1, <1>4, <1>5, NoLoadGrows

LEMMA NoticedGrows ==
  ASSUME TreeInv, TreeInv', Growing, Noticed, faults' = faults
  PROVE  Growing'
<1> DEFINE h == Head(outbox)
<1>1. /\ outbox # <<>> /\ outbox' = Tail(outbox) /\ rows' = rows /\ h.load = 0
      /\ loads' = loads /\ tree' = tree
      /\ inbox' = inbox \/ inbox' = Append(inbox, Request("show", 0, h.arg))
  BY DEF Noticed
<1>2. Range(outbox) = {h} \cup Range(outbox') BY <1>1, FirstAnswer
<1>3. \A m : m.load # 0 => (m \in Range(inbox') <=> m \in Range(inbox))
  <2>1. CASE inbox' = inbox BY <2>1
  <2>2. CASE inbox' = Append(inbox, Request("show", 0, h.arg))
    <3>1. Range(inbox') = Range(inbox) \cup {Request("show", 0, h.arg)}
      BY <2>2, Appended DEF TreeInv, Queues
    <3>2. Request("show", 0, h.arg).load = 0 BY DEF Request
    <3> QED BY <3>1, <3>2
  <2> QED BY <1>1, <2>1, <2>2
<1>4. Doomed' => Doomed BY <1>2 DEF Doomed
<1>5. \A m : m.load # 0 => /\ m \in Range(outbox') <=> m \in Range(outbox)
                           /\ m \in Range(inbox') <=> m \in Range(inbox)
  BY <1>1, <1>2, <1>3
<1> QED BY <1>1, <1>4, <1>5, NoLoadGrows

\* A load that begins will read the store as it is.
LEMMA BegunGrows ==
  ASSUME TreeInv, TreeInv', Growing, Taken, Refresh, faults' = faults, rows' = rows
  PROVE  Growing'
<1>0. Counters' BY DEF TreeInv
<1>1. PICK n \in Nat \ {0} :
        /\ n \notin DOMAIN loads /\ \A m \in DOMAIN loads : m < n
        /\ DOMAIN loads' = DOMAIN loads \cup {n}
        /\ loads'[n] = [waiting |-> 1, next |-> NoNodes]
        /\ \A m \in DOMAIN loads : loads'[m] = loads[m]
        /\ Queues' /\ Range(inbox') = Range(inbox) \cup {Request("files", n, None)}
  BY NewLoad
<1> DEFINE q == Request("files", n, None)
<1>2. q.what = "files" /\ q.load = n BY DEF Request
<1>3. tree' = tree BY DEF Refresh
<1>4. Range(inbox') = Range(inbox) \cup {q} BY <1>1
<1> HIDE DEF q
<1>5. /\ Range(outbox') \subseteq Range(outbox)
      /\ \A m \in Range(outbox) : m.load # 0 => m \in Range(outbox')
  BY TakenParts
<1>6. faults' = 0 => ~Doomed' BY <1>5 DEF Growing, Doomed
<1>7. DOMAIN loads \subseteq Nat \ {0} BY DEF TreeInv, Counted
<1>8. \A r : Copies(tree, r)' = Copies(tree, r) /\ CopiesOf(rows, r)' = CopiesOf(rows, r)
  BY <1>3
<1> SUFFICES ASSUME faults' = 0, NEW r, r.loc.file # None
             PROVE  /\ \A l \in DOMAIN loads' :
                         /\ Shows(l, r)' \in Nat
                         /\ Copies(tree, r) <= Shows(l, r)' /\ Shows(l, r)' <= CopiesOf(rows, r)
                    /\ \A m, l \in DOMAIN loads' : m < l => Shows(m, r)' <= Shows(l, r)'
  BY <1>6, <1>8 DEF Growing
<1>9. ASSUME NEW l \in DOMAIN loads PROVE Shows(l, r)' = Shows(l, r)
  <2>1. \A m : m.load = l /\ (m.what = "files" \/ m.arg = r.loc.file) =>
          /\ m \in Range(outbox') <=> m \in Range(outbox)
          /\ m \in Range(inbox') <=> m \in Range(inbox)
    BY <1>1, <1>2, <1>4, <1>5, <1>7
  <2>2. l \in DOMAIN loads' /\ loads'[l].next = loads[l].next BY <1>1
  <2> QED BY <1>8, <2>1, <2>2, SameShows
<1>10. Shows(n, r)' = CopiesOf(rows, r)
  <2>1. AsRead' /\ n \in DOMAIN loads' /\ q \in Range(inbox') BY <1>1, <1>4, ReadNext
  <2>2. Shows(n, r)' = CopiesOf(rows', r) BY <1>2, <2>1 DEF AsRead
  <2> QED BY <1>8, <2>2
<1>11. Copies(tree, r) <= CopiesOf(rows, r) /\ CopiesOf(rows, r) \in Nat
  <2>1. IsABag(rows) /\ Fits(tree, rows) BY DEF TreeInv, Contents
  <2>2. CopiesOf(rows, r) \in Nat BY <2>1, BagTypes
  <2>3. Copies(tree, r) <= CopiesOf(rows, r)
    <3> DEFINE k == <<r.category, r.loc.file>>
    <3>1. CASE k \in DOMAIN tree /\ r \in DOMAIN tree[k]
      <4>1. Copies(tree, r) = tree[k][r] BY <3>1 DEF Copies, CopiesOf, Node
      <4>2. r \in DOMAIN rows /\ tree[k][r] <= rows[r] BY <2>1, <3>1 DEF Fits
      <4> QED BY <4>1, <4>2 DEF CopiesOf
    <3>2. CASE ~(k \in DOMAIN tree /\ r \in DOMAIN tree[k])
      <4>1. Copies(tree, r) = 0 BY <3>2 DEF Copies, CopiesOf, Node, EmptyBag, SetToBag
      <4> QED BY <2>2, <4>1
    <3> QED BY <3>1, <3>2
  <2> QED BY <2>2, <2>3
<1>12. /\ \A l \in DOMAIN loads :
            /\ Shows(l, r) \in Nat
            /\ Copies(tree, r) <= Shows(l, r) /\ Shows(l, r) <= CopiesOf(rows, r)
       /\ \A m, l \in DOMAIN loads : m < l => Shows(m, r) <= Shows(l, r)
  BY DEF Growing
<1>13. \A l \in DOMAIN loads' : l = n \/ l \in DOMAIN loads BY <1>1
<1>14. ASSUME NEW l \in DOMAIN loads'
       PROVE  /\ Shows(l, r)' \in Nat
              /\ Copies(tree, r) <= Shows(l, r)' /\ Shows(l, r)' <= CopiesOf(rows, r)
  BY <1>9, <1>10, <1>11, <1>12, <1>13
<1>15. ASSUME NEW m \in DOMAIN loads', NEW l \in DOMAIN loads', m < l
       PROVE  Shows(m, r)' <= Shows(l, r)'
  <2>1. CASE l = n BY <1>10, <1>14, <2>1
  <2>2. CASE l # n
    <3>1. l \in DOMAIN loads /\ m # n BY <1>1, <1>7, <1>13, <1>15, <2>2
    <3> QED BY <1>9, <1>12, <1>13, <1>15, <3>1
  <2> QED BY <2>1, <2>2
<1> QED BY <1>14, <1>15

\* The load that ends shows what it would, and the others will show no less.
LEMMA FinishedGrows ==
  ASSUME TreeInv, TreeInv', Growing, NEW n, Finished(n), faults' = faults
  PROVE  /\ Growing'
         /\ faults = 0 /\ tree' # NoNodes =>
              \A r : r.loc.file # None => Copies(tree, r) <= Copies(tree', r)
<1> DEFINE h == Head(outbox)
<1>1. /\ outbox # <<>> /\ outbox' = Tail(outbox) /\ inbox' = inbox /\ rows' = rows
      /\ h \in Range(outbox) /\ h.load = n /\ n \in DOMAIN loads /\ loads' = Without(n)
      /\ \A m \in Rest : m.load # n
  BY DEF Finished
<1>2. \/ h.what = "files" /\ h.failed
      \/ tree' = NoNodes
      \/ /\ h.what = "get" /\ Awaited(n) = {h.arg}
         /\ \A r : Copies(tree', r) = IF ~h.failed /\ r.loc.file = h.arg
                                        THEN CopiesOf(h.remarks, r)
                                        ELSE Copies(loads[n].next, r)
  BY DEF Finished
<1>3. /\ On = {h} \cup Rest /\ Range(outbox) = {h} \cup Range(outbox')
      /\ \A m \in Rest : Address(m) /\ Precedes(h, m)
  BY <1>1, FirstAnswer
<1>4. DOMAIN loads' = DOMAIN loads \ {n} /\ \A l \in DOMAIN loads' : loads'[l] = loads[l]
  BY <1>1 DEF Without
<1>5. DOMAIN loads \subseteq Nat \ {0} BY DEF TreeInv, Counted
<1>6. faults' = 0 => ~Doomed' BY <1>3 DEF Growing, Doomed
<1>7. ASSUME NEW r, r.loc.file # None, NEW l \in DOMAIN loads'
      PROVE  Shows(l, r)' = Shows(l, r)
  <2>1. \A m : m.load = l /\ (m.what = "files" \/ m.arg = r.loc.file) =>
          /\ m \in Range(outbox') <=> m \in Range(outbox)
          /\ m \in Range(inbox') <=> m \in Range(inbox)
    BY <1>1, <1>3, <1>4
  <2>2. l \in DOMAIN loads /\ loads'[l].next = loads[l].next BY <1>4
  <2>3. CopiesOf(rows', r) = CopiesOf(rows, r) BY <1>1
  <2> QED BY <1>7, <2>1, <2>2, <2>3, SameShows
<1>8. ASSUME faults = 0, NEW r, r.loc.file # None
      PROVE  \/ tree' = NoNodes /\ Copies(tree', r) = 0
             \/ h.what = "get" /\ Copies(tree', r) = Shows(n, r)
  <2>1. ~Doomed BY <1>8 DEF Growing
  <2>2. ~(h.what = "files" /\ h.failed) BY <1>1, <2>1 DEF Doomed
  <2>3. CASE tree' = NoNodes BY <2>3, NoNodesShowNothing
  <2>4. CASE /\ h.what = "get" /\ Awaited(n) = {h.arg}
             /\ \A q : Copies(tree', q) = IF ~h.failed /\ q.loc.file = h.arg
                                            THEN CopiesOf(h.remarks, q)
                                            ELSE Copies(loads[n].next, q)
    <3>1. AsRead BY ShowsAsRead
    <3>2. ~Lists(n) BY <1>1, <1>3, <2>4 DEF Lists
    <3>3. h.failed => h.arg = None BY <1>1, <2>1, <2>4 DEF Doomed
    <3>4. CASE r.loc.file = h.arg
      <4>1. Shows(n, r) = CopiesOf(h.remarks, r) BY <1>1, <1>8, <2>4, <3>1, <3>4 DEF AsRead
      <4>2. ~h.failed BY <1>8, <3>3, <3>4
      <4> QED BY <2>4, <3>4, <4>1, <4>2
    <3>5. CASE r.loc.file # h.arg
      <4>1. Shows(n, r) = Copies(loads[n].next, r)
        BY <1>1, <1>8, <2>4, <3>1, <3>2, <3>5 DEF AsRead
      <4> QED BY <2>4, <3>5, <4>1
    <3> QED BY <3>4, <3>5
  <2> QED BY <1>2, <2>2, <2>3, <2>4
<1>9. ASSUME NEW l \in DOMAIN loads', h.what = "get" PROVE n < l
  <2>1. l \in DOMAIN loads /\ l # n BY <1>4
  <2>2. Awaited(l) # {} BY <2>1 DEF TreeInv, Counted
  <2>3. PICK o \in On : o.load = l BY <2>2 DEF Awaited
  <2>4. o \in Rest BY <1>1, <1>3, <2>1, <2>3
  <2>5. o.what = "files" \/ o.what = "get" BY <1>3, <1>5, <2>1, <2>3, <2>4 DEF Address
  <2>6. h.load <= o.load BY <1>1, <1>3, <1>5, <1>9, <2>1, <2>3, <2>4, <2>5 DEF Precedes
  <2> QED BY <1>1, <1>5, <2>1, <2>3, <2>6
<1>10. ASSUME faults = 0, NEW r, r.loc.file # None
       PROVE  /\ \A l \in DOMAIN loads :
                   /\ Shows(l, r) \in Nat
                   /\ Copies(tree, r) <= Shows(l, r) /\ Shows(l, r) <= CopiesOf(rows, r)
              /\ \A m, l \in DOMAIN loads : m < l => Shows(m, r) <= Shows(l, r)
  BY <1>10 DEF Growing
<1>11. ASSUME faults = 0, NEW r, r.loc.file # None, NEW l \in DOMAIN loads'
       PROVE  Copies(tree', r) <= Shows(l, r)
  <2>1. l \in DOMAIN loads BY <1>4
  <2>2. CASE Copies(tree', r) = 0 BY <1>10, <1>11, <2>1, <2>2
  <2>3. CASE h.what = "get" /\ Copies(tree', r) = Shows(n, r)
    <3>1. n < l BY <1>9, <2>3
    <3> QED BY <1>1, <1>10, <1>11, <2>1, <2>3, <3>1
  <2> QED BY <1>8, <1>11, <2>2, <2>3
<1>12. Growing'
  <2> SUFFICES ASSUME faults' = 0, NEW r, r.loc.file # None
               PROVE  /\ \A l \in DOMAIN loads' :
                           /\ Shows(l, r)' \in Nat
                           /\ Copies(tree', r) <= Shows(l, r)' /\ Shows(l, r)' <= CopiesOf(rows', r)
                      /\ \A m, l \in DOMAIN loads' : m < l => Shows(m, r)' <= Shows(l, r)'
    <3>1. \A r : Copies(tree, r)' = Copies(tree', r) /\ CopiesOf(rows, r)' = CopiesOf(rows', r)
      OBVIOUS
    <3> QED BY <1>6, <3>1 DEF Growing
  <2>1. \A l \in DOMAIN loads' : l \in DOMAIN loads /\ Shows(l, r)' = Shows(l, r)
    BY <1>4, <1>7
  <2>2. faults = 0 OBVIOUS
  <2> QED BY <1>1, <1>10, <1>11, <2>1, <2>2
<1>13. ASSUME faults = 0, tree' # NoNodes, NEW r, r.loc.file # None
       PROVE  Copies(tree, r) <= Copies(tree', r)
  BY <1>1, <1>8, <1>10, <1>13
<1> QED BY <1>12, <1>13

LEMMA ListedGrows ==
  ASSUME TreeInv, TreeInv', Growing, NEW n, Listed(n), faults' = faults
  PROVE  Growing' /\ tree' = tree
<1> DEFINE h == Head(outbox)
<1>0. Counters' BY DEF TreeInv
<1>1. /\ outbox # <<>> /\ outbox' = Tail(outbox) /\ rows' = rows
      /\ IsList(h) /\ h.files # {} /\ h.load = n /\ GotFiles(h)
  BY DEF Listed
<1>2. /\ n \in DOMAIN loads /\ Lists(n) /\ ~Lists(n)' /\ tree' = tree
      /\ DOMAIN loads' = DOMAIN loads
      /\ \A l \in DOMAIN loads : loads'[l].next = loads[l].next
      /\ Awaited(n)' = h.files
      /\ Range(inbox') = Range(inbox) \cup {Request("get", n, f) : f \in h.files}
  BY <1>0, <1>1, ListedKeeps
<1>3. Range(outbox) = {h} \cup Range(outbox') /\ h \in Range(outbox) BY <1>1, FirstAnswer
<1>4. \A f : Request("get", n, f).load = n /\ Request("get", n, f).arg = f BY DEF Request
<1>5. faults' = 0 => faults = 0 /\ ~Doomed' BY <1>3 DEF Growing, Doomed
<1>6. ASSUME NEW l \in DOMAIN loads, NEW r, r.loc.file # None
      PROVE  Shows(l, r)' = Shows(l, r)
  <2>1. CASE l # n
    <3>1. \A m : m.load = l /\ (m.what = "files" \/ m.arg = r.loc.file) =>
            /\ m \in Range(outbox') <=> m \in Range(outbox)
            /\ m \in Range(inbox') <=> m \in Range(inbox)
      BY <1>1, <1>2, <1>3, <1>4, <2>1
    <3>2. CopiesOf(rows', r) = CopiesOf(rows, r) BY <1>1
    <3>3. l \in DOMAIN loads' /\ loads'[l].next = loads[l].next BY <1>2
    <3> QED BY <1>6, <3>1, <3>2, <3>3, SameShows
  <2>2. CASE l = n
    <3>1. AsRead /\ AsRead' BY ShowsAsRead, ReadNext
    <3>2. h.what = "files" BY <1>1 DEF IsList
    <3>3. Shows(n, r) = IF r.loc.file \in h.files THEN CopiesOf(rows, r) ELSE 0
      BY <1>1, <1>2, <1>3, <1>6, <3>1, <3>2 DEF AsRead
    <3>4. CASE r.loc.file \in h.files
      <4> DEFINE q == Request("get", n, r.loc.file)
      <4>1. q \in Range(inbox') /\ q.load = n /\ q.arg = r.loc.file BY <1>2, <1>4, <3>4
      <4> HIDE DEF q
      <4>2. Shows(n, r)' = CopiesOf(rows', r) BY <1>2, <1>6, <3>1, <4>1 DEF AsRead
      <4> QED BY <1>1, <2>2, <3>3, <3>4, <4>2
    <3>5. CASE r.loc.file \notin h.files
      <4>1. n \in DOMAIN loads' /\ ~Lists(n)' /\ r.loc.file \notin Awaited(n)' BY <1>2, <3>5
      <4>2. Shows(n, r)' = Copies(loads[n].next, r)' BY <1>6, <3>1, <4>1 DEF AsRead
      <4>3. loads'[n].next = NoNodes BY <1>2 DEF TreeInv, Counted
      <4>4. Copies(loads[n].next, r)' = 0 BY <4>3, NoNodesShowNothing
      <4> QED BY <2>2, <3>3, <3>5, <4>2, <4>4
    <3> QED BY <3>4, <3>5
  <2> QED BY <2>1, <2>2
<1>7. Growing' BY <1>1, <1>2, <1>5, <1>6, StillGrowing
<1> QED BY <1>2, <1>7

LEMMA GatheredGrows ==
  ASSUME TreeInv, TreeInv', Growing, NEW n, NEW next, Gathered(n, next), faults' = faults
  PROVE  Growing' /\ tree' = tree
<1> DEFINE h == Head(outbox)
<1>0. Counters' BY DEF TreeInv
<1>1. /\ outbox # <<>> /\ outbox' = Tail(outbox) /\ inbox' = inbox /\ rows' = rows
      /\ h \in Range(outbox) /\ h.what = "get" /\ h.load = n /\ n \in DOMAIN loads
      /\ loads[n].waiting # 1 /\ tree' = tree
      /\ loads' = [loads EXCEPT ![n] = [waiting |-> @.waiting - 1, next |-> next]]
      /\ Fits(next, rows)
      /\ \A k \in DOMAIN next : k \in DOMAIN loads[n].next \/ k[2] = h.arg
      /\ \A r : Copies(next, r) = IF ~h.failed /\ r.loc.file = h.arg
                                    THEN CopiesOf(h.remarks, r)
                                    ELSE Copies(loads[n].next, r)
  BY DEF Gathered
<1>2. ~Lists(n) /\ ~Lists(n)' /\ Awaited(n)' = Awaited(n) \ {h.arg}
  BY <1>0, <1>1, ProgressKeeps
<1>3. /\ DOMAIN loads' = DOMAIN loads /\ loads'[n].next = next
      /\ \A l \in DOMAIN loads : l # n => loads'[l] = loads[l]
  BY <1>1
<1>4. Range(outbox) = {h} \cup Range(outbox') BY <1>1, FirstAnswer
<1>5. faults' = 0 => faults = 0 /\ ~Doomed' BY <1>4 DEF Growing, Doomed
<1>6. ASSUME faults = 0, NEW l \in DOMAIN loads, NEW r, r.loc.file # None
      PROVE  Shows(l, r)' = Shows(l, r)
  <2>0. CopiesOf(rows', r) = CopiesOf(rows, r) BY <1>1
  <2>1. CASE l # n
    <3>1. \A m : m.load = l /\ (m.what = "files" \/ m.arg = r.loc.file) =>
            /\ m \in Range(outbox') <=> m \in Range(outbox)
            /\ m \in Range(inbox') <=> m \in Range(inbox)
      BY <1>1, <1>4, <2>1
    <3>2. l \in DOMAIN loads' /\ loads'[l].next = loads[l].next BY <1>3, <2>1
    <3> QED BY <1>6, <2>0, <3>1, <3>2, SameShows
  <2>2. CASE l = n
    <3>1. AsRead /\ AsRead' /\ Ways BY ShowsAsRead, EachIsRead, ReadNext
    <3>2. h.failed => h.arg = None BY <1>1, <1>6 DEF Growing, Doomed
    <3>3. CASE r.loc.file \in Awaited(n) /\ r.loc.file # h.arg
      <4>1. PICK m \in On : m.load = n /\ m.arg = r.loc.file BY <3>3 DEF Awaited
      <4>2. m # h /\ m.what = "get"
        <5>1. n # 0 BY <1>1 DEF TreeInv, Counted
        <5>2. m.what = "get" BY <1>6, <4>1, <5>1 DEF TreeInv, Counted, Address
        <5> QED BY <3>3, <4>1, <5>2
      <4>3. CASE m \in Range(inbox)
        <5>1. m \in Range(inbox') BY <1>1, <4>3
        <5>2. Shows(n, r) = CopiesOf(rows, r) BY <1>1, <1>6, <3>1, <4>1, <4>3 DEF AsRead
        <5>3. Shows(n, r)' = CopiesOf(rows', r) BY <1>1, <1>3, <1>6, <3>1, <4>1, <5>1 DEF AsRead
        <5> QED BY <2>0, <2>2, <5>2, <5>3
      <4>4. CASE m \in Range(outbox)
        <5>1. m \in Range(outbox') BY <1>4, <4>2, <4>4
        <5>2. Shows(n, r) = CopiesOf(m.remarks, r)
          BY <1>1, <1>6, <3>1, <4>1, <4>2, <4>4 DEF AsRead
        <5>3. Shows(n, r)' = CopiesOf(m.remarks, r)
          BY <1>1, <1>3, <1>6, <3>1, <4>1, <4>2, <5>1 DEF AsRead
        <5> QED BY <2>2, <5>2, <5>3
      <4> QED BY <4>3, <4>4 DEF On
    <3>4. CASE r.loc.file \notin Awaited(n) \/ r.loc.file = h.arg
      <4>1. n \in DOMAIN loads' /\ ~Lists(n)' /\ r.loc.file \notin Awaited(n)'
        BY <1>1, <1>2, <1>3, <3>4
      <4>2. Shows(n, r)' = Copies(loads[n].next, r)' BY <1>6, <3>1, <4>1 DEF AsRead
      <4>3. Copies(loads[n].next, r)' = Copies(next, r) BY <1>3
      <4>4. CASE r.loc.file = h.arg
        <5>1. Shows(n, r) = CopiesOf(h.remarks, r) BY <1>1, <1>6, <3>1, <4>4 DEF AsRead
        <5>2. ~h.failed BY <1>6, <3>2, <4>4
        <5> QED BY <1>1, <2>2, <4>2, <4>3, <4>4, <5>1, <5>2
      <4>5. CASE r.loc.file # h.arg
        <5>1. Shows(n, r) = Copies(loads[n].next, r)
          BY <1>1, <1>2, <1>6, <3>1, <3>4, <4>5 DEF AsRead
        <5> QED BY <1>1, <2>2, <4>2, <4>3, <4>5, <5>1
      <4> QED BY <4>4, <4>5
    <3> QED BY <3>3, <3>4
  <2> QED BY <2>1, <2>2
<1>7. Growing' BY <1>1, <1>3, <1>5, <1>6, StillGrowing
<1> QED BY <1>1, <1>7

\* While nothing has failed, what a load will show grows with the loads, and
\* with the steps.
THEOREM LoadsGrow == Spec => []Growing
<1>1. Init => Growing
  <2> SUFFICES ASSUME Init PROVE Growing OBVIOUS
  <2>1. DOMAIN loads = {} /\ Range(outbox) = {} BY DEF Init, Range
  <2> QED BY <2>1 DEF Growing, Doomed
<1>2. TreeInv /\ Growing /\ TreeInv' /\ [Next]_vars => Growing'
  <2> SUFFICES ASSUME TreeInv, Growing, TreeInv', [Next]_vars PROVE Growing' OBVIOUS
  <2>1. ASSUME NEW what \in {"ingest", "recompile", "trace"}, NEW path \in Paths,
               Ask(what, path)
        PROVE  Growing'
    BY <2>1, AskGrows
  <2>2. CASE Deleted
    <3>1. Taken /\ Refresh /\ faults' = faults /\ rows' = rows BY <2>2 DEF Deleted, Taken
    <3> QED BY <3>1, BegunGrows
  <2>3. CASE Reload
    <3>1. On' = {} /\ DOMAIN loads' = {} BY <2>3, ReloadKeeps
    <3> QED BY <3>1 DEF Growing, Doomed, On
  <2>4. CASE Receive
    <3>1. rows' = rows /\ faults' = faults BY <2>4, ReceiveEffects
    <3>2. CASE Noticed BY <3>1, <3>2, NoticedGrows
    <3>3. CASE Taken /\ Refresh BY <3>1, <3>3, BegunGrows
    <3>4. CASE \E n \in DOMAIN loads : Finished(n) BY <3>1, <3>4, FinishedGrows
    <3>5. CASE \E n \in DOMAIN loads : Listed(n) BY <3>1, <3>5, ListedGrows
    <3>6. CASE \E n \in DOMAIN loads, next \in {loads'[m].next : m \in DOMAIN loads} :
                 Gathered(n, next)
      BY <3>1, <3>6, GatheredGrows
    <3> QED BY <2>4, <3>2, <3>3, <3>4, <3>5, <3>6, ReceiveEffects
  <2>5. CASE Sidecar BY <2>5, SidecarServes, ServedStillGrows
  <2>6. CASE UNCHANGED vars
    <3>1. /\ rows' = rows /\ inbox' = inbox /\ outbox' = outbox /\ loads' = loads
          /\ tree' = tree /\ faults' = faults
      BY <2>6 DEF vars, extension
    <3>2. Doomed' => Doomed BY <3>1 DEF Doomed
    <3>3. \A m : m.load # 0 => /\ m \in Range(outbox') <=> m \in Range(outbox)
                               /\ m \in Range(inbox') <=> m \in Range(inbox)
      BY <3>1
    <3> QED BY <3>1, <3>2, <3>3, NoLoadGrows
  <2> QED BY <2>1, <2>2, <2>3, <2>4, <2>5, <2>6 DEF Next
<1> QED BY <1>1, <1>2, TreeInvariant, PTL DEF Spec

\* Nodes that show no remark less often hold all that others hold.
LEMMA MoreCopies ==
  ASSUME NEW old, NEW new, Fits(old, rows), Fits(new, rows'),
         \A r : r.loc.file # None => Copies(old, r) <= Copies(new, r)
  PROVE  \A k \in DOMAIN old : k \in DOMAIN new /\ old[k] \sqsubseteq new[k]
<1> SUFFICES ASSUME NEW k \in DOMAIN old
             PROVE  k \in DOMAIN new /\ old[k] \sqsubseteq new[k]
  OBVIOUS
<1>1. /\ IsABag(old[k]) /\ DOMAIN old[k] # {}
      /\ \A r \in DOMAIN old[k] : k = <<r.category, r.loc.file>> /\ r.loc.file # None
  BY DEF Fits
<1>2. DOMAIN EmptyBag = {} BY DEF EmptyBag, SetToBag
<1>3. ASSUME NEW r \in DOMAIN old[k]
      PROVE  k \in DOMAIN new /\ r \in DOMAIN new[k] /\ old[k][r] <= new[k][r]
  <2>1. old[k][r] \in Nat /\ old[k][r] > 0 BY <1>1, BagTypes
  <2>2. Copies(old, r) = old[k][r] BY <1>1, <1>3 DEF Copies, CopiesOf, Node
  <2>3. Copies(new, r) = CopiesOf(Node(new, k), r) BY <1>1 DEF Copies
  <2>4. old[k][r] <= CopiesOf(Node(new, k), r) BY <1>1, <2>2, <2>3
  <2>5. CopiesOf(Node(new, k), r) # 0 BY <2>1, <2>4
  <2>6. k \in DOMAIN new BY <1>2, <2>5 DEF CopiesOf, Node
  <2>7. r \in DOMAIN new[k] BY <2>5, <2>6 DEF CopiesOf, Node
  <2> QED BY <2>4, <2>6, <2>7 DEF CopiesOf, Node
<1> QED BY <1>1, <1>3 DEF \sqsubseteq

\* An older load never replaces the tree of a newer one: a remark that is in
\* the tree stays, unless a request failed or the window is new
\* (remarksPanel.ts:105).
THEOREM TreeGrows == Spec => TreeNeverRegresses
<1>1. TreeInv /\ Growing /\ TreeInv' /\ [Next]_vars =>
        [faults = 0 /\ tree' # NoNodes =>
           \A k \in DOMAIN tree : k \in DOMAIN tree' /\ tree[k] \sqsubseteq tree'[k]]_tree
  <2> SUFFICES ASSUME TreeInv, Growing, TreeInv', Next, tree' # tree, faults = 0,
                      tree' # NoNodes
               PROVE  \A k \in DOMAIN tree : k \in DOMAIN tree' /\ tree[k] \sqsubseteq tree'[k]
    BY DEF vars, extension
  <2>1. Receive
    <3>1. \A what, path : ~Ask(what, path) BY DEF Ask
    <3>2. ~Deleted /\ ~Reload BY DEF Deleted, Refresh, Reload
    <3>3. ~Sidecar
      <4>1. Sidecar => UNCHANGED extension
        BY DEF Sidecar, IngestRemarksFile, ShadowFails, RecompileWithRemarks,
               ProfileCompileTime, GetRemarkedFiles, GetRemarks
      <4> QED BY <4>1 DEF extension
    <3> QED BY <3>1, <3>2, <3>3 DEF Next
  <2>2. rows' = rows /\ faults' = faults BY <2>1, ReceiveEffects
  <2>3. \A r : r.loc.file # None => Copies(tree, r) <= Copies(tree', r)
    <3>1. CASE Noticed BY <3>1 DEF Noticed
    <3>2. CASE Taken /\ Refresh BY <3>2 DEF Refresh
    <3>3. CASE \E n \in DOMAIN loads : Finished(n) BY <2>2, <3>3, FinishedGrows
    <3>4. CASE \E n \in DOMAIN loads : Listed(n) BY <2>2, <3>4, ListedGrows
    <3>5. CASE \E n \in DOMAIN loads, next \in {loads'[m].next : m \in DOMAIN loads} :
                 Gathered(n, next)
      BY <3>5 DEF Gathered
    <3> QED BY <2>1, <3>1, <3>2, <3>3, <3>4, <3>5, ReceiveEffects
  <2>4. Fits(tree, rows) /\ Fits(tree', rows') BY DEF TreeInv, Contents
  <2> QED BY <2>3, <2>4, MoreCopies
<1> QED BY <1>1, TreeInvariant, LoadsGrow, PTL DEF Spec, TreeNeverRegresses
===============================================================================
