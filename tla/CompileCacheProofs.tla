-------------------------- MODULE CompileCacheProofs --------------------------
(***************************************************************************)
(* The compile cache keeps its two containers in step, stays within its    *)
(* limit and is a least-recently-used cache, for every set of keys and     *)
(* results and every limit of at least one entry.                          *)
(***************************************************************************)
EXTENDS CompileCache, FiniteSetTheorems, SequenceTheorems, TLAPS

\* The properties are inductive together: the limit is kept because _evict
\* erases an entry per turn, which it does because the containers agree.
IndInv == TypeOK /\ SameKeys /\ WithinLimit /\ IsFiniteSet(DOMAIN map)

-----------------------------------------------------------------------------

\* MoveToBack permutes: the same keys, each still once.
LEMMA MoveToBackPermutes ==
  ASSUME NEW S, NEW s \in Seq(S), NEW n \in 1..Len(s),
         \A i, j \in 1..Len(s) : s[i] = s[j] => i = j
  PROVE  /\ MoveToBack(s, n) \in Seq(S)
         /\ Len(MoveToBack(s, n)) = Len(s)
         /\ Range(MoveToBack(s, n)) = Range(s)
         /\ \A i, j \in 1..Len(s) :
              MoveToBack(s, n)[i] = MoveToBack(s, n)[j] => i = j
<1> DEFINE t == MoveToBack(s, n)
<1>1. t \in [1..Len(s) -> S] BY DEF MoveToBack
<1>2. t \in Seq(S) /\ Len(t) = Len(s) BY <1>1
<1>3. \A i \in 1..Len(s) : t[i] = IF i < n THEN s[i]
                                  ELSE IF i < Len(s) THEN s[i + 1] ELSE s[n]
  BY DEF MoveToBack
<1>4. \A i, j \in 1..Len(s) : t[i] = t[j] => i = j
  BY <1>3
<1>5. Range(t) \subseteq Range(s)
  <2> SUFFICES ASSUME NEW i \in 1..Len(s) PROVE t[i] \in Range(s)
    BY <1>2 DEF Range
  <2>1. \A j \in 1..Len(s) : s[j] \in Range(s) BY DEF Range
  <2> QED BY <2>1, <1>3
<1>6. Range(s) \subseteq Range(t)
  <2> SUFFICES ASSUME NEW i \in 1..Len(s) PROVE s[i] \in Range(t)
    BY DEF Range
  <2>1. \A j \in 1..Len(s) : t[j] \in Range(t) BY <1>2 DEF Range
  <2>2. CASE i < n BY <2>1, <2>2, <1>3
  <2>3. CASE i = n
    <3>1. t[Len(s)] = s[n] BY <1>3
    <3> QED BY <3>1, <2>1, <2>3
  <2>4. CASE i > n
    <3>1. i - 1 \in 1..Len(s) /\ ~(i - 1 < n) /\ i - 1 < Len(s) /\ (i - 1) + 1 = i
      BY <2>4
    <3>2. t[i - 1] = s[i] BY <3>1, <1>3
    <3> QED BY <3>1, <3>2, <2>1
  <2> QED BY <2>2, <2>3, <2>4
<1> HIDE DEF t
<1>7. QED BY <1>2, <1>4, <1>5, <1>6 DEF t

\* What set() of a new key evicts: nothing below the limit, else exactly the
\* least recently used key.
LEMMA EvictsOne ==
  ASSUME IndInv, NEW k \in Keys, k \notin DOMAIN map,
         NEW n \in 0..Len(Append(order, k)), EvictsFirst(Append(order, k), n)
  PROVE  \/ /\ Len(order) < MaxEntries /\ n = 0
            /\ Kept(Append(order, k), n) = DOMAIN map
         \/ /\ Len(order) = MaxEntries /\ n = 1
            /\ Kept(Append(order, k), n) = DOMAIN map \ {order[1]}
<1> DEFINE s == Append(order, k)
<1>1. /\ order \in Seq(Keys) /\ Len(order) \in Nat /\ MaxEntries \in Nat \ {0}
      /\ Len(order) <= MaxEntries /\ Cardinality(DOMAIN map) = Len(order)
  BY CacheAssumption DEF IndInv, TypeOK, WithinLimit
<1>2. Len(s) = Len(order) + 1 /\ (Len(order) > 0 => s[1] = order[1]) BY <1>1
<1>3. Kept(s, 0) = DOMAIN map
  <2>1. 1..0 = {} OBVIOUS
  <2>2. {s[m] : m \in 1..0} = {} BY <2>1, Zenon
  <2> QED BY <2>2, Zenon DEF Kept
<1>4. Kept(s, 1) = DOMAIN map \ {s[1]} BY DEF Kept
<1>5. CASE Len(order) < MaxEntries
  <2>1. ~(n >= 1)
    <3> SUFFICES ASSUME n >= 1 PROVE FALSE OBVIOUS
    <3>1. 0 \in 0..(n - 1) BY <1>1, <1>2
    <3>2. Cardinality(Kept(s, 0)) >= MaxEntries BY <3>1 DEF EvictsFirst
    <3> QED BY <3>2, <1>3, <1>1, <1>5
  <2>2. n = 0 BY <2>1, <1>1, <1>2
  <2> QED BY <2>2, <1>3, <1>5
<1>6. CASE Len(order) = MaxEntries
  <2>1. Len(order) > 0 BY <1>6, <1>1
  <2>2. s[1] \in DOMAIN map
    BY <2>1, <1>1, <1>2 DEF IndInv, SameKeys, Range
  <2>3. Cardinality(Kept(s, 1)) = Len(order) - 1
    <3> HIDE DEF s
    <3>1. IsFiniteSet(DOMAIN map) BY DEF IndInv
    <3>2. Cardinality(DOMAIN map \ {s[1]}) = Cardinality(DOMAIN map) - 1
      BY <2>2, <3>1, FS_RemoveElement
    <3> QED BY <3>2, <1>1, <1>4
  <2>4. n # 0
    <3>1. ASSUME n = 0 PROVE FALSE
      <4>1. n # Len(s) BY <1>1, <1>2, <3>1
      <4>2. Cardinality(Kept(s, 0)) < MaxEntries BY <3>1, <4>1 DEF EvictsFirst
      <4> QED BY <4>2, <1>3, <1>1, <1>6
    <3> QED BY <3>1
  <2>5. ~(n >= 2)
    <3> SUFFICES ASSUME n >= 2 PROVE FALSE OBVIOUS
    <3>1. 1 \in 0..(n - 1) BY <1>1, <1>2
    <3>2. Cardinality(Kept(s, 1)) >= MaxEntries BY <3>1 DEF EvictsFirst
    <3> QED BY <3>2, <2>3, <1>1, <1>6
  <2>6. n = 1 BY <2>4, <2>5, <1>1, <1>2
  <2> QED BY <2>6, <1>4, <1>2, <2>1, <1>6
<1>7. QED BY <1>1, <1>5, <1>6

-----------------------------------------------------------------------------

\* The state get() leaves when it hits.
LEMMA GetHitPreserves ==
  ASSUME IndInv, NEW k \in Keys, GetHit(k)
  PROVE  IndInv'
<1>1. order \in Seq(Keys) /\ k \in Range(order) /\ UNCHANGED map
  BY DEF IndInv, TypeOK, SameKeys, GetHit
<1>2. PICK n \in 1..Len(order) : order' = MoveToBack(order, n)
  BY <1>1 DEF GetHit
<1>3. \A i, j \in 1..Len(order) : order[i] = order[j] => i = j
  BY DEF IndInv, SameKeys
<1>4. /\ order' \in Seq(Keys) /\ Len(order') = Len(order)
      /\ Range(order') = Range(order)
      /\ \A i, j \in 1..Len(order) : order'[i] = order'[j] => i = j
  BY <1>1, <1>2, <1>3, MoveToBackPermutes
<1>5. reply' \in Values BY DEF GetHit, IndInv, TypeOK
<1>6. TypeOK' BY <1>1, <1>4, <1>5 DEF TypeOK, IndInv
<1>7. SameKeys' BY <1>1, <1>4 DEF SameKeys, IndInv
<1>8. WithinLimit' BY <1>1, <1>4 DEF WithinLimit, IndInv
<1>9. IsFiniteSet(DOMAIN map)' BY <1>1 DEF IndInv
<1>10. QED BY <1>6, <1>7, <1>8, <1>9 DEF IndInv

\* The order set() leaves for a new key: the key is last, behind the old
\* order or behind the old order without its head.
LEMMA SetNewOrder ==
  ASSUME IndInv, NEW k \in Keys, NEW v \in Values, SetNew(k, v)
  PROVE  /\ \/ /\ Len(order) < MaxEntries
               /\ order' = Append(order, k)
               /\ DOMAIN map' = DOMAIN map \cup {k}
            \/ /\ Len(order) = MaxEntries
               /\ order' = Append(Tail(order), k)
               /\ DOMAIN map' = (DOMAIN map \ {order[1]}) \cup {k}
         /\ map' = [j \in DOMAIN map' |-> IF j = k THEN v ELSE map[j]]
<1>1. order \in Seq(Keys) /\ MaxEntries \in Nat \ {0}
  BY CacheAssumption DEF IndInv, TypeOK
<1> DEFINE s == Append(order, k)
<1>2. PICK n \in 0..Len(s) :
        /\ EvictsFirst(s, n)
        /\ order' = SubSeq(s, n + 1, Len(s))
        /\ map' = [j \in Kept(s, n) \cup {k} |-> IF j = k THEN v ELSE map[j]]
  BY DEF SetNew
<1>3. k \notin DOMAIN map BY DEF SetNew
<1>4. \/ /\ Len(order) < MaxEntries /\ n = 0 /\ Kept(s, n) = DOMAIN map
      \/ /\ Len(order) = MaxEntries /\ n = 1
         /\ Kept(s, n) = DOMAIN map \ {order[1]}
  BY <1>2, <1>3, EvictsOne
<1>5. DOMAIN map' = Kept(s, n) \cup {k} BY <1>2
<1>6. Len(s) = Len(order) + 1 /\ Len(order) \in Nat /\ s \in Seq(Keys)
  BY <1>1
<1>7. SubSeq(s, 1, Len(s)) = s BY <1>6
<1>8. ASSUME Len(order) = MaxEntries
      PROVE  SubSeq(s, 2, Len(s)) = Append(Tail(order), k)
  <2>1. order # <<>> /\ Len(order) > 0 BY <1>1, <1>8
  <2>2. Append(Tail(order), k) \in Seq(Keys)
        /\ Len(Append(Tail(order), k)) = Len(order)
    BY <1>1, <2>1
  <2>3. SubSeq(s, 2, Len(s)) \in Seq(Keys)
        /\ Len(SubSeq(s, 2, Len(s))) = Len(order)
    BY <1>6, <2>1
  <2>4. \A i \in 1..Len(order) :
          SubSeq(s, 2, Len(s))[i] = Append(Tail(order), k)[i]
    BY <1>1, <1>6, <2>1
  <2> DEFINE u == SubSeq(s, 2, Len(s))
             w == Append(Tail(order), k)
  <2>5. u \in Seq(Keys) /\ w \in Seq(Keys) /\ Len(u) = Len(w)
        /\ \A i \in 1..Len(u) : u[i] = w[i]
    BY <2>2, <2>3, <2>4
  <2> HIDE DEF u, w
  <2>6. u = w BY <2>5, SeqEqual
  <2> QED BY <2>6 DEF u, w
<1> HIDE DEF s
<1>9. CASE n = 0 BY <1>2, <1>4, <1>5, <1>7, <1>9, <1>1 DEF s
<1>10. CASE n = 1
  <2>1. Len(order) = MaxEntries /\ Kept(s, n) = DOMAIN map \ {order[1]}
    BY <1>4, <1>10
  <2>2. order' = SubSeq(s, 2, Len(s)) BY <1>2, <1>10
  <2>3. order' = Append(Tail(order), k) BY <2>1, <2>2, <1>8
  <2> QED BY <2>1, <2>3, <1>2, <1>5
<1>11. QED BY <1>4, <1>9, <1>10

LEMMA SetNewPreserves ==
  ASSUME IndInv, NEW k \in Keys, NEW v \in Values, SetNew(k, v)
  PROVE  IndInv'
<1>1. /\ order \in Seq(Keys) /\ MaxEntries \in Nat \ {0}
      /\ IsFiniteSet(DOMAIN map) /\ Cardinality(DOMAIN map) = Len(order)
      /\ Len(order) <= MaxEntries
      /\ Range(order) = DOMAIN map /\ DOMAIN map \subseteq Keys
      /\ \A i, j \in 1..Len(order) : order[i] = order[j] => i = j
      /\ \A j \in DOMAIN map : map[j] \in Values
  BY CacheAssumption DEF IndInv, TypeOK, WithinLimit, SameKeys
<1>2. k \notin DOMAIN map /\ UNCHANGED reply BY DEF SetNew
<1>3. map' = [j \in DOMAIN map' |-> IF j = k THEN v ELSE map[j]]
  BY SetNewOrder
<1>4. CASE /\ Len(order) < MaxEntries /\ order' = Append(order, k)
           /\ DOMAIN map' = DOMAIN map \cup {k}
  <2>1. order' \in Seq(Keys) /\ Len(order') = Len(order) + 1
        /\ order'[Len(order) + 1] = k
        /\ \A i \in 1..Len(order) : order'[i] = order[i]
    BY <1>1, <1>4
  <2>2. \A i \in 1..Len(order) : order[i] \in DOMAIN map BY <1>1 DEF Range
  <2>3. \A i, j \in 1..Len(order') : order'[i] = order'[j] => i = j
    BY <1>1, <1>2, <2>1, <2>2
  <2>4. Range(order') = Range(order) \cup {k}
    BY <1>1, <2>1 DEF Range
  <2>5. Cardinality(DOMAIN map') = Len(order')
        /\ IsFiniteSet(DOMAIN map')
    <3>1. IsFiniteSet(DOMAIN map \cup {k})
          /\ Cardinality(DOMAIN map \cup {k}) = Cardinality(DOMAIN map) + 1
      BY <1>1, <1>2, FS_AddElement
    <3> QED BY <3>1, <1>1, <1>4, <2>1
  <2> QED BY <1>1, <1>2, <1>3, <1>4, <2>1, <2>3, <2>4, <2>5
      DEF IndInv, TypeOK, WithinLimit, SameKeys
<1>5. CASE /\ Len(order) = MaxEntries /\ order' = Append(Tail(order), k)
           /\ DOMAIN map' = (DOMAIN map \ {order[1]}) \cup {k}
  <2>1. order # <<>> /\ Len(order) > 0 /\ Len(order) \in Nat BY <1>1, <1>5
  <2>2. order' \in Seq(Keys) /\ Len(order') = Len(order)
        /\ order'[Len(order)] = k
        /\ \A i \in 1..(Len(order) - 1) : order'[i] = order[i + 1]
    BY <1>1, <1>5, <2>1
  <2>3. \A i \in 1..Len(order) : order[i] \in DOMAIN map BY <1>1 DEF Range
  <2>4. \A i, j \in 1..Len(order') : order'[i] = order'[j] => i = j
    BY <1>1, <1>2, <2>1, <2>2, <2>3
  <2>5. Range(order') = DOMAIN map'
    <3>1. \A i \in 1..Len(order') : order'[i] \in DOMAIN map'
      BY <1>1, <1>2, <1>5, <2>1, <2>2, <2>3
    <3>2. ASSUME NEW j \in DOMAIN map' PROVE \E i \in 1..Len(order') : order'[i] = j
      <4>1. CASE j = k BY <4>1, <2>1, <2>2
      <4>2. CASE j # k
        <5>1. PICK i \in 1..Len(order) : order[i] = j
          BY <4>2, <3>2, <1>1, <1>5 DEF Range
        <5>2. i # 1 BY <5>1, <4>2, <3>2, <1>5
        <5>3. i - 1 \in 1..(Len(order) - 1) /\ (i - 1) + 1 = i BY <5>2, <2>1
        <5>4. order'[i - 1] = j BY <5>1, <5>3, <2>2
        <5> QED BY <5>3, <5>4, <2>1, <2>2
      <4> QED BY <4>1, <4>2
    <3>3. DOMAIN order' = 1..Len(order') BY <2>2
    <3> QED BY <3>1, <3>2, <3>3 DEF Range
  <2>6. /\ IsFiniteSet(DOMAIN map \ {order[1]})
        /\ Cardinality(DOMAIN map \ {order[1]}) = Len(order) - 1
    <3>1. order[1] \in DOMAIN map BY <2>1, <2>3
    <3>2. IsFiniteSet(DOMAIN map \ {order[1]})
          /\ Cardinality(DOMAIN map \ {order[1]}) = Cardinality(DOMAIN map) - 1
      BY <1>1, <3>1, FS_RemoveElement
    <3> QED BY <3>2, <1>1
  <2>7. Cardinality(DOMAIN map') = Len(order') /\ IsFiniteSet(DOMAIN map')
    <3> DEFINE rest == DOMAIN map \ {order[1]}
    <3>1. k \notin rest /\ IsFiniteSet(rest) /\ Cardinality(rest) = Len(order) - 1
      BY <1>2, <2>6
    <3>2. DOMAIN map' = rest \cup {k} BY <1>5
    <3> HIDE DEF rest
    <3>3. IsFiniteSet(rest \cup {k})
          /\ Cardinality(rest \cup {k}) = Cardinality(rest) + 1
      BY <3>1, FS_AddElement
    <3> QED BY <3>1, <3>2, <3>3, <2>1, <2>2
  <2> QED BY <1>1, <1>2, <1>3, <1>5, <2>2, <2>4, <2>5, <2>7
      DEF IndInv, TypeOK, WithinLimit, SameKeys
<1>6. QED BY <1>4, <1>5, SetNewOrder

LEMMA InitEstablishes == Init => IndInv
<1> SUFFICES ASSUME Init PROVE IndInv OBVIOUS
<1>1. map = [k \in {} |-> Nothing] /\ order = <<>> /\ reply = Nothing BY DEF Init
<1>2. DOMAIN map = {} /\ order \in Seq(Keys) /\ Len(order) = 0 BY <1>1
<1>3. IsFiniteSet(DOMAIN map) /\ Cardinality(DOMAIN map) = 0
  BY <1>2, FS_EmptySet
<1>4. Range(order) = {} BY <1>2 DEF Range
<1>5. TypeOK BY <1>1, <1>2 DEF TypeOK
<1>6. SameKeys BY <1>2, <1>4 DEF SameKeys
<1>7. WithinLimit BY <1>2, <1>3, CacheAssumption DEF WithinLimit
<1>8. QED BY <1>3, <1>5, <1>6, <1>7 DEF IndInv

LEMMA StepPreserves == IndInv /\ [Next]_vars => IndInv'
<1> SUFFICES ASSUME IndInv, [Next]_vars PROVE IndInv' OBVIOUS
<1>1. ASSUME NEW k \in Keys, GetHit(k) PROVE IndInv'
  BY <1>1, GetHitPreserves
<1>2. ASSUME NEW k \in Keys, GetMiss(k) PROVE IndInv'
  BY <1>2 DEF GetMiss, IndInv, TypeOK, SameKeys, WithinLimit
<1>3. ASSUME NEW k \in Keys, NEW v \in Values, SetNew(k, v) PROVE IndInv'
  BY <1>3, SetNewPreserves
<1>4. ASSUME NEW k \in Keys, NEW v \in Values, SetOld(k, v) PROVE IndInv'
  BY <1>4 DEF SetOld, IndInv, TypeOK, SameKeys, WithinLimit
<1>5. CASE Clear
  <2>1. /\ map' = [k \in {} |-> Nothing] /\ order' = <<>> /\ UNCHANGED reply
    BY <1>5 DEF Clear
  <2>2. DOMAIN map' = {} /\ order' \in Seq(Keys) /\ Len(order') = 0 BY <2>1
  <2>3. IsFiniteSet(DOMAIN map') /\ Cardinality(DOMAIN map') = 0
    BY <2>2, FS_EmptySet
  <2>4. Range(order') = {} BY <2>2 DEF Range
  <2>5. TypeOK' BY <2>1, <2>2 DEF TypeOK, IndInv
  <2>6. SameKeys' BY <2>2, <2>4 DEF SameKeys
  <2>7. WithinLimit' BY <2>2, <2>3, CacheAssumption DEF WithinLimit
  <2> QED BY <2>3, <2>5, <2>6, <2>7 DEF IndInv
<1>6. CASE UNCHANGED vars
  BY <1>6 DEF vars, IndInv, TypeOK, SameKeys, WithinLimit
<1>7. QED BY <1>1, <1>2, <1>3, <1>4, <1>5, <1>6 DEF Next

\* The inductive invariant holds of every behaviour of the cache.
THEOREM InvariantHolds == Spec => []IndInv
BY InitEstablishes, StepPreserves, PTL DEF Spec

\* The two containers of the cache agree for ever, whatever its limit: a key
\* is cached exactly if it stands in the order, and there once.
THEOREM ContainersAgree == Spec => []MapMatchesOrder
<1>1. IndInv => MapMatchesOrder BY DEF IndInv, MapMatchesOrder
<1>2. QED BY <1>1, InvariantHolds, PTL

\* The cache never holds more than MAX_ENTRIES results.
THEOREM LimitKept == Spec => []WithinLimit
<1>1. IndInv => WithinLimit BY DEF IndInv
<1>2. QED BY <1>1, InvariantHolds, PTL

-----------------------------------------------------------------------------
(* The refinement: the entries of the abstract cache are the map read in   *)
(* the order of the vector.                                                *)

Entries == [n \in 1..Len(order) |-> [key |-> order[n], value |-> map[order[n]]]]

\* Append, and Append after Tail, as functions.
LEMMA AppendAsFunction ==
  ASSUME NEW S, NEW s \in Seq(S), NEW e \in S
  PROVE  /\ Append(s, e) = [n \in 1..(Len(s) + 1) |->
                              IF n = Len(s) + 1 THEN e ELSE s[n]]
         /\ s # <<>> => Append(Tail(s), e) =
              [n \in 1..Len(s) |-> IF n = Len(s) THEN e ELSE s[n + 1]]
<1>1. Append(s, e) = [n \in 1..(Len(s) + 1) |->
                        IF n = Len(s) + 1 THEN e ELSE s[n]]
  <2> DEFINE u == Append(s, e)
  <2>1. u \in Seq(S) /\ Len(u) = Len(s) + 1
        /\ \A n \in 1..(Len(s) + 1) : u[n] = IF n = Len(s) + 1 THEN e ELSE s[n]
    OBVIOUS
  <2> HIDE DEF u
  <2>2. u = [n \in 1..Len(u) |-> u[n]] BY <2>1
  <2>3. u = [n \in 1..(Len(s) + 1) |-> IF n = Len(s) + 1 THEN e ELSE s[n]]
    BY <2>1, <2>2
  <2> QED BY <2>3 DEF u
<1>2. ASSUME s # <<>>
      PROVE  Append(Tail(s), e) =
               [n \in 1..Len(s) |-> IF n = Len(s) THEN e ELSE s[n + 1]]
  <2> DEFINE t == Tail(s)
             u == Append(t, e)
  <2>1. Len(s) \in Nat \ {0} /\ t \in Seq(S) /\ Len(t) = Len(s) - 1
        /\ \A n \in 1..(Len(s) - 1) : t[n] = s[n + 1]
    BY <1>2
  <2> HIDE DEF t
  <2>2. u \in Seq(S) /\ Len(u) = Len(t) + 1
        /\ \A n \in 1..(Len(t) + 1) : u[n] = IF n = Len(t) + 1 THEN e ELSE t[n]
    BY <2>1
  <2> HIDE DEF u
  <2>3. Len(u) = Len(s)
        /\ \A n \in 1..Len(s) : u[n] = IF n = Len(s) THEN e ELSE s[n + 1]
    BY <2>1, <2>2
  <2>4. u = [n \in 1..Len(u) |-> u[n]] BY <2>2
  <2>5. u = [n \in 1..Len(s) |-> IF n = Len(s) THEN e ELSE s[n + 1]]
    BY <2>3, <2>4
  <2> QED BY <2>5 DEF t, u
<1>3. QED BY <1>1, <1>2

LEMMA EntriesTypes ==
  ASSUME IndInv
  PROVE  /\ order \in Seq(Keys) /\ Len(order) \in Nat
         /\ Entries \in Seq([key : Keys, value : Values])
         /\ Len(Entries) = Len(order) /\ DOMAIN Entries = 1..Len(order)
         /\ \A n \in 1..Len(order) :
              /\ order[n] \in DOMAIN map /\ order[n] \in Keys
              /\ Entries[n] = [key |-> order[n], value |-> map[order[n]]]
              /\ Entries[n].key = order[n] /\ Entries[n].value = map[order[n]]
         /\ \A m, n \in 1..Len(order) : order[m] = order[n] => m = n
         /\ \A k \in DOMAIN map : \E n \in 1..Len(order) : order[n] = k
<1>1. order \in Seq(Keys) /\ Len(order) \in Nat /\ DOMAIN map \subseteq Keys
      /\ Range(order) = DOMAIN map
  BY DEF IndInv, TypeOK, SameKeys
<1>2. DOMAIN order = 1..Len(order) BY <1>1
<1>3. \A n \in 1..Len(order) :
        order[n] \in DOMAIN map /\ order[n] \in Keys /\ map[order[n]] \in Values
  BY <1>1, <1>2 DEF Range, IndInv, TypeOK
<1>4. /\ Entries = [n \in 1..Len(order) |->
                     [key |-> order[n], value |-> map[order[n]]]]
      /\ \A n \in 1..Len(order) :
           [key |-> order[n], value |-> map[order[n]]]
             \in [key : Keys, value : Values]
  BY <1>3 DEF Entries
<1> DEFINE R == [key : Keys, value : Values]
<1>5. Entries \in Seq(R) /\ Len(Entries) = Len(order)
  <2>1. Entries \in [1..Len(order) -> R] BY <1>4
  <2> HIDE DEF R
  <2> QED BY <1>1, <2>1
<1>6. QED BY <1>1, <1>2, <1>3, <1>4, <1>5
          DEF Entries, Range, IndInv, SameKeys

LEMMA GetHitRefines ==
  ASSUME IndInv, NEW k \in Keys, GetHit(k)
  PROVE  \E n \in 1..Len(Entries) : Lru!Hit(n)
<1>1. k \in Range(order) /\ UNCHANGED map
  BY DEF IndInv, SameKeys, GetHit
<1>2. PICK n \in 1..Len(order) : order[n] = k /\ order' = MoveToBack(order, n)
  BY <1>1 DEF GetHit
<1>3. /\ order' = [m \in 1..Len(order) |->
                    IF m < n THEN order[m]
                    ELSE IF m < Len(order) THEN order[m + 1] ELSE order[n]]
  BY <1>2 DEF MoveToBack
<1>4. order' \in Seq(Keys) /\ Len(order') = Len(order)
  BY <1>3, EntriesTypes
<1>5. Entries' = [m \in 1..Len(Entries) |->
                    IF m < n THEN Entries[m]
                    ELSE IF m < Len(Entries) THEN Entries[m + 1] ELSE Entries[n]]
  <2>1. Entries' = [m \in 1..Len(order) |->
                      [key |-> order'[m], value |-> map[order'[m]]]]
    BY <1>1, <1>4 DEF Entries
  <2>2. \A m \in 1..Len(order) :
          [key |-> order'[m], value |-> map[order'[m]]] =
            IF m < n THEN Entries[m]
            ELSE IF m < Len(order) THEN Entries[m + 1] ELSE Entries[n]
    BY <1>3, EntriesTypes
  <2> QED BY <2>1, <2>2, EntriesTypes
<1>6. reply' = Entries[n].value BY <1>2, EntriesTypes DEF GetHit
<1>7. n \in 1..Len(Entries) BY EntriesTypes
<1>8. Lru!Hit(n) BY <1>5, <1>6, <1>7 DEF Lru!Hit, Entries
<1>9. QED BY <1>7, <1>8

LEMMA SetNewRefines ==
  ASSUME IndInv, NEW k \in Keys, NEW v \in Values, SetNew(k, v)
  PROVE  Lru!Insert(k, v)
<1>1. k \notin DOMAIN map /\ UNCHANGED reply BY DEF SetNew
<1>2. map' = [j \in DOMAIN map' |-> IF j = k THEN v ELSE map[j]] BY SetNewOrder
<1>3. ~\E n \in 1..Len(Entries) : Entries[n].key = k
  <2> SUFFICES ASSUME NEW n \in 1..Len(Entries), Entries[n].key = k PROVE FALSE
    OBVIOUS
  <2>1. n \in 1..Len(order) BY EntriesTypes
  <2> QED BY <2>1, <1>1, EntriesTypes
<1>4. MaxEntries \in Nat \ {0} BY CacheAssumption
<1> DEFINE new == [key |-> k, value |-> v]
<1>5. CASE /\ Len(order) < MaxEntries /\ order' = Append(order, k)
           /\ DOMAIN map' = DOMAIN map \cup {k}
  <2>1. order' \in Seq(Keys) /\ Len(order') = Len(order) + 1
        /\ order'[Len(order) + 1] = k
        /\ \A i \in 1..Len(order) : order'[i] = order[i]
    BY <1>5, EntriesTypes
  <2>2. \A i \in 1..Len(order) : map'[order[i]] = map[order[i]]
    BY <1>1, <1>2, <1>5, EntriesTypes
  <2>3. map'[k] = v BY <1>2, <1>5
  <2>4. Entries' = [n \in 1..(Len(order) + 1) |->
                      IF n = Len(order) + 1 THEN new ELSE Entries[n]]
    BY <2>1, <2>2, <2>3, EntriesTypes DEF Entries
  <2>5. Entries' = Append(Entries, new)
    <3> DEFINE R == [key : Keys, value : Values]
    <3>1. new \in R /\ Entries \in Seq(R) BY EntriesTypes
    <3>3. Len(Entries) = Len(order) BY EntriesTypes
    <3> HIDE DEF new, R
    <3>2. Append(Entries, new) =
            [n \in 1..(Len(Entries) + 1) |->
               IF n = Len(Entries) + 1 THEN new ELSE Entries[n]]
      BY <3>1, AppendAsFunction
    <3> QED BY <2>4, <3>2, <3>3
  <2> QED BY <1>1, <1>3, <1>5, <2>5, EntriesTypes
      DEF Lru!Insert, Lru!Present, Entries
<1>6. CASE /\ Len(order) = MaxEntries /\ order' = Append(Tail(order), k)
           /\ DOMAIN map' = (DOMAIN map \ {order[1]}) \cup {k}
  <2>1. order # <<>> /\ Len(order) > 0 BY <1>4, <1>6
  <2>2. order' \in Seq(Keys) /\ Len(order') = Len(order)
        /\ order'[Len(order)] = k
        /\ \A i \in 1..(Len(order) - 1) : order'[i] = order[i + 1]
    BY <1>6, <2>1, EntriesTypes
  <2>3. \A i \in 1..(Len(order) - 1) : map'[order[i + 1]] = map[order[i + 1]]
    BY <1>1, <1>2, <1>6, <2>1, EntriesTypes
  <2>4. map'[k] = v BY <1>2, <1>6
  <2>5. Entries' = [n \in 1..Len(order) |->
                      IF n = Len(order) THEN new ELSE Entries[n + 1]]
    BY <2>1, <2>2, <2>3, <2>4, EntriesTypes DEF Entries
  <2>6. Entries' = Append(Tail(Entries), new)
    <3> DEFINE R == [key : Keys, value : Values]
    <3>1. new \in R /\ Entries \in Seq(R) BY EntriesTypes
    <3>2. Len(Entries) = Len(order) /\ Entries # <<>> BY <2>1, EntriesTypes
    <3> HIDE DEF new, R
    <3>3. Append(Tail(Entries), new) =
            [n \in 1..Len(Entries) |->
               IF n = Len(Entries) THEN new ELSE Entries[n + 1]]
      BY <3>1, <3>2, AppendAsFunction
    <3> QED BY <3>2, <3>3, <2>5
  <2>7. ~(Len(Entries) < MaxEntries) BY <1>4, <1>6, EntriesTypes
  <2> QED BY <1>1, <1>3, <2>6, <2>7 DEF Lru!Insert, Lru!Present, Entries
<1>7. QED BY <1>5, <1>6, SetNewOrder

LEMMA SetOldRefines ==
  ASSUME IndInv, NEW k \in Keys, NEW v \in Values, SetOld(k, v)
  PROVE  \E n \in 1..Len(Entries) : Lru!Update(n, v)
<1>1. k \in DOMAIN map /\ map' = [map EXCEPT ![k] = v]
      /\ UNCHANGED <<order, reply>>
  BY DEF SetOld
<1>2. PICK n \in 1..Len(order) : order[n] = k BY <1>1, EntriesTypes
<1>3. Entries' = [Entries EXCEPT ![n].value = v]
  <2>1. Entries' = [m \in 1..Len(order) |->
                      [key |-> order[m], value |-> map'[order[m]]]]
    BY <1>1 DEF Entries
  <2>2. \A m \in 1..Len(order) :
          [key |-> order[m], value |-> map'[order[m]]] =
            IF m = n THEN [Entries[m] EXCEPT !.value = v] ELSE Entries[m]
    BY <1>1, <1>2, EntriesTypes
  <2> QED BY <2>1, <2>2, EntriesTypes
<1>4. QED BY <1>1, <1>2, <1>3, EntriesTypes DEF Lru!Update, Entries

\* The two containers, kept in step, implement one least-recently-used
\* sequence of entries: get refreshes, set of a new key evicts the oldest.
THEOREM Implements == Spec => ImplementsLru
<1>1. Init => Lru!Init
  BY DEF Init, Lru!Init
<1>2. IndInv /\ [Next]_vars => [Lru!Next]_(Lru!vars)
  <2> SUFFICES ASSUME IndInv, [Next]_vars PROVE [Lru!Next]_(Lru!vars)
    OBVIOUS
  <2>1. ASSUME NEW k \in Keys, GetHit(k) PROVE Lru!Next
    BY <2>1, GetHitRefines DEF Lru!Next, Entries
  <2>2. ASSUME NEW k \in Keys, GetMiss(k) PROVE Lru!Next
    <3>1. ~\E n \in 1..Len(Entries) : Entries[n].key = k
      <4> SUFFICES ASSUME NEW n \in 1..Len(Entries), Entries[n].key = k
                   PROVE  FALSE
        OBVIOUS
      <4>1. n \in 1..Len(order) BY EntriesTypes
      <4> QED BY <2>2, <4>1, EntriesTypes DEF GetMiss
    <3> QED BY <2>2, <3>1
        DEF GetMiss, Lru!Next, Lru!Miss, Lru!Present, Entries
  <2>3. ASSUME NEW k \in Keys, NEW v \in Values, SetNew(k, v) PROVE Lru!Next
    BY <2>3, SetNewRefines DEF Lru!Next
  <2>4. ASSUME NEW k \in Keys, NEW v \in Values, SetOld(k, v) PROVE Lru!Next
    BY <2>4, SetOldRefines DEF Lru!Next, Entries
  <2>5. CASE Clear
    BY <2>5 DEF Clear, Lru!Next, Lru!Clear
  <2>6. CASE UNCHANGED vars
    BY <2>6 DEF vars, Lru!vars
  <2> QED BY <2>1, <2>2, <2>3, <2>4, <2>5, <2>6 DEF Next
<1>3. QED BY <1>1, <1>2, InvariantHolds, PTL DEF Spec, ImplementsLru, Lru!Spec
===============================================================================
