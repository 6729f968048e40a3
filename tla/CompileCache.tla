----------------------------- MODULE CompileCache -----------------------------
(***************************************************************************)
(* CompileCache (compile_cache.cpp): a map from content hashes to compile  *)
(* results and, beside it, a vector of the same keys in order of use.  Two *)
(* containers that every operation has to keep in step.                    *)
(***************************************************************************)
EXTENDS Integers, Sequences, FiniteSets, Functions

CONSTANTS
  Keys,         \* content hashes
  Values,       \* compile results
  MaxEntries,   \* MAX_ENTRIES
  Nothing       \* std::nullopt

ASSUME CacheAssumption == MaxEntries \in Nat \ {0} /\ Nothing \notin Values

VARIABLES
  map,     \* _map: a function on the keys that are cached
  order,   \* _order: the keys, least recently used first
  reply    \* what the last get returned

vars == <<map, order, reply>>

Init == map = [k \in {} |-> Nothing] /\ order = <<>> /\ reply = Nothing

\* Mutant: a hit does not count as a use.
MoveToBack_Stays(s, n) == s

\* erase(find(key)) and push_back(key): the key at position n goes last.
MoveToBack(s, n) ==
  [m \in 1..Len(s) |-> IF m < n THEN s[m]
                       ELSE IF m < Len(s) THEN s[m + 1] ELSE s[n]]

\* get() of a key that is there; std::find takes its first position.
GetHit(k) ==
  /\ k \in DOMAIN map
  /\ reply' = map[k]
  /\ IF k \in Range(order)
       THEN \E n \in 1..Len(order) :
              /\ order[n] = k /\ \A m \in 1..(n - 1) : order[m] # k
              /\ order' = MoveToBack(order, n)
       ELSE UNCHANGED order
  /\ UNCHANGED map

GetMiss(k) == k \notin DOMAIN map /\ reply' = Nothing /\ UNCHANGED <<map, order>>

\* The keys _map keeps when _evict has erased the first n keys of s.
Kept(s, n) == DOMAIN map \ {s[m] : m \in 1..n}

\* Mutant: > instead of >=.
EvictsFirst_Late(s, n) ==
  /\ n = Len(s) \/ Cardinality(Kept(s, n)) <= MaxEntries
  /\ \A m \in 0..(n - 1) : Cardinality(Kept(s, m)) > MaxEntries

\* _evict on the order s stops after n turns: the map is below its limit or
\* the order is empty, and neither held before.
EvictsFirst(s, n) ==
  /\ n = Len(s) \/ Cardinality(Kept(s, n)) < MaxEntries
  /\ \A m \in 0..(n - 1) : Cardinality(Kept(s, m)) >= MaxEntries

\* set() of a new key: pushed, then _evict, then stored.
SetNew(k, v) ==
  /\ k \notin DOMAIN map
  /\ LET pushed == Append(order, k) IN
       \E n \in 0..Len(pushed) :
         /\ EvictsFirst(pushed, n)
         /\ order' = SubSeq(pushed, n + 1, Len(pushed))
         /\ map'   = [j \in Kept(pushed, n) \cup {k} |->
                        IF j = k THEN v ELSE map[j]]
  /\ UNCHANGED reply

\* set() of a key that is there: its place in the order stays.
SetOld(k, v) ==
  /\ k \in DOMAIN map
  /\ map' = [map EXCEPT ![k] = v]
  /\ UNCHANGED <<order, reply>>

\* Mutant: clear() forgets the order.
Clear_OnlyMap == map' = [k \in {} |-> Nothing] /\ UNCHANGED <<order, reply>>

Clear ==
  /\ map' = [k \in {} |-> Nothing] /\ order' = <<>>
  /\ UNCHANGED reply

Next == \/ \E k \in Keys : GetHit(k) \/ GetMiss(k)
        \/ \E k \in Keys, v \in Values : SetNew(k, v) \/ SetOld(k, v)
        \/ Clear

Spec == Init /\ [][Next]_vars

-----------------------------------------------------------------------------

\* The types compile_cache.hpp gives the map and the order.
TypeOK ==
  /\ DOMAIN map \subseteq Keys
  /\ \A k \in DOMAIN map : map[k] \in Values
  /\ order \in Seq(Keys)
  /\ reply \in Values \cup {Nothing}

SameKeys ==
  /\ Range(order) = DOMAIN map
  /\ \A m, n \in 1..Len(order) : order[m] = order[n] => m = n

\* The containers have their types and agree after every operation: each
\* cached key stands in the order exactly once and nothing else does.  A key
\* missing from the order could never be evicted, a key left in it would make
\* _evict erase nothing (compile_cache.cpp:6-42).
MapMatchesOrder == TypeOK /\ SameKeys

\* "max 256 entries": the map never outgrows its limit, although it is
\* checked before the new entry is stored (compile_cache.hpp:10).
WithinLimit == Len(order) <= MaxEntries /\ Cardinality(DOMAIN map) = Len(order)

\* The cache is a least-recently-used cache.
Lru == INSTANCE LruCache WITH
         entries  <- [n \in 1..Len(order) |->
                        [key |-> order[n], value |-> map[order[n]]]],
         Capacity <- MaxEntries
ImplementsLru == Lru!Spec
===============================================================================
