------------------------------- MODULE LruCache -------------------------------
(***************************************************************************)
(* What a bounded cache that drops the least recently used entry promises: *)
(* one sequence of entries, least recently used first.  A lookup that hits *)
(* moves its entry to the end; a new key pushes out the first entry when   *)
(* the cache is full; writing a key that is present changes its value and  *)
(* leaves its place.                                                       *)
(***************************************************************************)
EXTENDS Naturals, Sequences

CONSTANTS Keys, Values, Capacity, Nothing

VARIABLES entries,   \* <<[key |-> ..., value |-> ...], ...>>
          reply      \* what the last lookup returned

vars == <<entries, reply>>

Init == entries = <<>> /\ reply = Nothing

Present(k) == \E n \in 1..Len(entries) : entries[n].key = k

Hit(n) ==
  /\ n \in 1..Len(entries)
  /\ reply'   = entries[n].value
  /\ entries' = [m \in 1..Len(entries) |->
                   IF m < n THEN entries[m]
                   ELSE IF m < Len(entries) THEN entries[m + 1]
                   ELSE entries[n]]

Miss(k) == ~Present(k) /\ reply' = Nothing /\ UNCHANGED entries

Insert(k, v) ==
  /\ ~Present(k)
  /\ entries' = Append(IF Len(entries) < Capacity THEN entries ELSE Tail(entries),
                       [key |-> k, value |-> v])
  /\ UNCHANGED reply

Update(n, v) ==
  /\ n \in 1..Len(entries)
  /\ entries' = [entries EXCEPT ![n].value = v]
  /\ UNCHANGED reply

Clear == entries' = <<>> /\ UNCHANGED reply

Next == \/ \E n \in 1..Len(entries) : Hit(n)
        \/ \E k \in Keys : Miss(k)
        \/ \E k \in Keys, v \in Values : Insert(k, v)
        \/ \E n \in 1..Len(entries), v \in Values : Update(n, v)
        \/ Clear

Spec == Init /\ [][Next]_vars
===============================================================================
