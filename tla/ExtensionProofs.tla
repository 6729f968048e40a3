---------------------------- MODULE ExtensionProofs ----------------------------
(***************************************************************************)
(* What the extension does with its sidecar: it keeps one running          *)
(* (SidecarLifecycle), and has it compile a file before and after a fix    *)
(* (FixVerification).  The two components share no variable and are proved *)
(* one after the other.                                                    *)
(*                                                                         *)
(* For any number of process slots and any limits: two sidecars never run  *)
(* at once, dispose() leaves one process to come at most, and no Window    *)
(* sees more than two budgets of restarts.  All three rest on there being  *)
(* one chain of events at a time: a start that is awaited, a process that  *)
(* runs, an exit to be delivered or a delayed start, each of which only    *)
(* the one before it sets off.                                             *)
(*                                                                         *)
(* For any number of commands at once, any compilers and any limit of the  *)
(* cache they share: a fix is judged by the code it was made for, and by   *)
(* one compiler while the setting is left alone.  The argument follows a   *)
(* result back to its request: what a cached result is of is the key it is *)
(* under, what an answer is of is what its command asked for, and a        *)
(* command's base does not change once it has asked.                       *)
(***************************************************************************)
EXTENDS SidecarLifecycle, FixVerification, FiniteSetTheorems, TLAPS

-----------------------------------------------------------------------------
(* The lifecycle: its inductive invariants                                 *)

AllFree == \A p \in Procs : proc[p] = "free"

\* One process at most has not been seen off, and none while a start is to come.
OneChain ==
  /\ \A p, q \in Procs : proc[p] # "free" /\ proc[q] # "free" => p = q
  /\ activation = "idle" => AllFree /\ delay = None
  /\ delay # None => AllFree /\ awaiting = None
  /\ awaiting # None => /\ awaiting \notin watched
                        /\ \A p \in Procs : proc[p] # "free" => p = awaiting

\* Only a delay that dispose() met spawns an orphan.
OneOrphan == /\ AtMostOneOrphan
             /\ ~disposed \/ delay # None => orphans = 0

\* The restarts that were taken or are delayed.
Pending == IF delay = None THEN 0 ELSE 1
Budget  == IF restarts < MaxRestarts THEN restarts ELSE MaxRestarts

\* The first k restarts were before the window began, the others are in it.
Split(k) == /\ \A j \in 1..k : recent[j] >= windowAge
            /\ k <= MaxRestarts
            /\ Len(recent) - k + Pending <= Budget

\* No two restarts in one tick, and each window has its budget.
Budgeted ==
  /\ \A j, k \in 1..Len(recent) : j < k => recent[j] > recent[k]
  /\ delay # None /\ recent # <<>> => delay + recent[Len(recent)] >= 1
  /\ \E k \in 0..Len(recent) : Split(k)

LifecycleInv == TypeOK /\ OneChain /\ OneOrphan /\ Budgeted

-----------------------------------------------------------------------------
(* Types                                                                   *)

\* What a tick leaves of the ages.
LEMMA AgedTypes ==
  ASSUME TypeOK, Budgeted
  PROVE  /\ Aged \in Seq(0..Window)
         /\ \/ /\ Len(Aged) = Len(recent)
               /\ \A k \in 1..Len(recent) : Aged[k] = recent[k] + 1
            \/ /\ recent # <<>> /\ Len(Aged) = Len(recent) - 1
               /\ \A k \in 1..(Len(recent) - 1) : Aged[k] = recent[k + 1] + 1
<1>1. /\ Window \in Nat /\ recent \in Seq(0..Window) /\ Len(recent) \in Nat
      /\ \A k \in 1..Len(recent) : recent[k] \in 0..Window
  BY ConstantsAssumption DEF TypeOK
<1>2. CASE recent # <<>> /\ Head(recent) = Window
  <2>1. recent[1] = Window /\ Len(recent) > 0 BY <1>1, <1>2
  <2>2. \A k \in 2..Len(recent) : recent[k] < Window
    BY <1>1, <2>1 DEF Budgeted
  <2>3. Aged = [k \in 1..(Len(recent) - 1) |-> recent[k + 1] + 1]
    BY <1>2 DEF Aged
  <2>4. \A k \in 1..(Len(recent) - 1) : recent[k + 1] + 1 \in 0..Window
    BY <1>1, <2>2
  <2>5. Aged \in Seq(0..Window) /\ Len(Aged) = Len(recent) - 1
    BY <2>1, <2>3, <2>4, <1>1
  <2> QED BY <1>2, <2>3, <2>5
<1>3. CASE ~(recent # <<>> /\ Head(recent) = Window)
  <2>1. Aged = [k \in 1..Len(recent) |-> recent[k] + 1]
    BY <1>1, <1>3 DEF Aged
  <2>2. \A k \in 1..Len(recent) : recent[k] < Window
    BY <1>1, <1>3 DEF Budgeted
  <2>3. \A k \in 1..Len(recent) : recent[k] + 1 \in 0..Window
    BY <1>1, <2>2
  <2>4. Aged \in Seq(0..Window) /\ Len(Aged) = Len(recent)
    BY <1>1, <2>1, <2>3
  <2> QED BY <2>1, <2>4
<1> QED BY <1>2, <1>3

\* What _maybeRestart does: one attempt is used up, of this window or a new
\* one, and either it is delayed or the budget is over.
LEMMA AttemptTypes ==
  ASSUME TypeOK, MaybeRestart
  PROVE  \/ /\ windowAge > Window /\ windowAge' = 0 /\ restarts' = 1
            /\ delay' = 1
         \/ /\ windowAge <= Window /\ windowAge' = windowAge
            /\ restarts' = restarts + 1 /\ restarts + 1 <= MaxRestarts
            /\ delay' = restarts + 1
         \/ /\ windowAge <= Window /\ windowAge' = windowAge
            /\ restarts' = restarts + 1 /\ restarts + 1 > MaxRestarts
            /\ delay' = delay
<1>1. /\ MaxRestarts \in Nat /\ MaxRestarts >= 1 /\ Window \in Nat
      /\ windowAge \in Nat /\ restarts \in Nat
  BY ConstantsAssumption DEF TypeOK
<1>2. CASE windowAge > Window BY <1>1, <1>2 DEF MaybeRestart
<1>3. CASE ~(windowAge > Window) /\ restarts + 1 > MaxRestarts
  BY <1>1, <1>3 DEF MaybeRestart
<1>4. CASE ~(windowAge > Window) /\ ~(restarts + 1 > MaxRestarts)
  BY <1>1, <1>4 DEF MaybeRestart
<1> QED BY <1>2, <1>3, <1>4

LEMMA TypeStep ==
  ASSUME TypeOK, Budgeted, [Next]_vars
  PROVE  TypeOK'
<1> USE ConstantsAssumption DEF TypeOK, procVars, timerVars, budgetVars, extVars
<1>1. CASE Activate BY <1>1 DEF Activate, Start
<1>2. CASE DelayedStart BY <1>2 DEF DelayedStart, Start
<1>3. CASE NoBinary BY <1>3 DEF NoBinary
<1>4. CASE Dispose BY <1>4 DEF Dispose
<1>5. CASE Tick BY <1>5, AgedTypes DEF Tick, Down
<1>6. ASSUME NEW p \in Procs, SendReady(p) PROVE TypeOK' BY <1>6 DEF SendReady
<1>7. ASSUME NEW p \in Procs, SeeReady(p) PROVE TypeOK' BY <1>7 DEF SeeReady
<1>8. ASSUME NEW p \in Procs, ReadyTimesOut(p) PROVE TypeOK'
  BY <1>8 DEF ReadyTimesOut, StartFails
<1>9. ASSUME NEW p \in Procs, SpawnError(p) PROVE TypeOK'
  BY <1>9 DEF SpawnError, StartFails
<1>10. ASSUME NEW p \in Procs, Die(p) PROVE TypeOK' BY <1>10 DEF Die
<1>11. ASSUME NEW p \in Procs, DeliverExit(p) PROVE TypeOK'
  <2>1. ASSUME MaybeRestart
        PROVE  /\ windowAge' \in 0..(Window + 1) /\ restarts' \in Nat
               /\ delay' \in (0..MaxRestarts) \cup {None}
    BY <2>1, AttemptTypes
  <2>2. ASSUME MaybeRestart PROVE gaveUp' \in BOOLEAN BY <2>2, Zenon DEF MaybeRestart
  <2> QED BY <1>11, <2>1, <2>2 DEF DeliverExit
<1>12. CASE UNCHANGED vars BY <1>12 DEF vars
<1> QED BY <1>1, <1>2, <1>3, <1>4, <1>5, <1>6, <1>7, <1>8, <1>9, <1>10, <1>11, <1>12
        DEF Next

-----------------------------------------------------------------------------
(* One chain                                                               *)

LEMMA ChainStep ==
  ASSUME TypeOK, OneChain, [Next]_vars
  PROVE  OneChain'
<1> USE ConstantsAssumption
    DEF TypeOK, OneChain, AllFree, procVars, timerVars, budgetVars, extVars
<1>1. CASE Activate BY <1>1 DEF Activate, Start
<1>2. CASE DelayedStart BY <1>2 DEF DelayedStart, Start
<1>3. CASE NoBinary BY <1>3 DEF NoBinary
<1>4. CASE Dispose BY <1>4 DEF Dispose
<1>5. CASE Tick BY <1>5 DEF Tick, Down
<1>6. ASSUME NEW p \in Procs, SendReady(p) PROVE OneChain' BY <1>6 DEF SendReady
<1>7. ASSUME NEW p \in Procs, SeeReady(p) PROVE OneChain' BY <1>7 DEF SeeReady
<1>8. ASSUME NEW p \in Procs, ReadyTimesOut(p) PROVE OneChain'
  BY <1>8 DEF ReadyTimesOut, StartFails
<1>9. ASSUME NEW p \in Procs, SpawnError(p) PROVE OneChain'
  BY <1>9 DEF SpawnError, StartFails
<1>10. ASSUME NEW p \in Procs, Die(p) PROVE OneChain' BY <1>10 DEF Die
<1>11. ASSUME NEW p \in Procs, DeliverExit(p) PROVE OneChain'
  BY <1>11 DEF DeliverExit, MaybeRestart
<1>12. CASE UNCHANGED vars BY <1>12 DEF vars
<1> QED BY <1>1, <1>2, <1>3, <1>4, <1>5, <1>6, <1>7, <1>8, <1>9, <1>10, <1>11, <1>12
        DEF Next

-----------------------------------------------------------------------------
(* One orphan                                                              *)

LEMMA OrphanStep ==
  ASSUME TypeOK, OneOrphan, [Next]_vars
  PROVE  OneOrphan'
<1> USE ConstantsAssumption
    DEF TypeOK, OneOrphan, AtMostOneOrphan, procVars, timerVars, budgetVars, extVars
<1>1. CASE Activate BY <1>1 DEF Activate, Start
<1>2. CASE DelayedStart BY <1>2 DEF DelayedStart, Start
<1>3. CASE NoBinary BY <1>3 DEF NoBinary
<1>4. CASE Dispose BY <1>4 DEF Dispose
<1>5. CASE Tick BY <1>5 DEF Tick, Down
<1>6. ASSUME NEW p \in Procs, SendReady(p) PROVE OneOrphan' BY <1>6 DEF SendReady
<1>7. ASSUME NEW p \in Procs, SeeReady(p) PROVE OneOrphan' BY <1>7 DEF SeeReady
<1>8. ASSUME NEW p \in Procs, ReadyTimesOut(p) PROVE OneOrphan'
  BY <1>8 DEF ReadyTimesOut, StartFails
<1>9. ASSUME NEW p \in Procs, SpawnError(p) PROVE OneOrphan'
  BY <1>9 DEF SpawnError, StartFails
<1>10. ASSUME NEW p \in Procs, Die(p) PROVE OneOrphan' BY <1>10 DEF Die
<1>11. ASSUME NEW p \in Procs, DeliverExit(p) PROVE OneOrphan'
  BY <1>11 DEF DeliverExit, MaybeRestart
<1>12. CASE UNCHANGED vars BY <1>12 DEF vars
<1> QED BY <1>1, <1>2, <1>3, <1>4, <1>5, <1>6, <1>7, <1>8, <1>9, <1>10, <1>11, <1>12
        DEF Next

-----------------------------------------------------------------------------
(* The rate of restarts                                                    *)

\* The numbers Budgeted speaks of.
LEMMA RateTypes ==
  ASSUME TypeOK
  PROVE  /\ MaxRestarts \in Nat /\ MaxRestarts >= 1 /\ Window \in Nat
         /\ windowAge \in Nat /\ restarts \in Nat
         /\ Len(recent) \in Nat /\ recent \in Seq(0..Window)
         /\ \A k \in 1..Len(recent) : recent[k] \in Nat /\ recent[k] <= Window
         /\ delay \in Nat \cup {None} /\ None \notin Nat
         /\ Budget \in Nat /\ Budget <= MaxRestarts /\ Pending \in 0..1
BY ConstantsAssumption DEF TypeOK, Budget, Pending

\* A restart that is delayed moves from Pending to the sequence.
LEMMA DelayedStartRate ==
  ASSUME TypeOK, Budgeted, DelayedStart
  PROVE  Budgeted'
<1> DEFINE n == Len(recent)
<1>0. /\ MaxRestarts \in Nat /\ MaxRestarts >= 1 /\ Window \in Nat
      /\ windowAge \in Nat /\ restarts \in Nat
      /\ Len(recent) \in Nat /\ recent \in Seq(0..Window)
      /\ \A k \in 1..Len(recent) : recent[k] \in Nat /\ recent[k] <= Window
      /\ delay \in Nat \cup {None} /\ None \notin Nat
      /\ Budget \in Nat /\ Budget <= MaxRestarts /\ Pending \in 0..1
  BY RateTypes
<1> USE <1>0
<1>1. /\ recent' = Append(recent, 0) /\ delay = 0 /\ delay' = None
      /\ windowAge' = windowAge /\ restarts' = restarts
  BY DEF DelayedStart, budgetVars
<1>2. /\ Len(recent') = n + 1 /\ recent'[n + 1] = 0
      /\ \A j \in 1..n : recent'[j] = recent[j]
  BY <1>1
<1>3. n > 0 => recent[n] >= 1 BY <1>1 DEF Budgeted
<1>4. \A j \in 1..n : recent[j] >= 1
  <2> SUFFICES ASSUME NEW j \in 1..n, j < n PROVE recent[j] >= 1 BY <1>3
  <2> QED BY DEF Budgeted
<1>5. \A j, k \in 1..(n + 1) : j < k => recent'[j] > recent'[k]
  <2> SUFFICES ASSUME NEW j \in 1..(n + 1), NEW k \in 1..(n + 1), j < k
               PROVE  recent'[j] > recent'[k]
    OBVIOUS
  <2>1. j \in 1..n /\ recent'[j] = recent[j] BY <1>2
  <2>2. CASE k = n + 1 BY <1>2, <1>4, <2>1, <2>2
  <2>3. CASE k \in 1..n
    <3>1. recent[j] > recent[k] BY <2>1, <2>3 DEF Budgeted
    <3> QED BY <1>2, <2>1, <2>3, <3>1
  <2> QED BY <2>2, <2>3
<1>6. PICK k \in 0..n : Split(k) BY DEF Budgeted
<1>7. Pending' = 0 /\ Pending = 1 /\ Budget' = Budget
  BY <1>1 DEF Pending, Budget
<1>8. Split(k)' BY <1>1, <1>2, <1>6, <1>7 DEF Split
<1> QED BY <1>1, <1>2, <1>5, <1>6, <1>8 DEF Budgeted

\* A start that finds no binary is a restart that is not taken.
LEMMA NoBinaryRate ==
  ASSUME TypeOK, Budgeted, NoBinary
  PROVE  Budgeted'
<1>0. /\ MaxRestarts \in Nat /\ MaxRestarts >= 1 /\ Window \in Nat
      /\ windowAge \in Nat /\ restarts \in Nat
      /\ Len(recent) \in Nat /\ recent \in Seq(0..Window)
      /\ \A k \in 1..Len(recent) : recent[k] \in Nat /\ recent[k] <= Window
      /\ delay \in Nat \cup {None} /\ None \notin Nat
      /\ Budget \in Nat /\ Budget <= MaxRestarts /\ Pending \in 0..1
  BY RateTypes
<1> USE <1>0
<1>1. /\ recent' = recent /\ windowAge' = windowAge /\ restarts' = restarts
      /\ delay' = delay \/ delay' = None
  BY DEF NoBinary, timerVars, budgetVars
<1>2. PICK k \in 0..Len(recent) : Split(k) BY DEF Budgeted
<1>3. Pending' \in 0..1 /\ Pending' <= Pending /\ Budget' = Budget
  BY <1>1 DEF Pending, Budget
<1>4. Split(k)' BY <1>1, <1>2, <1>3 DEF Split
<1> QED BY <1>1, <1>2, <1>4 DEF Budgeted

\* The window and the restarts grow older together, and the oldest leaves.
LEMMA TickRate ==
  ASSUME TypeOK, Budgeted, Tick
  PROVE  Budgeted'
<1> DEFINE n == Len(recent)
<1>0. /\ n \in Nat /\ windowAge \in Nat /\ Window \in Nat
      /\ \A k \in 1..n : recent[k] \in Nat /\ recent[k] <= Window
      /\ delay \in Nat \cup {None} /\ None \notin Nat
      /\ Pending \in Nat /\ Budget \in Nat /\ MaxRestarts \in Nat
  BY RateTypes
<1>1. /\ recent' = Aged /\ restarts' = restarts
      /\ windowAge' = (IF windowAge > Window THEN windowAge ELSE windowAge + 1)
      /\ delay' = Down(delay)
  BY DEF Tick, budgetVars
<1>2. \/ delay = None /\ delay' = None
      \/ delay # None /\ delay' # None /\ delay \in Nat /\ delay' \in Nat /\ delay' + 1 >= delay
  BY <1>0, <1>1 DEF Down
<1>3. Pending' = Pending /\ Budget' = Budget BY <1>1, <1>2 DEF Pending, Budget
<1>4. PICK k \in 0..n : Split(k) BY DEF Budgeted
<1>5. /\ \A j \in 1..k : recent[j] >= windowAge
      /\ k <= MaxRestarts /\ n - k + Pending <= Budget
  BY <1>4 DEF Split
<1>6. k > 0 => windowAge <= Window /\ windowAge' = windowAge + 1
  BY <1>0, <1>1, <1>5
<1>7. /\ \A i, j \in 1..n : i < j => recent[i] > recent[j]
      /\ delay # None /\ n > 0 => delay + recent[n] >= 1
  <2>1. n > 0 => recent # <<>> OBVIOUS
  <2> QED BY <2>1 DEF Budgeted
<1>8. \E m \in 0..n :
        /\ Len(Aged) = n - m /\ m <= 1
        /\ \A j \in 1..(n - m) : Aged[j] = recent[j + m] + 1
  <2>1. recent # <<>> => n >= 1 BY RateTypes
  <2> QED BY <1>0, <2>1, AgedTypes
<1>9. PICK m \in 0..n : /\ Len(Aged) = n - m /\ m <= 1
                        /\ \A j \in 1..(n - m) : Aged[j] = recent[j + m] + 1
  BY <1>8
<1> HIDE DEF n
<1>10. \A i, j \in 1..(n - m) : i < j => Aged[i] > Aged[j]
  <2> SUFFICES ASSUME NEW i \in 1..(n - m), NEW j \in 1..(n - m), i < j
               PROVE  Aged[i] > Aged[j]
    OBVIOUS
  <2>1. Aged[i] = recent[i + m] + 1 /\ Aged[j] = recent[j + m] + 1 BY <1>9
  <2>2. i + m \in 1..n /\ j + m \in 1..n /\ i + m < j + m BY <1>0, <1>9
  <2>3. recent[i + m] > recent[j + m] BY <1>7, <2>2
  <2> QED BY <1>0, <2>1, <2>2, <2>3
<1>11. delay' # None /\ n - m > 0 => delay' + Aged[n - m] >= 1
  <2> SUFFICES ASSUME delay' # None, n - m > 0 PROVE delay' + Aged[n - m] >= 1
    OBVIOUS
  <2>1. Aged[n - m] = recent[n] + 1 BY <1>0, <1>9
  <2>2. recent[n] \in Nat BY <1>0
  <2> QED BY <1>0, <1>2, <2>1, <2>2
<1>12. \E l \in 0..(n - m) : /\ \A j \in 1..l : Aged[j] >= windowAge'
                             /\ l <= MaxRestarts
                             /\ n - m - l + Pending <= Budget
  <2>1. CASE k < m
    <3>1. k = 0 BY <1>0, <1>9, <2>1
    <3>2. n - m - 0 + Pending <= Budget /\ 0 \in 0..(n - m) BY <1>0, <1>5, <1>9, <3>1
    <3> QED BY <1>0, <3>2
  <2>2. CASE k >= m
    <3>1. k - m \in 0..(n - m) BY <1>0, <1>9, <2>2
    <3>2. \A j \in 1..(k - m) : Aged[j] >= windowAge'
      BY <1>0, <1>5, <1>6, <1>9, <2>2
    <3>3. k - m <= MaxRestarts /\ n - m - (k - m) + Pending <= Budget
      BY <1>0, <1>5, <1>9, <2>2
    <3> QED BY <3>1, <3>2, <3>3
  <2> QED BY <1>0, <1>9, <2>1, <2>2
<1>13. \E l \in 0..Len(recent') : Split(l)' BY <1>1, <1>3, <1>9, <1>12 DEF Split
<1>14. delay' # None /\ recent' # <<>> => delay' + recent'[Len(recent')] >= 1
  <2>1. recent' # <<>> => Len(recent') > 0 BY <1>1, AgedTypes
  <2> QED BY <1>1, <1>9, <1>11, <2>1
<1> QED BY <1>1, <1>9, <1>10, <1>13, <1>14 DEF Budgeted

\* An attempt is added to its window, or what is there becomes the past of a
\* new one: it fits one budget, because what came before it is forgotten.
LEMMA AttemptRate ==
  ASSUME TypeOK, Budgeted, delay = None, MaybeRestart, recent' = recent
  PROVE  Budgeted'
<1> DEFINE n == Len(recent)
<1>0. /\ MaxRestarts \in Nat /\ MaxRestarts >= 1 /\ Window \in Nat
      /\ windowAge \in Nat /\ restarts \in Nat
      /\ Len(recent) \in Nat /\ recent \in Seq(0..Window)
      /\ \A k \in 1..Len(recent) : recent[k] \in Nat /\ recent[k] <= Window
      /\ delay \in Nat \cup {None} /\ None \notin Nat
      /\ Budget \in Nat /\ Budget <= MaxRestarts /\ Pending \in 0..1
  BY RateTypes
<1> USE <1>0
<1>1. PICK k \in 0..n : Split(k) BY DEF Budgeted
<1>2. Pending = 0 BY DEF Pending
<1>3. \A j, l \in 1..n : j < l => recent[j] > recent[l] BY DEF Budgeted
<1>4. CASE /\ windowAge > Window /\ windowAge' = 0 /\ restarts' = 1 /\ delay' = 1
  <2>1. k = 0
    <3> SUFFICES ASSUME k > 0 PROVE FALSE OBVIOUS
    <3>1. 1 \in 1..k /\ 1 \in 1..n OBVIOUS
    <3> QED BY <1>1, <1>4, <3>1 DEF Split
  <2>2. n <= MaxRestarts BY <1>1, <1>2, <2>1 DEF Split
  <2>3. Pending' = 1 /\ Budget' = 1 BY <1>4 DEF Pending, Budget
  <2>4. Split(n)' BY <1>4, <2>2, <2>3 DEF Split
  <2> QED BY <1>3, <1>4, <2>4 DEF Budgeted
<1>5. CASE /\ windowAge' = windowAge /\ restarts' = restarts + 1
           /\ restarts + 1 <= MaxRestarts /\ delay' = restarts + 1
  <2>1. Pending' = 1 /\ Budget = restarts /\ Budget' = restarts + 1
    BY <1>5 DEF Pending, Budget
  <2>2. Split(k)' BY <1>1, <1>2, <1>5, <2>1 DEF Split
  <2> QED BY <1>3, <1>5, <2>2 DEF Budgeted
<1>6. CASE /\ windowAge' = windowAge /\ restarts' = restarts + 1
           /\ restarts + 1 > MaxRestarts /\ delay' = delay
  <2>1. Pending' = 0 /\ Budget' = MaxRestarts
    BY <1>6 DEF Pending, Budget
  <2>2. Split(k)' BY <1>1, <1>2, <1>6, <2>1 DEF Split
  <2> QED BY <1>3, <1>6, <2>2 DEF Budgeted
<1> QED BY <1>4, <1>5, <1>6, AttemptTypes

LEMMA RateStep ==
  ASSUME TypeOK, OneChain, Budgeted, [Next]_vars
  PROVE  Budgeted'
<1> DEFINE rate == <<recent, delay, windowAge, restarts>>
<1>1. CASE UNCHANGED rate BY <1>1 DEF Budgeted, Split, Pending, Budget
<1> USE DEF procVars, timerVars, budgetVars, extVars
<1>2. CASE Activate BY <1>1, <1>2 DEF Activate
<1>3. CASE DelayedStart BY <1>3, DelayedStartRate
<1>4. CASE NoBinary BY <1>4, NoBinaryRate
<1>5. CASE Dispose BY <1>1, <1>5 DEF Dispose
<1>6. CASE Tick BY <1>6, TickRate
<1>7. ASSUME NEW p \in Procs, SendReady(p) PROVE Budgeted'
  BY <1>1, <1>7 DEF SendReady
<1>8. ASSUME NEW p \in Procs, SeeReady(p) PROVE Budgeted'
  BY <1>1, <1>8 DEF SeeReady
<1>9. ASSUME NEW p \in Procs, ReadyTimesOut(p) PROVE Budgeted'
  BY <1>1, <1>9 DEF ReadyTimesOut, StartFails
<1>10. ASSUME NEW p \in Procs, SpawnError(p) PROVE Budgeted'
  BY <1>1, <1>10 DEF SpawnError, StartFails
<1>11. ASSUME NEW p \in Procs, Die(p) PROVE Budgeted'
  BY <1>1, <1>11 DEF Die
<1>12. ASSUME NEW p \in Procs, DeliverExit(p) PROVE Budgeted'
  <2>1. proc[p] = "exited" /\ recent' = recent BY <1>12 DEF DeliverExit
  <2>2. delay = None BY <2>1 DEF OneChain, AllFree
  <2>3. CASE MaybeRestart BY <2>1, <2>2, <2>3, AttemptRate
  <2>4. CASE ~MaybeRestart BY <1>1, <1>12, <2>4 DEF DeliverExit
  <2> QED BY <2>3, <2>4
<1>13. CASE UNCHANGED vars BY <1>1, <1>13 DEF vars
<1> QED BY <1>2, <1>3, <1>4, <1>5, <1>6, <1>7, <1>8, <1>9, <1>10, <1>11, <1>12, <1>13
        DEF Next

-----------------------------------------------------------------------------
(* The theorems of the lifecycle                                           *)

\* One thing at a time carries the sidecar on: a start, a watched process or a
\* delayed restart, within the budget (lifecycle.ts:25-120).
THEOREM LifecycleInvariant == Spec => []LifecycleInv
<1>1. Init => LifecycleInv
  <2> SUFFICES ASSUME Init PROVE LifecycleInv OBVIOUS
  <2> USE ConstantsAssumption DEF Init
  <2>1. TypeOK
    <3>1. recent \in Seq(0..Window) OBVIOUS
    <3>2. disposed \in BOOLEAN /\ gaveUp \in BOOLEAN /\ noBinary \in BOOLEAN
      BY Zenon
    <3> QED BY <3>1, <3>2 DEF TypeOK
  <2>2. OneChain BY DEF OneChain, AllFree
  <2>3. OneOrphan BY DEF OneOrphan, AtMostOneOrphan
  <2>4. Budgeted
    <3>1. Len(recent) = 0 /\ Pending = 0 /\ Budget = 0 BY DEF Pending, Budget
    <3>2. Split(0) BY <3>1 DEF Split
    <3> QED BY <3>1, <3>2 DEF Budgeted
  <2> QED BY <2>1, <2>2, <2>3, <2>4 DEF LifecycleInv
<1>2. LifecycleInv /\ [Next]_vars => LifecycleInv'
  BY TypeStep, ChainStep, OrphanStep, RateStep DEF LifecycleInv
<1> QED BY <1>1, <1>2, PTL DEF Spec

\* Two sidecars never run at once on the workspace's databases: a start() that
\* gave up leaves its process, and no other follows (lifecycle.ts:37-42).
THEOREM OneSidecar == Spec => []AtMostOneSidecar
<1>1. LifecycleInv => AtMostOneSidecar
  <2> SUFFICES ASSUME LifecycleInv PROVE AtMostOneSidecar OBVIOUS
  <2> DEFINE alive == {p \in Procs : proc[p] = "alive"}
  <2>1. TypeOK /\ \A p, q \in alive : p = q BY DEF LifecycleInv, OneChain
  <2>2. CASE alive = {} BY <2>1, <2>2, FS_EmptySet DEF AtMostOneSidecar
  <2>3. CASE alive # {}
    <3>1. PICK p \in alive : TRUE BY <2>3
    <3>2. alive = {p} BY <2>1, <3>1
    <3>3. Cardinality(alive) = 1 BY <3>2, FS_Singleton
    <3> QED BY <2>1, <3>3 DEF AtMostOneSidecar
  <2> QED BY <2>2, <2>3
<1> QED BY <1>1, LifecycleInvariant, PTL

\* dispose() does not cancel a delayed start, and one process at most comes of
\* it (lifecycle.ts:41, 103-106, 115-120).
THEOREM OneOrphanAtMost == Spec => []AtMostOneOrphan
<1>1. LifecycleInv => AtMostOneOrphan BY DEF LifecycleInv, OneOrphan
<1> QED BY <1>1, LifecycleInvariant, PTL

\* Two budgets in any Window ticks: a window that ends as another begins
\* (lifecycle.ts:84-99).
THEOREM RestartRate == Spec => []BoundedRestartRate
<1>1. LifecycleInv => BoundedRestartRate
  <2> SUFFICES ASSUME LifecycleInv PROVE BoundedRestartRate OBVIOUS
  <2>1. TypeOK BY DEF LifecycleInv
  <2>2. PICK k \in 0..Len(recent) : Split(k) BY DEF LifecycleInv, Budgeted
  <2> QED BY <2>1, <2>2, RateTypes DEF Split, BoundedRestartRate
<1> QED BY <1>1, LifecycleInvariant, PTL
-----------------------------------------------------------------------------
(* Fixes: their inductive invariants                                       *)

Whats    == {"before", "after", "diff"}
Requests == [cmd : Commands, what : Whats, source : Sources, compiler : Compilers]
Answers  == [cmd : Commands, what : Whats, result : Results \cup {Nothing}]

\* What command c has compiled before and after its patch to the text b[c].
Code(b, c, what) == [text |-> b[c], patch |-> IF what = "after" THEN c ELSE Nothing]

Types == FixTypeOK /\ inbox \in Seq(Requests) /\ outbox \in Seq(Answers)

\* What is cached, asked for, answered and received is of its own source, and
\* a command has none of it before it has set its base.
OwnEntries  == \A s \in DOMAIN map : map[s].of = s
OwnRequests == \A n \in 1..Len(inbox) :
                 LET m == inbox[n] IN /\ stage[m.cmd] # "idle"
                                      /\ m.source = Code(base, m.cmd, m.what)
OwnAnswers  == \A n \in 1..Len(outbox) :
                 LET m == outbox[n] IN
                   /\ stage[m.cmd] # "idle"
                   /\ m.result # Nothing => m.result.of = Code(base, m.cmd, m.what)
OwnResults  == \A c \in Commands :
                 /\ stage[c] = "idle" => before[c] = Nothing /\ after[c] = Nothing
                 /\ before[c] # Nothing => before[c].of = Code(base, c, "before")
                 /\ after[c]  # Nothing => after[c].of  = Code(base, c, "after")
OwnCode == OwnEntries /\ OwnRequests /\ OwnAnswers /\ OwnResults

\* Until the setting is changed, all of it is by the compiler it names.
OneCompiler ==
  ~reconfigured =>
    /\ \A s \in DOMAIN map : map[s].by = setting
    /\ \A n \in 1..Len(inbox) : inbox[n].compiler = setting
    /\ \A n \in 1..Len(outbox) :
         outbox[n].result # Nothing => outbox[n].result.by = setting
    /\ \A c \in Commands : /\ before[c] # Nothing => before[c].by = setting
                           /\ after[c]  # Nothing => after[c].by  = setting

FixInv == Types /\ OwnCode /\ OneCompiler

-----------------------------------------------------------------------------
(* The cache                                                               *)

\* A hit changes the order of use only.
LEMMA HitKeeps ==
  ASSUME Cache!TypeOK, NEW k \in Sources, Cache!GetHit(k)
  PROVE  Cache!TypeOK' /\ map' = map /\ k \in DOMAIN map /\ map[k] \in Results
<1>1. k \in DOMAIN map /\ map[k] \in Results /\ map' = map /\ reply' = map[k]
  BY DEF Cache!TypeOK, Cache!GetHit
<1>2. order' \in Seq(Sources)
  <2>1. CASE order' = order BY <2>1 DEF Cache!TypeOK
  <2>2. ASSUME NEW n \in 1..Len(order), order' = Cache!MoveToBack(order, n)
        PROVE  order' \in Seq(Sources)
    <3>1. order \in Seq(Sources) /\ Len(order) \in Nat BY DEF Cache!TypeOK
    <3>2. \A m \in 1..Len(order) : Cache!MoveToBack(order, n)[m] \in Sources
      BY <3>1 DEF Cache!MoveToBack
    <3>3. Cache!MoveToBack(order, n) =
            [m \in 1..Len(order) |-> Cache!MoveToBack(order, n)[m]]
      BY DEF Cache!MoveToBack
    <3> QED BY <2>2, <3>1, <3>2, <3>3
  <2> QED BY <2>1, <2>2 DEF Cache!GetHit
<1> QED BY <1>1, <1>2 DEF Cache!TypeOK

\* A new entry is under its key; the entries that stay are what they were.
LEMMA NewKeeps ==
  ASSUME Cache!TypeOK, NEW k \in Sources, NEW v \in Results, Cache!SetNew(k, v)
  PROVE  /\ Cache!TypeOK'
         /\ \A s \in DOMAIN map' : \/ s = k /\ map'[s] = v
                                   \/ s \in DOMAIN map /\ map'[s] = map[s]
<1> DEFINE pushed == Append(order, k)
<1>1. PICK n \in 0..Len(pushed) :
        /\ order' = SubSeq(pushed, n + 1, Len(pushed))
        /\ map' = [j \in Cache!Kept(pushed, n) \cup {k} |-> IF j = k THEN v ELSE map[j]]
  BY DEF Cache!SetNew
<1>2. pushed \in Seq(Sources) /\ Len(pushed) \in Nat BY DEF Cache!TypeOK
<1>3. order' \in Seq(Sources)
  <2>1. \A m \in (n + 1)..Len(pushed) : pushed[m] \in Sources BY <1>2
  <2> QED BY <1>1, <1>2, <2>1
<1>4. Cache!Kept(pushed, n) \subseteq DOMAIN map BY DEF Cache!Kept
<1>5. \A s \in DOMAIN map' : \/ s = k /\ map'[s] = v
                             \/ s \in DOMAIN map /\ map'[s] = map[s]
  BY <1>1, <1>4
<1>6. reply' = reply BY DEF Cache!SetNew
<1> QED BY <1>3, <1>5, <1>6 DEF Cache!TypeOK

-----------------------------------------------------------------------------
(* Messages                                                                *)

\* What FixTypeOK says of the two pipes.
LEMMA PipeTypes ==
  ASSUME NEW in \in Seq(Requests), NEW out \in Seq(Answers)
  PROVE  /\ \A n \in DOMAIN in : in[n].cmd \in Commands /\ in[n].source \in Sources
         /\ \A n \in DOMAIN out : out[n].result \in Results \cup {Nothing}
<1>1. \A n \in DOMAIN in : in[n] \in Requests OBVIOUS
<1>2. \A n \in DOMAIN out : out[n] \in Answers OBVIOUS
<1> QED BY <1>1, <1>2 DEF Requests, Answers

\* What a command asks for.
LEMMA RequestIs ==
  ASSUME Types, NEW c \in Commands, NEW what \in Whats, NEW text \in Texts
  PROVE  /\ Request(c, what, text) \in Requests
         /\ Request(c, what, text).cmd = c /\ Request(c, what, text).what = what
         /\ Request(c, what, text).compiler = setting
         /\ Request(c, what, text).source =
              [text |-> text, patch |-> IF what = "after" THEN c ELSE Nothing]
<1>1. setting \in Compilers BY DEF Types, FixTypeOK
<1>2. [text |-> text, patch |-> IF what = "after" THEN c ELSE Nothing] \in Sources
  BY DEF Sources
<1> QED BY <1>1, <1>2 DEF Request, Requests

\* The request that is taken up.
LEMMA HeadRequest ==
  ASSUME Types, inbox # <<>>
  PROVE  /\ Head(inbox) \in Requests /\ Head(inbox) = inbox[1] /\ 1 \in 1..Len(inbox)
         /\ Tail(inbox) \in Seq(Requests) /\ Len(Tail(inbox)) = Len(inbox) - 1
         /\ \A n \in 1..Len(Tail(inbox)) :
              Tail(inbox)[n] = inbox[n + 1] /\ n + 1 \in 1..Len(inbox)
BY DEF Types

\* The answer that is received.
LEMMA HeadAnswer ==
  ASSUME Types, outbox # <<>>
  PROVE  /\ Head(outbox) \in Answers /\ Head(outbox) = outbox[1] /\ 1 \in 1..Len(outbox)
         /\ Tail(outbox) \in Seq(Answers) /\ Len(Tail(outbox)) = Len(outbox) - 1
         /\ \A n \in 1..Len(Tail(outbox)) :
              Tail(outbox)[n] = outbox[n + 1] /\ n + 1 \in 1..Len(outbox)
BY DEF Types

\* An answer with a result of the request's own source and compiler keeps all
\* that the invariant says of messages.
LEMMA AnswerKeeps ==
  ASSUME FixInv, inbox # <<>>, NEW result \in Results, Return(Head(inbox), result),
         result.of = Head(inbox).source,
         ~reconfigured => result.by = Head(inbox).compiler,
         Cache!TypeOK', \A s \in DOMAIN map' : map'[s].of = s,
         ~reconfigured => \A s \in DOMAIN map' : map'[s].by = setting,
         UNCHANGED <<detected, docVars, setting, cmdVars, status, history>>
  PROVE  FixInv'
<1> DEFINE req == Head(inbox)
<1>1. PICK sent \in {result, Nothing} :
        /\ inbox' = Tail(inbox)
        /\ outbox' = Append(outbox, [cmd |-> req.cmd, what |-> req.what, result |-> sent])
  BY DEF Return, Answer
<1> DEFINE msg == [cmd |-> req.cmd, what |-> req.what, result |-> sent]
<1>2. req \in Requests /\ req = inbox[1] /\ 1 \in 1..Len(inbox)
  BY HeadRequest DEF FixInv
<1>3. msg \in Answers BY <1>2 DEF Requests, Answers
<1>4. inbox' \in Seq(Requests) /\ \A n \in 1..Len(inbox') : \E m \in 1..Len(inbox) :
        inbox'[n] = inbox[m]
  BY <1>1, HeadRequest DEF FixInv
<1>5. outbox' \in Seq(Answers) /\ \A n \in 1..Len(outbox') :
        \/ outbox'[n] = msg
        \/ \E m \in 1..Len(outbox) : outbox'[n] = outbox[m]
  <2>1. outbox \in Seq(Answers) BY DEF FixInv, Types
  <2> QED BY <1>1, <1>3, <2>1
<1>6. /\ texts' = texts /\ buffer' = buffer /\ disk' = disk /\ setting' = setting
      /\ stage' = stage /\ base' = base /\ before' = before /\ after' = after
      /\ status' = status /\ detected' = detected
      /\ reconfigured' = reconfigured
  BY DEF docVars, cmdVars, history
<1>7. Types'
  <2>1. /\ \A n \in DOMAIN inbox' :
             inbox'[n].cmd \in Commands /\ inbox'[n].source \in Sources
        /\ \A n \in DOMAIN outbox' : outbox'[n].result \in Results \cup {Nothing}
    BY <1>4, <1>5, PipeTypes
  <2> QED BY <1>4, <1>5, <1>6, <2>1 DEF FixInv, Types, FixTypeOK
<1>8. OwnCode'
  <2>1. stage[req.cmd] # "idle" /\ req.source = Code(base, req.cmd, req.what)
    BY <1>2 DEF FixInv, OwnCode, OwnEntries, OwnRequests, OwnAnswers, OwnResults
  <2>3. \A n \in 1..Len(inbox') : /\ stage[inbox'[n].cmd] # "idle"
                                  /\ inbox'[n].source = Code(base, inbox'[n].cmd, inbox'[n].what)
    BY <1>4 DEF FixInv, OwnCode, OwnEntries, OwnRequests, OwnAnswers, OwnResults
  <2>4. \A n \in 1..Len(outbox') :
          /\ stage[outbox'[n].cmd] # "idle"
          /\ outbox'[n].result # Nothing =>
               outbox'[n].result.of = Code(base, outbox'[n].cmd, outbox'[n].what)
    BY <1>5, <2>1 DEF FixInv, OwnCode, OwnEntries, OwnRequests, OwnAnswers, OwnResults
  <2> QED BY <1>6, <2>3, <2>4 DEF FixInv, OwnCode, OwnEntries, OwnRequests, OwnAnswers, OwnResults
<1>9. OneCompiler'
  <2> SUFFICES ASSUME ~reconfigured PROVE OneCompiler' BY <1>6 DEF OneCompiler
  <2>1. \A n \in 1..Len(inbox') : inbox'[n].compiler = setting
    BY <1>4 DEF FixInv, OneCompiler
  <2>2. req.compiler = setting BY <1>2 DEF FixInv, OneCompiler
  <2>3. \A n \in 1..Len(outbox') :
          outbox'[n].result # Nothing => outbox'[n].result.by = setting
    BY <1>5, <2>2 DEF FixInv, OneCompiler
  <2> QED BY <1>6, <2>1, <2>3 DEF FixInv, OneCompiler
<1> QED BY <1>7, <1>8, <1>9 DEF FixInv

\* What a command sends is of its own source, if the command has a base: then
\* so is all that is on its way.
LEMMA SendKeeps ==
  ASSUME Types, OwnRequests, NEW sent \in Seq(Requests), inbox' = inbox \o sent,
         \A c \in Commands : stage[c] # "idle" => stage'[c] # "idle" /\ base'[c] = base[c],
         \A n \in 1..Len(sent) :
           /\ stage'[sent[n].cmd] # "idle"
           /\ sent[n].source = Code(base', sent[n].cmd, sent[n].what)
  PROVE  OwnRequests'
<1>1. inbox \in Seq(Requests) /\ Len(inbox') = Len(inbox) + Len(sent) BY DEF Types
<1>2. ASSUME NEW n \in 1..Len(inbox'), n <= Len(inbox)
      PROVE  (stage[inbox[n].cmd] # "idle" /\ inbox[n].source = Code(base, inbox[n].cmd, inbox[n].what))'
  <2>1. n \in 1..Len(inbox) /\ inbox'[n] = inbox[n] /\ inbox[n] \in Requests BY <1>1, <1>2
  <2>2. stage[inbox[n].cmd] # "idle" /\ inbox[n].source = Code(base, inbox[n].cmd, inbox[n].what)
    BY <2>1 DEF OwnRequests
  <2>3. inbox[n].cmd \in Commands BY <2>1 DEF Requests
  <2> QED BY <2>1, <2>2, <2>3 DEF Code
<1>3. ASSUME NEW n \in 1..Len(inbox'), n > Len(inbox)
      PROVE  (stage[inbox[n].cmd] # "idle" /\ inbox[n].source = Code(base, inbox[n].cmd, inbox[n].what))'
  <2>1. n - Len(inbox) \in 1..Len(sent) /\ inbox'[n] = sent[n - Len(inbox)]
    BY <1>1, <1>3
  <2>2. /\ stage'[sent[n - Len(inbox)].cmd] # "idle"
        /\ sent[n - Len(inbox)].source =
             Code(base', sent[n - Len(inbox)].cmd, sent[n - Len(inbox)].what)
    BY <2>1
  <2> QED BY <2>1, <2>2
<1>4. ASSUME NEW n \in 1..Len(inbox')
      PROVE  (stage[inbox[n].cmd] # "idle" /\ inbox[n].source = Code(base, inbox[n].cmd, inbox[n].what))'
  <2>1. n <= Len(inbox) \/ n > Len(inbox) BY <1>1
  <2> QED BY <1>2, <1>3, <2>1
<1> QED BY <1>4 DEF OwnRequests

-----------------------------------------------------------------------------
(* The user and the sidecar                                                *)

\* Texts come and go; a command that is asked ends.
LEMMA TextKeeps ==
  ASSUME FixInv, NewText \/ UNCHANGED <<texts, buffer>>, disk' \in {disk, buffer},
         UNCHANGED <<map, order, reply, detected, setting, inbox, outbox, base, before,
                     after, status, reconfigured>>,
         stage' = stage \/ \E c \in Commands :
           /\ stage' = [stage EXCEPT ![c] = "done"]
           /\ stage[c] \in {"idle", "asking"}
  PROVE  FixInv'
<1>1. Types'
  <2>1. texts' \in Texts /\ buffer' \in Texts
    BY FixAssumption DEF FixInv, Types, FixTypeOK, NewText, Texts
  <2>2. Cache!TypeOK' BY DEF FixInv, Types, FixTypeOK, Cache!TypeOK
  <2>3. stage' \in [Commands -> {"idle", "compiling", "diffing", "asking", "done"}]
    BY DEF FixInv, Types, FixTypeOK
  <2> QED BY <2>1, <2>2, <2>3 DEF FixInv, Types, FixTypeOK
<1>2. \A c \in Commands : /\ stage[c] # "idle" => stage'[c] # "idle"
                          /\ stage'[c] = "idle" => stage[c] = "idle"
  BY DEF FixInv, Types, FixTypeOK
<1>3. /\ \A n \in 1..Len(inbox) : inbox[n].cmd \in Commands
      /\ \A n \in 1..Len(outbox) : outbox[n].cmd \in Commands
  <2>1. /\ \A n \in 1..Len(inbox) : inbox[n] \in Requests
        /\ \A n \in 1..Len(outbox) : outbox[n] \in Answers
    BY DEF FixInv, Types
  <2> QED BY <2>1 DEF Requests, Answers
<1>4. OwnCode' BY <1>2, <1>3 DEF FixInv, OwnCode, OwnEntries, OwnRequests, OwnAnswers, OwnResults, Code
<1>5. OneCompiler' BY DEF FixInv, OneCompiler
<1> QED BY <1>1, <1>4, <1>5 DEF FixInv

LEMMA SetCompilerKeeps ==
  ASSUME FixInv, NEW path \in Compilers, SetCompiler(path)
  PROVE  FixInv'
<1> USE DEF SetCompiler, sidecar, cacheVars, docVars, cmdVars
<1>1. Types' BY DEF FixInv, Types, FixTypeOK, Cache!TypeOK
<1>2. OwnCode' BY DEF FixInv, OwnCode, OwnEntries, OwnRequests, OwnAnswers, OwnResults, Code
<1>3. OneCompiler' BY DEF OneCompiler
<1> QED BY <1>1, <1>2, <1>3 DEF FixInv

LEMMA CompileKeeps ==
  ASSUME FixInv, Compile
  PROVE  FixInv'
<1> DEFINE req == Head(inbox)
<1>1. /\ inbox # <<>>
      /\ UNCHANGED <<detected, docVars, setting, cmdVars, status, history>>
      /\ reconfigured' = reconfigured /\ setting' = setting
  BY DEF Compile, history
<1>2. req \in Requests /\ req = inbox[1] /\ 1 \in 1..Len(inbox)
  BY <1>1, HeadRequest DEF FixInv
<1>3. req.source \in Sources /\ req.compiler \in Compilers BY <1>2 DEF Requests
<1>4. Cache!TypeOK /\ \A s \in DOMAIN map : map[s].of = s
  BY DEF FixInv, Types, FixTypeOK, OwnCode, OwnEntries
<1>5. ~reconfigured => /\ req.compiler = setting
                       /\ \A s \in DOMAIN map : map[s].by = setting
  BY <1>2 DEF FixInv, OneCompiler
<1>6. CASE Cache!GetHit(req.source) /\ Return(req, map[req.source])
  <2>1. /\ Cache!TypeOK' /\ map' = map
        /\ req.source \in DOMAIN map /\ map[req.source] \in Results
    BY <1>3, <1>4, <1>6, HitKeeps
  <2>2. map[req.source].of = req.source BY <1>4, <2>1
  <2>3. ~reconfigured => map[req.source].by = req.compiler BY <1>5, <2>1
  <2> HIDE DEF req
  <2> QED BY <1>1, <1>4, <1>5, <1>6, <2>1, <2>2, <2>3, AnswerKeeps DEF req
<1>7. ASSUME NEW ok \in BOOLEAN,
             Cache!SetNew(req.source, [by |-> req.compiler, of |-> req.source, ok |-> ok]),
             Return(req, [by |-> req.compiler, of |-> req.source, ok |-> ok])
      PROVE  FixInv'
  <2> DEFINE result == [by |-> req.compiler, of |-> req.source, ok |-> ok]
  <2>1. result \in Results /\ result.of = req.source /\ result.by = req.compiler
    BY <1>3 DEF Results
  <2> HIDE DEF result
  <2>2. /\ Cache!TypeOK'
        /\ \A s \in DOMAIN map' : \/ s = req.source /\ map'[s] = result
                                  \/ s \in DOMAIN map /\ map'[s] = map[s]
    BY <1>3, <1>4, <1>7, <2>1, NewKeeps DEF result
  <2>3. \A s \in DOMAIN map' : map'[s].of = s BY <1>4, <2>1, <2>2
  <2>4. ~reconfigured => \A s \in DOMAIN map' : map'[s].by = setting
    BY <1>5, <2>1, <2>2
  <2>5. Return(req, result) BY <1>7 DEF result
  <2> QED BY <1>1, <2>1, <2>2, <2>3, <2>4, <2>5, AnswerKeeps
<1> QED BY <1>6, <1>7 DEF Compile, Hash

\* A failure that is not cached, and a diff: no cache entry changes.
LEMMA UncachedKeeps ==
  ASSUME FixInv, CannotCompile \/ DiffAsm
  PROVE  FixInv'
<1> DEFINE req == Head(inbox)
<1>1. /\ inbox # <<>>
      /\ UNCHANGED <<detected, docVars, setting, cmdVars, status, history>>
      /\ map' = map /\ order' = order /\ reply' = reply
  BY DEF CannotCompile, DiffAsm, sidecar, cacheVars
<1>2. PICK ok \in BOOLEAN : Return(req, [by |-> req.compiler, of |-> req.source, ok |-> ok])
  BY DEF CannotCompile, DiffAsm
<1>3. req \in Requests /\ req = inbox[1] /\ 1 \in 1..Len(inbox)
  BY <1>1, HeadRequest DEF FixInv
<1>4. [by |-> req.compiler, of |-> req.source, ok |-> ok] \in Results
  BY <1>3 DEF Requests, Results
<1>5. Cache!TypeOK' BY <1>1 DEF FixInv, Types, FixTypeOK, Cache!TypeOK
<1>6. /\ \A s \in DOMAIN map' : map'[s].of = s
      /\ ~reconfigured => \A s \in DOMAIN map' : map'[s].by = setting
  BY <1>1 DEF FixInv, OwnCode, OwnEntries, OwnRequests, OwnAnswers, OwnResults, OneCompiler
<1> DEFINE result == [by |-> req.compiler, of |-> req.source, ok |-> ok]
<1>7. result.of = req.source /\ result.by = req.compiler OBVIOUS
<1>8. Return(req, result) /\ result \in Results BY <1>2, <1>4
<1> HIDE DEF result
<1> QED BY <1>1, <1>5, <1>6, <1>7, <1>8, AnswerKeeps

-----------------------------------------------------------------------------
(* The command and the verifier                                            *)

\* The results a command has are by the compiler of the setting.
ByOne == ~reconfigured =>
           \A c \in Commands : /\ before[c] # Nothing => before[c].by = setting
                               /\ after[c]  # Nothing => after[c].by  = setting

Stages == {"idle", "compiling", "diffing", "asking", "done"}

\* What a step that receives or sends has to show.
LEMMA VerifierKeeps ==
  ASSUME FixInv, outbox' = outbox \/ (outbox # <<>> /\ outbox' = Tail(outbox)),
         UNCHANGED <<sidecar, docVars, setting, reconfigured>>,
         NEW sent \in Seq(Requests), inbox' = inbox \o sent,
         \A n \in 1..Len(sent) : sent[n].compiler = setting,
         \A n \in 1..Len(sent) :
           /\ stage'[sent[n].cmd] # "idle"
           /\ sent[n].source = Code(base', sent[n].cmd, sent[n].what),
         \A c \in Commands : stage[c] # "idle" => stage'[c] # "idle" /\ base'[c] = base[c],
         stage' \in [Commands -> Stages], base' \in [Commands -> Texts],
         before' \in [Commands -> Results \cup {Nothing}],
         after' \in [Commands -> Results \cup {Nothing}],
         status' \in {"ready", "starting"}, OwnResults', ByOne'
  PROVE  FixInv'
<1>1. /\ map' = map /\ order' = order /\ reply' = reply /\ detected' = detected
      /\ texts' = texts /\ buffer' = buffer /\ disk' = disk
      /\ setting' = setting /\ reconfigured' = reconfigured
  BY DEF sidecar, cacheVars, docVars
<1>2. inbox \in Seq(Requests) /\ outbox \in Seq(Answers) BY DEF FixInv, Types
<1>3. /\ inbox' \in Seq(Requests) /\ Len(inbox') = Len(inbox) + Len(sent)
      /\ \A n \in 1..Len(inbox') : inbox'[n] = IF n <= Len(inbox) THEN inbox[n]
                                               ELSE sent[n - Len(inbox)]
  BY <1>2
<1>4. /\ outbox' \in Seq(Answers)
      /\ \A n \in 1..Len(outbox') : \E m \in 1..Len(outbox) : outbox'[n] = outbox[m]
  BY <1>2, HeadAnswer DEF FixInv
<1>5. Types'
  <2>1. /\ \A n \in DOMAIN inbox' :
             inbox'[n].cmd \in Commands /\ inbox'[n].source \in Sources
        /\ \A n \in DOMAIN outbox' : outbox'[n].result \in Results \cup {Nothing}
    BY <1>3, <1>4, PipeTypes
  <2>2. Cache!TypeOK' BY <1>1 DEF FixInv, Types, FixTypeOK, Cache!TypeOK
  <2> QED BY <1>1, <1>3, <1>4, <2>1, <2>2 DEF FixInv, Types, FixTypeOK, Stages
<1>6. OwnEntries' BY <1>1 DEF FixInv, OwnCode, OwnEntries
<1>7. OwnRequests' BY SendKeeps DEF FixInv, OwnCode
<1>8. OwnAnswers'
  <2>1. \A n \in 1..Len(outbox) : outbox[n].cmd \in Commands
    <3>1. \A n \in 1..Len(outbox) : outbox[n] \in Answers BY <1>2
    <3> QED BY <3>1 DEF Answers
  <2>2. \A n \in 1..Len(outbox) :
          (/\ stage[outbox[n].cmd] # "idle"
           /\ outbox[n].result # Nothing =>
                outbox[n].result.of = Code(base, outbox[n].cmd, outbox[n].what))
    BY DEF FixInv, OwnCode, OwnAnswers
  <2>3. \A n \in 1..Len(outbox) :
          /\ stage'[outbox[n].cmd] # "idle"
          /\ base'[outbox[n].cmd] = base[outbox[n].cmd]
    BY <2>1, <2>2
  <2>4. ASSUME NEW n \in 1..Len(outbox')
        PROVE  /\ stage'[outbox'[n].cmd] # "idle"
               /\ outbox'[n].result # Nothing =>
                    outbox'[n].result.of = Code(base', outbox'[n].cmd, outbox'[n].what)
    <3>1. PICK m \in 1..Len(outbox) : outbox'[n] = outbox[m] BY <1>4
    <3>2. Code(base', outbox[m].cmd, outbox[m].what) = Code(base, outbox[m].cmd, outbox[m].what)
      BY <2>3 DEF Code
    <3>3. outbox[m].result # Nothing =>
            outbox[m].result.of = Code(base', outbox[m].cmd, outbox[m].what)
      BY <2>2, <3>2
    <3> QED BY <2>3, <3>1, <3>3
  <2> QED BY <2>4 DEF OwnAnswers
<1>9. OneCompiler'
  <2> SUFFICES ASSUME ~reconfigured PROVE OneCompiler' BY <1>1 DEF OneCompiler
  <2>1. \A n \in 1..Len(inbox') : inbox'[n].compiler = setting
    <3>1. \A n \in 1..Len(inbox) : inbox[n].compiler = setting
      BY DEF FixInv, OneCompiler
    <3>2. ASSUME NEW n \in 1..Len(inbox') PROVE inbox'[n].compiler = setting
      <4>1. CASE n <= Len(inbox) BY <1>2, <1>3, <3>1, <4>1
      <4>2. CASE n > Len(inbox)
        <5>1. n - Len(inbox) \in 1..Len(sent) BY <1>2, <1>3, <4>2
        <5> QED BY <1>2, <1>3, <4>2, <5>1
      <4> QED BY <1>2, <4>1, <4>2
    <3> QED BY <3>2
  <2>2. \A n \in 1..Len(outbox') :
          outbox'[n].result # Nothing => outbox'[n].result.by = setting
    <3>1. \A n \in 1..Len(outbox) :
            outbox[n].result # Nothing => outbox[n].result.by = setting
      BY DEF FixInv, OneCompiler
    <3> SUFFICES ASSUME NEW n \in 1..Len(outbox')
                 PROVE  outbox'[n].result # Nothing => outbox'[n].result.by = setting
      OBVIOUS
    <3>2. PICK m \in 1..Len(outbox) : outbox'[n] = outbox[m] BY <1>4
    <3> QED BY <3>1, <3>2
  <2>3. \A s \in DOMAIN map' : map'[s].by = setting BY <1>1 DEF FixInv, OneCompiler
  <2>4. \A c \in Commands : /\ before'[c] # Nothing => before'[c].by = setting
                            /\ after'[c]  # Nothing => after'[c].by  = setting
    BY <1>1 DEF ByOne
  <2> QED BY <1>1, <2>1, <2>2, <2>3, <2>4 DEF OneCompiler
<1> QED BY <1>5, <1>6, <1>7, <1>8, <1>9 DEF FixInv, OwnCode

\* Nothing is sent.
LEMMA NothingSent ==
  ASSUME FixInv
  PROVE  <<>> \in Seq(Requests) /\ inbox = inbox \o <<>> /\ Len(<<>>) = 0
<1>1. inbox \in Seq(Requests) BY DEF FixInv, Types
<1> QED BY <1>1

\* The two requests of a command that starts.
LEMMA StartFixKeeps ==
  ASSUME FixInv, NEW c \in Commands, StartFix(c)
  PROVE  FixInv'
<1> DEFINE a == Request(c, "before", disk)
           b == Request(c, "after", disk)
           sent == <<a, b>>
<1>1. Types /\ disk \in Texts BY DEF FixInv, Types, FixTypeOK
<1>2. /\ a \in Requests /\ a.cmd = c /\ a.what = "before" /\ a.compiler = setting
      /\ a.source = [text |-> disk, patch |-> Nothing]
      /\ b \in Requests /\ b.cmd = c /\ b.what = "after" /\ b.compiler = setting
      /\ b.source = [text |-> disk, patch |-> c]
  BY <1>1, RequestIs DEF Whats
<1>3. /\ stage[c] = "idle" /\ stage' = [stage EXCEPT ![c] = "compiling"]
      /\ base' = [base EXCEPT ![c] = disk]
      /\ inbox' = inbox \o sent /\ outbox' = outbox /\ status' = "starting"
      /\ before' = before /\ after' = after
      /\ UNCHANGED <<sidecar, docVars, setting, reconfigured>>
  BY DEF StartFix, history
<1> HIDE DEF a, b
<1>4. sent \in Seq(Requests) /\ Len(sent) = 2 /\ sent[1] = a /\ sent[2] = b
  BY <1>2
<1> HIDE DEF sent
<1>5. stage'[c] = "compiling" /\ base'[c] = disk
  BY <1>3 DEF FixInv, Types, FixTypeOK
<1>6. \A d \in Commands : stage[d] # "idle" => stage'[d] # "idle" /\ base'[d] = base[d]
  BY <1>3 DEF FixInv, Types, FixTypeOK
<1>7. \A n \in 1..Len(sent) :
        /\ stage'[sent[n].cmd] # "idle"
        /\ sent[n].source = Code(base', sent[n].cmd, sent[n].what)
  <2>1. \A n \in 1..Len(sent) : n = 1 \/ n = 2 BY <1>4
  <2> QED BY <1>2, <1>4, <1>5, <2>1 DEF Code
<1>8. \A n \in 1..Len(sent) : sent[n].compiler = setting BY <1>2, <1>4
<1>9. OwnResults'
  <2>1. \A d \in Commands : stage'[d] = "idle" => stage[d] = "idle"
    BY <1>3 DEF FixInv, Types, FixTypeOK
  <2>2. ASSUME NEW d \in Commands, before[d] # Nothing \/ after[d] # Nothing
        PROVE  base'[d] = base[d]
    BY <1>6, <2>2 DEF FixInv, OwnCode, OwnResults
  <2> QED BY <1>3, <2>1, <2>2 DEF FixInv, OwnCode, OwnResults, Code
<1>10. ByOne' BY <1>3 DEF FixInv, OneCompiler, ByOne
<1>11. /\ stage' \in [Commands -> Stages] /\ base' \in [Commands -> Texts]
       /\ before' \in [Commands -> Results \cup {Nothing}]
       /\ after' \in [Commands -> Results \cup {Nothing}]
  BY <1>1, <1>3 DEF FixInv, Types, FixTypeOK, Stages
<1>12. (outbox' = outbox \/ (outbox # <<>> /\ outbox' = Tail(outbox)))
       /\ status' \in {"ready", "starting"}
  BY <1>3
<1>13. UNCHANGED <<sidecar, docVars, setting, reconfigured>> /\ inbox' = inbox \o sent
  BY <1>3
<1> QED BY <1>4, <1>6, <1>7, <1>8, <1>9, <1>10, <1>11, <1>12, <1>13, VerifierKeeps

\* An answer only ends a command, or leaves everything.
LEMMA EndKeeps ==
  ASSUME FixInv, outbox # <<>>, outbox' = Tail(outbox), NEW c \in Commands,
         stage[c] # "idle", NEW s \in Stages \ {"idle"},
         stage' = stage \/ stage' = [stage EXCEPT ![c] = s],
         status' \in {"ready", "starting"},
         UNCHANGED <<sidecar, docVars, setting, base, before, after, inbox, reconfigured>>
  PROVE  FixInv'
<1>1. \A d \in Commands : /\ stage[d] # "idle" => stage'[d] # "idle"
                          /\ stage'[d] = "idle" => stage[d] = "idle"
  BY DEF FixInv, Types, FixTypeOK
<1>2. OwnResults' BY <1>1 DEF FixInv, OwnCode, OwnResults, Code
<1>3. ByOne' BY DEF FixInv, OneCompiler, ByOne
<1>4. /\ stage' \in [Commands -> Stages] /\ base' \in [Commands -> Texts]
      /\ before' \in [Commands -> Results \cup {Nothing}]
      /\ after' \in [Commands -> Results \cup {Nothing}]
  BY DEF FixInv, Types, FixTypeOK, Stages
<1>5. inbox' = inbox \o <<>> BY NothingSent
<1>6. \A n \in 1..Len(<<>>) : FALSE BY NothingSent
<1>7. (outbox' = outbox \/ (outbox # <<>> /\ outbox' = Tail(outbox)))
      /\ UNCHANGED <<sidecar, docVars, setting, reconfigured>>
      /\ \A d \in Commands : stage[d] # "idle" => stage'[d] # "idle" /\ base'[d] = base[d]
  BY <1>1
<1> QED BY <1>2, <1>3, <1>4, <1>5, <1>6, <1>7, NothingSent, VerifierKeeps

\* A result that arrives is of its command's own source; with both and good ones
\* the diff is asked for.
LEMMA GotResultKeeps ==
  ASSUME FixInv, outbox # <<>>, outbox' = Tail(outbox),
         NEW c \in Commands, NEW what \in {"before", "after"}, NEW result \in Results,
         stage[c] # "idle", result.of = Code(base, c, what),
         ~reconfigured => result.by = setting,
         GotResult(c, what, result),
         UNCHANGED <<sidecar, docVars, setting, base, reconfigured>>
  PROVE  FixInv'
<1> DEFINE b == IF what = "before" THEN result ELSE before[c]
           a == IF what = "after" THEN result ELSE after[c]
<1>1. /\ before \in [Commands -> Results \cup {Nothing}]
      /\ after \in [Commands -> Results \cup {Nothing}]
      /\ base \in [Commands -> Texts] /\ stage \in [Commands -> Stages]
      /\ status \in {"ready", "starting"} /\ inbox \in Seq(Requests) /\ Types
  BY DEF FixInv, Types, FixTypeOK, Stages
<1>2. before' = [before EXCEPT ![c] = b] /\ after' = [after EXCEPT ![c] = a]
  BY DEF GotResult
<1>3. /\ b \in Results \cup {Nothing} /\ a \in Results \cup {Nothing}
      /\ b # Nothing => b.of = Code(base, c, "before")
      /\ a # Nothing => a.of = Code(base, c, "after")
      /\ ~reconfigured => /\ b # Nothing => b.by = setting
                          /\ a # Nothing => a.by = setting
  BY <1>1 DEF FixInv, OwnCode, OwnResults, OneCompiler
<1>4. \E sent \in Seq(Requests), s \in Stages :
        /\ inbox' = inbox \o sent
        /\ stage' = stage \/ stage' = [stage EXCEPT ![c] = s]
        /\ s # "idle"
        /\ status' \in {"ready", "starting"}
        /\ \A n \in 1..Len(sent) : /\ sent[n].cmd = c /\ sent[n].compiler = setting
                                   /\ sent[n].source = Code(base, c, sent[n].what)
  <2>1. <<>> \in Seq(Requests) /\ inbox = inbox \o <<>> /\ \A n \in 1..Len(<<>>) : FALSE
    BY NothingSent
  <2>2. CASE UNCHANGED <<stage, inbox, status>>
    <3>1. "done" \in Stages /\ "done" # "idle" BY DEF Stages
    <3> QED BY <1>1, <2>1, <2>2, <3>1
  <2>3. CASE /\ stage' = [stage EXCEPT ![c] = "diffing"]
             /\ inbox' = Append(inbox, Request(c, "diff", base[c]))
             /\ UNCHANGED status
    <3> DEFINE r == Request(c, "diff", base[c])
    <3>1. base[c] \in Texts /\ "diff" \in Whats BY <1>1 DEF Whats
    <3>0. /\ r \in Requests /\ r.cmd = c /\ r.what = "diff" /\ r.compiler = setting
          /\ r.source = [text |-> base[c], patch |-> IF "diff" = "after" THEN c ELSE Nothing]
      BY <1>1, <3>1, RequestIs
    <3> HIDE DEF r
    <3>2. /\ r \in Requests /\ r.cmd = c /\ r.what = "diff" /\ r.compiler = setting
          /\ r.source = Code(base, c, r.what)
      BY <3>0 DEF Code
    <3>3. <<r>> \in Seq(Requests) /\ Len(<<r>>) = 1 /\ <<r>>[1] = r BY <3>2
    <3>4. inbox' = inbox \o <<r>> BY <1>1, <2>3, <3>2 DEF r
    <3>5. "diffing" \in Stages /\ "diffing" # "idle" BY DEF Stages
    <3>6. \A n \in 1..Len(<<r>>) : /\ <<r>>[n].cmd = c /\ <<r>>[n].compiler = setting
                                   /\ <<r>>[n].source = Code(base, c, <<r>>[n].what)
      BY <3>2, <3>3
    <3>7. status' \in {"ready", "starting"} BY <1>1, <2>3
    <3> QED BY <2>3, <3>3, <3>4, <3>5, <3>6, <3>7
  <2>4. CASE /\ stage' = [stage EXCEPT ![c] = "done"] /\ status' = "ready"
             /\ UNCHANGED inbox
    <3>1. "done" \in Stages /\ "done" # "idle" BY DEF Stages
    <3> QED BY <2>1, <2>4, <3>1
  <2> QED BY <2>2, <2>3, <2>4 DEF GotResult
<1> HIDE DEF a, b
<1>5. PICK sent \in Seq(Requests), s \in Stages :
        /\ inbox' = inbox \o sent
        /\ stage' = stage \/ stage' = [stage EXCEPT ![c] = s]
        /\ s # "idle"
        /\ status' \in {"ready", "starting"}
        /\ \A n \in 1..Len(sent) : /\ sent[n].cmd = c /\ sent[n].compiler = setting
                                   /\ sent[n].source = Code(base, c, sent[n].what)
  BY <1>4
<1>6. \A d \in Commands : /\ stage[d] # "idle" => stage'[d] # "idle"
                          /\ stage'[d] = "idle" => stage[d] = "idle" /\ d # c
                          /\ base'[d] = base[d]
  BY <1>1, <1>5
<1>7. stage' \in [Commands -> Stages] BY <1>1, <1>5
<1>8. OwnResults'
  <2> SUFFICES ASSUME NEW d \in Commands
               PROVE  /\ stage'[d] = "idle" => before'[d] = Nothing /\ after'[d] = Nothing
                      /\ before'[d] # Nothing => before'[d].of = Code(base, d, "before")
                      /\ after'[d]  # Nothing => after'[d].of  = Code(base, d, "after")
    BY DEF OwnResults
  <2>1. CASE d = c BY <1>1, <1>2, <1>3, <1>6, <2>1
  <2>2. CASE d # c BY <1>1, <1>2, <1>6, <2>2 DEF FixInv, OwnCode, OwnResults
  <2> QED BY <2>1, <2>2
<1>9. ByOne' BY <1>1, <1>2, <1>3 DEF FixInv, OneCompiler, ByOne
<1>10. /\ before' \in [Commands -> Results \cup {Nothing}]
       /\ after' \in [Commands -> Results \cup {Nothing}]
       /\ base' \in [Commands -> Texts]
  BY <1>1, <1>2, <1>3
<1>11. /\ \A n \in 1..Len(sent) : sent[n].compiler = setting
       /\ \A n \in 1..Len(sent) :
            /\ stage'[sent[n].cmd] # "idle"
            /\ sent[n].source = Code(base', sent[n].cmd, sent[n].what)
       /\ \A d \in Commands : stage[d] # "idle" => stage'[d] # "idle" /\ base'[d] = base[d]
  BY <1>5, <1>6
<1>12. /\ outbox' = outbox \/ (outbox # <<>> /\ outbox' = Tail(outbox))
       /\ UNCHANGED <<sidecar, docVars, setting, reconfigured>>
  OBVIOUS
<1> QED BY <1>5, <1>7, <1>8, <1>9, <1>10, <1>11, <1>12, VerifierKeeps

LEMMA ReceiveKeeps ==
  ASSUME FixInv, Receive
  PROVE  FixInv'
<1> DEFINE msg == Head(outbox)
<1>1. /\ outbox # <<>> /\ outbox' = Tail(outbox)
      /\ UNCHANGED <<sidecar, docVars, setting, base, reconfigured>>
  BY DEF Receive
<1>2. msg \in Answers /\ msg = outbox[1] /\ 1 \in 1..Len(outbox)
  BY <1>1, HeadAnswer DEF FixInv
<1>3. /\ msg.cmd \in Commands /\ msg.what \in Whats
      /\ msg.result \in Results \cup {Nothing} /\ stage[msg.cmd] # "idle"
      /\ msg.result # Nothing => msg.result.of = Code(base, msg.cmd, msg.what)
      /\ ~reconfigured /\ msg.result # Nothing => msg.result.by = setting
  BY <1>2 DEF Answers, FixInv, OwnCode, OwnAnswers, OneCompiler
<1>4. status \in {"ready", "starting"} BY DEF FixInv, Types, FixTypeOK
<1>5. \A s \in {"asking", "done"} : s \in Stages \ {"idle"} BY DEF Stages
<1> HIDE DEF msg
<1>6. CASE UNCHANGED <<stage, before, after, inbox, status>>
  BY <1>1, <1>3, <1>4, <1>5, <1>6, EndKeeps
<1>7. CASE GotError(msg.cmd, msg.what)
  BY <1>1, <1>3, <1>4, <1>5, <1>7, EndKeeps DEF GotError
<1>8. CASE GotDiff(msg.cmd)
  BY <1>1, <1>3, <1>4, <1>5, <1>8, EndKeeps DEF GotDiff
<1>9. CASE /\ msg.result # Nothing /\ msg.what # "diff"
           /\ GotResult(msg.cmd, msg.what, msg.result)
  <2>1. msg.what \in {"before", "after"} /\ msg.result \in Results
    BY <1>3, <1>9 DEF Whats
  <2> QED BY <1>1, <1>3, <1>9, <2>1, GotResultKeeps
<1> QED BY <1>6, <1>7, <1>8, <1>9 DEF Receive, msg

-----------------------------------------------------------------------------
(* The theorems                                                            *)

LEMMA FixStep ==
  ASSUME FixInv, [FixNext]_fixVars
  PROVE  FixInv'
<1> USE DEF sidecar, cacheVars, docVars, cmdVars, history
<1>1. CASE Edit BY <1>1, TextKeeps DEF Edit
<1>2. CASE Save BY <1>2, TextKeeps DEF Save
<1>3. CASE Receive BY <1>3, ReceiveKeeps
<1>4. CASE Compile BY <1>4, CompileKeeps
<1>5. CASE CannotCompile \/ DiffAsm BY <1>5, UncachedKeeps
<1>6. ASSUME NEW path \in Compilers, SetCompiler(path) PROVE FixInv'
  BY <1>6, SetCompilerKeeps
<1>7. ASSUME NEW c \in Commands, StartFix(c) PROVE FixInv' BY <1>7, StartFixKeeps
<1>8. ASSUME NEW c \in Commands, ApplyUnverified(c) PROVE FixInv'
  BY <1>8, TextKeeps DEF ApplyUnverified
<1>9. ASSUME NEW c \in Commands, Apply(c) PROVE FixInv' BY <1>9, TextKeeps DEF Apply
<1>10. ASSUME NEW c \in Commands, Dismiss(c) PROVE FixInv' BY <1>10, TextKeeps DEF Dismiss
<1>11. CASE UNCHANGED fixVars BY <1>11, TextKeeps DEF fixVars
<1> QED BY <1>1, <1>2, <1>3, <1>4, <1>5, <1>6, <1>7, <1>8, <1>9, <1>10, <1>11 DEF FixNext

\* Requests, cached results and answers are each of the code they stand for, and
\* of one compiler while the setting is left alone (compiler.cpp:176-257).
THEOREM FixInvariant == FixSpec => []FixInv
<1>1. FixInit => FixInv
  <2> SUFFICES ASSUME FixInit PROVE FixInv OBVIOUS
  <2> USE FixAssumption DEF FixInit, Cache!Init
  <2>1. map = [k \in {} |-> Nothing] /\ DOMAIN map = {} /\ order \in Seq(Sources)
    OBVIOUS
  <2>2. 1 \in Texts BY DEF Texts
  <2>3. inbox \in Seq(Requests) /\ outbox \in Seq(Answers) /\ Len(inbox) = 0 /\ Len(outbox) = 0
    OBVIOUS
  <2>4. FixTypeOK BY <2>1, <2>2, <2>3, PipeTypes DEF FixTypeOK, Cache!TypeOK
  <2>5. OwnCode
    BY <2>1, <2>3 DEF OwnCode, OwnEntries, OwnRequests, OwnAnswers, OwnResults
  <2>6. OneCompiler BY <2>1, <2>3 DEF OneCompiler
  <2> QED BY <2>3, <2>4, <2>5, <2>6 DEF FixInv, Types
<1>2. FixInv /\ [FixNext]_fixVars => FixInv' BY FixStep
<1> QED BY <1>1, <1>2, PTL DEF FixSpec

\* The two results a fix is judged by are of the file it was built from, the one
\* before without and the one after with this command's patch, although
\* commands share the cache, the file and the channel (verifier.ts:56-86).
THEOREM OwnCodeJudges == FixSpec => []JudgedByItsOwnCode
<1>1. FixInv => JudgedByItsOwnCode
  BY DEF FixInv, Types, OwnCode, OwnResults, Code, JudgedByItsOwnCode
<1> QED BY <1>1, FixInvariant, PTL

\* While the setting is left alone, both come from the compiler it names: the
\* hash leaves it out, and that does no harm (compiler.cpp:176).
THEOREM OneCompilerJudges == FixSpec => []OneCompilerIsConsistent
<1>1. FixInv => OneCompilerIsConsistent
  BY DEF FixInv, OneCompiler, OneCompilerIsConsistent
<1> QED BY <1>1, FixInvariant, PTL
===============================================================================
