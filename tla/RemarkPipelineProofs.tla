-------------------------- MODULE RemarkPipelineProofs --------------------------
(***************************************************************************)
(* The diagnostics of a file are rows of the store, of that file, never    *)
(* fewer than before, and in the active editor all of them in the end: for *)
(* any files, yaml files, compilations and users.                          *)
(*                                                                         *)
(* The store only grows, and answers come in order: so what is shown of a  *)
(* file, the answers for it on their way and the store form a chain.  And  *)
(* whatever adds rows leaves an ingestion to come, or its answer on the    *)
(* way, which asks for the remarks of the file that is active then.        *)
(***************************************************************************)
EXTENDS RemarkPipeline, FiniteSetTheorems, TLAPS

-----------------------------------------------------------------------------
(* The inductive invariant                                                 *)

Requests == [what : {"get", "recompile", "trace"}, arg : Files]
            \cup [what : {"ingest"}, arg : Yamls]

\* What getRemarks answers, and a file's diagnostics.
Views == UNION {[S -> [copies : Nat, stale : BOOLEAN]] : S \in SUBSET Rows}

Answers == [what : {"ingest", "error"}, arg : {None}, remarks : {Blank}]
           \cup [what : {"recompile", "trace"}, arg : Files, remarks : {Blank}]
           \cup [what : {"get"}, arg : Files, remarks : Views]

Types == /\ TypeOK
         /\ inbox \in Seq(Requests) /\ outbox \in Seq(Answers) /\ shown \in [Files -> Views]

\* An ingestion is to come, or one is missing for good.
Unread == \/ leftover
          \/ \E e \in events : e[1] = "changed"
          \/ \E m \in 1..Len(inbox) : inbox[m].what = "ingest"

\* Nor has one been answered.
Settled == ~Unread /\ \A m \in 1..Len(outbox) : outbox[m].what # "ingest"

\* What a shadow compilation has written is reported to the watcher.
Compiling ==
  compiled # None => /\ inbox # <<>> /\ Head(inbox).what \in {"recompile", "trace"}
                     /\ Head(inbox).arg = compiled
                     /\ Unread

\* The second lists what the first lists, as often at least.
Within(v, w) == \A r \in DOMAIN v : r \in DOMAIN w /\ v[r].copies <= w[r].copies

\* A view of f lists rows of f that a bag has.
InStore(v, f, bag) == \A r \in DOMAIN v : /\ r.file = f /\ r \in DOMAIN bag
                                          /\ v[r].copies <= bag[r]

IsGet(msg, f) == msg.what = "get" /\ msg.arg = f

\* What is shown of f is within its answers in s, each in the next and in a bag.
ChainOf(f, v, s, bag) ==
  /\ InStore(v, f, bag)
  /\ \A n \in 1..Len(s) : IsGet(s[n], f) =>
       /\ InStore(s[n].remarks, f, bag) /\ Within(v, s[n].remarks)
       /\ \A m \in 1..(n - 1) : IsGet(s[m], f) => Within(s[m].remarks, s[n].remarks)

Chain == \A f \in Files : ChainOf(f, shown[f], outbox, rows)

\* A view of f lists what a bag has of f.
Matches(v, f, bag) == /\ DOMAIN v = {r \in DOMAIN bag : r.file = f}
                      /\ \A r \in DOMAIN v : v[r].copies = bag[r]

\* An answer in s has what a bag has, unless an ingestion is behind it.
FreshOf(s, bag) ==
  \A n \in 1..Len(s) : s[n].what = "get" =>
    \/ Matches(s[n].remarks, s[n].arg, bag)
    \/ \E m \in 1..Len(s) : m > n /\ s[m].what = "ingest"

Fresh == Unread \/ FreshOf(outbox, rows)

\* What the active file shows, and whether it is asked for.
Shows == shown[active] = Blank \/ Matches(shown[active], active, rows)
Asked == \/ \E n \in 1..Len(inbox) : IsGet(inbox[n], active)
         \/ \E n \in 1..Len(outbox) : IsGet(outbox[n], active)

\* Once all has been read it shows what is stored, or is asked for again.
Active == Settled => Shows \/ Asked

RemarkInv == Types /\ Compiling /\ Chain /\ Fresh /\ Active

-----------------------------------------------------------------------------
(* Views, and rows                                                         *)

LEMMA ViewTypes ==
  ASSUME NEW v \in Views
  PROVE  DOMAIN v \subseteq Rows /\ \A r \in DOMAIN v : v[r].copies \in Nat
<1>1. PICK S \in SUBSET Rows : v \in [S -> [copies : Nat, stale : BOOLEAN]] BY DEF Views
<1> QED BY <1>1

LEMMA BlankView == Blank \in Views /\ DOMAIN Blank = {}
<1>1. DOMAIN Blank = {} BY DEF Blank
<1>2. Blank \in [{} -> [copies : Nat, stale : BOOLEAN]] BY DEF Blank
<1>3. {} \in SUBSET Rows OBVIOUS
<1> QED BY <1>1, <1>2, <1>3 DEF Views

\* What the store has of a file, as a view.
LEMMA StoredView ==
  ASSUME Types, NEW f \in Files
  PROVE  /\ Stored(f) \in Views /\ Matches(Stored(f), f, rows) /\ InStore(Stored(f), f, rows)
         /\ \A v : InStore(v, f, rows) => Within(v, Stored(f))
<1>1. /\ DOMAIN rows \subseteq Rows /\ \A r \in DOMAIN rows : rows[r] \in Nat
  BY DEF Types, TypeOK, IsABag, BagToSet
<1> DEFINE S == {r \in DOMAIN rows : r.file = f}
<1>2. Stored(f) = [r \in S |-> [copies |-> rows[r], stale |-> r.hash # HashSourceLine(f)]]
  BY DEF Stored, BagToSet
<1>3. Stored(f) \in [S -> [copies : Nat, stale : BOOLEAN]] BY <1>1, <1>2
<1>4. S \in SUBSET Rows BY <1>1
<1>5. Stored(f) \in Views BY <1>3, <1>4 DEF Views
<1>6. DOMAIN Stored(f) = S /\ \A r \in S : Stored(f)[r].copies = rows[r] BY <1>2
<1>7. Matches(Stored(f), f, rows) BY <1>6 DEF Matches
<1>8. InStore(Stored(f), f, rows) BY <1>1, <1>6 DEF InStore
<1>9. \A v : InStore(v, f, rows) => Within(v, Stored(f)) BY <1>6 DEF InStore, Within
<1> QED BY <1>5, <1>7, <1>8, <1>9

\* What a yaml file says are rows.
LEMMA ParsedRows ==
  ASSUME Types, NEW y \in Yamls, NEW build \in {"manual", "shadow"}
  PROVE  ParseClangYaml(y, build) \subseteq Rows
<1>1. yaml[y] \in Remarks \cup {None} /\ text \in [Files -> Texts] BY DEF Types, TypeOK
<1>2. ASSUME NEW m \in {yaml[y]} \ {None}
      PROVE  [file |-> m.file, of |-> m.of, hash |-> HashSourceLine(m.file),
              build |-> build] \in Rows
  <2>1. m.file \in Files /\ m.of \in Texts BY <1>1, <1>2 DEF Remarks
  <2>2. HashSourceLine(m.file) \in Texts BY <1>1, <2>1 DEF HashSourceLine
  <2> QED BY <2>1, <2>2 DEF Rows
<1> QED BY <1>2 DEF ParseClangYaml

\* An insertion takes nothing away.
LEMMA RowsGrow ==
  ASSUME Types, NEW remarks \in SUBSET Rows, InsertBulk(remarks)
  PROVE  /\ IsABag(rows') /\ BagToSet(rows') \subseteq Rows
         /\ \A r \in DOMAIN rows : r \in DOMAIN rows' /\ rows'[r] >= rows[r]
<1>1. /\ DOMAIN rows \subseteq Rows
      /\ \A r \in DOMAIN rows : rows[r] \in Nat /\ rows[r] > 0
  BY DEF Types, TypeOK, IsABag, BagToSet
<1>2. rows' = [r \in DOMAIN rows \cup remarks |->
                 (IF r \in DOMAIN rows THEN rows[r] ELSE 0)
                 + (IF r \in remarks THEN 1 ELSE 0)]
  BY DEF InsertBulk, (+), SetToBag
<1>3. DOMAIN rows' = DOMAIN rows \cup remarks BY <1>2
<1>4. ASSUME NEW r \in DOMAIN rows'
      PROVE  /\ rows'[r] \in Nat /\ rows'[r] > 0
             /\ r \in DOMAIN rows => rows'[r] >= rows[r]
  BY <1>1, <1>2, <1>4
<1>5. rows' \in [DOMAIN rows' -> {n \in Nat : n > 0}] BY <1>2, <1>4
<1> QED BY <1>1, <1>3, <1>4, <1>5 DEF IsABag, BagToSet

-----------------------------------------------------------------------------
(* The pipes                                                               *)

\* A request is sent.
LEMMA Sends ==
  ASSUME Types, NEW e \in Requests, inbox' = Append(inbox, e)
  PROVE  /\ inbox' \in Seq(Requests) /\ inbox' # <<>> /\ Len(inbox) \in Nat
         /\ inbox # <<>> => Head(inbox') = Head(inbox)
         /\ Len(inbox') = Len(inbox) + 1 /\ inbox'[Len(inbox) + 1] = e
         /\ \A n \in 1..Len(inbox) : inbox'[n] = inbox[n]
BY DEF Types

\* An answer is received.
LEMMA Receives ==
  ASSUME Types, outbox # <<>>, outbox' = Tail(outbox)
  PROVE  /\ Len(outbox) \in Nat \ {0} /\ outbox' \in Seq(Answers)
         /\ Head(outbox) = outbox[1] /\ Head(outbox) \in Answers
         /\ Len(outbox') = Len(outbox) - 1
         /\ \A n \in 1..(Len(outbox) - 1) : outbox'[n] = outbox[n + 1]
BY DEF Types

\* The first request is answered.
LEMMA AnswersIt ==
  ASSUME Types, inbox # <<>>, NEW what, NEW arg, NEW remarks,
         [what |-> what, arg |-> arg, remarks |-> remarks] \in Answers,
         Answer(what, arg, remarks)
  PROVE  /\ Len(inbox) \in Nat \ {0} /\ Head(inbox) = inbox[1] /\ Head(inbox) \in Requests
         /\ inbox' \in Seq(Requests) /\ outbox' \in Seq(Answers) /\ Len(outbox) \in Nat
         /\ Len(inbox') = Len(inbox) - 1
         /\ \A n \in 1..(Len(inbox) - 1) : inbox'[n] = inbox[n + 1]
         /\ Len(outbox') = Len(outbox) + 1
         /\ outbox'[Len(outbox) + 1] = [what |-> what, arg |-> arg, remarks |-> remarks]
         /\ \A n \in 1..Len(outbox) : outbox'[n] = outbox[n]
BY DEF Types, Answer

LEMMA RequestTypes ==
  /\ \A what \in {"get", "recompile", "trace"}, f \in Files :
       [what |-> what, arg |-> f] \in Requests
  /\ \A y \in Yamls : [what |-> "ingest", arg |-> y] \in Requests
  /\ \A e \in Requests :
       /\ e.what \in {"get", "recompile", "trace", "ingest"}
       /\ e.what # "ingest" => e.arg \in Files
       /\ e.what = "ingest" => e.arg \in Yamls
BY DEF Requests

LEMMA AnswerTypes ==
  /\ \A what \in {"ingest", "error"} :
       [what |-> what, arg |-> None, remarks |-> Blank] \in Answers
  /\ \A what \in {"recompile", "trace"}, f \in Files :
       [what |-> what, arg |-> f, remarks |-> Blank] \in Answers
  /\ \A f \in Files, v \in Views : [what |-> "get", arg |-> f, remarks |-> v] \in Answers
  /\ \A e \in Answers :
       e.remarks \in Views /\ (e.what \in {"get", "recompile", "trace"} => e.arg \in Files)
<1>1. Blank \in Views BY BlankView
<1> QED BY <1>1 DEF Answers

\* A set of requests, in whatever order.
LEMMA SetToSeqTypes ==
  ASSUME NEW S, IsFiniteSet(S)
  PROVE  SetToSeq(S) \in Seq(S)
<1>1. PICK n \in Nat : ExistsBijection(1..n, S) BY FS_NatBijection
<1>2. Cardinality(S) = n BY <1>1, FS_CountingElements
<1>3. \E f \in [1..Cardinality(S) -> S] : IsInjective(f)
  BY <1>1, <1>2 DEF ExistsBijection, Bijection, Injection, IsInjective
<1>4. SetToSeq(S) \in [1..Cardinality(S) -> S] BY <1>3 DEF SetToSeq
<1> QED BY <1>2, <1>4

\* The requests after a reload.
LEMMA ReloadRequests ==
  ASSUME Types, Reload
  PROVE  /\ inbox' \in Seq(Requests)
         /\ \A n \in 1..Len(inbox') : inbox'[n].what = "get"
<1>1. PICK open \in SUBSET Files :
        inbox' = SetToSeq({[what |-> "get", arg |-> f] : f \in open})
  BY DEF Reload
<1> DEFINE S == {[what |-> "get", arg |-> f] : f \in open}
<1>2. IsFiniteSet(S)
  <2>1. IsFiniteSet(open) BY RemarkAssumption, FS_Subset
  <2>2. PICK g : g = [f \in open |-> [what |-> "get", arg |-> f]] OBVIOUS
  <2>3. g \in Surjection(open, S) BY <2>2 DEF Surjection
  <2> QED BY <2>1, <2>3, FS_Surjection
<1>3. \A m \in S : m \in Requests /\ m.what = "get" BY RequestTypes
<1>4. inbox' \in Seq(S) BY <1>1, <1>2, SetToSeqTypes
<1> HIDE DEF S
<1> QED BY <1>3, <1>4

-----------------------------------------------------------------------------
(* Types                                                                   *)

\* What TypeOK says of the parts that are not messages.
Rest == /\ text \in [Files -> Texts]
        /\ yaml \in [Yamls -> Remarks \cup {None}]
        /\ events \subseteq {"changed", "deleted"} \X Yamls
        /\ IsABag(rows) /\ BagToSet(rows) \subseteq Rows
        /\ compiled \in Files \cup {None} /\ active \in Files
        /\ shown \in [Files -> Views] /\ requests \in 0..MaxRequests

LEMMA TypesAre ==
  ASSUME inbox' \in Seq(Requests), outbox' \in Seq(Answers), Rest'
  PROVE  Types'
<1>1. \A n \in DOMAIN inbox' : inbox'[n].arg \in Files \cup Yamls
  <2> SUFFICES ASSUME NEW n \in DOMAIN inbox' PROVE inbox'[n].arg \in Files \cup Yamls
    OBVIOUS
  <2>1. inbox'[n] \in Requests OBVIOUS
  <2> QED BY <2>1 DEF Requests
<1>2. \A n \in DOMAIN outbox' : DOMAIN outbox'[n].remarks \subseteq Rows
  <2> SUFFICES ASSUME NEW n \in DOMAIN outbox' PROVE DOMAIN outbox'[n].remarks \subseteq Rows
    OBVIOUS
  <2>1. outbox'[n] \in Answers OBVIOUS
  <2> QED BY <2>1, AnswerTypes, ViewTypes
<1>3. \A f \in Files : DOMAIN shown'[f] \subseteq Rows BY ViewTypes DEF Rest
<1> QED BY <1>1, <1>2, <1>3 DEF Types, TypeOK, Rest

\* A yaml file is written.
LEMMA WrittenTypes ==
  ASSUME Types, NEW y \in Yamls, NEW f \in Files, Written(y, f)
  PROVE  /\ yaml' \in [Yamls -> Remarks \cup {None}]
         /\ events' \subseteq {"changed", "deleted"} \X Yamls
         /\ <<"changed", y>> \in events' /\ events \subseteq events'
<1>1. text[f] \in Texts BY DEF Types, TypeOK
<1>2. [file |-> f, of |-> text[f]] \in Remarks BY <1>1 DEF Remarks
<1> QED BY <1>2 DEF Written, Types, TypeOK

LEMMA HeadRequest ==
  ASSUME Types, inbox # <<>>
  PROVE  Head(inbox) \in Requests /\ Head(inbox) = inbox[1] /\ Len(inbox) \in Nat \ {0}
BY DEF Types
\* The rows that a handler adds.
LEMMA IngestRows ==
  ASSUME Types,
         \/ IngestRemarksFile
         \/ ShadowIngest
  PROVE  /\ IsABag(rows') /\ BagToSet(rows') \subseteq Rows
         /\ \A r \in DOMAIN rows : r \in DOMAIN rows' /\ rows'[r] >= rows[r]
<1>1. CASE IngestRemarksFile
  <2>1. Head(inbox).arg \in Yamls
    BY <1>1, HeadRequest, RequestTypes DEF IngestRemarksFile, Handles
  <2>2. InsertBulk(ParseClangYaml(Head(inbox).arg, "manual"))
    BY <1>1 DEF IngestRemarksFile
  <2> QED BY <2>1, <2>2, ParsedRows, RowsGrow
<1>2. CASE ShadowIngest
  <2>1. compiled \in Files BY <1>2 DEF ShadowIngest, Types, TypeOK
  <2>2. ShadowYaml[compiled] \in Yamls BY <2>1, RemarkAssumption
  <2>3. InsertBulk(ParseClangYaml(ShadowYaml[compiled], "shadow"))
    BY <1>2 DEF ShadowIngest
  <2> QED BY <2>2, <2>3, ParsedRows, RowsGrow
<1> QED BY <1>1, <1>2

LEMMA CountTypes ==
  ASSUME Types, Count
  PROVE  requests' \in 0..MaxRequests
BY RemarkAssumption DEF Types, TypeOK, Count

LEMMA TypesStep ==
  ASSUME Types, Compiling, [Next]_vars
  PROVE  Types'
<1>1. Rest /\ inbox \in Seq(Requests) /\ outbox \in Seq(Answers)
  BY DEF Types, TypeOK, Rest
<1>2. Blank \in Views BY BlankView
<1> USE DEF disk, extension
<1>3. ASSUME NEW f \in Files, Save(f) PROVE Types'
  <2>1. text[f] + 1 \in Texts BY <1>1, <1>3, RemarkAssumption DEF Save, Rest, Texts
  <2>2. text' = [text EXCEPT ![f] = text[f] + 1] BY <1>3 DEF Save
  <2>3. Rest' BY <1>1, <1>3, <2>1, <2>2 DEF Save, Rest
  <2> QED BY <1>1, <1>3, <2>3, TypesAre DEF Save
<1>4. ASSUME NEW f \in Files, SwitchEditor(f) PROVE Types'
  <2>1. inbox' \in Seq(Requests) BY <1>4, Sends, RequestTypes DEF SwitchEditor, Request
  <2>2. requests' \in 0..MaxRequests BY <1>4, CountTypes DEF SwitchEditor
  <2>3. Rest' BY <1>1, <1>4, <2>2 DEF SwitchEditor, Rest
  <2> QED BY <1>1, <1>4, <2>1, <2>3, TypesAre DEF SwitchEditor
<1>5. ASSUME NEW y \in Yamls, NEW f \in Files, Build(y, f) PROVE Types'
  <2>1. Rest' BY <1>1, <1>5, WrittenTypes DEF Build, Rest
  <2> QED BY <1>1, <1>5, <2>1, TypesAre DEF Build
<1>6. ASSUME NEW y \in Yamls, Delete(y) PROVE Types'
  <2>1. Rest' BY <1>1, <1>6 DEF Delete, Rest
  <2> QED BY <1>1, <1>6, <2>1, TypesAre DEF Delete
<1>7. ASSUME NEW e \in events, Deliver(e) PROVE Types'
  <2>1. e[2] \in Yamls BY <1>1 DEF Rest
  <2>2. events' \subseteq {"changed", "deleted"} \X Yamls BY <1>1, <1>7 DEF Deliver, Rest
  <2>3. CASE e[1] = "deleted"
    <3>1. Rest' BY <1>1, <1>2, <1>7, <2>2, <2>3 DEF Deliver, Rest
    <3> QED BY <1>1, <1>7, <2>3, <3>1, TypesAre DEF Deliver
  <2>4. CASE e[1] # "deleted"
    <3>1. requests' \in 0..MaxRequests BY <1>7, <2>4, CountTypes DEF Deliver
    <3>2. Rest' BY <1>1, <1>7, <2>2, <2>4, <3>1 DEF Deliver, Rest
    <3>3. inbox' \in Seq(Requests)
      BY <1>7, <2>1, <2>4, Sends, RequestTypes DEF Deliver, Request
    <3> QED BY <1>1, <1>7, <3>2, <3>3, TypesAre DEF Deliver
  <2> QED BY <2>3, <2>4
<1>8. ASSUME NEW what \in {"recompile", "trace"}, Command(what) PROVE Types'
  <2>1. active \in Files BY <1>1 DEF Rest
  <2>2. inbox' \in Seq(Requests)
    BY <1>8, <2>1, Sends, RequestTypes DEF Command, Request
  <2>3. requests' \in 0..MaxRequests BY <1>8, CountTypes DEF Command
  <2>4. Rest' BY <1>1, <1>8, <2>3 DEF Command, Rest
  <2> QED BY <1>1, <1>8, <2>2, <2>4, TypesAre DEF Command
<1>9. ASSUME NEW what \in {"recompile", "trace"}, ShadowCompile(what) PROVE Types'
  <2>1. Head(inbox).arg \in Files
    BY <1>9, HeadRequest, RequestTypes DEF ShadowCompile, Handles
  <2>2. ShadowYaml[Head(inbox).arg] \in Yamls BY <2>1, RemarkAssumption
  <2>3. \/ Written(ShadowYaml[Head(inbox).arg], Head(inbox).arg)
        \/ UNCHANGED <<yaml, events>>
    BY <1>9 DEF ShadowCompile
  <2>4. yaml' \in [Yamls -> Remarks \cup {None}] /\ events' \subseteq {"changed", "deleted"} \X Yamls
    BY <1>1, <2>1, <2>2, <2>3, WrittenTypes DEF Rest
  <2>5. Rest' BY <1>1, <1>9, <2>1, <2>4 DEF ShadowCompile, Rest
  <2> QED BY <1>1, <1>9, <2>5, TypesAre DEF ShadowCompile
<1>10. ASSUME NEW what \in {"recompile", "trace"}, ShadowCompileFails(what) PROVE Types'
  <2>1. inbox # <<>> BY <1>10 DEF ShadowCompileFails, Handles
  <2>2. inbox' \in Seq(Requests) /\ outbox' \in Seq(Answers)
    BY <1>10, <2>1, AnswersIt, AnswerTypes DEF ShadowCompileFails
  <2>3. Rest' BY <1>1, <1>10 DEF ShadowCompileFails, Rest
  <2> QED BY <2>2, <2>3, TypesAre
<1>11. CASE Receive
  <2>1. /\ outbox' \in Seq(Answers) /\ Head(outbox) \in Answers
        /\ UNCHANGED <<text, yaml, events, rows, compiled, active, requests>>
    BY <1>11, Receives DEF Receive
  <2>2. active \in Files BY <1>1 DEF Rest
  <2>3. CASE Head(outbox).what = "ingest" /\ Ingested(Head(outbox))
    <3>1. inbox' \in Seq(Requests)
      BY <2>2, <2>3, Sends, RequestTypes DEF Ingested, Request
    <3>2. Rest' BY <1>1, <2>1, <2>3 DEF Ingested, Rest
    <3> QED BY <2>1, <3>1, <3>2, TypesAre
  <2>4. CASE Head(outbox).what = "recompile" /\ Recompiled(Head(outbox))
    <3>1. Head(outbox).arg \in Files BY <2>1, <2>4, AnswerTypes
    <3>2. inbox' \in Seq(Requests)
      BY <2>4, <3>1, Sends, RequestTypes DEF Recompiled, Request
    <3>3. Rest' BY <1>1, <2>1, <2>4 DEF Recompiled, Rest
    <3> QED BY <2>1, <3>2, <3>3, TypesAre
  <2>5. CASE Head(outbox).what = "get" /\ GotRemarks(Head(outbox))
    <3>1. Head(outbox).arg \in Files /\ Head(outbox).remarks \in Views
      BY <2>1, <2>5, AnswerTypes
    <3>2. shown' = [shown EXCEPT ![Head(outbox).arg] = Head(outbox).remarks] /\ inbox' = inbox
      BY <2>5 DEF GotRemarks
    <3>3. Rest' BY <1>1, <2>1, <3>1, <3>2 DEF Rest
    <3> QED BY <1>1, <2>1, <3>2, <3>3, TypesAre
  <2>6. CASE Ignored(Head(outbox))
    <3>1. Rest' BY <1>1, <2>1, <2>6 DEF Ignored, Rest
    <3> QED BY <1>1, <2>1, <2>6, <3>1, TypesAre DEF Ignored
  <2> QED BY <1>11, <2>3, <2>4, <2>5, <2>6 DEF Receive
<1>12. CASE Reload
  <2>1. inbox' \in Seq(Requests) BY <1>12, ReloadRequests
  <2>2. Rest' /\ outbox' = <<>> BY <1>1, <1>2, <1>12 DEF Reload, Rest
  <2> QED BY <2>1, <2>2, TypesAre
<1>13. CASE IngestRemarksFile
  <2>1. inbox # <<>> BY <1>13 DEF IngestRemarksFile, Handles
  <2>2. inbox' \in Seq(Requests) /\ outbox' \in Seq(Answers)
    BY <1>13, <2>1, AnswersIt, AnswerTypes DEF IngestRemarksFile
  <2>3. Rest' BY <1>1, <1>13, IngestRows DEF IngestRemarksFile, Rest
  <2> QED BY <2>2, <2>3, TypesAre
<1>14. CASE ShadowIngest
  <2>1. inbox # <<>> /\ Head(inbox).what \in {"recompile", "trace"} /\ compiled \in Files
    BY <1>1, <1>14 DEF ShadowIngest, Compiling, Rest
  <2>2. [what |-> Head(inbox).what, arg |-> compiled, remarks |-> Blank] \in Answers
    BY <2>1, AnswerTypes
  <2>3. inbox' \in Seq(Requests) /\ outbox' \in Seq(Answers)
    BY <1>14, <2>1, <2>2, AnswersIt DEF ShadowIngest
  <2>4. Rest' BY <1>1, <1>14, IngestRows DEF ShadowIngest, Rest
  <2> QED BY <2>3, <2>4, TypesAre
<1>15. CASE GetRemarks
  <2>1. inbox # <<>> /\ Head(inbox).arg \in Files
    BY <1>15, HeadRequest, RequestTypes DEF GetRemarks, Handles
  <2>2. Stored(Head(inbox).arg) \in Views BY <2>1, StoredView
  <2>3. inbox' \in Seq(Requests) /\ outbox' \in Seq(Answers)
    BY <1>15, <2>1, <2>2, AnswersIt, AnswerTypes DEF GetRemarks
  <2>4. Rest' BY <1>1, <1>15 DEF GetRemarks, Rest
  <2> QED BY <2>3, <2>4, TypesAre
<1>16. CASE UNCHANGED vars BY <1>16 DEF vars, Types, TypeOK
<1> QED BY <1>3, <1>4, <1>5, <1>6, <1>7, <1>8, <1>9, <1>10, <1>11, <1>12, <1>13, <1>14,
           <1>15, <1>16 DEF Next

-----------------------------------------------------------------------------
(* What has to be read                                                     *)

Pending == \E m \in 1..Len(inbox) : inbox[m].what = "ingest"

LEMMA PendingStays ==
  ASSUME Types, Pending,
         \/ inbox' = inbox
         \/ \E e \in Requests : inbox' = Append(inbox, e)
         \/ inbox # <<>> /\ Head(inbox).what # "ingest" /\ inbox' = Tail(inbox)
  PROVE  Pending'
<1>1. PICK m \in 1..Len(inbox) : inbox[m].what = "ingest" BY DEF Pending
<1>2. CASE inbox' = inbox BY <1>2 DEF Pending
<1>3. ASSUME NEW e \in Requests, inbox' = Append(inbox, e) PROVE Pending'
  <2>1. Len(inbox') = Len(inbox) + 1 /\ inbox'[m] = inbox[m] /\ Len(inbox) \in Nat
    BY <1>3, Sends
  <2> QED BY <1>1, <2>1 DEF Pending
<1>4. CASE inbox # <<>> /\ Head(inbox).what # "ingest" /\ inbox' = Tail(inbox)
  <2>1. /\ Head(inbox) = inbox[1] /\ Len(inbox) \in Nat \ {0}
        /\ Len(inbox') = Len(inbox) - 1
        /\ \A n \in 1..(Len(inbox) - 1) : inbox'[n] = inbox[n + 1]
    BY <1>4 DEF Types
  <2>2. m # 1 BY <1>1, <1>4, <2>1
  <2>3. m - 1 \in 1..Len(inbox') /\ inbox'[m - 1] = inbox[m] BY <2>1, <2>2
  <2> QED BY <1>1, <2>3 DEF Pending
<1> QED BY <1>2, <1>3, <1>4

\* What the sidecar has no part in, nor a reload.
Outside == \/ \E f \in Files : Save(f) \/ SwitchEditor(f)
           \/ \E y \in Yamls, f \in Files : Build(y, f)
           \/ \E y \in Yamls : Delete(y)
           \/ \E e \in events : Deliver(e)
           \/ \E what \in {"recompile", "trace"} : Command(what)
           \/ Receive \/ UNCHANGED vars

LEMMA OutsideSends ==
  ASSUME Types, Outside
  PROVE  /\ compiled' = compiled /\ rows' = rows
         /\ inbox' = inbox \/ \E e \in Requests : inbox' = Append(inbox, e)
<1>1. active \in Files BY DEF Types, TypeOK
<1>2. ASSUME NEW f \in Files, SwitchEditor(f) PROVE \E e \in Requests : inbox' = Append(inbox, e)
  BY <1>2, RequestTypes DEF SwitchEditor, Request
<1>3. ASSUME NEW e \in events, Deliver(e)
      PROVE  inbox' = inbox \/ \E r \in Requests : inbox' = Append(inbox, r)
  <2>1. e[2] \in Yamls BY DEF Types, TypeOK
  <2> QED BY <1>3, <2>1, RequestTypes DEF Deliver, Request
<1>4. ASSUME NEW what \in {"recompile", "trace"}, Command(what)
      PROVE  \E e \in Requests : inbox' = Append(inbox, e)
  BY <1>1, <1>4, RequestTypes DEF Command, Request
<1>5. ASSUME Receive
      PROVE  inbox' = inbox \/ \E e \in Requests : inbox' = Append(inbox, e)
  <2>1. Head(outbox) \in Answers BY <1>5, Receives DEF Receive
  <2>2. CASE Ingested(Head(outbox))
    BY <1>1, <2>2, RequestTypes DEF Ingested, Request
  <2>3. CASE Head(outbox).what = "recompile" /\ Recompiled(Head(outbox))
    <3>1. Head(outbox).arg \in Files BY <2>1, <2>3, AnswerTypes
    <3> QED BY <2>3, <3>1, RequestTypes DEF Recompiled, Request
  <2>4. CASE GotRemarks(Head(outbox)) \/ Ignored(Head(outbox))
    BY <2>4 DEF GotRemarks, Ignored
  <2> QED BY <1>5, <2>2, <2>3, <2>4 DEF Receive
<1>6. CASE \/ \E f \in Files : Save(f)
           \/ \E y \in Yamls, f \in Files : Build(y, f)
           \/ \E y \in Yamls : Delete(y)
           \/ UNCHANGED vars
  BY <1>6 DEF Save, Build, Delete, vars
<1>7. compiled' = compiled /\ rows' = rows
  BY DEF Outside, Save, SwitchEditor, Build, Delete, Deliver, Command, Receive, vars
<1> QED BY <1>2, <1>3, <1>4, <1>5, <1>6, <1>7 DEF Outside

\* A step sends a request, or none, or takes up the first one.
LEMMA InboxStep ==
  ASSUME Types, Compiling, [Next]_vars, ~Reload, ~IngestRemarksFile
  PROVE  \/ inbox' = inbox
         \/ \E e \in Requests : inbox' = Append(inbox, e)
         \/ inbox # <<>> /\ Head(inbox).what # "ingest" /\ inbox' = Tail(inbox)
<1>1. CASE Outside BY <1>1, OutsideSends
<1>2. CASE ShadowIngest \/ GetRemarks \/ \E what \in {"recompile", "trace"} : ShadowCompileFails(what)
  BY <1>2 DEF ShadowIngest, GetRemarks, ShadowCompileFails, Handles, Answer, Compiling
<1>3. CASE \E what \in {"recompile", "trace"} : ShadowCompile(what)
  BY <1>3 DEF ShadowCompile
<1> QED BY <1>1, <1>2, <1>3 DEF Next, Outside

\* An event that the watcher gets is an ingestion to come.
LEMMA EventsStep ==
  ASSUME Types, [Next]_vars, ~Reload, NEW e \in events, e[1] = "changed"
  PROVE  e \in events' \/ Pending'
<1> USE DEF disk
<1>1. ASSUME NEW d \in events, Deliver(d) PROVE e \in events' \/ Pending'
  <2>1. CASE d # e BY <1>1, <2>1 DEF Deliver
  <2>2. CASE d = e
    <3>1. e[2] \in Yamls BY DEF Types, TypeOK
    <3>2. [what |-> "ingest", arg |-> e[2]] \in Requests BY <3>1, RequestTypes
    <3>3. inbox' = Append(inbox, [what |-> "ingest", arg |-> e[2]])
      BY <1>1, <2>2 DEF Deliver, Request
    <3>4. /\ Len(inbox) \in Nat /\ Len(inbox') = Len(inbox) + 1
          /\ inbox'[Len(inbox) + 1] = [what |-> "ingest", arg |-> e[2]]
      BY <3>2, <3>3, Sends
    <3>5. Len(inbox) + 1 \in 1..Len(inbox') BY <3>4
    <3> QED BY <3>4, <3>5 DEF Pending
  <2> QED BY <2>1, <2>2
<1>2. ASSUME NEW what \in {"recompile", "trace"}, ShadowCompile(what)
      PROVE  e \in events'
  BY <1>2 DEF ShadowCompile, Written
<1>3. CASE \/ \E f \in Files : Save(f) \/ SwitchEditor(f)
           \/ \E y \in Yamls, f \in Files : Build(y, f)
           \/ \E y \in Yamls : Delete(y)
           \/ \E what \in {"recompile", "trace"} : Command(what) \/ ShadowCompileFails(what)
           \/ Receive \/ IngestRemarksFile \/ ShadowIngest \/ GetRemarks \/ UNCHANGED vars
  BY <1>3 DEF Save, SwitchEditor, Build, Written, Delete, Command, ShadowCompileFails,
              Receive, IngestRemarksFile, ShadowIngest, GetRemarks, vars
<1> QED BY <1>1, <1>2, <1>3 DEF Next

LEMMA LeftoverStep ==
  ASSUME [Next]_vars, leftover
  PROVE  leftover'
BY DEF Next, vars, Save, SwitchEditor, Build, Delete, Deliver, Command, ShadowCompile,
       ShadowCompileFails, Receive, Reload, IngestRemarksFile, ShadowIngest, GetRemarks

\* What is to be read stays so, until it is read or the window is reloaded.
LEMMA UnreadStays ==
  ASSUME Types, Compiling, [Next]_vars, Unread, ~Reload, ~IngestRemarksFile
  PROVE  Unread'
<1>1. CASE leftover BY <1>1, LeftoverStep DEF Unread
<1>2. CASE Pending
  <2>1. Pending' BY <1>2, InboxStep, PendingStays
  <2> QED BY <2>1 DEF Unread, Pending
<1>3. CASE \E e \in events : e[1] = "changed"
  BY <1>3, EventsStep DEF Unread, Pending
<1> QED BY <1>1, <1>2, <1>3 DEF Unread, Pending

LEMMA CompilingStep ==
  ASSUME Types, Compiling, [Next]_vars
  PROVE  Compiling'
<1>1. ASSUME NEW what \in {"recompile", "trace"}, ShadowCompile(what) PROVE Compiling'
  <2>1. /\ inbox # <<>> /\ Head(inbox).what = what /\ inbox' = inbox
        /\ compiled' = Head(inbox).arg
    BY <1>1 DEF ShadowCompile, Handles
  <2>2. Unread'
    <3>1. CASE leftover' BY <3>1 DEF Unread
    <3>2. CASE Written(ShadowYaml[Head(inbox).arg], Head(inbox).arg)
      <4>1. <<"changed", ShadowYaml[Head(inbox).arg]>> \in events' BY <3>2 DEF Written
      <4> QED BY <4>1 DEF Unread
    <3> QED BY <1>1, <3>1, <3>2 DEF ShadowCompile
  <2> QED BY <2>1, <2>2 DEF Compiling
<1>2. CASE Reload \/ IngestRemarksFile \/ ShadowIngest
  BY <1>2 DEF Reload, IngestRemarksFile, ShadowIngest, Handles, Compiling
<1>3. CASE Outside /\ ~Reload /\ ~IngestRemarksFile
  <2>1. compiled' = compiled /\ (inbox # <<>> => inbox' # <<>> /\ Head(inbox') = Head(inbox))
    BY <1>3, OutsideSends, Sends
  <2>2. Unread => Unread' BY <1>3, UnreadStays
  <2> QED BY <2>1, <2>2 DEF Compiling
<1>4. CASE GetRemarks \/ \E what \in {"recompile", "trace"} : ShadowCompileFails(what)
  BY <1>4 DEF GetRemarks, ShadowCompileFails, Handles, Compiling
<1> QED BY <1>1, <1>2, <1>3, <1>4 DEF Next, Outside

-----------------------------------------------------------------------------
(* The chain of what is shown, the answers and the store                   *)

LEMMA WithinTransitive ==
  ASSUME NEW u \in Views, NEW v \in Views, NEW w \in Views, Within(u, v), Within(v, w)
  PROVE  Within(u, w)
<1>1. /\ \A r \in DOMAIN u : u[r].copies \in Nat
      /\ \A r \in DOMAIN v : v[r].copies \in Nat
      /\ \A r \in DOMAIN w : w[r].copies \in Nat
  BY ViewTypes
<1> QED BY <1>1 DEF Within

\* A larger bag will do.
LEMMA ChainGrows ==
  ASSUME NEW f \in Files, NEW v \in Views, NEW s \in Seq(Answers), NEW bag, NEW larger,
         ChainOf(f, v, s, bag), IsABag(bag), IsABag(larger),
         \A r \in DOMAIN bag : r \in DOMAIN larger /\ larger[r] >= bag[r]
  PROVE  ChainOf(f, v, s, larger)
<1>1. ASSUME NEW w \in Views, InStore(w, f, bag) PROVE InStore(w, f, larger)
  <2>1. \A r \in DOMAIN w : w[r].copies \in Nat BY ViewTypes
  <2>2. /\ \A r \in DOMAIN bag : bag[r] \in Nat
        /\ \A r \in DOMAIN larger : larger[r] \in Nat
    BY DEF IsABag
  <2> QED BY <1>1, <2>1, <2>2 DEF InStore
<1>2. \A n \in 1..Len(s) : s[n].remarks \in Views
  <2>1. \A n \in 1..Len(s) : s[n] \in Answers OBVIOUS
  <2> QED BY <2>1, AnswerTypes
<1> QED BY <1>1, <1>2 DEF ChainOf

\* So will fewer answers, or no diagnostics.
LEMMA ChainBlank ==
  ASSUME NEW f \in Files, NEW v, NEW s \in Seq(Answers), NEW bag, ChainOf(f, v, s, bag)
  PROVE  /\ ChainOf(f, Blank, s, bag) /\ ChainOf(f, Blank, <<>>, bag)
         /\ s # <<>> => ChainOf(f, v, Tail(s), bag)
<1>1. InStore(Blank, f, bag) /\ \A w : Within(Blank, w) BY BlankView DEF InStore, Within
<1>2. ChainOf(f, Blank, s, bag) BY <1>1 DEF ChainOf
<1>3. ChainOf(f, Blank, <<>>, bag) BY <1>1 DEF ChainOf
<1>4. ASSUME s # <<>> PROVE ChainOf(f, v, Tail(s), bag)
  <2>1. /\ Len(s) \in Nat \ {0} /\ Len(Tail(s)) = Len(s) - 1
        /\ \A n \in 1..Len(Tail(s)) : Tail(s)[n] = s[n + 1]
    BY <1>4
  <2> SUFFICES ASSUME NEW n \in 1..Len(Tail(s)), IsGet(Tail(s)[n], f)
               PROVE  /\ InStore(Tail(s)[n].remarks, f, bag) /\ Within(v, Tail(s)[n].remarks)
                      /\ \A m \in 1..(n - 1) : IsGet(Tail(s)[m], f) =>
                           Within(Tail(s)[m].remarks, Tail(s)[n].remarks)
    BY DEF ChainOf
  <2>2. n + 1 \in 1..Len(s) /\ Tail(s)[n] = s[n + 1] BY <2>1
  <2>3. \A m \in 1..(n - 1) : m + 1 \in 1..((n + 1) - 1) /\ Tail(s)[m] = s[m + 1] BY <2>1
  <2> QED BY <2>2, <2>3 DEF ChainOf
<1> QED BY <1>2, <1>3, <1>4

\* What is received for f is within the answers behind it.
LEMMA ChainReceives ==
  ASSUME NEW f \in Files, NEW v, NEW s \in Seq(Answers), NEW bag, ChainOf(f, v, s, bag),
         s # <<>>, IsGet(Head(s), f)
  PROVE  ChainOf(f, Head(s).remarks, Tail(s), bag) /\ Within(v, Head(s).remarks)
<1>1. /\ Len(s) \in Nat \ {0} /\ Len(Tail(s)) = Len(s) - 1 /\ Head(s) = s[1]
      /\ \A n \in 1..Len(Tail(s)) : Tail(s)[n] = s[n + 1]
  OBVIOUS
<1>2. 1 \in 1..Len(s) BY <1>1
<1>3. InStore(Head(s).remarks, f, bag) /\ Within(v, Head(s).remarks)
  BY <1>1, <1>2 DEF ChainOf
<1>4. ASSUME NEW n \in 1..Len(Tail(s)), IsGet(Tail(s)[n], f)
      PROVE  /\ InStore(Tail(s)[n].remarks, f, bag)
             /\ Within(Head(s).remarks, Tail(s)[n].remarks)
             /\ \A m \in 1..(n - 1) : IsGet(Tail(s)[m], f) =>
                  Within(Tail(s)[m].remarks, Tail(s)[n].remarks)
  <2>1. n + 1 \in 1..Len(s) /\ Tail(s)[n] = s[n + 1] /\ 1 \in 1..((n + 1) - 1) BY <1>1
  <2>2. \A m \in 1..(n - 1) : m + 1 \in 1..((n + 1) - 1) /\ Tail(s)[m] = s[m + 1] BY <1>1
  <2> QED BY <1>1, <1>4, <2>1, <2>2 DEF ChainOf
<1> QED BY <1>3, <1>4 DEF ChainOf

\* An answer that lists the most goes to the end, or one for another file.
LEMMA ChainAnswers ==
  ASSUME NEW f \in Files, NEW v, NEW s \in Seq(Answers), NEW bag, ChainOf(f, v, s, bag),
         NEW e \in Answers,
         IsGet(e, f) => /\ InStore(e.remarks, f, bag)
                        /\ \A w : InStore(w, f, bag) => Within(w, e.remarks)
  PROVE  ChainOf(f, v, Append(s, e), bag)
<1>1. /\ Len(s) \in Nat /\ Len(Append(s, e)) = Len(s) + 1 /\ Append(s, e)[Len(s) + 1] = e
      /\ \A n \in 1..Len(s) : Append(s, e)[n] = s[n]
  OBVIOUS
<1>2. ASSUME NEW n \in 1..Len(Append(s, e)), IsGet(Append(s, e)[n], f)
      PROVE  /\ InStore(Append(s, e)[n].remarks, f, bag)
             /\ Within(v, Append(s, e)[n].remarks)
             /\ \A m \in 1..(n - 1) : IsGet(Append(s, e)[m], f) =>
                  Within(Append(s, e)[m].remarks, Append(s, e)[n].remarks)
  <2>1. \A m \in 1..(n - 1) : m \in 1..Len(s) /\ Append(s, e)[m] = s[m] BY <1>1
  <2>2. CASE n \in 1..Len(s) BY <1>1, <1>2, <2>1, <2>2 DEF ChainOf
  <2>3. CASE n = Len(s) + 1 BY <1>1, <1>2, <2>1, <2>3 DEF ChainOf
  <2> QED BY <1>1, <2>2, <2>3
<1> QED BY <1>2 DEF ChainOf

\* The rows of the store only increase.
LEMMA StoreGrows ==
  ASSUME Types, [Next]_vars
  PROVE  /\ IsABag(rows) /\ IsABag(rows')
         /\ \A r \in DOMAIN rows : r \in DOMAIN rows' /\ rows'[r] >= rows[r]
<1>1. IsABag(rows) /\ \A r \in DOMAIN rows : rows[r] \in Nat
  BY DEF Types, TypeOK, IsABag
<1>2. CASE IngestRemarksFile \/ ShadowIngest BY <1>1, <1>2, IngestRows
<1>3. CASE rows' = rows BY <1>1, <1>3
<1>4. CASE Outside BY <1>1, <1>4, OutsideSends
<1>5. CASE \/ \E what \in {"recompile", "trace"} : ShadowCompile(what) \/ ShadowCompileFails(what)
           \/ Reload \/ GetRemarks
  <2>1. rows' = rows BY <1>5 DEF ShadowCompile, ShadowCompileFails, Reload, GetRemarks
  <2> QED BY <1>3, <2>1
<1> QED BY <1>2, <1>4, <1>5 DEF Next, Outside

LEMMA ChainStep ==
  ASSUME Types, Compiling, Chain, [Next]_vars
  PROVE  /\ Chain'
         /\ \A f \in Files : shown'[f] = Blank \/ Within(shown[f], shown'[f])
<1>1. /\ outbox \in Seq(Answers) /\ shown \in [Files -> Views] BY DEF Types
<1>2. /\ IsABag(rows) /\ IsABag(rows')
      /\ \A r \in DOMAIN rows : r \in DOMAIN rows' /\ rows'[r] >= rows[r]
  BY StoreGrows
<1>3. Types' BY TypesStep
<1>4. outbox' \in Seq(Answers) BY <1>3 DEF Types
<1> SUFFICES ASSUME NEW f \in Files
             PROVE  /\ ChainOf(f, shown'[f], outbox', rows')
                    /\ shown'[f] = Blank \/ Within(shown[f], shown'[f])
  BY DEF Chain
<1>5. shown[f] \in Views /\ shown'[f] \in Views BY <1>1, <1>3 DEF Types
<1>6. Within(shown[f], shown[f])
  <2>1. \A r \in DOMAIN shown[f] : shown[f][r].copies \in Nat BY <1>5, ViewTypes
  <2> QED BY <2>1 DEF Within
<1>7. ChainOf(f, shown[f], outbox, rows') BY <1>1, <1>2, <1>5, ChainGrows DEF Chain
<1>8. ASSUME shown' = shown, outbox' = outbox
      PROVE  /\ ChainOf(f, shown'[f], outbox', rows')
             /\ shown'[f] = Blank \/ Within(shown[f], shown'[f])
  BY <1>6, <1>7, <1>8
<1>9. ASSUME shown' = shown, NEW e \in Answers, outbox' = Append(outbox, e),
             IsGet(e, f) => /\ InStore(e.remarks, f, rows')
                            /\ \A w : InStore(w, f, rows') => Within(w, e.remarks)
      PROVE  /\ ChainOf(f, shown'[f], outbox', rows')
             /\ shown'[f] = Blank \/ Within(shown[f], shown'[f])
  BY <1>1, <1>6, <1>7, <1>9, ChainAnswers
<1> USE DEF extension
<1>10. ASSUME NEW e \in events, Deliver(e)
       PROVE  /\ ChainOf(f, shown'[f], outbox', rows')
              /\ shown'[f] = Blank \/ Within(shown[f], shown'[f])
  <2>1. outbox' = outbox /\ (shown' = shown \/ shown'[f] = Blank) BY <1>10 DEF Deliver
  <2>2. ChainOf(f, Blank, outbox, rows') BY <1>1, <1>7, ChainBlank
  <2> QED BY <1>8, <2>1, <2>2
<1>11. CASE Receive
  <2>1. outbox # <<>> /\ outbox' = Tail(outbox) BY <1>11 DEF Receive
  <2>2. CASE shown' = shown
    <3>1. ChainOf(f, shown[f], Tail(outbox), rows') BY <1>1, <1>7, <2>1, ChainBlank
    <3> QED BY <1>6, <2>1, <2>2, <3>1
  <2>3. CASE Head(outbox).what = "get" /\ GotRemarks(Head(outbox))
    <3>1. Head(outbox).arg \in Files BY <2>1, <2>3, Receives, AnswerTypes
    <3>2. shown' = [shown EXCEPT ![Head(outbox).arg] = Head(outbox).remarks]
      BY <2>3 DEF GotRemarks
    <3>3. CASE Head(outbox).arg = f
      <4>1. shown'[f] = Head(outbox).remarks BY <1>1, <3>1, <3>2, <3>3
      <4>2. ChainOf(f, Head(outbox).remarks, Tail(outbox), rows')
            /\ Within(shown[f], Head(outbox).remarks)
        BY <1>1, <1>7, <2>1, <2>3, <3>3, ChainReceives DEF IsGet
      <4> QED BY <2>1, <4>1, <4>2
    <3>4. CASE Head(outbox).arg # f
      <4>1. shown'[f] = shown[f] BY <1>1, <3>1, <3>2, <3>4
      <4>2. ChainOf(f, shown[f], Tail(outbox), rows') BY <1>1, <1>7, <2>1, ChainBlank
      <4> QED BY <1>6, <2>1, <4>1, <4>2
    <3> QED BY <3>3, <3>4
  <2> QED BY <1>11, <2>2, <2>3 DEF Receive, Ingested, Recompiled, Ignored
<1>12. CASE Reload
  <2>1. shown'[f] = Blank /\ outbox' = <<>> BY <1>12 DEF Reload
  <2>2. ChainOf(f, Blank, <<>>, rows') BY <1>1, <1>7, ChainBlank
  <2> QED BY <2>1, <2>2
<1>13. CASE IngestRemarksFile \/ \E what \in {"recompile", "trace"} : ShadowCompileFails(what)
  <2>1. \E what \in {"ingest", "error"} :
          outbox' = Append(outbox, [what |-> what, arg |-> None, remarks |-> Blank])
    BY <1>13 DEF IngestRemarksFile, ShadowCompileFails, Answer
  <2>2. shown' = shown BY <1>13 DEF IngestRemarksFile, ShadowCompileFails
  <2> QED BY <1>9, <2>1, <2>2, AnswerTypes DEF IsGet
<1>14. CASE ShadowIngest
  <2>1. Head(inbox).what \in {"recompile", "trace"} /\ compiled \in Files
    BY <1>14 DEF ShadowIngest, Compiling, Types, TypeOK
  <2>2. outbox' = Append(outbox, [what |-> Head(inbox).what, arg |-> compiled,
                                  remarks |-> Blank])
        /\ shown' = shown
    BY <1>14 DEF ShadowIngest, Answer
  <2>3. [what |-> Head(inbox).what, arg |-> compiled, remarks |-> Blank] \in Answers
    BY <2>1, AnswerTypes
  <2> QED BY <1>9, <2>1, <2>2, <2>3 DEF IsGet
<1>15. CASE GetRemarks
  <2>1. Head(inbox).arg \in Files
    BY <1>15, HeadRequest, RequestTypes DEF GetRemarks, Handles
  <2> DEFINE e == [what |-> "get", arg |-> Head(inbox).arg,
                   remarks |-> Stored(Head(inbox).arg)]
  <2>2. outbox' = Append(outbox, e) /\ shown' = shown /\ rows' = rows
    BY <1>15 DEF GetRemarks, Answer
  <2>3. e \in Answers BY <2>1, StoredView, AnswerTypes
  <2>4. IsGet(e, f) => /\ InStore(e.remarks, f, rows)
                       /\ \A w : InStore(w, f, rows) => Within(w, e.remarks)
    BY StoredView DEF IsGet
  <2> HIDE DEF e
  <2> QED BY <1>9, <2>2, <2>3, <2>4
<1>16. CASE \/ \E g \in Files : Save(g) \/ SwitchEditor(g)
            \/ \E y \in Yamls, g \in Files : Build(y, g)
            \/ \E y \in Yamls : Delete(y)
            \/ \E what \in {"recompile", "trace"} : Command(what) \/ ShadowCompile(what)
            \/ UNCHANGED vars
  <2>1. shown' = shown /\ outbox' = outbox
    BY <1>16 DEF Save, SwitchEditor, Build, Delete, Command, ShadowCompile, vars
  <2> QED BY <1>8, <2>1
<1> QED BY <1>10, <1>11, <1>12, <1>13, <1>14, <1>15, <1>16 DEF Next

-----------------------------------------------------------------------------
(* Fresh answers                                                           *)

\* A step answers a request, receives an answer or leaves them alone.
LEMMA OutboxStep ==
  ASSUME Types, Compiling, [Next]_vars, ~Reload
  PROVE  \/ outbox' = outbox
         \/ \E e \in Answers : outbox' = Append(outbox, e)
         \/ Receive /\ outbox # <<>> /\ outbox' = Tail(outbox)
<1> USE DEF extension
<1>1. CASE IngestRemarksFile \/ \E what \in {"recompile", "trace"} : ShadowCompileFails(what)
  BY <1>1, AnswerTypes DEF IngestRemarksFile, ShadowCompileFails, Answer
<1>2. CASE ShadowIngest
  <2>1. Head(inbox).what \in {"recompile", "trace"} /\ compiled \in Files
    BY <1>2 DEF ShadowIngest, Compiling, Types, TypeOK
  <2>2. [what |-> Head(inbox).what, arg |-> compiled, remarks |-> Blank] \in Answers
    BY <2>1, AnswerTypes
  <2> QED BY <1>2, <2>2 DEF ShadowIngest, Answer
<1>3. CASE GetRemarks
  <2>1. Head(inbox).arg \in Files
    BY <1>3, HeadRequest, RequestTypes DEF GetRemarks, Handles
  <2>2. [what |-> "get", arg |-> Head(inbox).arg, remarks |-> Stored(Head(inbox).arg)]
          \in Answers
    BY <2>1, StoredView, AnswerTypes
  <2> QED BY <1>3, <2>2 DEF GetRemarks, Answer
<1>4. CASE Receive BY <1>4 DEF Receive
<1>5. CASE \/ \E g \in Files : Save(g) \/ SwitchEditor(g)
           \/ \E y \in Yamls, g \in Files : Build(y, g)
           \/ \E y \in Yamls : Delete(y)
           \/ \E e \in events : Deliver(e)
           \/ \E what \in {"recompile", "trace"} : Command(what) \/ ShadowCompile(what)
           \/ UNCHANGED vars
  BY <1>5 DEF Save, SwitchEditor, Build, Delete, Deliver, Command, ShadowCompile, vars
<1> QED BY <1>1, <1>2, <1>3, <1>4, <1>5 DEF Next

\* An answer stays until it is received.
LEMMA AnswerStays ==
  ASSUME Types, Compiling, [Next]_vars, ~Reload, NEW n \in 1..Len(outbox)
  PROVE  \/ Receive /\ Head(outbox) = outbox[n]
         \/ \E m \in 1..Len(outbox') : outbox'[m] = outbox[n]
<1>1. outbox \in Seq(Answers) BY DEF Types
<1>2. CASE outbox' = outbox BY <1>2
<1>3. ASSUME NEW e \in Answers, outbox' = Append(outbox, e)
      PROVE  \E m \in 1..Len(outbox') : outbox'[m] = outbox[n]
  BY <1>1, <1>3
<1>4. ASSUME Receive, outbox # <<>>, outbox' = Tail(outbox), n # 1
      PROVE  \E m \in 1..Len(outbox') : outbox'[m] = outbox[n]
  <2>1. /\ Len(outbox) \in Nat \ {0} /\ Len(outbox') = Len(outbox) - 1
        /\ \A m \in 1..(Len(outbox) - 1) : outbox'[m] = outbox[m + 1]
    BY <1>4, Receives
  <2>2. n - 1 \in 1..Len(outbox') /\ outbox'[n - 1] = outbox[n] BY <1>4, <2>1
  <2> QED BY <2>2
<1>5. outbox # <<>> => Head(outbox) = outbox[1] BY <1>1
<1> QED BY <1>2, <1>3, <1>4, <1>5, OutboxStep

\* An ingestion to come, or one whose answer is on its way, stays one or the
\* other until the answer is received.
LEMMA UnsettledStays ==
  ASSUME Types, Compiling, [Next]_vars, ~Settled, Settled'
  PROVE  Reload \/ (Receive /\ Head(outbox).what = "ingest")
<1>1. CASE Unread
  <2>1. CASE IngestRemarksFile
    <3>1. inbox # <<>> /\ Answer("ingest", None, Blank)
      BY <2>1 DEF IngestRemarksFile, Handles
    <3>2. /\ Len(outbox) \in Nat /\ Len(outbox') = Len(outbox) + 1
          /\ outbox'[Len(outbox) + 1] = [what |-> "ingest", arg |-> None, remarks |-> Blank]
      BY <3>1, AnswersIt, AnswerTypes
    <3>3. Len(outbox) + 1 \in 1..Len(outbox') BY <3>2
    <3> QED BY <3>2, <3>3 DEF Settled
  <2>2. CASE ~IngestRemarksFile
    <3>1. ~Unread' BY DEF Settled
    <3> QED BY <1>1, <2>2, <3>1, UnreadStays
  <2> QED BY <2>1, <2>2
<1>2. ASSUME NEW n \in 1..Len(outbox), outbox[n].what = "ingest"
      PROVE  Reload \/ (Receive /\ Head(outbox).what = "ingest")
  <2>1. ~ \E m \in 1..Len(outbox') : outbox'[m] = outbox[n] BY <1>2 DEF Settled
  <2> QED BY <1>2, <2>1, AnswerStays
<1> QED BY <1>1, <1>2 DEF Settled

\* Rows that a step adds are to be read, or an ingestion of them is answered.
LEMMA SettledRows ==
  ASSUME Types, Compiling, [Next]_vars, ~Unread, ~IngestRemarksFile
  PROVE  compiled = None /\ rows' = rows /\ ~ShadowIngest
<1>1. compiled = None /\ ~ShadowIngest BY DEF Compiling, ShadowIngest
<1>2. CASE Outside BY <1>1, <1>2, OutsideSends
<1>3. CASE \/ \E what \in {"recompile", "trace"} : ShadowCompile(what) \/ ShadowCompileFails(what)
           \/ Reload \/ GetRemarks
  BY <1>1, <1>3 DEF ShadowCompile, ShadowCompileFails, Reload, GetRemarks
<1> QED BY <1>1, <1>2, <1>3 DEF Next, Outside

LEMMA FreshStep ==
  ASSUME Types, Compiling, Fresh, [Next]_vars
  PROVE  Fresh'
<1>1. outbox \in Seq(Answers) BY DEF Types
<1>2. CASE Reload BY <1>2 DEF Reload, Fresh, FreshOf
<1>3. CASE IngestRemarksFile
  <2>1. inbox # <<>> /\ Answer("ingest", None, Blank)
    BY <1>3 DEF IngestRemarksFile, Handles
  <2>2. /\ Len(outbox) \in Nat /\ Len(outbox') = Len(outbox) + 1
        /\ outbox'[Len(outbox) + 1] = [what |-> "ingest", arg |-> None, remarks |-> Blank]
    BY <2>1, AnswersIt, AnswerTypes
  <2>3. Len(outbox) + 1 \in 1..Len(outbox') BY <2>2
  <2>4. \A n \in 1..Len(outbox') : outbox'[n].what = "get" => Len(outbox) + 1 > n
    BY <2>2
  <2> QED BY <2>2, <2>3, <2>4 DEF Fresh, FreshOf
<1>4. CASE Unread /\ ~Reload /\ ~IngestRemarksFile BY <1>4, UnreadStays DEF Fresh
<1>5. CASE ~Unread /\ ~Reload /\ ~IngestRemarksFile
  <2>1. rows' = rows /\ compiled = None /\ FreshOf(outbox, rows)
    BY <1>5, SettledRows DEF Fresh
  <2>2. CASE outbox' = outbox BY <2>1, <2>2 DEF Fresh
  <2>3. ASSUME NEW e \in Answers, outbox' = Append(outbox, e),
               e.what = "get" => Matches(e.remarks, e.arg, rows)
        PROVE  Fresh'
    <3>1. /\ Len(outbox) \in Nat /\ Len(outbox') = Len(outbox) + 1
          /\ outbox'[Len(outbox) + 1] = e
          /\ \A n \in 1..Len(outbox) : outbox'[n] = outbox[n] /\ n \in 1..Len(outbox')
      BY <1>1, <2>3
    <3>2. FreshOf(outbox', rows)
      <4> SUFFICES ASSUME NEW n \in 1..Len(outbox'), outbox'[n].what = "get"
                   PROVE  \/ Matches(outbox'[n].remarks, outbox'[n].arg, rows)
                          \/ \E m \in 1..Len(outbox') : m > n /\ outbox'[m].what = "ingest"
        BY DEF FreshOf
      <4>1. CASE n \in 1..Len(outbox) BY <2>1, <3>1, <4>1 DEF FreshOf
      <4>2. CASE n = Len(outbox) + 1 BY <2>3, <3>1, <4>2
      <4> QED BY <3>1, <4>1, <4>2
    <3> QED BY <2>1, <3>2 DEF Fresh
  <2>4. CASE outbox # <<>> /\ outbox' = Tail(outbox)
    <3>1. /\ Len(outbox) \in Nat \ {0} /\ Len(outbox') = Len(outbox) - 1
          /\ \A n \in 1..(Len(outbox) - 1) : outbox'[n] = outbox[n + 1]
      BY <2>4, Receives
    <3>2. FreshOf(outbox', rows)
      <4> SUFFICES ASSUME NEW n \in 1..Len(outbox'), outbox'[n].what = "get"
                   PROVE  \/ Matches(outbox'[n].remarks, outbox'[n].arg, rows)
                          \/ \E m \in 1..Len(outbox') : m > n /\ outbox'[m].what = "ingest"
        BY DEF FreshOf
      <4>1. n + 1 \in 1..Len(outbox) /\ outbox'[n] = outbox[n + 1] BY <3>1
      <4>2. CASE Matches(outbox[n + 1].remarks, outbox[n + 1].arg, rows) BY <4>1, <4>2
      <4>3. ASSUME NEW m \in 1..Len(outbox), m > n + 1, outbox[m].what = "ingest"
            PROVE  \E k \in 1..Len(outbox') : k > n /\ outbox'[k].what = "ingest"
        <5>1. m - 1 \in 1..Len(outbox') /\ m - 1 > n /\ outbox'[m - 1] = outbox[m]
          BY <3>1, <4>3
        <5> QED BY <4>3, <5>1
      <4> QED BY <2>1, <4>1, <4>2, <4>3 DEF FreshOf
    <3> QED BY <2>1, <3>2 DEF Fresh
  <2>5. CASE GetRemarks
    <3>1. Head(inbox).arg \in Files
      BY <2>5, HeadRequest, RequestTypes DEF GetRemarks, Handles
    <3>2. Stored(Head(inbox).arg) \in Views
          /\ Matches(Stored(Head(inbox).arg), Head(inbox).arg, rows)
      BY <3>1, StoredView
    <3> QED BY <2>3, <2>5, <3>1, <3>2, AnswerTypes DEF GetRemarks, Answer
  <2>6. CASE \E what \in {"recompile", "trace"} : ShadowCompileFails(what)
    BY <2>3, <2>6, AnswerTypes DEF ShadowCompileFails, Answer
  <2>7. CASE Receive BY <2>4, <2>7 DEF Receive
  <2>8. CASE Outside /\ ~Receive
    BY <2>2, <2>8 DEF Outside, Save, SwitchEditor, Build, Delete, Deliver, Command, vars
  <2>9. CASE \E what \in {"recompile", "trace"} : ShadowCompile(what)
    BY <2>2, <2>9 DEF ShadowCompile
  <2> QED BY <1>5, <2>1, <2>5, <2>6, <2>7, <2>8, <2>9 DEF Next, Outside, ShadowIngest
<1> QED BY <1>2, <1>3, <1>4, <1>5

-----------------------------------------------------------------------------
(* The active file                                                         *)

\* A request stays until it is taken up.
LEMMA RequestStays ==
  ASSUME Types, Compiling, [Next]_vars, ~Reload, ~IngestRemarksFile,
         NEW n \in 1..Len(inbox)
  PROVE  \/ ~Outside /\ Head(inbox) = inbox[n] /\ inbox' = Tail(inbox)
         \/ \E m \in 1..Len(inbox') : inbox'[m] = inbox[n]
<1>1. inbox \in Seq(Requests) BY DEF Types
<1>2. CASE inbox' = inbox BY <1>2
<1>3. ASSUME NEW e \in Requests, inbox' = Append(inbox, e)
      PROVE  \E m \in 1..Len(inbox') : inbox'[m] = inbox[n]
  BY <1>1, <1>3
<1>4. CASE Outside BY <1>2, <1>3, <1>4, OutsideSends
<1>5. CASE ~Outside /\ inbox # <<>> /\ inbox' = Tail(inbox)
  <2>1. /\ Len(inbox) \in Nat \ {0} /\ Len(inbox') = Len(inbox) - 1 /\ Head(inbox) = inbox[1]
        /\ \A m \in 1..(Len(inbox) - 1) : inbox'[m] = inbox[m + 1]
    BY <1>1, <1>5
  <2>2. CASE n # 1
    <3>1. n - 1 \in 1..Len(inbox') /\ inbox'[n - 1] = inbox[n] BY <2>1, <2>2
    <3> QED BY <3>1
  <2> QED BY <1>5, <2>1, <2>2
<1> QED BY <1>2, <1>3, <1>4, <1>5, InboxStep

\* A request for the active file, which is sent last.
LEMMA SentIsAsked ==
  ASSUME Types, active' \in Files, inbox' = Append(inbox, [what |-> "get", arg |-> active'])
  PROVE  Asked'
<1>1. PICK f \in Files : f = active' OBVIOUS
<1>2. [what |-> "get", arg |-> f] \in Requests BY RequestTypes
<1>3. inbox' = Append(inbox, [what |-> "get", arg |-> f]) BY <1>1
<1>4. /\ Len(inbox) \in Nat /\ Len(inbox') = Len(inbox) + 1
      /\ inbox'[Len(inbox) + 1] = [what |-> "get", arg |-> f]
  BY <1>2, <1>3, Sends
<1>5. Len(inbox) + 1 \in 1..Len(inbox') /\ IsGet(inbox'[Len(inbox) + 1], active')
  BY <1>1, <1>4 DEF IsGet
<1> QED BY <1>5 DEF Asked

\* A request for the active file is answered by what is stored.
LEMMA AnsweredIsAsked ==
  ASSUME Types, GetRemarks, active' = active, IsGet(Head(inbox), active)
  PROVE  Asked'
<1>1. PICK f \in Files : f = Head(inbox).arg
  BY HeadRequest, RequestTypes DEF GetRemarks, Handles
<1>2. PICK v \in Views : v = Stored(f) BY StoredView
<1>3. [what |-> "get", arg |-> f, remarks |-> v] \in Answers BY AnswerTypes
<1>4. inbox # <<>> /\ Answer("get", f, v) BY <1>1, <1>2 DEF GetRemarks, Handles
<1>5. /\ Len(outbox) \in Nat /\ Len(outbox') = Len(outbox) + 1
      /\ outbox'[Len(outbox) + 1] = [what |-> "get", arg |-> f, remarks |-> v]
  BY <1>3, <1>4, AnswersIt
<1>6. Len(outbox) + 1 \in 1..Len(outbox') /\ IsGet(outbox'[Len(outbox) + 1], active')
  BY <1>1, <1>5 DEF IsGet
<1> QED BY <1>6 DEF Asked

LEMMA ActiveStep ==
  ASSUME Types, Compiling, Fresh, Active, [Next]_vars
  PROVE  Active'
<1>1. shown \in [Files -> Views] /\ active \in Files BY DEF Types, TypeOK
<1>2. active' \in Files BY TypesStep DEF Types, TypeOK
<1> SUFFICES ASSUME Settled' PROVE Shows' \/ Asked' BY DEF Active
<1> USE DEF disk, extension
<1>3. CASE Reload
  <2>1. shown'[active'] = Blank BY <1>2, <1>3 DEF Reload
  <2> QED BY <2>1 DEF Shows
<1>4. CASE ~Settled /\ ~Reload
  <2>1. Receive /\ Head(outbox).what = "ingest" BY <1>4, UnsettledStays
  <2>2. inbox' = Append(inbox, [what |-> "get", arg |-> active']) /\ active' = active
    BY <2>1 DEF Receive, Ingested, Request
  <2> QED BY <1>2, <2>2, SentIsAsked
<1>5. CASE Settled /\ ~Reload
  <2>1. ~IngestRemarksFile
    <3> SUFFICES ASSUME IngestRemarksFile PROVE FALSE OBVIOUS
    <3>1. \E m \in 1..Len(inbox) : inbox[m].what = "ingest"
      <4>1. inbox # <<>> /\ Head(inbox).what = "ingest" BY DEF IngestRemarksFile, Handles
      <4>2. Head(inbox) = inbox[1] /\ Len(inbox) \in Nat \ {0} BY <4>1, HeadRequest
      <4> QED BY <4>1, <4>2
    <3> QED BY <1>5, <3>1 DEF Settled, Unread
  <2>2. ~Unread /\ (Shows \/ Asked) BY <1>5 DEF Active, Settled
  <2>3. compiled = None /\ rows' = rows /\ ~ShadowIngest BY <2>1, <2>2, SettledRows
  <2>4. ASSUME NEW f \in Files, SwitchEditor(f) PROVE Asked'
    <3>1. inbox' = Append(inbox, [what |-> "get", arg |-> active'])
      BY <2>4 DEF SwitchEditor, Request
    <3> QED BY <1>2, <3>1, SentIsAsked
  <2>5. CASE Receive /\ IsGet(Head(outbox), active)
    <3>1. /\ outbox # <<>> /\ GotRemarks(Head(outbox)) /\ active' = active
          /\ Head(outbox).what = "get" /\ Head(outbox).arg = active
      BY <2>5 DEF Receive, IsGet
    <3>2. Head(outbox) = outbox[1] /\ 1 \in 1..Len(outbox) BY <2>5, Receives DEF Receive
    <3>3. Matches(Head(outbox).remarks, active, rows)
      BY <1>5, <2>2, <3>1, <3>2 DEF Fresh, FreshOf, Settled
    <3>4. shown'[active] = Head(outbox).remarks BY <1>1, <3>1 DEF GotRemarks
    <3> QED BY <2>3, <3>1, <3>3, <3>4 DEF Shows
  <2>6. CASE active' = active /\ Shows /\ ~(Receive /\ IsGet(Head(outbox), active))
    <3>1. shown'[active] \in {shown[active], Blank}
      <4>1. CASE Receive /\ Head(outbox).what = "get"
        <5>1. GotRemarks(Head(outbox)) /\ Head(outbox).arg \in Files
              /\ Head(outbox).arg # active
          BY <2>6, <4>1, Receives, AnswerTypes DEF Receive, IsGet
        <5> QED BY <1>1, <5>1 DEF GotRemarks
      <4>2. CASE Receive /\ Head(outbox).what # "get"
        BY <4>2 DEF Receive, Ingested, Recompiled, Ignored
      <4>3. ASSUME NEW e \in events, Deliver(e) PROVE shown'[active] \in {shown[active], Blank}
        BY <1>1, <4>3 DEF Deliver
      <4>4. CASE \/ \E g \in Files : Save(g) \/ SwitchEditor(g)
                 \/ \E y \in Yamls, g \in Files : Build(y, g)
                 \/ \E y \in Yamls : Delete(y)
                 \/ \E what \in {"recompile", "trace"} :
                      Command(what) \/ ShadowCompile(what) \/ ShadowCompileFails(what)
                 \/ IngestRemarksFile \/ GetRemarks \/ UNCHANGED vars
        BY <4>4 DEF Save, SwitchEditor, Build, Delete, Command, ShadowCompile,
                    ShadowCompileFails, IngestRemarksFile, GetRemarks, vars
      <4> QED BY <1>5, <2>3, <4>1, <4>2, <4>3, <4>4 DEF Next
    <3> QED BY <2>3, <2>6, <3>1 DEF Shows
  <2>7. ASSUME active' = active, ~(Receive /\ IsGet(Head(outbox), active)),
               NEW n \in 1..Len(inbox), IsGet(inbox[n], active)
        PROVE  Asked'
    <3>1. CASE ~Outside /\ Head(inbox) = inbox[n] /\ inbox' = Tail(inbox)
      <4>1. Len(inbox') # Len(inbox) /\ Head(inbox).what = "get"
        BY <2>7, <3>1 DEF Types, IsGet
      <4>2. GetRemarks
        BY <1>5, <2>1, <2>3, <3>1, <4>1
        DEF Next, Outside, ShadowCompile, ShadowCompileFails, Handles
      <4> QED BY <2>7, <3>1, <4>2, AnsweredIsAsked
    <3>2. ASSUME NEW m \in 1..Len(inbox'), inbox'[m] = inbox[n] PROVE Asked'
      BY <2>7, <3>2 DEF Asked
    <3> QED BY <1>5, <2>1, <3>1, <3>2, RequestStays
  <2>8. ASSUME active' = active, ~(Receive /\ IsGet(Head(outbox), active)),
               NEW n \in 1..Len(outbox), IsGet(outbox[n], active)
        PROVE  Asked'
    <3>1. ASSUME NEW m \in 1..Len(outbox'), outbox'[m] = outbox[n] PROVE Asked'
      BY <2>8, <3>1 DEF Asked
    <3>2. ~(Receive /\ Head(outbox) = outbox[n]) BY <2>8
    <3> QED BY <1>5, <3>1, <3>2, AnswerStays
  <2>9. active' = active \/ \E f \in Files : SwitchEditor(f)
    BY DEF Next, vars, Save, Build, Delete, Deliver, Command, ShadowCompile,
           ShadowCompileFails, Receive, Reload, IngestRemarksFile, ShadowIngest, GetRemarks
  <2> QED BY <2>2, <2>4, <2>5, <2>6, <2>7, <2>8, <2>9 DEF Asked
<1> QED BY <1>3, <1>4, <1>5

-----------------------------------------------------------------------------
(* The theorems                                                            *)

LEMMA RemarkInit == Init => RemarkInv
<1> SUFFICES ASSUME Init PROVE RemarkInv OBVIOUS
<1>1. Blank \in Views /\ DOMAIN Blank = {} BY BlankView
<1>2. /\ text \in [Files -> Texts] /\ yaml \in [Yamls -> Remarks \cup {None}]
      /\ requests \in 0..MaxRequests
  BY RemarkAssumption DEF Init, Texts
<1>3. rows = [r \in {} |-> 1] /\ IsABag(rows) /\ BagToSet(rows) \subseteq Rows
  BY DEF Init, EmptyBag, SetToBag, IsABag, BagToSet
<1>4. shown \in [Files -> Views] /\ \A f \in Files : shown[f] = Blank BY <1>1 DEF Init
<1>5. Types BY <1>1, <1>2, <1>3, <1>4 DEF Init, Types, TypeOK
<1>6. Compiling BY DEF Init, Compiling
<1>7. Chain
  <2>1. inbox = <<>> /\ outbox = <<>> BY DEF Init
  <2>2. \A f \in Files : InStore(Blank, f, rows) BY <1>1 DEF InStore
  <2> QED BY <1>4, <2>1, <2>2 DEF Chain, ChainOf
<1>8. Fresh BY DEF Init, Fresh, FreshOf
<1>9. Active BY <1>4, <1>5 DEF Active, Shows, Types, TypeOK
<1> QED BY <1>5, <1>6, <1>7, <1>8, <1>9 DEF RemarkInv

LEMMA RemarkStep ==
  ASSUME RemarkInv, [Next]_vars
  PROVE  RemarkInv'
BY TypesStep, CompilingStep, ChainStep, FreshStep, ActiveStep DEF RemarkInv

\* In every state the chain of diagnostics, answers and store holds, answers
\* are fresh unless an ingestion is behind them, and the active file shows
\* what is stored or is asked for, once all has been read (provider.ts:31-55,
\* watcher.ts:35-52, main.cpp:476-546).
THEOREM RemarkInvariant == Spec => []RemarkInv
<1>1. Init => RemarkInv BY RemarkInit
<1>2. RemarkInv /\ [Next]_vars => RemarkInv' BY RemarkStep
<1> QED BY <1>1, <1>2, PTL DEF Spec

\* The diagnostics of a file are rows of that file which the store has, each
\* as often at most (provider.ts:31-55), for any files and yaml files.
THEOREM BelongsToItsFile == Spec => []ShownBelongs
<1>1. RemarkInv => ShownBelongs
  BY DEF RemarkInv, Types, Chain, ChainOf, InStore, ShownBelongs, BagIn, BagToSet
<1> QED BY <1>1, RemarkInvariant, PTL

\* Once everything has been delivered the active editor shows what the store
\* has of its file (watcher.ts:47-52), whatever overlapped before.
THEOREM StoredIsShown == Spec => []ShownIsStored
<1>1. RemarkInv => ShownIsStored
  <2> SUFFICES ASSUME RemarkInv, Quiescent, shown[active] # Blank, ~leftover
               PROVE  /\ DOMAIN shown[active] = DOMAIN Stored(active)
                      /\ \A r \in DOMAIN shown[active] :
                           shown[active][r].copies = Stored(active)[r].copies
    BY DEF ShownIsStored
  <2>1. Types /\ Active /\ active \in Files BY DEF RemarkInv, Types, TypeOK
  <2>2. inbox = <<>> /\ outbox = <<>> /\ events = {} BY DEF Quiescent
  <2>3. Settled BY <2>2 DEF Settled, Unread
  <2>4. Matches(shown[active], active, rows) BY <2>1, <2>2, <2>3 DEF Active, Shows, Asked
  <2>5. Matches(Stored(active), active, rows) BY <2>1, StoredView
  <2> QED BY <2>4, <2>5 DEF Matches
<1> QED BY <1>1, RemarkInvariant, PTL

\* What the diagnostics of a file list they keep, until all are cleared: no
\* older answer replaces a newer one (provider.ts:31-55).
THEOREM NeverRegresses == Spec => ShownNeverRegresses
<1>1. RemarkInv /\ [Next]_vars =>
        [\A f \in Files :
           shown'[f] = Blank \/
           \A r \in DOMAIN shown[f] : /\ r \in DOMAIN shown'[f]
                                      /\ shown'[f][r].copies >= shown[f][r].copies
        ]_shown
  <2> SUFFICES ASSUME RemarkInv, [Next]_vars, NEW f \in Files
               PROVE  shown'[f] = Blank \/
                      \A r \in DOMAIN shown[f] : /\ r \in DOMAIN shown'[f]
                                                 /\ shown'[f][r].copies >= shown[f][r].copies
    OBVIOUS
  <2>1. shown'[f] = Blank \/ Within(shown[f], shown'[f])
    BY ChainStep DEF RemarkInv
  <2>2. shown[f] \in Views /\ shown'[f] \in Views
    BY TypesStep DEF RemarkInv, Types
  <2>3. /\ \A r \in DOMAIN shown[f] : shown[f][r].copies \in Nat
        /\ \A r \in DOMAIN shown'[f] : shown'[f][r].copies \in Nat
    BY <2>2, ViewTypes
  <2> QED BY <2>1, <2>3 DEF Within
<1> QED BY <1>1, RemarkInvariant, PTL DEF Spec, ShownNeverRegresses

=============================================================================
