------------------------------ MODULE RemarkTree ------------------------------
(***************************************************************************)
(* The tree of compiler remarks (remarksPanel.ts): whenever remarks may    *)
(* have come it is loaded again, by one request for the remarked files and *)
(* one for each of them, and the loads overlap.  With it, the handlers of  *)
(* the sidecar that fill and read the store (main.cpp:476-555).            *)
(*                                                                         *)
(* A report does not change here and a shadow compilation is the report it *)
(* leaves (RemarkPipeline has their writing).  The order of the rows is    *)
(* left out: the store, an answer and a node of the tree are bags.  The    *)
(* sidecar answers in order (AnswersInOrder of RpcChannel).                *)
(***************************************************************************)
EXTENDS RemarkParsers, FiniteSets, Functions, Bags

CONSTANTS
  Reports,      \* Reports[path]: what a compiler has written there
  Shadows,      \* the paths shadow compilations write to
  MaxRequests,  \* bound on what users and the watcher cause
  MaxFaults     \* bound on the statements SQLite does not carry out

ASSUME TreeAssumption ==
  /\ MaxRequests \in Nat /\ MaxFaults \in Nat
  /\ \A path \in Shadows : path \in DOMAIN Reports /\ Reports[path].kind = "yaml"
  /\ \A path \in DOMAIN Reports : IsFiniteSet(DOMAIN Reports[path].items)

Paths   == DOMAIN Reports
NoNodes == [k \in {} |-> EmptyBag]

VARIABLES
  rows,       \* the table remarks
  inbox,      \* requests on their way to the sidecar
  outbox,     \* answers on their way to the extension
  loads,      \* loads[n]: a load under way: answers to come, tree so far
  tree,       \* tree[category, file]
  requests,   \* what users and the watcher have caused
  faults,     \* statements that were not carried out
  unseen      \* history: no load since has read what is now in the store

extension == <<loads, tree, requests>>
vars == <<rows, inbox, outbox, extension, faults, unseen>>

Init == /\ rows = EmptyBag /\ inbox = <<>> /\ outbox = <<>>
        /\ loads = [n \in {} |-> None] /\ tree = NoNodes
        /\ requests = 0 /\ faults = 0 /\ unseen = FALSE

-----------------------------------------------------------------------------
(* The extension                                                           *)

Request(what, load, arg) == [what |-> what, load |-> load, arg |-> arg]

Count == requests < MaxRequests /\ requests' = requests + 1

\* The watcher's event for a report, regenerateRemarks, profileCompileTime.
Ask(what, path) ==
  /\ what \in {"ingest", "recompile", "trace"}
  /\ what # "ingest" => path \in Shadows
  /\ Count
  /\ inbox' = Append(inbox, Request(what, 0, path))
  /\ UNCHANGED <<rows, outbox, loads, tree, faults, unseen>>

\* refresh: loads are told apart by what they were asked for.
Refresh ==
  LET n == 1 + Max({0} \cup DOMAIN loads) IN
  /\ loads' = [m \in DOMAIN loads \cup {n} |->
                 IF m = n THEN [waiting |-> 1, next |-> NoNodes] ELSE loads[m]]
  /\ inbox' = Append(inbox, Request("files", n, None))
  /\ unseen' = FALSE
  /\ UNCHANGED tree

Deleted ==
  /\ Count /\ Refresh
  /\ UNCHANGED <<rows, outbox, faults>>

Without(n) == [m \in DOMAIN loads \ {n} |-> loads[m]]

\* The rows are put under their category and file.
Add(next, remarks) ==
  LET Under(r) == <<r.category, r.loc.file>>
      Of(k)    == [r \in {r \in DOMAIN remarks : Under(r) = k} |-> remarks[r]]
      keys     == {Under(r) : r \in DOMAIN remarks}
  IN [k \in DOMAIN next \cup keys |->
        (IF k \in DOMAIN next THEN next[k] ELSE EmptyBag) (+) Of(k)]

\* Load n has one request less to wait for; the last answer shows the tree.
Progress(n, next) ==
  IF loads[n].waiting = 1
    THEN loads' = Without(n) /\ tree' = next
    ELSE /\ loads' = [loads EXCEPT ![n] = [waiting |-> @.waiting - 1, next |-> next]]
         /\ UNCHANGED tree

GotFiles(msg) ==
  /\ IF msg.files = {}
       THEN loads' = Without(msg.load) /\ tree' = NoNodes /\ UNCHANGED inbox
       ELSE /\ loads' = [loads EXCEPT ![msg.load].waiting = Cardinality(msg.files)]
            /\ inbox' = inbox \o SetToSeq({Request("get", msg.load, f) : f \in msg.files})
            /\ UNCHANGED tree
  /\ UNCHANGED unseen

\* Mutant: the tree is shown as far as it is there.
GotRemarks_Early(msg) ==
  LET next == Add(loads[msg.load].next, msg.remarks) IN
  /\ tree' = next
  /\ loads' = IF loads[msg.load].waiting = 1 THEN Without(msg.load)
              ELSE [loads EXCEPT ![msg.load] = [waiting |-> @.waiting - 1, next |-> next]]
  /\ UNCHANGED <<inbox, unseen>>

\* Mutant: a load adds to the tree that is shown.
GotRemarks_InPlace(msg) ==
  Progress(msg.load, Add(tree, msg.remarks)) /\ UNCHANGED <<inbox, unseen>>

GotRemarks(msg) ==
  /\ Progress(msg.load, Add(loads[msg.load].next, msg.remarks))
  /\ UNCHANGED <<inbox, unseen>>

\* Mutant: the failure of one file is not caught, so its load never shows.
GotNoRemarks_Uncaught(msg) == UNCHANGED <<inbox, loads, tree, unseen>>

\* The failure of one file leaves it out.  A remark without a place is under
\* the file "", which getRemarks refuses.
GotNoRemarks(msg) ==
  /\ Progress(msg.load, loads[msg.load].next)
  /\ unseen' = (unseen \/ msg.arg # None)
  /\ UNCHANGED inbox

\* The answer to a recompilation is awaited, then one for the diagnostics.
Show(msg) ==
  /\ inbox' = Append(inbox, Request("show", 0, msg.arg))
  /\ UNCHANGED <<loads, tree, unseen>>

Ignored == UNCHANGED <<inbox, loads, tree, unseen>>

Failed(msg) ==
  CASE msg.what = "get"   -> GotNoRemarks(msg)
    [] msg.what = "files" -> /\ loads' = Without(msg.load) /\ unseen' = TRUE
                             /\ UNCHANGED <<inbox, tree>>
    [] msg.what = "show"  -> Refresh
    [] OTHER              -> Ignored

Receive ==
  /\ outbox # <<>>
  /\ outbox' = Tail(outbox)
  /\ LET msg == Head(outbox) IN
       \/ msg.failed /\ Failed(msg)
       \/ ~msg.failed /\ msg.what \in {"ingest", "show"} /\ Refresh
       \/ ~msg.failed /\ msg.what = "recompile" /\ Show(msg)
       \/ ~msg.failed /\ msg.what = "trace" /\ Ignored
       \/ ~msg.failed /\ msg.what = "files" /\ GotFiles(msg)
       \/ ~msg.failed /\ msg.what = "get"   /\ GotRemarks(msg)
  /\ UNCHANGED <<rows, requests, faults>>

\* A new window: the tree is empty until something causes a refresh.
Reload ==
  /\ Count
  /\ inbox' = <<>> /\ outbox' = <<>> /\ loads' = [n \in {} |-> None] /\ tree' = NoNodes
  /\ unseen' = TRUE
  /\ UNCHANGED <<rows, faults>>

-----------------------------------------------------------------------------
(* The sidecar                                                             *)

Answer(failed, files, remarks) ==
  /\ inbox' = Tail(inbox)
  /\ LET request == Head(inbox) IN
       outbox' = Append(outbox, [what |-> request.what, load |-> request.load,
                                 arg |-> request.arg, failed |-> failed,
                                 files |-> files, remarks |-> remarks])

Reply == Answer(FALSE, {}, EmptyBag)
Error == Answer(TRUE, {}, EmptyBag)

Fault == faults < MaxFaults /\ faults' = faults + 1

BagOf(remarks) ==
  [r \in Range(remarks) |-> Cardinality({i \in DOMAIN remarks : remarks[i] = r})]

\* insertBulk: a row whose step fails is skipped, and what a failing COMMIT or a
\* rollback of SQLite's own takes back is not missed: neither is an error.
InsertBulk(remarks) ==
  \/ rows' = rows (+) BagOf(remarks) /\ UNCHANGED faults
  \/ /\ Fault
     /\ \E kept \in (SUBSET DOMAIN remarks) \ {DOMAIN remarks} :
          rows' = rows (+) BagOf(Restrict(remarks, kept))

\* The statement cannot be prepared, which throws.
InsertFails(remarks) == DOMAIN remarks # {} /\ Fault /\ Error /\ UNCHANGED <<rows, unseen>>

Handles(what) == inbox # <<>> /\ Head(inbox).what = what

\* The parser goes by the name of the file.
Parsed ==
  [path \in Paths |-> [build \in {"manual", "shadow"} |->
     IF Reports[path].kind = "yaml" THEN ParseClangYaml(Reports[path], build)
     ELSE ParseGccOptInfo(Reports[path], build)]]

IngestRemarksFile ==
  /\ Handles("ingest")
  /\ LET path == Head(inbox).arg IN
       IF Reports[path].kind = "text" /\ GccThrows(Reports[path])
         THEN Error /\ UNCHANGED <<rows, faults>>
         ELSE \/ InsertBulk(Parsed[path]["manual"]) /\ Reply
              \/ InsertFails(Parsed[path]["manual"])
  /\ UNCHANGED <<extension, unseen>>

\* Nothing is inserted when there is no compile command or no yaml file.
ShadowFails ==
  /\ Handles("recompile") \/ Handles("trace")
  /\ Error
  /\ UNCHANGED <<rows, extension, faults, unseen>>

RecompileWithRemarks ==
  /\ Handles("recompile")
  /\ LET remarks == Parsed[Head(inbox).arg]["shadow"] IN
       \/ InsertBulk(remarks) /\ Reply
       \/ InsertFails(remarks)
  /\ UNCHANGED <<extension, unseen>>

\* No refresh follows, whether the trace is there or not.
ProfileCompileTime ==
  /\ Handles("trace")
  /\ LET remarks == Parsed[Head(inbox).arg]["shadow"] IN
       \/ InsertBulk(remarks) /\ (Reply \/ Error) /\ unseen' = TRUE
       \/ InsertFails(remarks)
  /\ UNCHANGED extension

\* Mutant: files with missed remarks only.
RemarkedFiles_Missed == {r.loc.file : r \in {r \in BagToSet(rows) : r.type = "Missed"}}

RemarkedFiles == {r.loc.file : r \in BagToSet(rows)}

\* A step that fails ends a query as its last row does: what has been read is the
\* answer, a beginning of the list.  Only prepare is checked.
FilesReadSoFar ==
  {part \in SUBSET RemarkedFiles :
     /\ part # RemarkedFiles
     /\ part # {} /\ None \in RemarkedFiles => None \in part}

GetRemarkedFiles ==
  /\ Handles("files")
  /\ \/ Answer(FALSE, RemarkedFiles, EmptyBag) /\ UNCHANGED <<faults, unseen>>
     \/ Fault /\ Error /\ UNCHANGED unseen
     \/ /\ Fault /\ unseen' = TRUE
        /\ \E part \in FilesReadSoFar : Answer(FALSE, part, EmptyBag)
  /\ UNCHANGED <<rows, extension>>

RowsOf(file) == [r \in {r \in DOMAIN rows : r.loc.file = file} |-> rows[r]]

\* Rows come line by line.
RowsReadSoFar(file) ==
  LET all == RowsOf(file)
      Of(read) == {part \in [read -> UNION {1..all[r] : r \in read}] :
                     \A r \in read : part[r] <= all[r]}
  IN {part \in UNION {Of(read) : read \in SUBSET DOMAIN all} :
        /\ part # all
        /\ \A r \in DOMAIN part, q \in DOMAIN all :
             q.loc.line < r.loc.line => q \in DOMAIN part /\ part[q] = all[q]}

GetRemarks ==
  LET arg == Head(inbox).arg
      get == Head(inbox).what = "get"
  IN
  /\ Handles("get") \/ Handles("show")
  /\ IF get /\ arg = None
       THEN Error /\ UNCHANGED <<faults, unseen>>
       ELSE \/ Answer(FALSE, {}, RowsOf(arg)) /\ UNCHANGED <<faults, unseen>>
            \/ Fault /\ Error /\ UNCHANGED unseen
            \/ /\ Fault /\ unseen' = (unseen \/ get)
               /\ \E part \in RowsReadSoFar(arg) : Answer(FALSE, {}, part)
  /\ UNCHANGED <<rows, extension>>

-----------------------------------------------------------------------------

Sidecar == \/ IngestRemarksFile \/ ShadowFails \/ RecompileWithRemarks
           \/ ProfileCompileTime \/ GetRemarkedFiles \/ GetRemarks

Next == \/ \E what \in {"ingest", "recompile", "trace"}, path \in Paths : Ask(what, path)
        \/ Deleted \/ Reload \/ Receive \/ Sidecar

Spec == Init /\ [][Next]_vars

\* The sidecar reads on until its input is at its end (server.cpp:21-32), and
\* the event loop comes round to every line (client.ts:25).
FairSpec == Spec /\ WF_vars(Sidecar) /\ WF_vars(Receive)

-----------------------------------------------------------------------------

\* Every variable has its type.
TypeOK ==
  /\ IsABag(rows)
  /\ \A n \in DOMAIN inbox : inbox[n].load \in DOMAIN loads \cup {0}
  /\ \A n \in DOMAIN outbox : outbox[n].load \in DOMAIN loads \cup {0}
  /\ \A n \in DOMAIN loads : loads[n].waiting \in 1..(Cardinality(RemarkedFiles) + 1)
  /\ \A k \in DOMAIN tree : IsABag(tree[k]) /\ tree[k] # EmptyBag
  /\ requests \in 0..MaxRequests /\ faults \in 0..MaxFaults /\ unseen \in BOOLEAN

\* The variables have their types, and a node of the tree holds the remarks of
\* its category and file, and none more often than the store does, whatever
\* loads overlap (remarksPanel.ts:88-105).
TreeBelongs ==
  TypeOK /\ \A k \in DOMAIN tree : \A r \in DOMAIN tree[k] :
    /\ k = <<r.category, r.loc.file>>
    /\ BagIn(r, rows) /\ tree[k][r] <= rows[r]

\* What the store holds, grouped as the tree is: remarks without a place are
\* not in it.
Grouped ==
  LET placed == {r \in BagToSet(rows) : r.loc.file # None}
  IN [k \in {<<r.category, r.loc.file>> : r \in placed} |->
        [r \in {r \in placed : <<r.category, r.loc.file>> = k} |-> rows[r]]]

\* With nothing on its way, the tree shows the store: no overlap of loads and
\* ingestions leaves it behind (remarksPanel.ts:80-106, watcher.ts:45,
\* extension.ts:244).  Not so after a compile-time profile, a failed request, a
\* query that a failing step cut short, or a new window, until something else
\* causes a refresh.
TreeIsStored == inbox = <<>> /\ outbox = <<>> /\ ~unseen => tree = Grouped

\* An older load never replaces the tree of a newer one: a remark that is in
\* the tree stays, unless a request failed or the window is new
\* (remarksPanel.ts:105).
TreeNeverRegresses ==
  [][faults = 0 /\ tree' # NoNodes =>
       \A k \in DOMAIN tree : k \in DOMAIN tree' /\ tree[k] \sqsubseteq tree'[k]]_tree

\* Every load ends, and with it the tree shows what the store holds: one file
\* that cannot be had does not hold up the others (remarksPanel.ts:90-103).
TreeCatchesUp == ~unseen ~> (unseen \/ (loads = [n \in {} |-> None] /\ tree = Grouped))
=============================================================================
