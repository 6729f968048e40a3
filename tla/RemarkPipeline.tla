---------------------------- MODULE RemarkPipeline ----------------------------
(***************************************************************************)
(* Compiler remarks on their way from *.opt.yaml files to the editor: the  *)
(* watcher (watcher.ts), the shadow compilation (shadow_compile.cpp), the  *)
(* parser and the store (remarks/), the handlers (main.cpp:476-546) and    *)
(* the diagnostics (provider.ts).                                          *)
(*                                                                         *)
(* A yaml file holds one remark, about one line of one source file; of     *)
(* that line only its version is kept.  The store is a bag, because its    *)
(* table has no unique key.  SQLite statements succeed and a transaction   *)
(* is one step.  The sidecar answers in order (AnswersInOrder of           *)
(* RpcChannel).                                                            *)
(***************************************************************************)
EXTENDS Integers, Sequences, FiniteSets, Functions, Bags,
        SequencesExt

CONSTANTS
  Files,        \* source files
  Yamls,        \* names of *.opt.yaml files
  ShadowYaml,   \* ShadowYaml[f]: where a shadow compilation of f writes
  MaxTexts,     \* bound on the versions of a line
  MaxRequests,  \* bound on the requests that users and the watcher cause
  None

ASSUME RemarkAssumption ==
  /\ IsFiniteSet(Files) /\ None \notin Files
  /\ ShadowYaml \in [Files -> Yamls]
  /\ MaxTexts \in Nat \ {0} /\ MaxRequests \in Nat

Texts   == 1..MaxTexts
Remarks == [file : Files, of : Texts]          \* what a yaml file says
Rows    == [file : Files, of : Texts, hash : Texts, build : {"manual", "shadow"}]
Blank   == [r \in {} |-> None]                 \* no diagnostics

VARIABLES
  text,       \* text[f]: the version of the line on disk
  yaml,       \* yaml[y]: the remark in the file, or None
  events,     \* files created or changed, and deleted, not yet reported
  rows,       \* the table remarks
  inbox,      \* requests on their way to the sidecar
  compiled,   \* the file a handler has just shadow compiled, or None
  outbox,     \* answers on their way to the extension
  active,     \* the file in the active editor
  shown,      \* shown[f]: the diagnostics of f: rows, copies, stale or not
  requests,   \* requests that users and the watcher have caused
  leftover    \* history: a failed shadow compilation found an older yaml

disk      == <<text, yaml, events>>
extension == <<active, shown, requests>>
vars == <<disk, rows, inbox, compiled, outbox, extension, leftover>>

Init ==
  /\ text = [f \in Files |-> 1]
  /\ yaml = [y \in Yamls |-> None]
  /\ events = {} /\ rows = EmptyBag
  /\ inbox = <<>> /\ compiled = None /\ outbox = <<>>
  /\ active \in Files /\ shown = [f \in Files |-> Blank]
  /\ requests = 0 /\ leftover = FALSE

-----------------------------------------------------------------------------
(* The file system, which users and builds change.                         *)

Save(f) ==
  /\ text[f] < MaxTexts
  /\ text' = [text EXCEPT ![f] = @ + 1]
  /\ UNCHANGED <<yaml, events, rows, inbox, compiled, outbox, extension, leftover>>

\* y is written by a compilation of f.
Written(y, f) ==
  /\ yaml'   = [yaml EXCEPT ![y] = [file |-> f, of |-> text[f]]]
  /\ events' = events \cup {<<"changed", y>>}

\* The user's build writes a yaml file of its own.
Build(y, f) ==
  /\ y \notin Range(ShadowYaml)
  /\ Written(y, f)
  /\ UNCHANGED <<text, rows, inbox, compiled, outbox, extension, leftover>>

Delete(y) ==
  /\ yaml[y] # None
  /\ yaml'   = [yaml EXCEPT ![y] = None]
  /\ events' = events \cup {<<"deleted", y>>}
  /\ UNCHANGED <<text, rows, inbox, compiled, outbox, extension, leftover>>

-----------------------------------------------------------------------------
(* The extension.                                                          *)

Request(what, arg) == Append(inbox, [what |-> what, arg |-> arg])

Count == requests < MaxRequests /\ requests' = requests + 1

\* The watcher reports a created or changed file; a deletion clears all
\* diagnostics and tells the sidecar nothing.
Deliver(e) ==
  /\ e \in events
  /\ events' = events \ {e}
  /\ IF e[1] = "deleted"
       THEN /\ shown' = [f \in Files |-> Blank]
            /\ UNCHANGED <<inbox, requests>>
       ELSE /\ Count
            /\ inbox' = Request("ingest", e[2])
            /\ UNCHANGED shown
  /\ UNCHANGED <<text, yaml, rows, compiled, outbox, active, leftover>>

\* perfLens.regenerateRemarks and perfLens.profileCompileTime.
Command(what) ==
  /\ what \in {"recompile", "trace"}
  /\ Count
  /\ inbox' = Request(what, active)
  /\ UNCHANGED <<disk, rows, compiled, outbox, active, shown, leftover>>

SwitchEditor(f) ==
  /\ f # active /\ Count
  /\ active' = f
  /\ inbox' = Request("get", f)
  /\ UNCHANGED <<disk, rows, compiled, outbox, shown, leftover>>

\* Mutant: an ingestion refreshes only the tree.
Ingested_Silently(msg) == UNCHANGED <<inbox, shown>>

\* An ingestion is followed by a refresh of the file that is active now.
Ingested(msg) == inbox' = Request("get", active) /\ UNCHANGED shown

\* A recompilation, by a refresh of the file it was for.
Recompiled(msg) == inbox' = Request("get", msg.arg) /\ UNCHANGED shown

\* Mutant: the diagnostics go to the editor that is active now.
GotRemarks_InActive(msg) ==
  shown' = [shown EXCEPT ![active] = msg.remarks] /\ UNCHANGED inbox

\* A refresh ends.
GotRemarks(msg) == shown' = [shown EXCEPT ![msg.arg] = msg.remarks] /\ UNCHANGED inbox

\* Errors are only reported; a compile-time profile goes to its own panel.
Ignored(msg) == UNCHANGED <<inbox, shown>>

Receive ==
  /\ outbox # <<>>
  /\ outbox' = Tail(outbox)
  /\ LET msg == Head(outbox) IN
       \/ msg.what = "ingest"    /\ Ingested(msg)
       \/ msg.what = "recompile" /\ Recompiled(msg)
       \/ msg.what = "get"       /\ GotRemarks(msg)
       \/ msg.what \in {"trace", "error"} /\ Ignored(msg)
  /\ UNCHANGED <<disk, rows, compiled, active, requests, leftover>>

\* The window is reloaded: a new extension and a new sidecar, the same disk.
\* The watcher reports only what changes from now on; the activation asks for
\* the remarks of each open document.
Reload ==
  /\ \E open \in SUBSET Files :
       /\ active \in open
       /\ inbox' = SetToSeq({[what |-> "get", arg |-> f] : f \in open})
  /\ outbox' = <<>> /\ compiled' = None /\ events' = {}
  /\ shown' = [f \in Files |-> Blank]
  /\ UNCHANGED <<text, yaml, rows, active, requests, leftover>>

-----------------------------------------------------------------------------
(* The sidecar.                                                            *)

\* Mutant: an answer overtakes those still in the pipe.
Answer_Overtakes(what, arg, remarks) ==
  /\ inbox' = Tail(inbox)
  /\ outbox' = <<[what |-> what, arg |-> arg, remarks |-> remarks]>> \o outbox

Answer(what, arg, remarks) ==
  /\ inbox' = Tail(inbox)
  /\ outbox' = Append(outbox, [what |-> what, arg |-> arg, remarks |-> remarks])

\* hashSourceLine: the line as it is on disk now.
HashSourceLine(f) == text[f]

\* parseClangYaml: the remark, with the hash its line has now, which need not
\* be the line it was written about.  No file, no remark.
ParseClangYaml(y, build) ==
  {[file |-> m.file, of |-> m.of, hash |-> HashSourceLine(m.file), build |-> build] :
     m \in {yaml[y]} \ {None}}

\* insertBulk: the rows are added, whatever the table holds.
InsertBulk(remarks) == rows' = rows (+) SetToBag(remarks)

\* The request the sidecar takes up is a what.
Handles(what) == compiled = None /\ inbox # <<>> /\ Head(inbox).what = what

IngestRemarksFile ==
  /\ Handles("ingest")
  /\ InsertBulk(ParseClangYaml(Head(inbox).arg, "manual"))
  /\ Answer("ingest", None, Blank)
  /\ UNCHANGED <<disk, compiled, extension, leftover>>

\* ShadowCompiler::compile: the compiler writes the yaml file, or fails and
\* leaves what is there; its exit code is only logged.
ShadowCompile(what) ==
  /\ what \in {"recompile", "trace"} /\ Handles(what)
  /\ LET f == Head(inbox).arg
         y == ShadowYaml[f] IN
       /\ \/ Written(y, f) /\ UNCHANGED leftover
          \/ /\ yaml[y] # None
             /\ leftover' = TRUE
             /\ UNCHANGED <<yaml, events>>
       /\ compiled' = f
  /\ UNCHANGED <<text, rows, inbox, outbox, extension>>

\* It throws: no compile command for f, or no yaml file after compiling.
ShadowCompileFails(what) ==
  /\ what \in {"recompile", "trace"} /\ Handles(what)
  /\ Answer("error", None, Blank)
  /\ UNCHANGED <<disk, rows, compiled, extension, leftover>>

\* The rest of recompileWithRemarks and profileCompileTime.
ShadowIngest ==
  /\ compiled # None
  /\ InsertBulk(ParseClangYaml(ShadowYaml[compiled], "shadow"))
  /\ compiled' = None
  /\ Answer(Head(inbox).what, compiled, Blank)
  /\ UNCHANGED <<disk, extension, leftover>>

\* getRemarks: each row of f is stale when its line is not what it was.
Stored(f) ==
  [r \in {r \in BagToSet(rows) : r.file = f} |->
     [copies |-> rows[r], stale |-> r.hash # HashSourceLine(f)]]

GetRemarks ==
  /\ Handles("get")
  /\ Answer("get", Head(inbox).arg, Stored(Head(inbox).arg))
  /\ UNCHANGED <<disk, rows, compiled, extension, leftover>>

-----------------------------------------------------------------------------

Next == \/ \E f \in Files : Save(f) \/ SwitchEditor(f)
        \/ \E y \in Yamls, f \in Files : Build(y, f)
        \/ \E y \in Yamls : Delete(y)
        \/ \E e \in events : Deliver(e)
        \/ \E what \in {"recompile", "trace"} :
             \/ Command(what)
             \/ ShadowCompile(what) \/ ShadowCompileFails(what)
        \/ Receive \/ Reload
        \/ IngestRemarksFile \/ ShadowIngest \/ GetRemarks

Spec == Init /\ [][Next]_vars

-----------------------------------------------------------------------------

\* Every variable has its type.
TypeOK ==
  /\ text \in [Files -> Texts]
  /\ yaml \in [Yamls -> Remarks \cup {None}]
  /\ events \subseteq {"changed", "deleted"} \X Yamls
  /\ IsABag(rows) /\ BagToSet(rows) \subseteq Rows
  /\ \A n \in DOMAIN inbox : inbox[n].arg \in Files \cup Yamls
  /\ \A n \in DOMAIN outbox : DOMAIN outbox[n].remarks \subseteq Rows
  /\ compiled \in Files \cup {None} /\ active \in Files
  /\ \A f \in Files : DOMAIN shown[f] \subseteq Rows
  /\ requests \in 0..MaxRequests

\* The variables have their types, and the diagnostics of a file are that
\* file's, and of rows the store has: whatever overlaps, an answer is put where
\* it belongs (provider.ts:31-55).
ShownBelongs ==
  TypeOK /\ \A f \in Files : \A r \in DOMAIN shown[f] :
    r.file = f /\ BagIn(r, rows) /\ shown[f][r].copies <= rows[r]

\* Nothing is under way between the disk, the sidecar and the editor.
Quiescent == events = {} /\ inbox = <<>> /\ outbox = <<>>

\* The active editor shows what the store holds once everything has been
\* delivered, although an ingestion refreshes only the file that is active
\* when its answer comes (watcher.ts:47-52) and switching, recompiling and
\* the watcher's refreshes overlap.  Not so when all diagnostics were
\* cleared, nor when a failed shadow compilation ingested an old yaml file,
\* which no event reports.
ShownIsStored ==
  Quiescent /\ shown[active] # Blank /\ ~leftover =>
    /\ DOMAIN shown[active] = DOMAIN Stored(active)
    /\ \A r \in DOMAIN shown[active] :
         shown[active][r].copies = Stored(active)[r].copies

\* An older answer never replaces a newer one: what the diagnostics of a
\* file list they keep, until all are cleared (provider.ts:31-55).
ShownNeverRegresses ==
  [][\A f \in Files :
       shown'[f] = Blank \/
       \A r \in DOMAIN shown[f] : /\ r \in DOMAIN shown'[f]
                                  /\ shown'[f][r].copies >= shown[f][r].copies
    ]_shown
===============================================================================
