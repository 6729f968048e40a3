--------------------------- MODULE AnalysisPipeline ---------------------------
(***************************************************************************)
(* Findings on their way from the rule engine to the editor: analyseFile   *)
(* and getFindings (main.cpp:561-610), the store (rules/store.cpp), the    *)
(* engine (rules/engine.cpp), and the provider that analyses on save and   *)
(* on open, filters by confidence and annotates with the hotness of the    *)
(* active profile (findingsProvider.ts).                                   *)
(*                                                                         *)
(* A finding is its kind (its place among the rows of an answer, its       *)
(* confidence, and whether its rule keeps what it finds when it is         *)
(* registered again) and the analysis it is from; its message is left out, *)
(* and with it the files' and the lines' suppressions.  SQLite statements  *)
(* succeed but for insertBulk's BEGIN and COMMIT; a transaction is a step. *)
(* The sidecar answers in order (AnswersInOrder of RpcChannel).            *)
(***************************************************************************)
EXTENDS Integers, Sequences, FiniteSets, Functions, SequencesExt

CONSTANTS
  Files,         \* source files, by the path the editor knows them by
  Names,         \* paths findings carry
  Spelling,      \* Spelling[f]: f's path as its compile command spells it
  Kinds,         \* findings a file may have; level is High = 0, Medium = 1, Low = 2
  MinConfidence, \* perfLens.minConfidence, as one of these levels
  MaxFindings,   \* perfLens.ui.maxFindingsPerFile
  Profiles,
  MaxTriggers,   \* bound on saves, openings, commands and profile changes
  None

ASSUME AnalysisAssumption ==
  /\ Files \subseteq Names /\ IsFiniteSet(Files) /\ Spelling \in [Files -> Names]
  /\ \A f \in Files : Spelling[f] \in Files => Spelling[f] = f  \* a path names one file
  /\ Kinds \subseteq [place : Nat, level : 0..2, kept : BOOLEAN]
  /\ MinConfidence \in 0..2 /\ MaxFindings \in Nat \ {0}
  /\ None \notin Profiles /\ None \notin Files
  /\ MaxTriggers \in Nat

Findings == [of : Nat, kind : Kinds]      \* of: the analysis that found it
Blank    == [list |-> {}, hot |-> None]   \* no diagnostics

VARIABLES
  engine,    \* the sidecar found compile commands, and so has a rule engine
  kept,      \* kept[n]: findings for the path n that are left in the rules
  rows,      \* the table findings: rows[n] are those of the path n
  clearing,  \* analyseFile has cleared the rows of this file, or None
  inbox,     \* requests on their way to the sidecar
  outbox,    \* answers on their way to the extension
  active,    \* the file in the active editor
  profile,   \* _activeProfileId
  announced, \* onProfileChanged has fired for the profile
  cache,     \* _findingsCache, which hovers show
  shown,     \* the diagnostics: findings and the profile they are hot in
  triggers,  \* saves, openings, commands and profile changes so far
  analyses,  \* analyses begun so far
  switched,  \* history: another editor became active
  dropped,   \* history: the active profile was deactivated
  threw,     \* history: the analyses in which the engine threw
  missed     \* history: files whose rows changed in an analysis that failed or
             \* was of another file, and that was not followed by one of theirs

analysing == <<kept, rows, clearing, analyses, threw, missed>>
sidecar   == <<engine, analysing>>
views     == <<cache, shown>>
profiling == <<profile, announced>>
history   == <<switched, dropped>>
vars == <<sidecar, inbox, outbox, active, profiling, views, triggers, history>>

Init ==
  /\ engine \in BOOLEAN /\ kept = [n \in Names |-> {}]
  /\ rows = [n \in Names |-> {}] /\ clearing = None
  /\ inbox = <<>> /\ outbox = <<>>
  /\ active \in Files
  /\ profile = None /\ announced = TRUE
  /\ cache = [f \in Files |-> {}] /\ shown = [f \in Files |-> Blank]
  /\ triggers = 0 /\ switched = FALSE /\ dropped = FALSE
  /\ analyses = 0 /\ threw = {} /\ missed = {}

-----------------------------------------------------------------------------
(* The extension: what causes an analysis or a refresh.                    *)

Count == triggers < MaxTriggers /\ triggers' = triggers + 1

\* analyseAndRefresh and refreshFile as far as their first await.  list is
\* what a refresh carries over its second await.
Message(what, f, list, p) == [what |-> what, file |-> f, list |-> list, profile |-> p]
Send(what, f) == inbox' = Append(inbox, Message(what, f, {}, None))

\* analyseOnSave, analyseOnOpen, and the command perfLens.analyseFile.
Analyse(f) ==
  /\ Count
  /\ Send("analyse", f)
  /\ UNCHANGED <<sidecar, outbox, active, profiling, views, history>>

\* The provider does not listen to it.
SwitchEditor(f) ==
  /\ f # active
  /\ active' = f /\ switched' = TRUE
  /\ UNCHANGED <<sidecar, inbox, outbox, profiling, views, triggers, dropped>>

\* setActiveProfile: set and announced at once.
SetProfile(p) ==
  /\ Count /\ p # profile
  /\ profile' = p /\ announced' = TRUE
  /\ Send("get", active)
  /\ UNCHANGED <<sidecar, outbox, active, views, history>>

\* deleteProfile for the active profile, or setActiveProfile(undefined): the
\* former awaits listProfiles before it announces the change.
DropProfile ==
  /\ Count /\ profile # None
  /\ profile' = None /\ announced' = FALSE /\ dropped' = TRUE
  /\ UNCHANGED <<sidecar, inbox, outbox, active, views, switched>>

\* Mutant: nobody listens to onProfileChanged.
Announce_Unheard ==
  /\ ~announced /\ announced' = TRUE
  /\ UNCHANGED <<sidecar, inbox, outbox, active, profile, views, triggers,
                 history>>

Announce ==
  /\ ~announced /\ announced' = TRUE
  /\ Send("get", active)
  /\ UNCHANGED <<sidecar, outbox, active, profile, views, triggers, history>>

\* The window is reloaded: new extension, sidecar and engine; no profile is
\* active; the activation refreshes each open document.
Reload ==
  /\ \E open \in SUBSET Files :
       /\ active \in open
       /\ inbox' = SetToSeq({Message("get", f, {}, None) : f \in open})
  /\ engine' \in BOOLEAN /\ kept' = [n \in Names |-> {}]
  /\ outbox' = <<>> /\ clearing' = None /\ missed' = {}
  /\ profile' = None /\ announced' = TRUE
  /\ cache' = [f \in Files |-> {}] /\ shown' = [f \in Files |-> Blank]
  /\ UNCHANGED <<rows, active, triggers, analyses, threw, history>>

-----------------------------------------------------------------------------
(* The extension: what an answer does.                                     *)

\* The minConfidence filter, as findingsProvider.ts:211 compares: confidence
\* falls as the number rises (finding.hpp:7), so that it keeps the low ones.
Filtered(list) == {r \in list : r.kind.level >= MinConfidence}

\* The diagnostics are the first MaxFindings of a list, in the order of its
\* rows: by line and column, and as they were inserted.
Before(r, s) == \/ r.kind.place < s.kind.place
                \/ r.kind.place = s.kind.place /\ r.of < s.of
First(list) == {r \in list : Cardinality({s \in list : Before(s, r)}) < MaxFindings}

\* analyseAndRefresh after its await, and when it is rejected.
Analysed(msg) == Send("get", msg.file) /\ UNCHANGED views
NotAnalysed   == UNCHANGED <<views, inbox>>

\* refreshFile after getFindings: the hover cache is set, and of its list the
\* first become the diagnostics, at once or when the active profile's hotness
\* has come.
GotFindings(msg) ==
  LET list == Filtered(msg.list) IN
    /\ cache' = [cache EXCEPT ![msg.file] = list]
    /\ IF profile # None
         THEN /\ inbox' = Append(inbox, Message("hotness", msg.file, list, profile))
              /\ UNCHANGED shown
         ELSE /\ shown' = [shown EXCEPT ![msg.file] = [list |-> First(list), hot |-> None]]
              /\ UNCHANGED inbox

\* Mutant: refreshFile returns when the profile knows nothing of the file.
GotHotness_GivesUp(msg) == UNCHANGED <<views, inbox>>

\* refreshFile after getFileHotness.
GotHotness(msg) ==
  /\ shown' = [shown EXCEPT ![msg.file] =
                  [list |-> First(msg.list), hot |-> msg.profile]]
  /\ UNCHANGED <<cache, inbox>>

Receive ==
  /\ outbox # <<>>
  /\ outbox' = Tail(outbox)
  /\ LET msg == Head(outbox) IN
       \/ msg.what = "analyse" /\ Analysed(msg)
       \/ msg.what = "failed"  /\ NotAnalysed
       \/ msg.what = "get"     /\ GotFindings(msg)
       \/ msg.what = "hotness" /\ GotHotness(msg)
  /\ UNCHANGED <<sidecar, active, profiling, triggers, history>>

-----------------------------------------------------------------------------
(* The sidecar.                                                            *)

Handles(what) == clearing = None /\ inbox # <<>> /\ Head(inbox).what = what

Answer(msg) == inbox' = Tail(inbox) /\ outbox' = Append(outbox, msg)

\* analyseFile without an engine changes nothing and says so to nobody.
AnalyseFileDisabled ==
  /\ Handles("analyse") /\ ~engine
  /\ Answer(Head(inbox))
  /\ UNCHANGED <<sidecar, active, profiling, views, triggers, history>>

\* Mutant: nothing is cleared.
ClearFile_Not ==
  /\ Handles("analyse") /\ engine
  /\ clearing' = Head(inbox).file /\ analyses' = analyses + 1
  /\ UNCHANGED <<engine, kept, rows, threw, missed, inbox, outbox, active,
                 profiling, views, triggers, history>>

\* analyseFile, first half: clearFile, by the path the editor knows.
ClearFile ==
  /\ Handles("analyse") /\ engine
  /\ clearing' = Head(inbox).file /\ analyses' = analyses + 1
  /\ rows' = [rows EXCEPT ![Head(inbox).file] = {}]
  /\ UNCHANGED <<engine, kept, threw, missed, inbox, outbox, active, profiling,
                 views, triggers, history>>

\* RuleEngine::analyseFile finds anything in the file as it is now.  Findings
\* are stored by the path that the compile command spells.
Found(kinds) == [n \in Names |-> IF n = Spelling[clearing]
                                   THEN [of : {analyses}, kind : kinds] ELSE {}]
With(a, b)   == [n \in Names |-> a[n] \cup b[n]]
Nothing      == [n \in Names |-> {}]

\* The request ends; no request of the extension names a profile.
EndAnalysis(what) ==
  /\ clearing # None /\ clearing' = None
  /\ Answer([Head(inbox) EXCEPT !.what = what])
  /\ UNCHANGED <<engine, analyses, active, profiling, views, triggers, history>>

\* A file that does not parse, or has no command: the engine returns nothing,
\* and takes nothing from the rules.
ParseFails ==
  /\ EndAnalysis("analyse")
  /\ missed' = missed \ {clearing}
  /\ UNCHANGED <<kept, rows, threw>>

\* analyseFile, second half: what the rules have found now and what they kept
\* is taken from them and stored.
InsertBulk ==
  /\ EndAnalysis("analyse")
  /\ \E kinds \in SUBSET Kinds : rows' = With(rows, With(kept, Found(kinds)))
  /\ kept' = Nothing
  /\ missed' = {f \in Files \ {clearing} : f \in missed \/ rows'[f] # rows[f]}
  /\ UNCHANGED threw

\* The engine throws amid the file: the rules that clear themselves when they
\* are registered lose what they found, the others keep it.
EngineThrows ==
  /\ EndAnalysis("failed")
  /\ \E kinds \in SUBSET {k \in Kinds : k.kept} : kept' = With(kept, Found(kinds))
  /\ threw' = threw \cup {analyses} /\ missed' = missed \cup {clearing}
  /\ UNCHANGED rows

\* BEGIN or COMMIT of insertBulk throws: all that was taken is lost.
InsertBulkThrows ==
  /\ EndAnalysis("failed")
  /\ kept' = Nothing /\ missed' = missed \cup {clearing}
  /\ UNCHANGED <<rows, threw>>

GetFindings ==
  /\ Handles("get")
  /\ Answer([Head(inbox) EXCEPT !.list = rows[Head(inbox).file]])
  /\ UNCHANGED <<sidecar, active, profiling, views, triggers, history>>

\* getFileHotness reads another store; an error is an empty answer.
GetFileHotness ==
  /\ Handles("hotness")
  /\ Answer(Head(inbox))
  /\ UNCHANGED <<sidecar, active, profiling, views, triggers, history>>

-----------------------------------------------------------------------------

Next == \/ \E f \in Files : Analyse(f) \/ SwitchEditor(f)
        \/ \E p \in Profiles : SetProfile(p)
        \/ DropProfile \/ Announce \/ Reload \/ Receive
        \/ AnalyseFileDisabled \/ ClearFile \/ ParseFails \/ InsertBulk
        \/ EngineThrows \/ InsertBulkThrows \/ GetFindings \/ GetFileHotness

Spec == Init /\ [][Next]_vars

-----------------------------------------------------------------------------

\* Every variable has its type.
TypeOK ==
  /\ engine \in BOOLEAN /\ analyses \in Nat
  /\ rows \in [Names -> SUBSET Findings] /\ kept \in [Names -> SUBSET Findings]
  /\ clearing \in Files \cup {None} /\ active \in Files
  /\ \A n \in DOMAIN inbox :
       /\ inbox[n].what \in {"analyse", "failed", "get", "hotness"}
       /\ inbox[n].file \in Files
  /\ \A n \in DOMAIN outbox : outbox[n].list \subseteq Findings
  /\ profile \in Profiles \cup {None} /\ announced \in BOOLEAN
  /\ cache \in [Files -> SUBSET Findings]
  /\ shown \in [Files -> [list : SUBSET Findings, hot : Profiles \cup {None}]]

\* The variables have their types, and what is stored for a file comes from one
\* analysis, but for what the rules that do not clear themselves found in an
\* earlier one in which the engine threw (engine.cpp:68-83): through overlapping
\* requests, analyses that fail, and a sidecar that dies between clearing and
\* inserting; provided the compile command spells the path as the editor does
\* (main.cpp:577-580).
OneAnalysisPerFile ==
  TypeOK /\ \A f \in Files : Spelling[f] = f =>
    \A r, s \in rows[f] : r.of < s.of => r.kind.kept /\ r.of \in threw

\* Nothing is under way between the editor and the sidecar.
Quiescent == inbox = <<>> /\ outbox = <<>> /\ announced

\* The file that has been active all along shows the first of what is stored for
\* it, in the active profile, when everything has arrived: also when the profile
\* was dropped between the two awaits of a refresh, because the announcement
\* refreshes once more and its answer comes last (findingsProvider.ts:166-174,
\* 187-250).  Its last analysis has to have succeeded, and none of another file
\* to have stored findings of it that the rules had kept: neither is followed
\* by a refresh (180-183).
ActiveIsCurrent ==
  Quiescent /\ ~switched /\ active \notin missed =>
    shown[active] = [list |-> First(Filtered(rows[active])), hot |-> profile]

\* The diagnostics of a file are the first of what its hovers show, although
\* the two are set on different sides of an await and refreshes of one file
\* overlap; also after analyses that failed.  Dropping the
\* profile breaks it for a file that is not active: the refresh that awaits
\* hotness then ends after one that does not (findingsProvider.ts:214-248).
HoverMatchesDiagnostics ==
  Quiescent /\ ~dropped => \A f \in Files : shown[f].list = First(cache[f])
===============================================================================
