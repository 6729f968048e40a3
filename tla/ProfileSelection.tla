--------------------------- MODULE ProfileSelection ---------------------------
(***************************************************************************)
(* Which profile is active.  ProfileManager (profileManager.ts) holds the  *)
(* choice and the list of profiles; importing, deleting, the comparison    *)
(* panel (profileComparePanel.ts) and the diff command (extension.ts)      *)
(* change it around requests to the sidecar, whose ProfileStore            *)
(* (profile/store.cpp) keeps the profiles.                                 *)
(*                                                                         *)
(* A profile is its id; what its rows say is left out.  An await is the    *)
(* message it waits for, which carries what the code does next.  The       *)
(* sidecar answers in order (AnswersInOrder of RpcChannel), and what its   *)
(* database is told to do it does.                                         *)
(***************************************************************************)
EXTENDS Integers, Sequences, FiniteSets, Functions

CONSTANTS
  Profiles,     \* ids, each given to one profile
  MaxOps,       \* bound on what users start
  NoProfile     \* no profile

ASSUME ProfileAssumption == NoProfile \notin Profiles

VARIABLES
  stored,       \* the table profiles
  fresh,        \* ids no profile has been given
  active,       \* _activeProfileId
  known,        \* _profiles
  seen,         \* profiles a panel or a pick has offered; it may be outdated
  panel,        \* the profile panel is open and listens to onProfileChanged
  inbox,        \* requests on their way to the sidecar
  outbox,       \* answers on their way to the extension
  ops,          \* operations users have started
  doomed,       \* history: profiles whose deletion was requested
  revived,      \* history: one of them was made active afterwards
  unlisted      \* history: profiles that failed imports have left in the
                \* store and no request has listed since

sidecar == <<stored, fresh>>
lists   == <<known, seen>>
history == <<doomed, revived, unlisted>>
choiceVars == <<sidecar, active, lists, panel, inbox, outbox, ops, history>>

\* A request, and what the code that awaits it does next.
Msg(what, id, then, arg, prev) ==
  [what |-> what, id |-> id, then |-> then, arg |-> arg, prev |-> prev]

\* getTopFunctions for id; then swaps arg in, or prev back.
Top(id, then, arg, prev) == Msg("top", id, then, arg, prev)

List(then, id) == Msg("list", NoProfile, then, id, NoProfile)

ChoiceInit ==
  /\ stored \in SUBSET Profiles /\ fresh = Profiles \ stored
  /\ active = NoProfile /\ known = stored /\ seen = stored /\ panel = FALSE
  /\ inbox = <<>> /\ outbox = <<>>
  /\ ops = 0
  /\ doomed = {} /\ revived = FALSE /\ unlisted = {}

-----------------------------------------------------------------------------
(* What users start.                                                       *)

Count == ops < MaxOps /\ ops' = ops + 1

\* onProfileChanged fires: the panel lists the profiles again.
Fired == IF panel THEN <<List("nothing", NoProfile)>> ELSE <<>>

\* setActiveProfile, which fires onProfileChanged (see Fired).
SetActive(id) == active' = id /\ revived' = (revived \/ id \in doomed)

\* The profile panel is opened or refreshed, or the comparison panel is
\* opened: refreshProfiles.
Refresh ==
  /\ Count
  /\ panel' \in {panel, TRUE}
  /\ inbox' = Append(inbox, List("nothing", NoProfile))
  /\ UNCHANGED <<sidecar, active, lists, outbox, history>>

\* The profile panel is closed.
Close ==
  /\ panel /\ panel' = FALSE
  /\ UNCHANGED <<sidecar, active, lists, inbox, outbox, ops, history>>

Import ==
  /\ Count
  /\ inbox' = Append(inbox, Msg("import", NoProfile, "import", NoProfile, NoProfile))
  /\ UNCHANGED <<sidecar, active, lists, panel, outbox, history>>

AskDelete(id) ==
  /\ Count /\ panel /\ id \in seen
  /\ inbox' = Append(inbox, Msg("delete", id, "delete", NoProfile, NoProfile))
  /\ doomed' = doomed \cup {id}
  /\ UNCHANGED <<sidecar, active, lists, panel, outbox, revived, unlisted>>

\* The panel's Set Active button; the panel refreshes once for the event and
\* once more.
Select(id) ==
  /\ Count /\ panel /\ id \in seen
  /\ SetActive(id)
  /\ inbox' = inbox \o Fired \o <<List("nothing", NoProfile)>>
  /\ UNCHANGED <<sidecar, lists, panel, outbox, doomed, unlisted>>

\* _runComparison: the functions of the active profile are requested, and
\* before swapped in when they arrive; after is swapped in at once.  Without
\* an active profile nothing is requested first and both swaps happen now.
Compare(before, after) ==
  /\ Count /\ {before, after} \subseteq seen
  /\ IF active # NoProfile
       THEN /\ inbox' = inbox \o <<Top(active, "fetch", before, NoProfile)>>
                        \o Fired \o <<Top(after, "restore", NoProfile, active)>>
            /\ SetActive(after)
       ELSE /\ inbox' = inbox \o Fired \o <<Top(after, "restore", NoProfile, NoProfile)>>
                        \o Fired \o <<Top(before, "restore", NoProfile, after)>>
            /\ active' = before
            /\ revived' = (revived \/ {before, after} \cap doomed # {})
  /\ UNCHANGED <<sidecar, lists, panel, outbox, doomed, unlisted>>

\* perfLens.profileDiffJson: before is swapped in, after when its functions
\* have arrived, then the profile that was active.
Diff(before, after) ==
  /\ Count /\ {before, after} \subseteq seen /\ before # after
  /\ SetActive(before)
  /\ inbox' = inbox \o Fired \o <<Top(before, "second", after, active)>>
  /\ UNCHANGED <<sidecar, lists, panel, outbox, doomed, unlisted>>

-----------------------------------------------------------------------------
(* What an answer makes the extension do.  getTopFunctions and             *)
(* refreshProfiles catch errors, importProfile and deleteProfile do not.   *)

\* importProfile, after the import; one that failed is only reported, without a
\* look at the list.
GotImport(msg) ==
  /\ inbox' = IF msg.id = NoProfile THEN inbox ELSE Append(inbox, List("activate", msg.id))
  /\ UNCHANGED <<active, lists, revived>>

\* Mutant: the list is not fetched again.
GotDelete_NoList(msg) ==
  /\ active' = IF active = msg.id THEN NoProfile ELSE active
  /\ UNCHANGED <<inbox, lists, revived>>

\* Mutant: the active profile is not looked at.
GotDelete_KeepsActive(msg) ==
  /\ inbox'  = Append(inbox, List("deleted", NoProfile))
  /\ UNCHANGED <<active, lists, revived>>

\* deleteProfile, after the deletion.
GotDelete(msg) ==
  /\ active' = IF active = msg.id THEN NoProfile ELSE active
  /\ inbox'  = Append(inbox, List("deleted", NoProfile))
  /\ UNCHANGED <<lists, revived>>

\* refreshProfiles, and what follows it: the end of importProfile, the end of
\* deleteProfile and of the panel's handler, or nothing.
GotList(msg) ==
  /\ known' = msg.prev /\ seen' = seen \cup msg.prev
  /\ IF msg.then = "activate"
       THEN SetActive(msg.arg)
       ELSE UNCHANGED <<active, revived>>
  /\ inbox' = inbox \o CASE msg.then = "activate" -> Fired
                         [] msg.then = "deleted"  -> Fired \o <<List("nothing", NoProfile)>>
                         [] OTHER -> <<>>

\* _fetchFunctions begins for the baseline, with what is active now to restore.
Fetch(msg) ==
  /\ SetActive(msg.arg)
  /\ inbox' = inbox \o Fired \o <<Top(msg.arg, "restore", NoProfile, active)>>
  /\ UNCHANGED lists

\* The diff command goes on to its second profile.
Second(msg) ==
  /\ SetActive(msg.arg)
  /\ inbox' = inbox \o Fired \o <<Top(msg.arg, "restore", NoProfile, msg.prev)>>
  /\ UNCHANGED lists

\* _fetchFunctions and the diff command end.
Restore(msg) ==
  /\ SetActive(msg.prev)
  /\ inbox' = inbox \o Fired
  /\ UNCHANGED lists

Receive ==
  /\ outbox # <<>>
  /\ outbox' = Tail(outbox)
  /\ LET msg == Head(outbox) IN
       \/ msg.what = "import" /\ GotImport(msg)
       \/ msg.what = "delete" /\ GotDelete(msg)
       \/ msg.what = "list"   /\ GotList(msg)
       \/ msg.then = "fetch"   /\ Fetch(msg)
       \/ msg.then = "second"  /\ Second(msg)
       \/ msg.then = "restore" /\ Restore(msg)
  /\ UNCHANGED <<sidecar, panel, ops, doomed, unlisted>>

-----------------------------------------------------------------------------
(* The sidecar.                                                            *)

Handles(what) == inbox # <<>> /\ Head(inbox).what = what

Answer(msg) == inbox' = Tail(inbox) /\ outbox' = Append(outbox, msg)

\* importProfile: every record of metadata makes a profile, and the rows go into
\* the last.  It may throw, before the first or after any of them; the profiles
\* it has made stay.
AnswerImport ==
  /\ Handles("import")
  /\ \E new \in SUBSET fresh :
       /\ stored' = stored \cup new /\ fresh' = fresh \ new
       /\ \/ /\ \E id \in new : Answer([Head(inbox) EXCEPT !.id = id])
             /\ UNCHANGED unlisted
          \/ Answer(Head(inbox)) /\ unlisted' = unlisted \cup new
  /\ UNCHANGED <<active, lists, panel, ops, doomed, revived>>

AnswerDelete ==
  /\ Handles("delete")
  /\ stored' = stored \ {Head(inbox).id}
  /\ Answer(Head(inbox))
  /\ UNCHANGED <<fresh, active, lists, panel, ops, history>>

AnswerList ==
  /\ Handles("list")
  /\ Answer([Head(inbox) EXCEPT !.prev = stored])
  /\ unlisted' = {}
  /\ UNCHANGED <<sidecar, active, lists, panel, ops, doomed, revived>>

AnswerTop ==
  /\ Handles("top")
  /\ Answer(Head(inbox))
  /\ UNCHANGED <<sidecar, active, lists, panel, ops, history>>

-----------------------------------------------------------------------------

ChoiceNext == \/ Refresh \/ Close \/ Import \/ Receive
        \/ \E id \in Profiles : AskDelete(id) \/ Select(id)
        \/ \E p, q \in Profiles : Compare(p, q) \/ Diff(p, q)
        \/ AnswerImport \/ AnswerDelete \/ AnswerList \/ AnswerTop

ChoiceSpec == ChoiceInit /\ [][ChoiceNext]_choiceVars

-----------------------------------------------------------------------------

\* Every variable has its type.
ChoiceTypeOK ==
  /\ stored \subseteq Profiles /\ fresh \subseteq Profiles \ stored
  /\ active \in Profiles \cup {NoProfile} /\ known \subseteq seen
  /\ seen \subseteq Profiles \ fresh /\ panel \in BOOLEAN
  /\ unlisted \subseteq Profiles \ fresh
  /\ \A n \in DOMAIN inbox : inbox[n].what \in {"import", "delete", "list", "top"}
  /\ \A n \in DOMAIN outbox : outbox[n].what = "list" => outbox[n].prev \subseteq Profiles

Quiescent == inbox = <<>> /\ outbox = <<>>

\* The variables have their types, and when everything has arrived the list the
\* panels are built from is the store's, but for what imports that failed have
\* left there since it was fetched: each import that succeeds and each deletion
\* lists again, after it took effect (profileManager.ts:34-53, 62-68), and one
\* that fails does not (35-39; profile/store.cpp:214, 219).
KnownIsStored == ChoiceTypeOK /\ (Quiescent => known = stored \ unlisted)

\* A deleted profile does not stay active, whenever it became active before
\* its deletion was requested and whatever else goes on: deleteProfile looks
\* at what is active when its answer comes (profileManager.ts:45-53).
DeletedIsNotActive == Quiescent /\ ~revived => active \in stored \cup {NoProfile}
===============================================================================
