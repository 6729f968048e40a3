--------------------------- MODULE FixVerification ----------------------------
(***************************************************************************)
(* Verifying and applying a fix: the applyFix command (extension.ts), the  *)
(* verifier that compiles the file before and after the patch and compares *)
(* the assembly (verifier.ts), and the sidecar's compileSnippet with its   *)
(* cache (main.cpp, compiler.cpp, compile_cache.cpp).                      *)
(*                                                                         *)
(* A text of the file is a number, an edit makes a new one.  A source is a *)
(* text, patched for a command or not.  Flags are fixed, so that the hash  *)
(* of a request is its source: it covers the version of the default        *)
(* compiler only, whatever compiler the request names (compiler.cpp:176).  *)
(* Requests are answered in order (AnswersInOrder of RpcChannel).          *)
(***************************************************************************)
EXTENDS Integers, Sequences, FiniteSets, Functions

CONSTANTS
  Commands,     \* invocations of applyFix, each on its own finding
  Compilers,    \* values of perfLens.compiler.path
  Default,      \* its empty value: the compiler the sidecar detected
  MaxEntries,   \* MAX_ENTRIES of the cache
  MaxTexts,     \* bound on the texts the file goes through
  Nothing       \* no result, no command

Texts   == 1..MaxTexts
Sources == [text : Texts, patch : Commands \cup {Nothing}]
Results == [by : Compilers, of : Sources, ok : BOOLEAN]

ASSUME FixAssumption ==
  /\ Default \in Compilers /\ Nothing \notin Commands \cup Results
  /\ MaxEntries \in Nat \ {0} /\ MaxTexts \in Nat \ {0}

VARIABLES
  map, order, reply,   \* the compile cache
  detected,            \* the sidecar found a default compiler when it started
  texts,               \* the number of texts so far
  buffer, disk,        \* the text in the editor, the text in the file
  setting,             \* perfLens.compiler.path
  inbox,               \* requests on their way to the sidecar
  outbox,              \* its answers
  stage,               \* stage[c]: where applyFix for c stands
  base,                \* base[c]: the text the patch was built from
  before, after,       \* the two compile results c has so far
  status,              \* the status bar: "ready" or "starting"
  reconfigured,        \* history: the setting was changed
  diffFailed           \* history: a diffAsm request was rejected

cacheVars == <<map, order, reply>>
sidecar   == <<cacheVars, detected>>
docVars   == <<texts, buffer, disk>>
cmdVars   == <<stage, base, before, after>>
history   == <<reconfigured, diffFailed>>
fixVars == <<sidecar, docVars, setting, inbox, outbox, cmdVars, status, history>>

Cache == INSTANCE CompileCache WITH Keys <- Sources, Values <- Results

\* Mutant: the request does not name the compiler of the setting.
Request_NoCompiler(c, what, text) ==
  [cmd |-> c, what |-> what,
   source |-> [text |-> text, patch |-> IF what = "after" THEN c ELSE Nothing],
   compiler |-> Default]

\* The parameters of a compileSnippet request for text, or of the diffAsm
\* request, which carries the two assemblies instead.
Request(c, what, text) ==
  [cmd |-> c, what |-> what,
   source |-> [text |-> text, patch |-> IF what = "after" THEN c ELSE Nothing],
   compiler |-> setting]

FixInit ==
  /\ Cache!Init /\ detected \in BOOLEAN
  /\ texts = 1 /\ buffer = 1 /\ disk = 1
  /\ setting \in Compilers
  /\ inbox = <<>> /\ outbox = <<>>
  /\ stage  = [c \in Commands |-> "idle"]
  /\ base   = [c \in Commands |-> 1]
  /\ before = [c \in Commands |-> Nothing] /\ after = before
  /\ status = "ready"
  /\ reconfigured = FALSE /\ diffFailed = FALSE

-----------------------------------------------------------------------------
(* The user.                                                               *)

NewText == texts < MaxTexts /\ texts' = texts + 1 /\ buffer' = texts + 1

Edit == /\ NewText
        /\ UNCHANGED <<sidecar, disk, setting, inbox, outbox, cmdVars,
                       status, history>>

Save == /\ disk # buffer /\ disk' = buffer
        /\ UNCHANGED <<sidecar, texts, buffer, setting, inbox, outbox,
                       cmdVars, status, history>>

SetCompiler(path) ==
  /\ path # setting
  /\ setting' = path /\ reconfigured' = TRUE
  /\ UNCHANGED <<sidecar, docVars, inbox, outbox, cmdVars, status, diffFailed>>

-----------------------------------------------------------------------------
(* The command and the verifier.                                           *)

\* applyFix with a patch that is worth verifying: built from the file, not
\* the editor; both compilations are requested at once, with one setting.
StartFix(c) ==
  /\ stage[c] = "idle"
  /\ stage' = [stage EXCEPT ![c] = "compiling"]
  /\ base'  = [base EXCEPT ![c] = disk]
  /\ inbox' = inbox \o <<Request(c, "before", disk), Request(c, "after", disk)>>
  /\ status' = "starting"
  /\ UNCHANGED <<sidecar, docVars, setting, outbox, before, after, history>>

\* applyFix with a patch that only adds a comment, or has no predicate.
ApplyUnverified(c) ==
  /\ stage[c] = "idle"
  /\ NewText
  /\ stage' = [stage EXCEPT ![c] = "done"]
  /\ UNCHANGED <<sidecar, disk, setting, inbox, outbox, base, before, after,
                 status, history>>

\* A reply to one of the two compilations.  Promise.all waits for both; a
\* failed compilation ends the verification, else the diff is requested.
GotResult(c, what, result) ==
  LET b == IF what = "before" THEN result ELSE before[c]
      a == IF what = "after"  THEN result ELSE after[c]
  IN /\ before' = [before EXCEPT ![c] = b]
     /\ after'  = [after  EXCEPT ![c] = a]
     /\ IF b = Nothing \/ a = Nothing
          THEN UNCHANGED <<stage, inbox, status>>
        ELSE IF b.ok /\ a.ok
          THEN /\ stage' = [stage EXCEPT ![c] = "diffing"]
               /\ inbox' = Append(inbox, Request(c, "diff", base[c]))
               /\ UNCHANGED status
        ELSE /\ stage' = [stage EXCEPT ![c] = "done"]
             /\ status' = "ready"
             /\ UNCHANGED inbox

\* A reply to the diff: the predicate holds and the user is asked, or not.
GotDiff(c) ==
  /\ \E verdict \in {"asking", "done"} : stage' = [stage EXCEPT ![c] = verdict]
  /\ status' = "ready"
  /\ UNCHANGED <<inbox, before, after>>

\* Mutant: no request that fails resets the status bar.
GotError_KeepsStatus(c, what) ==
  /\ stage' = [stage EXCEPT ![c] = "done"]
  /\ UNCHANGED <<inbox, before, after, status>>

\* A rejected request.  verifyPatch catches the compilations' and applyFix
\* gives up; nobody catches the diff's, and the status bar stays.
GotError(c, what) ==
  /\ stage' = [stage EXCEPT ![c] = "done"]
  /\ status' = IF what = "diff" THEN status ELSE "ready"
  /\ UNCHANGED <<inbox, before, after>>

Receive ==
  /\ outbox # <<>>
  /\ outbox' = Tail(outbox)
  /\ LET msg == Head(outbox) IN
       /\ IF stage[msg.cmd] \notin {"compiling", "diffing"}
            THEN UNCHANGED <<stage, before, after, inbox, status>>
          ELSE IF msg.result = Nothing THEN GotError(msg.cmd, msg.what)
          ELSE IF msg.what = "diff"    THEN GotDiff(msg.cmd)
          ELSE GotResult(msg.cmd, msg.what, msg.result)
       /\ diffFailed' = (diffFailed \/ (msg.what = "diff" /\ msg.result = Nothing))
  /\ UNCHANGED <<sidecar, docVars, setting, base, reconfigured>>

\* 'Apply Fix': the edit goes to the editor as it is now, whatever it is.
Apply(c) ==
  /\ stage[c] = "asking"
  /\ NewText
  /\ stage' = [stage EXCEPT ![c] = "done"]
  /\ UNCHANGED <<sidecar, disk, setting, inbox, outbox, base, before, after,
                 status, history>>

Dismiss(c) ==
  /\ stage[c] = "asking"
  /\ stage' = [stage EXCEPT ![c] = "done"]
  /\ UNCHANGED <<sidecar, docVars, setting, inbox, outbox, base, before,
                 after, status, history>>

-----------------------------------------------------------------------------
(* The sidecar.                                                            *)

Answer(req, result) ==
  /\ inbox'  = Tail(inbox)
  /\ outbox' = Append(outbox, [cmd |-> req.cmd, what |-> req.what, result |-> result])

\* Mutant: the patched text hashes as the plain one.
Hash_IgnoresPatch(req) == [req.source EXCEPT !.patch = Nothing]

\* _contentHash: no part of it depends on the compiler the request names.
Hash(req) == req.source

\* A result the handler returns is sent, unless it does not serialise: then
\* handle_message answers with an error.
Return(req, result) == \E sent \in {result, Nothing} : Answer(req, sent)

NoCompiler(req) == req.compiler = Default /\ ~detected

\* compile(): a cached result, or a compilation whose result, good or bad,
\* is cached.
Compile ==
  /\ inbox # <<>> /\ Head(inbox).what # "diff" /\ ~NoCompiler(Head(inbox))
  /\ LET req == Head(inbox) IN
       \/ /\ Cache!GetHit(Hash(req))
          /\ Return(req, map[Hash(req)])
       \/ \E ok \in BOOLEAN :
            LET result == [by |-> req.compiler, of |-> req.source, ok |-> ok] IN
              /\ Cache!SetNew(Hash(req), result)
              /\ Return(req, result)
  /\ UNCHANGED <<detected, docVars, setting, cmdVars, status, history>>

\* compile() gives up, before it looks in the cache because there is no
\* compiler, or on a miss because there is no temporary file.  The failure is
\* not cached.
CannotCompile ==
  /\ inbox # <<>> /\ Head(inbox).what # "diff"
  /\ LET req == Head(inbox) IN
       /\ NoCompiler(req) \/ Hash(req) \notin DOMAIN map
       /\ Return(req, [by |-> req.compiler, of |-> req.source, ok |-> FALSE])
  /\ UNCHANGED <<sidecar, docVars, setting, cmdVars, status, history>>

\* diffAsm: a function of the two assembly texts in the request.
DiffAsm ==
  /\ inbox # <<>> /\ Head(inbox).what = "diff"
  /\ LET req == Head(inbox) IN
       Return(req, [by |-> req.compiler, of |-> req.source, ok |-> TRUE])
  /\ UNCHANGED <<sidecar, docVars, setting, cmdVars, status, history>>

-----------------------------------------------------------------------------

FixNext == \/ Edit \/ Save \/ Receive \/ Compile \/ CannotCompile \/ DiffAsm
        \/ \E path \in Compilers : SetCompiler(path)
        \/ \E c \in Commands : \/ StartFix(c) \/ ApplyUnverified(c)
                             \/ Apply(c) \/ Dismiss(c)

FixSpec == FixInit /\ [][FixNext]_fixVars

\* The sidecar answers, and the extension takes in the answers.
FairFixSpec == FixSpec /\ WF_fixVars(Receive) /\ WF_fixVars(Compile \/ CannotCompile \/ DiffAsm)

-----------------------------------------------------------------------------

\* Every variable has its type.
FixTypeOK ==
  /\ Cache!TypeOK /\ detected \in BOOLEAN
  /\ texts \in Texts /\ buffer \in Texts /\ disk \in Texts
  /\ setting \in Compilers
  /\ \A n \in DOMAIN inbox : inbox[n].cmd \in Commands /\ inbox[n].source \in Sources
  /\ \A n \in DOMAIN outbox : outbox[n].result \in Results \cup {Nothing}
  /\ stage \in [Commands -> {"idle", "compiling", "diffing", "asking", "done"}]
  /\ base \in [Commands -> Texts]
  /\ before \in [Commands -> Results \cup {Nothing}]
  /\ after \in [Commands -> Results \cup {Nothing}]
  /\ status \in {"ready", "starting"}

\* The variables have their types, and the two results a fix is judged by are
\* of the file it was built from: the one before of the plain text, the one
\* after of the text with this command's patch, although two commands share the
\* cache, the file and the channel and the file changes meanwhile
\* (verifier.ts:56-86).
JudgedByItsOwnCode ==
  /\ FixTypeOK
  /\ \A c \in Commands :
       /\ before[c] # Nothing => before[c].of = [text |-> base[c], patch |-> Nothing]
       /\ after[c]  # Nothing => after[c].of  = [text |-> base[c], patch |-> c]

\* While the setting is left alone, both results come from the compiler it
\* names, cached or not.
OneCompilerIsConsistent ==
  \A c \in Commands :
    ~reconfigured /\ before[c] # Nothing /\ after[c] # Nothing
      => before[c].by = setting /\ after[c].by = setting

\* The status bar leaves its starting state, unless a diff was rejected:
\* verifier.ts:104 awaits it outside the try (extension.ts:402-405).
StatusRecovers == status = "starting" ~> (status = "ready" \/ diffFailed)
===============================================================================
