------------------------ MODULE AnalysisPipelineProofs ------------------------
(***************************************************************************)
(* What the store holds of a file comes from one analysis, but for what    *)
(* the rules kept of one that threw; the editor shows the first of it, and *)
(* of what its hovers show: for any files, compile commands, findings and  *)
(* profiles, and however requests overlap and fail.                        *)
(*                                                                         *)
(* All messages between the editor and the sidecar stand in one line, the  *)
(* answers before the requests.  A step puts one at its end, takes one     *)
(* from its front or answers the first request in its place, so that what  *)
(* is under way for a file is settled by the last message for it.          *)
(***************************************************************************)
EXTENDS AnalysisPipeline, FiniteSetTheorems, TLAPS

-----------------------------------------------------------------------------
(* The inductive invariants                                                *)

Messages == [what : {"analyse", "failed", "get", "hotness"}, file : Files,
             list : SUBSET Findings, profile : Profiles \cup {None}]

\* The line.
Line == outbox \o inbox
Is(m, what, f) == m.what = what /\ m.file = f

\* While a file is cleared, the request to analyse it is at hand.
Types == /\ TypeOK /\ inbox \in Seq(Messages) /\ outbox \in Seq(Messages)
         /\ clearing # None => inbox # <<>> /\ Is(Head(inbox), "analyse", clearing)

\* A finding that a rule keeps when the engine throws.
Left(r) == r.kind.kept /\ r.of \in threw

\* The rules keep nothing else, and nothing newer than the last analysis.  Rows
\* under a path that the editor knows are of one analysis but for those; there
\* are none while they are cleared, nor while findings for the path are kept.
OneVersion ==
  /\ \A n \in Names : \A r \in kept[n] : Left(r) /\ r.of <= analyses
  /\ \A f \in Files : Spelling[f] = f =>
       /\ \A r, s \in rows[f] : r.of < s.of => Left(r)
       /\ clearing = f => rows[f] = {}
       /\ kept[f] = {} \/ rows[f] = {}

\* The last message of a set in the line.
LastOf(n, M) == /\ n \in 1..Len(Line) /\ Line[n] \in M
              /\ \A m \in 1..Len(Line) : m > n => Line[m] \notin M
Waits(M) == \E n \in 1..Len(Line) : Line[n] \in M

\* The last hotness that is awaited for f has what hovers show; if there is
\* none the diagnostics have the first of it.
Hotness(f) == {m \in Messages : Is(m, "hotness", f)}

HoverAt(f) == /\ \A n \in 1..Len(Line) : LastOf(n, Hotness(f)) => Line[n].list = cache[f]
              /\ Waits(Hotness(f)) \/ shown[f].list = First(cache[f])

Hovers == ~dropped => /\ profile = None => \A f \in Files : ~Waits(Hotness(f))
                      /\ \A f \in Files : HoverAt(f)

\* An analysis, or the news that it failed.
Analyses(f) == {m \in Messages : m.what \in {"analyse", "failed"} /\ m.file = f}

\* An answer has what is stored, and an analysis has succeeded, unless the file
\* has missed some findings or an analysis of it is behind the answer.
Good(m) == /\ m.what = "get" => m.list = rows[m.file]
           /\ m.what # "failed"
Behind(n, f) == \E m \in 1..Len(Line) : m > n /\ Line[m] \in Analyses(f)
Sound(n) == \/ Good(outbox[n]) \/ outbox[n].file \in missed
            \/ Behind(n, outbox[n].file)
Fresh == \A n \in 1..Len(outbox) : Sound(n)

\* No analysis of the active file is under way, nor the news of its profile.
Settled == /\ ~switched /\ announced /\ active \notin missed
           /\ ~Waits(Analyses(active))

\* Then the last message for it is a request for its findings, or has what is
\* stored; if there is none the diagnostics have the first of it.
About(f) == {m \in Messages : m.file = f}
Shows(list, p) == [list |-> First(list), hot |-> p]
Stored == Filtered(rows[active])

Active ==
  Settled =>
    /\ \A n \in 1..Len(Line) : LastOf(n, About(active)) /\ Line[n].what = "hotness" =>
         Line[n].list = Stored /\ Line[n].profile = profile
    /\ Waits(About(active)) \/ shown[active] = Shows(Stored, profile)

AnalysisInv == Types /\ OneVersion /\ Hovers /\ Fresh /\ Active

-----------------------------------------------------------------------------
(* The line                                                                *)

\* What TypeOK says of the two pipes.
LEMMA PipeTypes ==
  ASSUME NEW in \in Seq(Messages), NEW out \in Seq(Messages)
  PROVE  /\ \A n \in DOMAIN in :
              /\ in[n].what \in {"analyse", "failed", "get", "hotness"}
              /\ in[n].file \in Files
         /\ \A n \in DOMAIN out : out[n].list \subseteq Findings
<1>1. \A n \in DOMAIN in : in[n] \in Messages OBVIOUS
<1>2. \A n \in DOMAIN out : out[n] \in Messages OBVIOUS
<1> QED BY <1>1, <1>2 DEF Messages

\* The line is the answers and then the requests.
LEMMA LineIs ==
  ASSUME Types
  PROVE  /\ Len(outbox) \in Nat /\ Len(inbox) \in Nat /\ Line \in Seq(Messages)
         /\ Len(Line) = Len(outbox) + Len(inbox)
         /\ \A n \in 1..Len(outbox) : Line[n] = outbox[n] /\ n \in 1..Len(Line)
         /\ \A n \in 1..Len(inbox) :
              Line[Len(outbox) + n] = inbox[n] /\ Len(outbox) + n \in 1..Len(Line)
         /\ \A n \in 1..Len(Line) : Line[n] \in Messages
BY DEF Types, Line

\* A message is sent.
LEMMA SendLine ==
  ASSUME Types, NEW e \in Messages, inbox' = Append(inbox, e), outbox' = outbox
  PROVE  /\ inbox' \in Seq(Messages) /\ inbox' # <<>> /\ Len(Line) \in Nat
         /\ inbox # <<>> => Head(inbox') = Head(inbox)
         /\ Len(Line') = Len(Line) + 1 /\ Line'[Len(Line) + 1] = e
         /\ \A n \in 1..Len(Line) : Line'[n] = Line[n]
BY DEF Types, Line

\* An answer is received.
LEMMA ReceiveLine ==
  ASSUME Types, outbox # <<>>, outbox' = Tail(outbox), inbox' = inbox
  PROVE  /\ Head(outbox) \in Messages /\ Head(outbox) = Line[1] /\ Len(Line) \in Nat \ {0}
         /\ outbox' \in Seq(Messages) /\ Len(outbox') = Len(outbox) - 1
         /\ Len(Line') = Len(Line) - 1
         /\ \A n \in 1..(Len(Line) - 1) : Line'[n] = Line[n + 1]
BY DEF Types, Line

\* An answer is received and a message sent.
LEMMA ReceiveSendLine ==
  ASSUME Types, outbox # <<>>, outbox' = Tail(outbox),
         NEW e \in Messages, inbox' = Append(inbox, e)
  PROVE  /\ Head(outbox) \in Messages /\ Head(outbox) = Line[1] /\ Len(Line) \in Nat \ {0}
         /\ inbox' \in Seq(Messages) /\ inbox' # <<>>
         /\ inbox # <<>> => Head(inbox') = Head(inbox)
         /\ outbox' \in Seq(Messages) /\ Len(outbox') = Len(outbox) - 1
         /\ Len(Line') = Len(Line) /\ Line'[Len(Line)] = e
         /\ \A n \in 1..(Len(Line) - 1) : Line'[n] = Line[n + 1]
BY DEF Types, Line

\* The first request is answered by e, in its place.
LEMMA AnswerLine ==
  ASSUME Types, inbox # <<>>, NEW e \in Messages, Answer(e)
  PROVE  /\ Head(inbox) \in Messages /\ Head(inbox) = Line[Len(outbox) + 1]
         /\ Len(outbox) \in Nat /\ Len(outbox) + 1 \in 1..Len(Line)
         /\ inbox' \in Seq(Messages) /\ outbox' \in Seq(Messages)
         /\ Len(outbox') = Len(outbox) + 1 /\ Len(Line') = Len(Line)
         /\ Line'[Len(outbox) + 1] = e
         /\ \A n \in 1..Len(Line) : n # Len(outbox) + 1 => Line'[n] = Line[n]
BY DEF Types, Line, Answer

\* The messages that are sent.
LEMMA MessageTypes ==
  ASSUME NEW what \in {"analyse", "get", "hotness"}, NEW f \in Files,
         NEW list \in SUBSET Findings, NEW p \in Profiles \cup {None}
  PROVE  /\ Message(what, f, list, p) \in Messages
         /\ Message(what, f, list, p).what = what /\ Message(what, f, list, p).file = f
         /\ Message(what, f, list, p).list = list /\ Message(what, f, list, p).profile = p
BY DEF Message, Messages

\* A set of messages, in whatever order.
LEMMA SetToSeqTypes ==
  ASSUME NEW S, IsFiniteSet(S)
  PROVE  /\ SetToSeq(S) \in Seq(S)
         /\ \A m \in S : \E n \in 1..Len(SetToSeq(S)) : SetToSeq(S)[n] = m
<1>1. PICK n \in Nat : ExistsBijection(1..n, S) BY FS_NatBijection
<1>2. Cardinality(S) = n BY <1>1, FS_CountingElements
<1>3. \E f \in [1..Cardinality(S) -> S] : IsInjective(f)
  BY <1>1, <1>2 DEF ExistsBijection, Bijection, Injection, IsInjective
<1>4. SetToSeq(S) \in [1..Cardinality(S) -> S] /\ IsInjective(SetToSeq(S))
  BY <1>3 DEF SetToSeq
<1>5. SetToSeq(S) \in Injection(1..n, S) BY <1>2, <1>4 DEF Injection, IsInjective
<1>6. IsFiniteSet(1..n) /\ Cardinality(1..n) = n BY FS_Interval
<1>7. SetToSeq(S) \in Surjection(1..n, S) BY <1>2, <1>5, <1>6, FS_Injection
<1>8. Len(SetToSeq(S)) = n BY <1>2, <1>4
<1> QED BY <1>2, <1>4, <1>7, <1>8 DEF Surjection

\* The requests after a reload: one is for the active file.
LEMMA ReloadRequests ==
  ASSUME Reload
  PROVE  /\ inbox' \in Seq(Messages)
         /\ \A n \in 1..Len(inbox') : inbox'[n].what = "get"
         /\ \E n \in 1..Len(inbox') : inbox'[n].file = active
<1>1. PICK open \in SUBSET Files :
        /\ active \in open
        /\ inbox' = SetToSeq({Message("get", f, {}, None) : f \in open})
  BY DEF Reload
<1> DEFINE S == {Message("get", f, {}, None) : f \in open}
<1>2. IsFiniteSet(S)
  <2>1. IsFiniteSet(open) BY AnalysisAssumption, FS_Subset
  <2>2. PICK g : g = [f \in open |-> Message("get", f, {}, None)] OBVIOUS
  <2>3. g \in Surjection(open, S) BY <2>2 DEF Surjection
  <2> QED BY <2>1, <2>3, FS_Surjection
<1>3. \A m \in S : m \in Messages /\ m.what = "get" BY MessageTypes
<1>4. Message("get", active, {}, None) \in S
      /\ Message("get", active, {}, None).file = active
  BY <1>1, MessageTypes
<1>5. inbox' \in Seq(S) /\ \A m \in S : \E n \in 1..Len(inbox') : inbox'[n] = m
  BY <1>1, <1>2, SetToSeqTypes
<1> HIDE DEF S
<1> QED BY <1>3, <1>4, <1>5

-----------------------------------------------------------------------------
(* Types                                                                   *)

\* What TypeOK says of the parts that are not messages.
Rest == /\ engine \in BOOLEAN /\ analyses \in Nat
        /\ rows \in [Names -> SUBSET Findings] /\ kept \in [Names -> SUBSET Findings]
        /\ clearing \in Files \cup {None} /\ active \in Files
        /\ profile \in Profiles \cup {None} /\ announced \in BOOLEAN
        /\ cache \in [Files -> SUBSET Findings]
        /\ shown \in [Files -> [list : SUBSET Findings, hot : Profiles \cup {None}]]

LEMMA TypesAre ==
  ASSUME inbox' \in Seq(Messages), outbox' \in Seq(Messages), Rest',
         clearing' # None => inbox' # <<>> /\ Is(Head(inbox'), "analyse", clearing')
  PROVE  Types'
<1>1. /\ \A n \in DOMAIN inbox' :
           /\ inbox'[n].what \in {"analyse", "failed", "get", "hotness"}
           /\ inbox'[n].file \in Files
      /\ \A n \in DOMAIN outbox' : outbox'[n].list \subseteq Findings
  BY PipeTypes
<1> QED BY <1>1 DEF Types, TypeOK, Rest

\* A message is sent, and the rest has its types.
LEMMA SendTypes ==
  ASSUME Types, NEW what \in {"analyse", "get"}, NEW f \in Files, Send(what, f),
         outbox' = outbox, clearing' = clearing, Rest'
  PROVE  Types'
<1>1. Message(what, f, {}, None) \in Messages BY MessageTypes
<1>2. /\ inbox' \in Seq(Messages) /\ inbox' # <<>>
      /\ inbox # <<>> => Head(inbox') = Head(inbox)
  BY <1>1, SendLine DEF Send
<1>3. clearing' # None => inbox' # <<>> /\ Is(Head(inbox'), "analyse", clearing')
  BY <1>2 DEF Types
<1> QED BY <1>2, <1>3, TypesAre DEF Types, Is

\* A request is answered, and nothing is cleared.
LEMMA AnswerTypes ==
  ASSUME Types, inbox # <<>>, NEW e \in Messages, Answer(e), clearing' = None, Rest'
  PROVE  Types'
<1>1. inbox' \in Seq(Messages) /\ outbox' \in Seq(Messages) BY AnswerLine
<1> QED BY <1>1, TypesAre

LEMMA HeadRequest ==
  ASSUME Types, inbox # <<>>
  PROVE  Head(inbox) \in Messages /\ Head(inbox).file \in Files
<1>1. Head(inbox) \in Messages BY DEF Types
<1> QED BY <1>1 DEF Messages

\* What the filter leaves, and what is shown of it.
LEMMA ListTypes ==
  ASSUME NEW list \in SUBSET Findings
  PROVE  Filtered(list) \in SUBSET Findings /\ First(list) \in SUBSET Findings
BY DEF Filtered, First

LEMMA FirstOfNone == First({}) = {} /\ Filtered({}) = {}
BY DEF First, Filtered

\* What the rules find in a file.
LEMMA FoundTypes ==
  ASSUME analyses \in Nat, NEW kinds \in SUBSET Kinds
  PROVE  /\ Found(kinds) \in [Names -> SUBSET Findings]
         /\ \A n \in Names : n # Spelling[clearing] => Found(kinds)[n] = {}
         /\ \A n \in Names : \A r \in Found(kinds)[n] : r.of = analyses /\ r.kind \in kinds
<1>1. [of : {analyses}, kind : kinds] \in SUBSET Findings BY DEF Findings
<1>2. \A r \in [of : {analyses}, kind : kinds] : r.of = analyses /\ r.kind \in kinds
  OBVIOUS
<1> QED BY <1>1, <1>2 DEF Found

LEMMA WithTypes ==
  ASSUME NEW a \in [Names -> SUBSET Findings], NEW b \in [Names -> SUBSET Findings]
  PROVE  /\ With(a, b) \in [Names -> SUBSET Findings]
         /\ \A n \in Names : With(a, b)[n] = a[n] \cup b[n]
BY DEF With

\* The end of an analysis.
LEMMA EndTypes ==
  ASSUME Types, NEW what \in {"analyse", "failed"}, EndAnalysis(what)
  PROVE  /\ inbox # <<>> /\ clearing \in Files /\ clearing' = None
         /\ Is(Head(inbox), "analyse", clearing)
         /\ \E e \in Messages : Answer(e) /\ e.what = what /\ e.file = clearing
<1>1. /\ inbox # <<>> /\ clearing \in Files /\ clearing' = None
      /\ Is(Head(inbox), "analyse", clearing) /\ Head(inbox) \in Messages
  BY DEF EndAnalysis, Types, TypeOK
<1>2. [Head(inbox) EXCEPT !.what = what] \in Messages
      /\ [Head(inbox) EXCEPT !.what = what].what = what
      /\ [Head(inbox) EXCEPT !.what = what].file = clearing
  BY <1>1 DEF Messages, Is
<1> QED BY <1>1, <1>2 DEF EndAnalysis

LEMMA TypesStep ==
  ASSUME Types, [Next]_vars
  PROVE  Types'
<1>1. Rest /\ inbox \in Seq(Messages) /\ outbox \in Seq(Messages)
  BY DEF Types, TypeOK, Rest
<1>2. Blank \in [list : SUBSET Findings, hot : Profiles \cup {None}] BY DEF Blank
<1> USE DEF sidecar, analysing, views, profiling, history
<1>3. ASSUME NEW what \in {"analyse", "failed"}, EndAnalysis(what),
             rows' \in [Names -> SUBSET Findings], kept' \in [Names -> SUBSET Findings]
      PROVE  Types'
  <2>1. Rest' BY <1>1, <1>3 DEF EndAnalysis, Rest
  <2> QED BY <1>3, <2>1, EndTypes, AnswerTypes
<1>4. ASSUME NEW f \in Files, Analyse(f) PROVE Types'
  <2>1. Rest' BY <1>1, <1>4 DEF Analyse, Rest
  <2> QED BY <1>4, <2>1, SendTypes DEF Analyse
<1>5. ASSUME NEW f \in Files, SwitchEditor(f) PROVE Types'
  <2>1. Rest' BY <1>1, <1>5 DEF SwitchEditor, Rest
  <2> QED BY <1>5, <2>1, TypesAre DEF SwitchEditor, Types
<1>6. ASSUME NEW p \in Profiles, SetProfile(p) PROVE Types'
  <2>1. Rest' BY <1>1, <1>6 DEF SetProfile, Rest
  <2> QED BY <1>1, <1>6, <2>1, SendTypes DEF SetProfile, Rest
<1>7. CASE DropProfile
  <2>1. Rest' BY <1>1, <1>7 DEF DropProfile, Rest
  <2> QED BY <1>7, <2>1, TypesAre DEF DropProfile, Types
<1>8. CASE Announce
  <2>1. Rest' BY <1>1, <1>8 DEF Announce, Rest
  <2> QED BY <1>1, <1>8, <2>1, SendTypes DEF Announce, Rest
<1>9. CASE Reload
  <2>1. Rest' BY <1>1, <1>2, <1>9 DEF Reload, Rest
  <2>2. inbox' \in Seq(Messages) BY <1>9, ReloadRequests
  <2>3. outbox' = <<>> /\ clearing' = None BY <1>9 DEF Reload
  <2> QED BY <2>1, <2>2, <2>3, TypesAre
<1>10. CASE Receive
  <2> DEFINE msg == Head(outbox)
  <2>1. /\ outbox # <<>> /\ outbox' = Tail(outbox)
        /\ UNCHANGED <<engine, analyses, rows, kept, clearing, active, profile,
                        announced>>
    BY <1>10 DEF Receive
  <2>2. /\ msg \in Messages /\ msg.list \in SUBSET Findings /\ msg.file \in Files
        /\ msg.profile \in Profiles \cup {None} /\ outbox' \in Seq(Messages)
    <3>1. msg \in Messages /\ outbox' \in Seq(Messages) BY <1>1, <2>1
    <3> QED BY <3>1 DEF Messages
  <2> HIDE DEF msg
  <2>3. ASSUME inbox' = inbox, Rest' PROVE Types'
    BY <2>1, <2>2, <2>3, TypesAre DEF Types
  <2>4. ASSUME NEW e \in Messages, inbox' = Append(inbox, e), Rest' PROVE Types'
    <3>1. /\ inbox' \in Seq(Messages) /\ inbox' # <<>>
          /\ inbox # <<>> => Head(inbox') = Head(inbox)
      BY <2>1, <2>4, ReceiveSendLine
    <3> QED BY <2>1, <2>2, <2>4, <3>1, TypesAre DEF Types, Is
  <2>5. CASE Analysed(msg)
    <3>1. Rest' BY <1>1, <2>1, <2>5 DEF Rest, Analysed
    <3> QED BY <2>2, <2>4, <2>5, <3>1, MessageTypes DEF Analysed, Send
  <2>6. CASE GotFindings(msg)
    <3>1. /\ Filtered(msg.list) \in SUBSET Findings
          /\ First(Filtered(msg.list)) \in SUBSET Findings
      BY <2>2, ListTypes
    <3>2. /\ cache' = [cache EXCEPT ![msg.file] = Filtered(msg.list)]
          /\ \/ shown' = shown
             \/ shown' = [shown EXCEPT ![msg.file] =
                            [list |-> First(Filtered(msg.list)), hot |-> None]]
      BY <2>6 DEF GotFindings
    <3>3. cache' \in [Files -> SUBSET Findings] BY <1>1, <2>2, <3>1, <3>2 DEF Rest
    <3>4. shown' \in [Files -> [list : SUBSET Findings, hot : Profiles \cup {None}]]
      <4>1. [list |-> First(Filtered(msg.list)), hot |-> None] \in
              [list : SUBSET Findings, hot : Profiles \cup {None}]
        BY <3>1
      <4> QED BY <1>1, <2>2, <3>2, <4>1 DEF Rest
    <3>5. Rest' BY <1>1, <2>1, <3>3, <3>4 DEF Rest
    <3> QED BY <1>1, <2>2, <2>3, <2>4, <2>6, <3>1, <3>5, MessageTypes DEF GotFindings, Rest
  <2>7. CASE GotHotness(msg)
    <3>1. First(msg.list) \in SUBSET Findings BY <2>2, ListTypes
    <3>2. [list |-> First(msg.list), hot |-> msg.profile] \in
            [list : SUBSET Findings, hot : Profiles \cup {None}]
      BY <2>2, <3>1
    <3>3. Rest' BY <1>1, <2>1, <2>2, <2>7, <3>2 DEF Rest, GotHotness
    <3> QED BY <2>3, <2>7, <3>3 DEF GotHotness
  <2>8. CASE NotAnalysed
    <3>1. Rest' BY <1>1, <2>1, <2>8 DEF Rest, NotAnalysed
    <3> QED BY <2>3, <2>8, <3>1 DEF NotAnalysed
  <2> QED BY <1>10, <2>5, <2>6, <2>7, <2>8 DEF Receive, msg
<1>11. CASE AnalyseFileDisabled
  <2>1. Rest' BY <1>1, <1>11 DEF AnalyseFileDisabled, Rest
  <2> QED BY <1>11, <2>1, AnswerTypes, HeadRequest DEF AnalyseFileDisabled, Handles
<1>12. CASE ClearFile
  <2>1. inbox # <<>> /\ Head(inbox).what = "analyse" /\ Head(inbox) \in Messages
    BY <1>1, <1>12 DEF ClearFile, Handles
  <2>2. Head(inbox).file \in Files BY <2>1 DEF Messages
  <2>3. analyses + 1 \in Nat BY <1>1 DEF Rest
  <2>4. Rest' BY <1>1, <1>12, <2>2, <2>3 DEF ClearFile, Rest
  <2> QED BY <1>1, <1>12, <2>1, <2>4, TypesAre DEF ClearFile, Is
<1>13. CASE InsertBulk
  <2>1. PICK kinds \in SUBSET Kinds : rows' = With(rows, With(kept, Found(kinds)))
    BY <1>13 DEF InsertBulk
  <2>2. rows' \in [Names -> SUBSET Findings]
    <3>1. Found(kinds) \in [Names -> SUBSET Findings] BY <1>1, FoundTypes DEF Rest
    <3>2. With(kept, Found(kinds)) \in [Names -> SUBSET Findings]
      BY <1>1, <3>1, WithTypes DEF Rest
    <3> QED BY <1>1, <2>1, <3>2, WithTypes DEF Rest
  <2>3. kept' \in [Names -> SUBSET Findings] BY <1>13 DEF InsertBulk, Nothing
  <2> QED BY <1>3, <1>13, <2>2, <2>3 DEF InsertBulk
<1>14. CASE ParseFails \/ InsertBulkThrows
  <2>1. rows' = rows /\ kept' \in [Names -> SUBSET Findings]
    BY <1>1, <1>14 DEF ParseFails, InsertBulkThrows, Nothing, Rest
  <2> QED BY <1>1, <1>3, <1>14, <2>1 DEF ParseFails, InsertBulkThrows, Rest
<1>15. CASE EngineThrows
  <2>1. PICK kinds \in SUBSET Kinds : kept' = With(kept, Found(kinds))
    BY <1>15 DEF EngineThrows
  <2>2. Found(kinds) \in [Names -> SUBSET Findings] BY <1>1, FoundTypes DEF Rest
  <2>3. kept' \in [Names -> SUBSET Findings] BY <1>1, <2>1, <2>2, WithTypes DEF Rest
  <2> QED BY <1>1, <1>3, <1>15, <2>3 DEF EngineThrows, Rest
<1>16. CASE GetFindings
  <2>1. inbox # <<>> /\ Head(inbox) \in Messages BY <1>1, <1>16 DEF GetFindings, Handles
  <2>2. rows[Head(inbox).file] \in SUBSET Findings
    BY <1>1, <2>1, AnalysisAssumption DEF Messages, Rest
  <2>3. [Head(inbox) EXCEPT !.list = rows[Head(inbox).file]] \in Messages
    BY <2>1, <2>2 DEF Messages
  <2>4. Rest' BY <1>1, <1>16 DEF GetFindings, Rest
  <2> QED BY <1>16, <2>1, <2>3, <2>4, AnswerTypes DEF GetFindings, Handles
<1>17. CASE GetFileHotness
  <2>1. Rest' BY <1>1, <1>17 DEF GetFileHotness, Rest
  <2> QED BY <1>17, <2>1, AnswerTypes, HeadRequest DEF GetFileHotness, Handles
<1>18. CASE UNCHANGED vars
  BY <1>18 DEF vars, Types, TypeOK
<1> QED BY <1>4, <1>5, <1>6, <1>7, <1>8, <1>9, <1>10, <1>11, <1>12, <1>13, <1>14,
           <1>15, <1>16, <1>17, <1>18 DEF Next

-----------------------------------------------------------------------------
(* One version, and fresh answers                                          *)

\* What the steps leave alone that begin or end no analysis.
LEMMA AnalysingKept ==
  ASSUME \/ \E f \in Files : Analyse(f) \/ SwitchEditor(f)
         \/ \E p \in Profiles : SetProfile(p)
         \/ DropProfile \/ Announce \/ Receive \/ AnalyseFileDisabled
         \/ GetFindings \/ GetFileHotness \/ UNCHANGED vars
  PROVE  UNCHANGED analysing
BY DEF Analyse, SwitchEditor, SetProfile, DropProfile, Announce, Receive,
       AnalyseFileDisabled, GetFindings, GetFileHotness, vars, sidecar

\* A path that the editor knows is the spelling of no other file.
LEMMA OneSpelling ==
  ASSUME NEW f \in Files, NEW c \in Files, f # c
  PROVE  f # Spelling[c] /\ f \in Names
BY AnalysisAssumption

LEMMA OneVersionStep ==
  ASSUME Types, OneVersion, [Next]_vars
  PROVE  OneVersion'
<1>1. /\ rows \in [Names -> SUBSET Findings] /\ kept \in [Names -> SUBSET Findings]
      /\ analyses \in Nat /\ clearing \in Files \cup {None} /\ Files \subseteq Names
      /\ None \notin Files
  BY AnalysisAssumption DEF Types, TypeOK
<1>2. /\ \A n \in Names : \A r \in kept[n] : Left(r) /\ r.of <= analyses
      /\ \A f \in Files : Spelling[f] = f =>
           /\ \A r, s \in rows[f] : r.of < s.of => Left(r)
           /\ clearing = f => rows[f] = {}
           /\ kept[f] = {} \/ rows[f] = {}
  BY DEF OneVersion
<1>3. CASE UNCHANGED analysing
  BY <1>3 DEF OneVersion, analysing, Left
<1>4. CASE Reload
  <2>1. /\ rows' = rows /\ threw' = threw /\ clearing' = None
        /\ kept' = [n \in Names |-> {}]
    BY <1>4 DEF Reload
  <2> QED BY <1>1, <1>2, <2>1 DEF OneVersion, Left
<1>5. CASE ClearFile
  <2>1. inbox # <<>> /\ Head(inbox).file \in Files
    BY <1>5, HeadRequest DEF ClearFile, Handles
  <2> PICK c \in Files : c = Head(inbox).file BY <2>1
  <2>2. /\ clearing' = c /\ analyses' = analyses + 1 /\ rows' = [rows EXCEPT ![c] = {}]
        /\ kept' = kept /\ threw' = threw
    BY <1>5 DEF ClearFile
  <2>3. \A n \in Names : \A r \in kept[n] : r.of \in Nat BY <1>1 DEF Findings
  <2>4. \A n \in Names : \A r \in kept'[n] : Left(r)' /\ r.of <= analyses'
    BY <1>1, <1>2, <2>2, <2>3 DEF Left
  <2>5. rows'[c] = {} /\ \A f \in Files : f # c => rows'[f] = rows[f] BY <1>1, <2>2
  <2> QED BY <1>2, <2>2, <2>4, <2>5 DEF OneVersion, Left
<1>6. CASE ParseFails \/ InsertBulkThrows
  <2>1. /\ rows' = rows /\ threw' = threw /\ analyses' = analyses /\ clearing' = None
        /\ kept' = kept \/ kept' = [n \in Names |-> {}]
    BY <1>6 DEF ParseFails, InsertBulkThrows, EndAnalysis, Nothing
  <2> QED BY <1>1, <1>2, <2>1 DEF OneVersion, Left
<1>7. CASE InsertBulk
  <2>1. PICK kinds \in SUBSET Kinds : rows' = With(rows, With(kept, Found(kinds)))
    BY <1>7 DEF InsertBulk
  <2>2. /\ clearing \in Files /\ clearing' = None /\ threw' = threw
        /\ kept' = [n \in Names |-> {}]
    BY <1>1, <1>7 DEF InsertBulk, EndAnalysis, Nothing
  <2>3. /\ Found(kinds) \in [Names -> SUBSET Findings]
        /\ \A n \in Names : n # Spelling[clearing] => Found(kinds)[n] = {}
        /\ \A n \in Names : \A r \in Found(kinds)[n] : r.of = analyses
    BY <1>1, FoundTypes
  <2>4. /\ With(kept, Found(kinds)) \in [Names -> SUBSET Findings]
        /\ \A n \in Names : With(kept, Found(kinds))[n] = kept[n] \cup Found(kinds)[n]
    BY <1>1, <2>3, WithTypes
  <2>5. \A n \in Names : rows'[n] = rows[n] \cup (kept[n] \cup Found(kinds)[n])
    BY <1>1, <2>1, <2>4, WithTypes
  <2>6. ASSUME NEW f \in Files, Spelling[f] = f, NEW r \in rows'[f], NEW s \in rows'[f],
               r.of < s.of
        PROVE  Left(r)
    <3>1. f \in Names /\ rows'[f] = rows[f] \cup (kept[f] \cup Found(kinds)[f])
      BY <1>1, <2>5
    <3>2. \A q \in kept[f] : Left(q) /\ q.of <= analyses BY <1>2, <3>1
    <3>3. CASE f = clearing
      <4>1. rows[f] = {} BY <1>2, <2>6, <3>3
      <4>2. r.of \in Nat /\ s.of \in Nat
        BY <1>1, <2>3, <3>1 DEF Findings
      <4>3. s.of <= analyses BY <1>1, <2>3, <2>6, <3>1, <3>2, <4>1
      <4>4. r \notin Found(kinds)[f] BY <1>1, <2>3, <2>6, <3>1, <4>2, <4>3
      <4> QED BY <2>6, <3>1, <3>2, <4>1, <4>4
    <3>4. CASE f # clearing
      <4>1. Found(kinds)[f] = {} BY <2>2, <2>3, <3>1, <3>4, OneSpelling
      <4>2. CASE rows[f] = {} BY <2>6, <3>1, <3>2, <4>1, <4>2
      <4>3. CASE kept[f] = {} BY <1>2, <2>6, <3>1, <4>1, <4>3
      <4> QED BY <1>2, <2>6, <4>2, <4>3
    <3> QED BY <3>3, <3>4
  <2> QED BY <1>1, <2>2, <2>6 DEF OneVersion, Left
<1>8. CASE EngineThrows
  <2>1. PICK kinds \in SUBSET {k \in Kinds : k.kept} : kept' = With(kept, Found(kinds))
    BY <1>8 DEF EngineThrows
  <2>2. /\ clearing \in Files /\ clearing' = None /\ threw' = threw \cup {analyses}
        /\ rows' = rows /\ analyses' = analyses
    BY <1>1, <1>8 DEF EngineThrows, EndAnalysis
  <2>3. /\ Found(kinds) \in [Names -> SUBSET Findings]
        /\ \A n \in Names : n # Spelling[clearing] => Found(kinds)[n] = {}
        /\ \A n \in Names : \A r \in Found(kinds)[n] : r.of = analyses /\ r.kind \in kinds
    BY <1>1, FoundTypes
  <2>4. \A n \in Names : kept'[n] = kept[n] \cup Found(kinds)[n]
    BY <1>1, <2>1, <2>3, WithTypes
  <2>5. \A r : Left(r) => Left(r)' BY <2>2 DEF Left
  <2>6. ASSUME NEW n \in Names, NEW r \in kept'[n]
        PROVE  Left(r)' /\ r.of <= analyses'
    <3>1. CASE r \in kept[n] BY <1>2, <2>2, <2>5, <3>1
    <3>2. CASE r \in Found(kinds)[n]
      <4>1. r.of = analyses /\ r.kind.kept BY <2>3, <3>2
      <4> QED BY <1>1, <2>2, <4>1 DEF Left
    <3> QED BY <2>4, <2>6, <3>1, <3>2
  <2>7. ASSUME NEW f \in Files, Spelling[f] = f
        PROVE  kept'[f] = {} \/ rows'[f] = {}
    <3>1. CASE f = clearing BY <1>2, <2>2, <2>7, <3>1
    <3>2. CASE f # clearing
      <4>1. f \in Names /\ Found(kinds)[f] = {} BY <2>2, <2>3, <3>2, OneSpelling
      <4> QED BY <1>2, <2>2, <2>4, <2>7, <4>1
    <3> QED BY <3>1, <3>2
  <2>8. \A f \in Files : Spelling[f] = f =>
          \A r, s \in rows'[f] : r.of < s.of => Left(r)'
    BY <1>2, <2>2, <2>5
  <2> QED BY <1>1, <2>2, <2>6, <2>7, <2>8 DEF OneVersion
<1> QED BY <1>3, <1>4, <1>5, <1>6, <1>7, <1>8, AnalysingKept DEF Next

-----------------------------------------------------------------------------
(* What a step does to the line                                            *)

\* Both ways in which an answer is received.
Shifted == /\ outbox # <<>> /\ outbox' = Tail(outbox)
           /\ \/ inbox' = inbox
              \/ \E e \in Messages : inbox' = Append(inbox, e)

LEMMA ShiftedLine ==
  ASSUME Types, Shifted
  PROVE  /\ Len(outbox) \in Nat \ {0} /\ Len(Line) \in Nat \ {0}
         /\ Len(Line) >= Len(outbox) /\ Len(outbox') = Len(outbox) - 1
         /\ Len(Line') \in {Len(Line) - 1, Len(Line)}
         /\ \A n \in 1..(Len(Line) - 1) : Line'[n] = Line[n + 1]
         /\ Head(outbox) = Line[1] /\ Head(outbox) \in Messages
<1>1. Len(outbox) \in Nat \ {0} /\ Len(Line) = Len(outbox) + Len(inbox) /\ Len(inbox) \in Nat
  BY LineIs DEF Types, Shifted
<1>2. CASE inbox' = inbox BY <1>1, <1>2, ReceiveLine DEF Shifted
<1>3. ASSUME NEW e \in Messages, inbox' = Append(inbox, e)
      PROVE  /\ Len(outbox') = Len(outbox) - 1 /\ Len(Line') = Len(Line)
             /\ \A n \in 1..(Len(Line) - 1) : Line'[n] = Line[n + 1]
             /\ Head(outbox) = Line[1] /\ Head(outbox) \in Messages
  BY <1>1, <1>3, ReceiveSendLine DEF Shifted
<1> QED BY <1>1, <1>2, <1>3 DEF Shifted

\* The first request is answered: by itself, with the findings it asks for, or
\* as an analysis that failed.
Answered(e) ==
  /\ inbox # <<>> /\ Answer(e) /\ e \in Messages /\ e.file = Head(inbox).file
  /\ \/ e.what # "failed" /\ e.what = Head(inbox).what
     \/ e.what = "failed" /\ Head(inbox).what \in {"analyse", "failed"}
  /\ e.what = "hotness" => e = Head(inbox)
  /\ e.what = "get" => e.list = rows[e.file]

\* Messages of one sort and for one file, the same if it is hotness.
Alike(m, k) == /\ m.file = k.file
               /\ m.what \in {"analyse", "failed"} <=> k.what \in {"analyse", "failed"}
               /\ m.what = "hotness" <=> k.what = "hotness"
               /\ m.what = "hotness" => m = k

LEMMA AnsweredLine ==
  ASSUME Types, NEW e, Answered(e)
  PROVE  /\ Len(outbox) \in Nat /\ Len(outbox) + 1 \in 1..Len(Line) /\ Len(Line) \in Nat
         /\ Len(outbox') = Len(outbox) + 1 /\ Len(Line') = Len(Line)
         /\ Head(inbox) = Line[Len(outbox) + 1] /\ Line'[Len(outbox) + 1] = e
         /\ \A n \in 1..Len(Line) : /\ n # Len(outbox) + 1 => Line'[n] = Line[n]
                                    /\ Line[n] \in Messages /\ Line'[n] \in Messages
                                    /\ Alike(Line'[n], Line[n])
<1>1. /\ Len(outbox) \in Nat /\ Len(outbox) + 1 \in 1..Len(Line) /\ Len(Line) \in Nat
      /\ Len(outbox') = Len(outbox) + 1 /\ Len(Line') = Len(Line)
      /\ Head(inbox) = Line[Len(outbox) + 1] /\ Line'[Len(outbox) + 1] = e
      /\ \A n \in 1..Len(Line) : n # Len(outbox) + 1 => Line'[n] = Line[n]
  BY AnswerLine, LineIs DEF Answered
<1>2. \A n \in 1..Len(Line) : Line[n] \in Messages BY LineIs
<1>3. Alike(e, Head(inbox)) BY DEF Answered, Alike
<1>4. ASSUME NEW n \in 1..Len(Line)
      PROVE  Line'[n] \in Messages /\ Alike(Line'[n], Line[n])
  <2>1. CASE n # Len(outbox) + 1 BY <1>1, <1>2, <2>1 DEF Alike
  <2>2. CASE n = Len(outbox) + 1 BY <1>1, <1>3, <2>2 DEF Answered
  <2> QED BY <2>1, <2>2
<1> QED BY <1>1, <1>2, <1>4

\* What is in the sets of messages below stays in them.
LEMMA AlikeSets ==
  ASSUME NEW m \in Messages, NEW k \in Messages, Alike(m, k), NEW f
  PROVE  /\ m \in Analyses(f) <=> k \in Analyses(f)
         /\ m \in Hotness(f) <=> k \in Hotness(f)
         /\ m \in About(f) <=> k \in About(f)
         /\ m.what = "hotness" \/ k.what = "hotness" => m = k
BY DEF Alike, Analyses, Hotness, About, Is

-----------------------------------------------------------------------------
(* Fresh answers                                                           *)

LEMMA FreshSend ==
  ASSUME Types, Fresh, NEW e \in Messages, inbox' = Append(inbox, e), outbox' = outbox,
         rows' = rows, missed' = missed
  PROVE  Fresh'
<1>1. Len(Line) \in Nat /\ Len(Line') = Len(Line) + 1
      /\ \A n \in 1..Len(Line) : Line'[n] = Line[n]
  BY SendLine
<1>2. \A n \in 1..Len(outbox) : Behind(n, outbox[n].file) => Behind(n, outbox[n].file)'
  BY <1>1 DEF Behind
<1> QED BY <1>2 DEF Fresh, Sound, Good

LEMMA FreshShift ==
  ASSUME Types, Fresh, Shifted, rows' = rows, missed' = missed
  PROVE  Fresh'
<1>1. /\ Len(outbox) \in Nat \ {0} /\ Len(Line) \in Nat \ {0}
      /\ Len(outbox') = Len(outbox) - 1 /\ Len(Line') \in {Len(Line) - 1, Len(Line)}
      /\ \A n \in 1..(Len(Line) - 1) : Line'[n] = Line[n + 1]
  BY ShiftedLine
<1>2. ASSUME NEW n \in 1..Len(outbox') PROVE Sound(n)'
  <2>1. n + 1 \in 1..Len(outbox) /\ outbox'[n] = outbox[n + 1]
    BY <1>1 DEF Shifted, Types
  <2>2. CASE Behind(n + 1, outbox[n + 1].file)
    <3>1. PICK m \in 1..Len(Line) : m > n + 1 /\ Line[m] \in Analyses(outbox[n + 1].file)
      BY <2>2 DEF Behind
    <3>2. m - 1 \in 1..Len(Line') /\ m - 1 > n /\ Line'[m - 1] = Line[m] BY <1>1, <3>1
    <3> QED BY <2>1, <3>1, <3>2 DEF Behind, Sound
  <2>3. Sound(n + 1) BY <2>1 DEF Fresh
  <2> QED BY <2>1, <2>2, <2>3 DEF Sound, Good
<1> QED BY <1>2 DEF Fresh

\* What is stored for a file, or missed, changes only in an analysis of it that
\* is at work, or else it has missed something.
Changes ==
  \A f \in Files : /\ rows'[f] # rows[f] => Is(Head(inbox), "analyse", f) \/ f \in missed'
                   /\ f \in missed /\ f \notin missed' => Is(Head(inbox), "analyse", f)

LEMMA FreshAnswer ==
  ASSUME Types, Fresh, NEW e, Answered(e), Changes,
         e.what = "failed" => e.file \in missed',
         e.what = "get" => rows' = rows
  PROVE  Fresh'
<1>1. /\ Len(outbox) \in Nat /\ Len(outbox) + 1 \in 1..Len(Line) /\ Len(Line) \in Nat
      /\ Len(outbox') = Len(outbox) + 1 /\ Len(Line') = Len(Line)
      /\ Head(inbox) = Line[Len(outbox) + 1] /\ Head(inbox) \in Messages
      /\ \A n \in 1..Len(Line) : /\ Line[n] \in Messages /\ Line'[n] \in Messages
                                 /\ Alike(Line'[n], Line[n])
  BY AnsweredLine
<1>2. ASSUME NEW n \in 1..Len(Line), NEW f, Behind(n, f) PROVE Behind(n, f)'
  BY <1>1, <1>2, AlikeSets DEF Behind
<1>3. ASSUME NEW n \in 1..Len(outbox') PROVE Sound(n)'
  <2>1. CASE n = Len(outbox) + 1
    <3>1. outbox'[n] = e BY <1>1, <2>1 DEF Answered, Answer, Types
    <3> QED BY <3>1 DEF Answered, Sound, Good
  <2>2. CASE n # Len(outbox) + 1
    <3>1. n \in 1..Len(outbox) /\ outbox'[n] = outbox[n]
      BY <1>1, <2>2 DEF Answered, Answer, Types
    <3>2. outbox[n] \in Messages BY <3>1 DEF Types
    <3>3. outbox[n].file \in Files BY <3>2 DEF Messages
    <3>4. CASE Is(Head(inbox), "analyse", outbox[n].file)
      <4>1. Line[Len(outbox) + 1] \in Analyses(outbox[n].file)
        BY <1>1, <3>4 DEF Is, Analyses
      <4>2. n \in 1..Len(Line) /\ Behind(n, outbox[n].file) BY <1>1, <3>1, <4>1 DEF Behind
      <4> QED BY <1>2, <3>1, <4>2 DEF Sound
    <3>5. CASE ~Is(Head(inbox), "analyse", outbox[n].file)
      <4>1. /\ rows'[outbox[n].file] = rows[outbox[n].file] \/ outbox[n].file \in missed'
            /\ outbox[n].file \in missed => outbox[n].file \in missed'
        BY <3>3, <3>5 DEF Changes
      <4>2. n \in 1..Len(Line) BY <1>1, <3>1
      <4>3. Sound(n) BY <3>1 DEF Fresh
      <4> QED BY <1>2, <3>1, <4>1, <4>2, <4>3 DEF Sound, Good
    <3> QED BY <3>4, <3>5
  <2> QED BY <2>1, <2>2
<1> QED BY <1>3 DEF Fresh

\* The first request is at work: what is stored for its file changes.
LEMMA FreshWork ==
  ASSUME Types, Fresh, inbox # <<>>, inbox' = inbox, outbox' = outbox, Changes
  PROVE  Fresh'
<1>1. /\ Line' = Line /\ Len(outbox) \in Nat /\ Head(inbox) \in Messages
      /\ Len(outbox) + 1 \in 1..Len(Line) /\ Line[Len(outbox) + 1] = Head(inbox)
  BY LineIs DEF Line, Types
<1>2. ASSUME NEW n \in 1..Len(outbox) PROVE Sound(n)'
  <2>1. outbox[n] \in Messages BY DEF Types
  <2>2. outbox[n].file \in Files BY <2>1 DEF Messages
  <2>3. Behind(n, outbox[n].file) <=> Behind(n, outbox[n].file)' BY <1>1 DEF Behind
  <2>4. CASE Is(Head(inbox), "analyse", outbox[n].file)
    <3>1. Line[Len(outbox) + 1] \in Analyses(outbox[n].file) BY <1>1, <2>4 DEF Is, Analyses
    <3> QED BY <1>1, <2>3, <3>1 DEF Behind, Sound
  <2>5. CASE ~Is(Head(inbox), "analyse", outbox[n].file)
    BY <2>2, <2>3, <2>5 DEF Fresh, Sound, Changes, Good
  <2> QED BY <2>4, <2>5
<1> QED BY <1>2 DEF Fresh

-----------------------------------------------------------------------------
(* Which steps do what to the line                                         *)

\* The requests of the extension.
LEMMA Sends ==
  ASSUME Types, NEW what \in {"analyse", "get"}, NEW f \in Files, Send(what, f)
  PROVE  \E e \in Messages : /\ inbox' = Append(inbox, e)
                             /\ e.what = what /\ e.file = f
BY MessageTypes DEF Send

\* What an answer is, and the four things it may do.
LEMMA Receives ==
  ASSUME Types, Receive
  PROVE  /\ Shifted /\ Head(outbox).file \in Files
         /\ Head(outbox).list \in SUBSET Findings
         /\ \/ Head(outbox).what = "analyse" /\ Analysed(Head(outbox))
            \/ Head(outbox).what = "failed"  /\ NotAnalysed
            \/ Head(outbox).what = "get"     /\ GotFindings(Head(outbox))
            \/ Head(outbox).what = "hotness" /\ GotHotness(Head(outbox))
<1> DEFINE msg == Head(outbox)
<1>1. outbox # <<>> /\ outbox' = Tail(outbox) /\ msg \in Messages
  BY DEF Receive, Types
<1>2. msg.file \in Files /\ msg.list \in SUBSET Findings BY <1>1 DEF Messages
<1>3. \/ msg.what = "analyse" /\ Analysed(msg)
      \/ msg.what = "failed"  /\ NotAnalysed
      \/ msg.what = "get"     /\ GotFindings(msg)
      \/ msg.what = "hotness" /\ GotHotness(msg)
  BY DEF Receive
<1> HIDE DEF msg
<1>4. \/ inbox' = inbox
      \/ \E e \in Messages : inbox' = Append(inbox, e)
  <2>1. CASE Analysed(msg) BY <1>2, <2>1, MessageTypes DEF Analysed, Send
  <2>2. CASE GotFindings(msg)
    <3>1. Filtered(msg.list) \in SUBSET Findings BY <1>2, ListTypes
    <3>2. profile \in Profiles \cup {None} BY DEF Types, TypeOK
    <3> QED BY <1>2, <2>2, <3>1, <3>2, MessageTypes DEF GotFindings
  <2>3. CASE GotHotness(msg) \/ NotAnalysed BY <2>3 DEF GotHotness, NotAnalysed
  <2> QED BY <1>3, <2>1, <2>2, <2>3
<1> QED BY <1>1, <1>2, <1>3, <1>4 DEF Shifted, msg

\* The sidecar's answers.
Ends == ParseFails \/ InsertBulk \/ EngineThrows \/ InsertBulkThrows

LEMMA Answers ==
  ASSUME Types, AnalyseFileDisabled \/ Ends \/ GetFindings \/ GetFileHotness
  PROVE  \E e : /\ Answered(e)
                /\ e.what = "failed" => e.file \in missed'
                /\ e.what = "get" => rows' = rows
<1>1. CASE AnalyseFileDisabled
  <2>1. inbox # <<>> /\ Head(inbox).what = "analyse"
    BY <1>1 DEF AnalyseFileDisabled, Handles
  <2> QED BY <1>1, <2>1, HeadRequest DEF Answered, AnalyseFileDisabled
<1>2. CASE Ends
  <2>1. ASSUME NEW what \in {"analyse", "failed"}, EndAnalysis(what)
        PROVE  \E e : Answered(e) /\ e.what = what /\ e.file = clearing
    BY <2>1, EndTypes DEF Answered, Is
  <2>2. CASE ParseFails \/ InsertBulk
    <3>1. EndAnalysis("analyse") BY <2>2 DEF ParseFails, InsertBulk
    <3> QED BY <2>1, <3>1
  <2>3. CASE EngineThrows \/ InsertBulkThrows
    <3>1. EndAnalysis("failed") /\ clearing \in missed'
      BY <2>3 DEF EngineThrows, InsertBulkThrows
    <3> QED BY <2>1, <3>1
  <2> QED BY <1>2, <2>2, <2>3 DEF Ends
<1>3. CASE GetFindings
  <2> DEFINE e == [Head(inbox) EXCEPT !.list = rows[Head(inbox).file]]
  <2>1. inbox # <<>> /\ Head(inbox).what = "get" /\ rows' = rows
    BY <1>3 DEF GetFindings, Handles, sidecar, analysing
  <2>2. Head(inbox) \in Messages /\ Head(inbox).file \in Files BY <2>1, HeadRequest
  <2>3. rows[Head(inbox).file] \in SUBSET Findings
    BY <2>2, AnalysisAssumption DEF Types, TypeOK
  <2>4. /\ e \in Messages /\ e.what = "get" /\ e.file = Head(inbox).file
        /\ e.list = rows[e.file]
    BY <2>1, <2>2, <2>3 DEF Messages
  <2>5. Answer(e) BY <1>3 DEF GetFindings
  <2> QED BY <2>1, <2>4, <2>5 DEF Answered
<1>4. CASE GetFileHotness
  <2>1. inbox # <<>> /\ Head(inbox).what = "hotness"
    BY <1>4 DEF GetFileHotness, Handles
  <2> QED BY <1>4, <2>1, HeadRequest DEF Answered, GetFileHotness
<1> QED BY <1>1, <1>2, <1>3, <1>4

\* What an analysis changes.
LEMMA Stores ==
  ASSUME Types, ClearFile \/ Ends
  PROVE  inbox # <<>> /\ Changes
<1>1. CASE ClearFile
  <2>1. inbox # <<>> /\ Head(inbox).what = "analyse"
    BY <1>1 DEF ClearFile, Handles
  <2>2. /\ rows' = [rows EXCEPT ![Head(inbox).file] = {}] /\ missed' = missed
        /\ rows \in [Names -> SUBSET Findings] /\ Files \subseteq Names
    BY <1>1, AnalysisAssumption DEF ClearFile, Types, TypeOK
  <2> QED BY <2>1, <2>2 DEF Changes, Is
<1>2. CASE Ends
  <2>1. inbox # <<>> /\ Is(Head(inbox), "analyse", clearing)
    BY <1>2, EndTypes DEF Ends, ParseFails, InsertBulk, EngineThrows, InsertBulkThrows
  <2>2. CASE ParseFails
    BY <2>1, <2>2 DEF ParseFails, Changes
  <2>3. CASE InsertBulk
    BY <2>1, <2>3 DEF InsertBulk, Changes
  <2>4. CASE EngineThrows \/ InsertBulkThrows
    BY <2>1, <2>4 DEF EngineThrows, InsertBulkThrows, Changes
  <2> QED BY <1>2, <2>1, <2>2, <2>3, <2>4 DEF Ends
<1> QED BY <1>1, <1>2

LEMMA FreshStep ==
  ASSUME Types, Fresh, [Next]_vars
  PROVE  Fresh'
<1> USE DEF sidecar, analysing, views, profiling, history
<1>1. ASSUME NEW what \in {"analyse", "get"}, NEW f \in Files, Send(what, f),
             outbox' = outbox, rows' = rows, missed' = missed
      PROVE  Fresh'
  BY <1>1, Sends, FreshSend
<1>2. CASE \/ \E f \in Files : Analyse(f)
           \/ \E p \in Profiles : SetProfile(p)
           \/ Announce
  <2>1. active \in Files BY DEF Types, TypeOK
  <2> QED BY <1>1, <1>2, <2>1 DEF Analyse, SetProfile, Announce
<1>3. CASE (\E f \in Files : SwitchEditor(f)) \/ DropProfile \/ UNCHANGED vars
  <2>1. inbox' = inbox /\ outbox' = outbox /\ rows' = rows /\ missed' = missed
    BY <1>3 DEF SwitchEditor, DropProfile, vars
  <2> QED BY <2>1 DEF Fresh, Sound, Good, Behind, Line
<1>4. CASE Reload
  BY <1>4 DEF Reload, Fresh
<1>5. CASE Receive
  BY <1>5, Receives, FreshShift DEF Receive
<1>6. CASE AnalyseFileDisabled \/ GetFindings \/ GetFileHotness
  <2>1. Changes
    BY <1>6 DEF AnalyseFileDisabled, GetFindings, GetFileHotness, Changes
  <2> QED BY <1>6, <2>1, Answers, FreshAnswer
<1>7. CASE Ends
  BY <1>7, Stores, Answers, FreshAnswer
<1>8. CASE ClearFile
  BY <1>8, Stores, FreshWork DEF ClearFile
<1> QED BY <1>2, <1>3, <1>4, <1>5, <1>6, <1>7, <1>8 DEF Next, Ends

-----------------------------------------------------------------------------
(* The last message of a set                                               *)

\* A message outside the set is sent.
LEMMA SendLast ==
  ASSUME Types, NEW M, NEW e \in Messages, e \notin M,
         inbox' = Append(inbox, e), outbox' = outbox
  PROVE  /\ \A n \in 1..Len(Line') : LastOf(n, M)' =>
              n \in 1..Len(Line) /\ LastOf(n, M) /\ Line'[n] = Line[n]
         /\ Waits(M)' <=> Waits(M)
<1>1. /\ Len(Line) \in Nat /\ Len(Line') = Len(Line) + 1 /\ Line'[Len(Line) + 1] = e
      /\ \A n \in 1..Len(Line) : Line'[n] = Line[n]
  BY SendLine
<1>2. ASSUME NEW n \in 1..Len(Line'), LastOf(n, M)'
      PROVE  n \in 1..Len(Line) /\ LastOf(n, M) /\ Line'[n] = Line[n]
  <2>1. n # Len(Line) + 1 BY <1>1, <1>2 DEF LastOf
  <2>2. n \in 1..Len(Line) BY <1>1, <2>1
  <2> QED BY <1>1, <1>2, <2>2 DEF LastOf
<1>3. Waits(M)' <=> Waits(M) BY <1>1 DEF Waits
<1> QED BY <1>2, <1>3

\* A message of the set stands at the end.
LEMMA EndLast ==
  ASSUME NEW M, Len(Line') \in Nat \ {0}, Line'[Len(Line')] \in M
  PROVE  /\ \A n \in 1..Len(Line') : LastOf(n, M)' => n = Len(Line')
         /\ Waits(M)'
BY DEF LastOf, Waits

\* The first message leaves, and none of the set is sent.
LEMMA ShiftLast ==
  ASSUME Types, Shifted, NEW M,
         \A n \in 1..Len(Line') : n >= Len(Line) => Line'[n] \notin M
  PROVE  /\ \A n \in 1..Len(Line') : LastOf(n, M)' =>
              n + 1 \in 1..Len(Line) /\ LastOf(n + 1, M) /\ Line'[n] = Line[n + 1]
         /\ Waits(M)' => Waits(M)
         /\ Waits(M) => Waits(M)' \/ LastOf(1, M)
<1>1. /\ Len(Line) \in Nat \ {0} /\ Len(Line') \in {Len(Line) - 1, Len(Line)}
      /\ \A n \in 1..(Len(Line) - 1) : Line'[n] = Line[n + 1]
  BY ShiftedLine
<1>2. ASSUME NEW n \in 1..Len(Line'), Line'[n] \in M
      PROVE  n \in 1..(Len(Line) - 1) /\ n + 1 \in 1..Len(Line) /\ Line'[n] = Line[n + 1]
  BY <1>1, <1>2
<1>3. ASSUME NEW m \in 1..Len(Line), m # 1
      PROVE  m - 1 \in 1..Len(Line') /\ Line'[m - 1] = Line[m]
  <2>1. m - 1 \in 1..(Len(Line) - 1) /\ (m - 1) + 1 = m BY <1>1, <1>3
  <2>2. Line'[m - 1] = Line[(m - 1) + 1] BY <1>1, <2>1
  <2> QED BY <1>1, <2>1, <2>2
<1>4. ASSUME NEW n \in 1..Len(Line'), LastOf(n, M)'
      PROVE  n + 1 \in 1..Len(Line) /\ LastOf(n + 1, M) /\ Line'[n] = Line[n + 1]
  <2>1. n + 1 \in 1..Len(Line) /\ Line'[n] = Line[n + 1] /\ Line'[n] \in M
    BY <1>2, <1>4 DEF LastOf
  <2>2. ASSUME NEW m \in 1..Len(Line), m > n + 1 PROVE Line[m] \notin M
    <3>1. m - 1 \in 1..Len(Line') /\ Line'[m - 1] = Line[m] /\ m - 1 > n
      BY <1>3, <2>2
    <3> QED BY <1>4, <3>1 DEF LastOf
  <2> QED BY <2>1, <2>2 DEF LastOf
<1>5. Waits(M)' => Waits(M) BY <1>2 DEF Waits
<1>6. ASSUME Waits(M), ~Waits(M)' PROVE LastOf(1, M)
  <2>1. \A m \in 1..Len(Line) : m # 1 => Line[m] \notin M BY <1>3, <1>6 DEF Waits
  <2>2. PICK m \in 1..Len(Line) : Line[m] \in M BY <1>6 DEF Waits
  <2> QED BY <1>1, <2>1, <2>2 DEF LastOf
<1> QED BY <1>4, <1>5, <1>6

\* The messages in the set stay in place.
LEMMA SameLast ==
  ASSUME NEW M, Len(Line) \in Nat, Len(Line') = Len(Line),
         \A n \in 1..Len(Line) : Line'[n] \in M <=> Line[n] \in M
  PROVE  /\ \A n \in 1..Len(Line) : LastOf(n, M)' <=> LastOf(n, M)
         /\ Waits(M)' <=> Waits(M)
BY DEF LastOf, Waits

-----------------------------------------------------------------------------
(* Hovers                                                                  *)

LEMMA HoversSend ==
  ASSUME Types, Hovers, NEW e \in Messages, e.what # "hotness",
         inbox' = Append(inbox, e), outbox' = outbox,
         UNCHANGED <<views, dropped>>, profile' = profile \/ profile' # None
  PROVE  Hovers'
<1>1. ASSUME NEW f \in Files
      PROVE  /\ Waits(Hotness(f))' <=> Waits(Hotness(f))
             /\ HoverAt(f) => HoverAt(f)'
  <2>1. e \notin Hotness(f) BY DEF Hotness, Is
  <2>2. /\ \A n \in 1..Len(Line') : LastOf(n, Hotness(f))' =>
             n \in 1..Len(Line) /\ LastOf(n, Hotness(f)) /\ Line'[n] = Line[n]
        /\ Waits(Hotness(f))' <=> Waits(Hotness(f))
    BY <2>1, SendLast
  <2> QED BY <2>2 DEF HoverAt, views
<1> QED BY <1>1 DEF Hovers

LEMMA HoversSame ==
  ASSUME Hovers, Len(Line) \in Nat, Len(Line') = Len(Line),
         \A n \in 1..Len(Line) : \A f \in Files :
           /\ Line'[n] \in Hotness(f) <=> Line[n] \in Hotness(f)
           /\ Line[n] \in Hotness(f) => Line'[n] = Line[n],
         UNCHANGED <<views, dropped, profile>>
  PROVE  Hovers'
<1>1. ASSUME NEW f \in Files
      PROVE  /\ Waits(Hotness(f))' <=> Waits(Hotness(f))
             /\ HoverAt(f) => HoverAt(f)'
  <2>1. /\ \A n \in 1..Len(Line) : LastOf(n, Hotness(f))' <=> LastOf(n, Hotness(f))
        /\ Waits(Hotness(f))' <=> Waits(Hotness(f))
    BY SameLast
  <2>2. \A n \in 1..Len(Line) : LastOf(n, Hotness(f)) => Line'[n] = Line[n] BY DEF LastOf
  <2> QED BY <2>1, <2>2 DEF HoverAt, views
<1> QED BY <1>1 DEF Hovers

\* The first message leaves, and no hotness is asked for: the diagnostics of
\* its file are set, if at all, to what hovers show of it.
LEMMA HoversShift ==
  ASSUME Types, Hovers, Shifted, ~dropped', UNCHANGED <<profile, dropped>>,
         \A n \in 1..Len(Line') : n >= Len(Line) => Line'[n].what # "hotness",
         \A f \in Files :
           \/ /\ cache'[f] = cache[f] /\ shown'[f] = shown[f]
              /\ ~Is(Line[1], "hotness", f)
           \/ /\ ~Waits(Hotness(f)) /\ shown'[f].list = First(cache'[f])
           \/ /\ cache'[f] = cache[f] /\ shown'[f].list = First(Line[1].list)
              /\ Is(Line[1], "hotness", f)
  PROVE  Hovers'
<1>1. ASSUME NEW f \in Files
      PROVE  /\ \A n \in 1..Len(Line') : LastOf(n, Hotness(f))' =>
                  n + 1 \in 1..Len(Line) /\ LastOf(n + 1, Hotness(f)) /\ Line'[n] = Line[n + 1]
             /\ Waits(Hotness(f))' => Waits(Hotness(f))
             /\ Waits(Hotness(f)) => Waits(Hotness(f))' \/ LastOf(1, Hotness(f))
  <2>1. \A n \in 1..Len(Line') : n >= Len(Line) => Line'[n] \notin Hotness(f)
    BY DEF Hotness, Is
  <2> QED BY <2>1, ShiftLast
<1>2. ASSUME NEW f \in Files PROVE HoverAt(f)'
  <2>1. HoverAt(f) BY DEF Hovers
  <2>2. ASSUME NEW n \in 1..Len(Line'), LastOf(n, Hotness(f))'
        PROVE  Line'[n].list = cache'[f]
    <3>1. n + 1 \in 1..Len(Line) /\ LastOf(n + 1, Hotness(f)) /\ Line'[n] = Line[n + 1]
      BY <1>1, <2>2
    <3>2. Waits(Hotness(f)) BY <3>1 DEF LastOf, Waits
    <3> QED BY <2>1, <3>1, <3>2 DEF HoverAt
  <2>3. ASSUME ~Waits(Hotness(f))' PROVE shown'[f].list = First(cache'[f])
    <3>1. CASE ~Is(Line[1], "hotness", f)
      <4>1. ~Waits(Hotness(f)) BY <1>1, <2>3, <3>1 DEF LastOf, Hotness
      <4> QED BY <2>1, <3>1, <4>1 DEF HoverAt
    <3>2. CASE Is(Line[1], "hotness", f)
      <4>1. 1 \in 1..Len(Line) /\ Line[1] \in Messages BY ShiftedLine
      <4>2. Waits(Hotness(f)) BY <3>2, <4>1 DEF Waits, Hotness
      <4>3. LastOf(1, Hotness(f)) BY <1>1, <2>3, <4>2
      <4> QED BY <2>1, <3>2, <4>1, <4>2, <4>3 DEF HoverAt
    <3> QED BY <3>1, <3>2
  <2> QED BY <2>2, <2>3 DEF HoverAt
<1> QED BY <1>1, <1>2 DEF Hovers

LEMMA HoversReceive ==
  ASSUME Types, Hovers, Receive
  PROVE  Hovers'
<1> DEFINE msg == Head(outbox)
<1>1. /\ Shifted /\ msg.file \in Files /\ msg.list \in SUBSET Findings
      /\ \/ msg.what = "analyse" /\ Analysed(msg)
         \/ msg.what = "failed"  /\ NotAnalysed
         \/ msg.what = "get"     /\ GotFindings(msg)
         \/ msg.what = "hotness" /\ GotHotness(msg)
  BY Receives
<1>2. /\ Len(Line) \in Nat \ {0} /\ Len(Line') \in {Len(Line) - 1, Len(Line)}
      /\ msg = Line[1] /\ msg \in Messages
      /\ \A n \in 1..(Len(Line) - 1) : Line'[n] = Line[n + 1]
  BY <1>1, ShiftedLine
<1>3. outbox # <<>> /\ outbox' = Tail(outbox) /\ UNCHANGED <<profile, dropped>>
  BY DEF Receive, profiling, history
<1>4. /\ cache \in [Files -> SUBSET Findings] /\ profile \in Profiles \cup {None}
      /\ shown \in [Files -> [list : SUBSET Findings, hot : Profiles \cup {None}]]
  BY DEF Types, TypeOK
<1> HIDE DEF msg
<1> SUFFICES ASSUME ~dropped' PROVE Hovers' BY DEF Hovers
<1>5. ASSUME inbox' = inbox PROVE Len(Line') = Len(Line) - 1
  BY <1>3, <1>5, ReceiveLine
<1>6. ASSUME NEW e \in Messages, inbox' = Append(inbox, e)
      PROVE  Len(Line') = Len(Line) /\ Line'[Len(Line)] = e
  BY <1>3, <1>6, ReceiveSendLine
<1>7. CASE msg.what = "analyse" /\ Analysed(msg)
  <2>1. PICK e \in Messages : inbox' = Append(inbox, e) /\ e.what = "get"
    BY <1>1, <1>7, Sends DEF Analysed
  <2>2. \A n \in 1..Len(Line') : n >= Len(Line) => Line'[n].what # "hotness"
    BY <1>2, <1>6, <2>1
  <2>3. \A f \in Files : /\ cache'[f] = cache[f] /\ shown'[f] = shown[f]
                         /\ ~Is(Line[1], "hotness", f)
    BY <1>2, <1>7 DEF Analysed, views, Is
  <2> QED BY <1>1, <1>3, <2>2, <2>3, HoversShift
<1>8. CASE msg.what = "get" /\ GotFindings(msg) /\ profile = None
  <2> DEFINE list == Filtered(msg.list)
  <2>1. /\ inbox' = inbox /\ cache' = [cache EXCEPT ![msg.file] = list]
        /\ shown' = [shown EXCEPT ![msg.file] = [list |-> First(list), hot |-> None]]
    BY <1>8 DEF GotFindings
  <2>2. \A n \in 1..Len(Line') : n >= Len(Line) => Line'[n].what # "hotness"
    BY <1>2, <1>5, <2>1
  <2>3. \A f \in Files : ~Waits(Hotness(f)) BY <1>3, <1>8 DEF Hovers
  <2>4. \A f \in Files :
          \/ /\ cache'[f] = cache[f] /\ shown'[f] = shown[f]
             /\ ~Is(Line[1], "hotness", f)
          \/ ~Waits(Hotness(f)) /\ shown'[f].list = First(cache'[f])
    BY <1>1, <1>2, <1>4, <1>8, <2>1, <2>3 DEF Is
  <2> QED BY <1>1, <1>3, <2>2, <2>4, HoversShift
<1>9. CASE msg.what = "get" /\ GotFindings(msg) /\ profile # None
  <2> DEFINE list == Filtered(msg.list)
             e    == Message("hotness", msg.file, list, profile)
  <2>1. /\ cache' = [cache EXCEPT ![msg.file] = list] /\ shown' = shown
        /\ inbox' = Append(inbox, e)
    BY <1>9 DEF GotFindings
  <2>2. list \in SUBSET Findings BY <1>1, ListTypes
  <2> HIDE DEF list
  <2>3. e \in Messages /\ e.what = "hotness" /\ e.file = msg.file /\ e.list = list
    BY <1>1, <1>4, <2>2, MessageTypes
  <2> HIDE DEF e
  <2>4. Len(Line') = Len(Line) /\ Line'[Len(Line)] = e BY <1>6, <2>1, <2>3
  <2> PICK g \in Files : g = msg.file BY <1>1
  <2>5. HoverAt(g)'
    <3>1. Line'[Len(Line')] \in Hotness(g) BY <2>3, <2>4 DEF Hotness, Is
    <3>2. /\ \A n \in 1..Len(Line') : LastOf(n, Hotness(g))' => n = Len(Line')
          /\ Waits(Hotness(g))'
      BY <1>2, <2>4, <3>1, EndLast
    <3>3. cache'[g] = list BY <1>1, <1>4, <2>1
    <3> QED BY <2>3, <2>4, <3>2, <3>3 DEF HoverAt
  <2>6. ASSUME NEW f \in Files, f # g PROVE HoverAt(f)'
    <3>1. \A n \in 1..Len(Line') : n >= Len(Line) => Line'[n] \notin Hotness(f)
      BY <1>2, <2>3, <2>4, <2>6 DEF Hotness, Is
    <3>2. /\ \A n \in 1..Len(Line') : LastOf(n, Hotness(f))' =>
               n + 1 \in 1..Len(Line) /\ LastOf(n + 1, Hotness(f)) /\ Line'[n] = Line[n + 1]
          /\ Waits(Hotness(f)) => Waits(Hotness(f))' \/ LastOf(1, Hotness(f))
      BY <1>1, <3>1, ShiftLast
    <3>3. ~LastOf(1, Hotness(f)) BY <1>2, <1>9 DEF LastOf, Hotness, Is
    <3>4. cache'[f] = cache[f] /\ shown'[f] = shown[f] BY <1>4, <2>1, <2>6
    <3>5. HoverAt(f) BY <1>3 DEF Hovers
    <3> QED BY <3>2, <3>3, <3>4, <3>5 DEF HoverAt
  <2> QED BY <1>3, <1>9, <2>5, <2>6 DEF Hovers
<1>10. CASE msg.what = "hotness" /\ GotHotness(msg)
  <2>1. /\ inbox' = inbox /\ cache' = cache
        /\ shown' = [shown EXCEPT ![msg.file] = [list |-> First(msg.list), hot |-> msg.profile]]
    BY <1>10 DEF GotHotness
  <2>2. \A n \in 1..Len(Line') : n >= Len(Line) => Line'[n].what # "hotness"
    BY <1>2, <1>5, <2>1
  <2>3. \A f \in Files :
          \/ /\ cache'[f] = cache[f] /\ shown'[f] = shown[f]
             /\ ~Is(Line[1], "hotness", f)
          \/ /\ cache'[f] = cache[f] /\ shown'[f].list = First(Line[1].list)
             /\ Is(Line[1], "hotness", f)
    BY <1>1, <1>2, <1>4, <1>10, <2>1 DEF Is
  <2> QED BY <1>1, <1>3, <2>2, <2>3, HoversShift
<1>11. CASE msg.what = "failed" /\ NotAnalysed
  <2>1. inbox' = inbox /\ cache' = cache /\ shown' = shown
    BY <1>11 DEF NotAnalysed, views
  <2>2. \A n \in 1..Len(Line') : n >= Len(Line) => Line'[n].what # "hotness"
    BY <1>2, <1>5, <2>1
  <2>3. \A f \in Files : /\ cache'[f] = cache[f] /\ shown'[f] = shown[f]
                         /\ ~Is(Line[1], "hotness", f)
    BY <1>2, <1>11, <2>1 DEF Is
  <2> QED BY <1>1, <1>3, <2>2, <2>3, HoversShift
<1> QED BY <1>1, <1>7, <1>8, <1>9, <1>10, <1>11

\* After a reload the line has requests for findings, and nothing else; one is
\* for the active file.
LEMMA ReloadLine ==
  ASSUME Reload
  PROVE  /\ Len(Line') \in Nat /\ \A n \in 1..Len(Line') : Line'[n].what = "get"
         /\ Waits(About(active))'
<1>1. outbox' = <<>> BY DEF Reload
<1>2. Line' = inbox' BY <1>1, ReloadRequests DEF Line
<1>3. \A n \in 1..Len(inbox') : inbox'[n] \in Messages BY ReloadRequests
<1>4. active' = active BY DEF Reload
<1> QED BY <1>2, <1>3, <1>4, ReloadRequests DEF Waits, About

LEMMA HoversStep ==
  ASSUME Types, Hovers, [Next]_vars
  PROVE  Hovers'
<1> USE DEF sidecar, analysing, profiling, history
<1>1. Len(Line) \in Nat BY LineIs
<1>2. ASSUME NEW what \in {"analyse", "get"}, NEW f \in Files, Send(what, f),
             outbox' = outbox, UNCHANGED <<views, dropped>>,
             profile' = profile \/ profile' # None
      PROVE  Hovers'
  <2>1. PICK e \in Messages : inbox' = Append(inbox, e) /\ e.what = what
    BY <1>2, Sends
  <2> QED BY <1>2, <2>1, HoversSend
<1>3. CASE \E f \in Files : Analyse(f)
  BY <1>2, <1>3 DEF Analyse
<1>4. CASE \E p \in Profiles : SetProfile(p)
  <2>1. active \in Files BY DEF Types, TypeOK
  <2> QED BY <1>2, <1>4, <2>1, AnalysisAssumption DEF SetProfile
<1>5. CASE Announce
  <2>1. active \in Files BY DEF Types, TypeOK
  <2> QED BY <1>2, <1>5, <2>1 DEF Announce
<1>6. CASE DropProfile
  BY <1>6 DEF DropProfile, Hovers
<1>7. CASE (\E f \in Files : SwitchEditor(f)) \/ ClearFile \/ UNCHANGED vars
  <2>1. Line' = Line /\ UNCHANGED <<views, dropped, profile>>
    BY <1>7 DEF SwitchEditor, ClearFile, vars, Line
  <2> QED BY <1>1, <2>1, HoversSame
<1>8. CASE Reload
  <2>1. \A f \in Files : ~Waits(Hotness(f))' BY <1>8, ReloadLine DEF Waits, Hotness, Is
  <2>2. \A f \in Files : cache'[f] = {} /\ shown'[f].list = First(cache'[f])
    BY <1>8, FirstOfNone DEF Reload, Blank
  <2>3. \A f \in Files : HoverAt(f)' BY <2>1, <2>2 DEF HoverAt, LastOf, Waits
  <2> QED BY <2>1, <2>3 DEF Hovers
<1>9. CASE AnalyseFileDisabled \/ Ends \/ GetFindings \/ GetFileHotness
  <2>1. UNCHANGED <<views, dropped, profile>>
    BY <1>9 DEF AnalyseFileDisabled, Ends, ParseFails, InsertBulk, EngineThrows,
                InsertBulkThrows, EndAnalysis, GetFindings, GetFileHotness
  <2>2. PICK e : Answered(e) BY <1>9, Answers
  <2>3. /\ Len(Line') = Len(Line)
        /\ \A n \in 1..Len(Line) : /\ Line[n] \in Messages /\ Line'[n] \in Messages
                                   /\ Alike(Line'[n], Line[n])
    BY <2>2, AnsweredLine
  <2>4. ASSUME NEW n \in 1..Len(Line), NEW f \in Files
        PROVE  /\ Line'[n] \in Hotness(f) <=> Line[n] \in Hotness(f)
               /\ Line[n] \in Hotness(f) => Line'[n] = Line[n]
    BY <2>3, AlikeSets DEF Hotness, Is
  <2> QED BY <1>1, <2>1, <2>3, <2>4, HoversSame
<1> QED BY <1>3, <1>4, <1>5, <1>6, <1>7, <1>8, <1>9, HoversReceive DEF Next, Ends

-----------------------------------------------------------------------------
(* The active file                                                         *)

\* A message for the active file ends the line, and is no hotness.
LEMMA ActiveEnd ==
  ASSUME NEW a \in Files, active' = a, Len(Line') \in Nat \ {0},
         Line'[Len(Line')] \in About(a),
         Settled' /\ Line'[Len(Line')].what = "hotness" =>
           Line'[Len(Line')].list = Stored' /\ Line'[Len(Line')].profile = profile'
  PROVE  Active'
<1>1. /\ \A n \in 1..Len(Line') : LastOf(n, About(a))' => n = Len(Line')
      /\ Waits(About(a))'
  BY EndLast
<1> QED BY <1>1 DEF Active

\* The last message for the active file is what it was.
LEMMA ActiveKept ==
  ASSUME Active, NEW a \in Files, active = a, active' = a, Settled' => Settled,
         Settled' => Stored' = Stored /\ profile' = profile,
         \A n \in 1..Len(Line') : LastOf(n, About(a))' =>
           \E k \in 1..Len(Line) : /\ LastOf(k, About(a))
                                   /\ Line'[n].what = "hotness" => Line'[n] = Line[k],
         Settled' => Waits(About(a))' \/ shown'[a] = Shows(Stored, profile)
  PROVE  Active'
<1> SUFFICES ASSUME Settled' PROVE Active' BY DEF Active
<1>1. ASSUME NEW n \in 1..Len(Line'), LastOf(n, About(a))', Line'[n].what = "hotness"
      PROVE  Line'[n].list = Stored' /\ Line'[n].profile = profile'
  BY <1>1 DEF Active
<1> QED BY <1>1 DEF Active

\* Another message leaves or is sent.
LEMMA ActiveShift ==
  ASSUME Types, Active, Shifted, NEW a \in Files, active = a, active' = a,
         UNCHANGED <<rows, missed, profile, announced, switched>>, shown'[a] = shown[a],
         Line[1] \notin About(a),
         \A n \in 1..Len(Line') : n >= Len(Line) => Line'[n] \notin About(a)
  PROVE  Active'
<1>1. Analyses(a) \subseteq About(a) BY DEF Analyses, About
<1>2. /\ \A n \in 1..Len(Line') : LastOf(n, About(a))' =>
           n + 1 \in 1..Len(Line) /\ LastOf(n + 1, About(a)) /\ Line'[n] = Line[n + 1]
      /\ Waits(About(a)) => Waits(About(a))' \/ LastOf(1, About(a))
  BY ShiftLast
<1>3. Waits(Analyses(a)) => Waits(Analyses(a))' \/ LastOf(1, Analyses(a))
  <2>1. \A n \in 1..Len(Line') : n >= Len(Line) => Line'[n] \notin Analyses(a) BY <1>1
  <2> QED BY <2>1, ShiftLast
<1>4. ~LastOf(1, About(a)) /\ ~LastOf(1, Analyses(a)) BY <1>1 DEF LastOf
<1>5. Settled' => Settled BY <1>3, <1>4 DEF Settled
<1>6. Stored' = Stored /\ profile' = profile BY DEF Stored
<1>7. Settled' => Waits(About(a))' \/ shown'[a] = Shows(Stored, profile)
  BY <1>2, <1>4, <1>5 DEF Active
<1> QED BY <1>2, <1>5, <1>6, <1>7, ActiveKept

\* Another message is sent, and none leaves.
LEMMA ActiveSend ==
  ASSUME Types, Active, NEW a \in Files, active = a, active' = a,
         NEW e \in Messages, inbox' = Append(inbox, e), outbox' = outbox, e \notin About(a),
         UNCHANGED <<rows, missed, profile, announced, switched, shown>>
  PROVE  Active'
<1>1. e \notin Analyses(a) BY DEF Analyses, About
<1>2. /\ \A n \in 1..Len(Line') : LastOf(n, About(a))' =>
           n \in 1..Len(Line) /\ LastOf(n, About(a)) /\ Line'[n] = Line[n]
      /\ Waits(About(a))' <=> Waits(About(a))
  BY SendLast
<1>3. Waits(Analyses(a))' <=> Waits(Analyses(a)) BY <1>1, SendLast
<1>4. Settled' => Settled BY <1>3 DEF Settled
<1>5. Stored' = Stored /\ profile' = profile BY DEF Stored
<1>6. Settled' => Waits(About(a))' \/ shown'[a] = Shows(Stored, profile)
  BY <1>2, <1>4 DEF Active
<1> QED BY <1>2, <1>4, <1>5, <1>6, ActiveKept

\* No message moves.
LEMMA ActiveSame ==
  ASSUME Active, NEW a \in Files, active = a, active' = a,
         Len(Line) \in Nat, Len(Line') = Len(Line),
         \A n \in 1..Len(Line) : /\ Line'[n] \in About(a) <=> Line[n] \in About(a)
                                 /\ Line'[n] \in Analyses(a) <=> Line[n] \in Analyses(a)
                                 /\ Line'[n].what = "hotness" => Line'[n] = Line[n],
         rows'[a] = rows[a] \/ a \in missed' \/ Waits(Analyses(a)),
         a \in missed => a \in missed' \/ Waits(Analyses(a)),
         UNCHANGED <<profile, announced, switched, shown>>
  PROVE  Active'
<1>1. /\ \A n \in 1..Len(Line) : LastOf(n, About(a))' <=> LastOf(n, About(a))
      /\ Waits(About(a))' <=> Waits(About(a))
  BY SameLast
<1>2. Waits(Analyses(a))' <=> Waits(Analyses(a)) BY SameLast
<1>3. Settled' => Settled /\ rows'[a] = rows[a] BY <1>2 DEF Settled
<1>4. Settled' => Stored' = Stored BY <1>3 DEF Stored
<1>5. Settled' => Waits(About(a))' \/ shown'[a] = Shows(Stored, profile)
  BY <1>1, <1>3 DEF Active
<1> QED BY <1>1, <1>3, <1>4, <1>5, ActiveKept

\* A request that concerns the active file is sent by itself.
LEMMA ActiveRequest ==
  ASSUME Types, NEW a \in Files, active' = a, NEW e \in Messages, e.file = a,
         e.what = "analyse" \/ e.what = "get",
         inbox' = Append(inbox, e), outbox' = outbox
  PROVE  Active'
<1>1. Len(Line) \in Nat /\ Len(Line') = Len(Line) + 1 /\ Line'[Len(Line')] = e
  BY SendLine
<1>2. Line'[Len(Line')] \in About(a) /\ Line'[Len(Line')].what # "hotness"
  BY <1>1 DEF About
<1> QED BY <1>1, <1>2, ActiveEnd

\* With no analysis of its file behind it, an answer is good.
LEMMA HeadIsFresh ==
  ASSUME Types, Fresh, outbox # <<>>, Head(outbox).file \notin missed,
         \A n \in 2..Len(Line) : Line[n] \notin Analyses(Head(outbox).file)
  PROVE  Good(Head(outbox))
<1>1. Head(outbox) = outbox[1] /\ 1 \in 1..Len(outbox) /\ Len(Line) \in Nat
  BY LineIs DEF Types
<1>2. ~Behind(1, outbox[1].file) BY <1>1 DEF Behind
<1> QED BY <1>1, <1>2 DEF Fresh, Sound

LEMMA ActiveReceive ==
  ASSUME Types, Fresh, Active, Receive
  PROVE  Active'
<1> DEFINE msg == Head(outbox)
<1>1. /\ Shifted /\ msg.file \in Files /\ msg.list \in SUBSET Findings
      /\ \/ msg.what = "analyse" /\ Analysed(msg)
         \/ msg.what = "failed"  /\ NotAnalysed
         \/ msg.what = "get"     /\ GotFindings(msg)
         \/ msg.what = "hotness" /\ GotHotness(msg)
  BY Receives
<1>2. /\ Len(Line) \in Nat \ {0} /\ Len(Line') \in {Len(Line) - 1, Len(Line)}
      /\ msg = Line[1] /\ msg \in Messages
  BY <1>1, ShiftedLine
<1>3. /\ outbox # <<>> /\ outbox' = Tail(outbox)
      /\ UNCHANGED <<rows, missed, active, profile, announced, switched>>
  BY DEF Receive, profiling, history, sidecar, analysing
<1>4. /\ shown \in [Files -> [list : SUBSET Findings, hot : Profiles \cup {None}]]
      /\ profile \in Profiles \cup {None} /\ active \in Files
  BY DEF Types, TypeOK
<1>5. /\ msg.file \notin missed
      /\ \A n \in 2..Len(Line) : Line[n] \notin Analyses(msg.file)
      => (msg.what = "get" => msg.list = rows[msg.file]) /\ msg.what # "failed"
  BY <1>3, HeadIsFresh DEF Good
<1> HIDE DEF msg
<1> PICK a \in Files : a = active BY <1>4
<1>6. inbox' = inbox => Len(Line') = Len(Line) - 1 BY <1>3, ReceiveLine
<1>7. \A e \in Messages : inbox' = Append(inbox, e) =>
        Len(Line') = Len(Line) /\ Line'[Len(Line)] = e
  BY <1>3, ReceiveSendLine
<1>8. CASE msg.file # a
  <2>1. shown'[a] = shown[a]
    BY <1>1, <1>4, <1>8 DEF Analysed, NotAnalysed, GotFindings, GotHotness, views
  <2>2. \/ inbox' = inbox
        \/ \E e \in Messages : inbox' = Append(inbox, e) /\ e.file = msg.file
    <3>1. CASE Analysed(msg) BY <1>1, <3>1, Sends DEF Analysed
    <3>2. CASE GotFindings(msg)
      <4>1. Filtered(msg.list) \in SUBSET Findings BY <1>1, ListTypes
      <4> QED BY <1>1, <1>4, <3>2, <4>1, MessageTypes DEF GotFindings
    <3>3. CASE GotHotness(msg) \/ NotAnalysed BY <3>3 DEF GotHotness, NotAnalysed
    <3> QED BY <1>1, <3>1, <3>2, <3>3
  <2>3. \A n \in 1..Len(Line') : n >= Len(Line) => Line'[n] \notin About(a)
    BY <1>2, <1>6, <1>7, <1>8, <2>2 DEF About
  <2>4. Line[1] \notin About(a) BY <1>2, <1>8 DEF About
  <2> QED BY <1>1, <1>3, <2>1, <2>3, <2>4, ActiveShift
<1>9. CASE msg.file = a /\ msg.what = "analyse" /\ Analysed(msg)
  <2>1. PICK e \in Messages : inbox' = Append(inbox, e) /\ e.what = "get" /\ e.file = a
    BY <1>1, <1>9, Sends DEF Analysed
  <2>2. Len(Line') = Len(Line) /\ Line'[Len(Line)] = e BY <1>7, <2>1
  <2>3. Line'[Len(Line')] \in About(a) /\ Line'[Len(Line')].what # "hotness"
    BY <2>1, <2>2 DEF About
  <2> QED BY <1>2, <1>3, <2>2, <2>3, ActiveEnd
<1>10. CASE msg.file = a /\ msg.what = "get" /\ GotFindings(msg) /\ profile # None
  <2> DEFINE list == Filtered(msg.list)
             e    == Message("hotness", msg.file, list, profile)
  <2>1. inbox' = Append(inbox, e) BY <1>10 DEF GotFindings
  <2>2. list \in SUBSET Findings BY <1>1, ListTypes
  <2> HIDE DEF list
  <2>3. /\ e \in Messages /\ e.what = "hotness" /\ e.file = a /\ e.list = list
        /\ e.profile = profile
    BY <1>1, <1>4, <1>10, <2>2, MessageTypes
  <2> HIDE DEF e
  <2>4. Len(Line') = Len(Line) /\ Line'[Len(Line)] = e BY <1>7, <2>1, <2>3
  <2>5. Line'[Len(Line')] \in About(a) BY <2>3, <2>4 DEF About
  <2>6. ASSUME Settled' PROVE e.list = Stored' /\ e.profile = profile'
    <3>1. ~Waits(Analyses(a))' /\ a \notin missed BY <1>3, <2>6 DEF Settled
    <3>2. Line[1] \notin Analyses(a) BY <1>2, <1>10 DEF Analyses
    <3>3. \A n \in 1..Len(Line') : n >= Len(Line) => Line'[n] \notin Analyses(a)
      BY <1>2, <2>3, <2>4 DEF Analyses
    <3>4. Waits(Analyses(a)) => Waits(Analyses(a))' \/ LastOf(1, Analyses(a))
      BY <1>1, <3>3, ShiftLast
    <3>5. ~Waits(Analyses(a)) BY <3>1, <3>2, <3>4 DEF LastOf
    <3>6. msg.list = rows[a] BY <1>2, <1>5, <1>10, <3>1, <3>5 DEF Waits
    <3> QED BY <1>3, <2>3, <3>6 DEF Stored, list
  <2> QED BY <1>2, <1>3, <2>4, <2>5, <2>6, ActiveEnd
<1>11. ASSUME msg.file = a, msg.what = "get" \/ msg.what = "hotness", inbox' = inbox,
              shown'[a] = Shows(Stored, profile) \/ Waits(About(a))' \/ ~Settled
       PROVE  Active'
  <2>1. \A n \in 1..Len(Line') : n >= Len(Line) => Line'[n] \notin About(a)
    BY <1>2, <1>6, <1>11
  <2>2. \A n \in 1..Len(Line') : LastOf(n, About(a))' =>
          n + 1 \in 1..Len(Line) /\ LastOf(n + 1, About(a)) /\ Line'[n] = Line[n + 1]
    BY <1>1, <2>1, ShiftLast
  <2>3. \A n \in 1..Len(Line') : n >= Len(Line) => Line'[n] \notin Analyses(a)
    BY <1>2, <1>6, <1>11
  <2>4. Waits(Analyses(a)) => Waits(Analyses(a))' \/ LastOf(1, Analyses(a))
    BY <1>1, <2>3, ShiftLast
  <2>5. ~LastOf(1, Analyses(a)) BY <1>2, <1>11 DEF LastOf, Analyses
  <2>6. Settled' => Settled BY <1>3, <2>4, <2>5 DEF Settled
  <2>7. Stored' = Stored BY <1>3 DEF Stored
  <2>8. Settled' => Waits(About(a))' \/ shown'[a] = Shows(Stored, profile)
    BY <1>11, <2>6
  <2> QED BY <1>3, <2>2, <2>6, <2>7, <2>8, ActiveKept
<1>12. CASE msg.file = a /\ msg.what = "get" /\ GotFindings(msg) /\ profile = None
  <2>1. inbox' = inbox /\ shown'[a] = Shows(Filtered(msg.list), None)
    BY <1>4, <1>12 DEF GotFindings, Shows
  <2>2. Settled => msg.list = rows[a] BY <1>2, <1>5, <1>12 DEF Settled, Waits
  <2>3. Settled => shown'[a] = Shows(Stored, profile) BY <1>12, <2>1, <2>2 DEF Stored
  <2> QED BY <1>11, <1>12, <2>1, <2>3
<1>13. CASE msg.file = a /\ msg.what = "hotness" /\ GotHotness(msg)
  <2>1. inbox' = inbox /\ shown'[a] = Shows(msg.list, msg.profile)
    BY <1>4, <1>13 DEF GotHotness, Shows
  <2>2. \A n \in 1..Len(Line') : n >= Len(Line) => Line'[n] \notin About(a)
    BY <1>2, <1>6, <2>1
  <2>3. Waits(About(a)) => Waits(About(a))' \/ LastOf(1, About(a))
    BY <1>1, <2>2, ShiftLast
  <2>4. 1 \in 1..Len(Line) /\ Line[1] \in About(a) BY <1>2, <1>13 DEF About
  <2>5. Waits(About(a)) BY <2>4 DEF Waits
  <2>6. Settled /\ LastOf(1, About(a)) => shown'[a] = Shows(Stored, profile)
    BY <1>2, <1>13, <2>1, <2>4 DEF Active
  <2> QED BY <1>11, <1>13, <2>1, <2>3, <2>5, <2>6
<1>14. CASE msg.file = a /\ msg.what = "failed" /\ NotAnalysed
  <2>1. inbox' = inbox BY <1>14 DEF NotAnalysed
  <2>2. /\ Len(Line') = Len(Line) - 1
        /\ \A n \in 1..(Len(Line) - 1) : Line'[n] = Line[n + 1]
    BY <1>3, <2>1, ReceiveLine
  <2>3. SUFFICES ASSUME Settled' PROVE FALSE BY DEF Active
  <2>4. a \notin missed /\ \A n \in 1..Len(Line') : Line'[n] \notin Analyses(a)
    BY <1>3, <2>3 DEF Settled, Waits
  <2>5. ASSUME NEW n \in 2..Len(Line) PROVE Line[n] \notin Analyses(a)
    <3>1. n - 1 \in 1..(Len(Line) - 1) /\ (n - 1) + 1 = n BY <1>2
    <3>2. Line'[n - 1] = Line[n] BY <2>2, <3>1
    <3> QED BY <2>2, <2>4, <3>1, <3>2
  <2> QED BY <1>5, <1>14, <2>4, <2>5
<1> QED BY <1>1, <1>8, <1>9, <1>10, <1>12, <1>13, <1>14

LEMMA ActiveStep ==
  ASSUME Types, Fresh, Active, [Next]_vars
  PROVE  Active'
<1> USE DEF sidecar, analysing, views, profiling, history
<1>1. Len(Line) \in Nat /\ active \in Files BY LineIs DEF Types, TypeOK
<1> PICK a \in Files : a = active BY <1>1
<1>2. CASE \E f \in Files : Analyse(f)
  <2>1. PICK f \in Files : Send("analyse", f) BY <1>2 DEF Analyse
  <2>2. PICK e \in Messages : /\ inbox' = Append(inbox, e)
                              /\ e.what = "analyse" /\ e.file = f
    BY <2>1, Sends
  <2>3. /\ outbox' = outbox /\ active' = a
        /\ UNCHANGED <<rows, missed, profile, announced, switched, shown>>
    BY <1>2 DEF Analyse
  <2>4. CASE f = a BY <2>2, <2>3, <2>4, ActiveRequest
  <2>5. CASE f # a
    <3>1. e \notin About(a) BY <2>2, <2>5 DEF About
    <3> QED BY <2>2, <2>3, <3>1, ActiveSend
  <2> QED BY <2>4, <2>5
<1>3. CASE (\E p \in Profiles : SetProfile(p)) \/ Announce
  <2>1. Send("get", a) /\ outbox' = outbox /\ active' = a
    BY <1>3 DEF SetProfile, Announce
  <2>2. PICK e \in Messages : inbox' = Append(inbox, e) /\ e.what = "get" /\ e.file = a
    BY <2>1, Sends
  <2> QED BY <2>1, <2>2, ActiveRequest
<1>4. CASE (\E f \in Files : SwitchEditor(f)) \/ DropProfile
  BY <1>4 DEF SwitchEditor, DropProfile, Active, Settled
<1>5. CASE Reload
  <2>1. \A n \in 1..Len(Line') : Line'[n].what = "get" BY <1>5, ReloadLine
  <2>2. active' = active /\ Waits(About(active))' BY <1>5, ReloadLine DEF Reload
  <2> QED BY <2>1, <2>2 DEF Active
<1>6. CASE AnalyseFileDisabled \/ Ends \/ GetFindings \/ GetFileHotness
  <2>1. active' = a /\ UNCHANGED <<profile, announced, switched, shown>>
    BY <1>6 DEF AnalyseFileDisabled, Ends, ParseFails, InsertBulk, EngineThrows,
                InsertBulkThrows, EndAnalysis, GetFindings, GetFileHotness
  <2>2. PICK e : Answered(e) BY <1>6, Answers
  <2>3. /\ Len(outbox) + 1 \in 1..Len(Line) /\ Head(inbox) = Line[Len(outbox) + 1]
        /\ Len(Line') = Len(Line)
        /\ \A n \in 1..Len(Line) : /\ Line[n] \in Messages /\ Line'[n] \in Messages
                                   /\ Alike(Line'[n], Line[n])
    BY <2>2, AnsweredLine
  <2>4. \A n \in 1..Len(Line) : /\ Line'[n] \in About(a) <=> Line[n] \in About(a)
                                /\ Line'[n] \in Analyses(a) <=> Line[n] \in Analyses(a)
                                /\ Line'[n].what = "hotness" => Line'[n] = Line[n]
    BY <2>3, AlikeSets
  <2>5. /\ rows'[a] = rows[a] \/ a \in missed' \/ Waits(Analyses(a))
        /\ a \in missed => a \in missed' \/ Waits(Analyses(a))
    <3>1. CASE AnalyseFileDisabled \/ GetFindings \/ GetFileHotness
      BY <3>1 DEF AnalyseFileDisabled, GetFindings, GetFileHotness
    <3>2. CASE Ends
      <4>1. Changes BY <3>2, Stores
      <4>2. Is(Head(inbox), "analyse", a) => Waits(Analyses(a))
        BY <2>3 DEF Waits, Analyses, Is
      <4> QED BY <4>1, <4>2 DEF Changes
    <3> QED BY <1>6, <3>1, <3>2
  <2> QED BY <1>1, <2>1, <2>3, <2>4, <2>5, ActiveSame
<1>7. CASE ClearFile
  <2>1. /\ Line' = Line /\ active' = a
        /\ UNCHANGED <<profile, announced, switched, shown>>
    BY <1>7 DEF ClearFile, Line
  <2>2. /\ rows'[a] = rows[a] \/ a \in missed' \/ Waits(Analyses(a))
        /\ a \in missed => a \in missed' \/ Waits(Analyses(a))
    <3>1. inbox # <<>> /\ Changes BY <1>7, Stores
    <3>2. /\ Len(outbox) + 1 \in 1..Len(Line) /\ Head(inbox) = Line[Len(outbox) + 1]
          /\ \A n \in 1..Len(Line) : Line[n] \in Messages
      BY <3>1, LineIs DEF Types
    <3>3. Is(Head(inbox), "analyse", a) => Waits(Analyses(a))
      BY <3>2 DEF Waits, Analyses, Is
    <3> QED BY <3>1, <3>3 DEF Changes
  <2> QED BY <1>1, <2>1, <2>2, ActiveSame
<1>8. CASE UNCHANGED vars
  <2>1. /\ Line' = Line /\ active' = a
        /\ UNCHANGED <<rows, missed, profile, announced, switched, shown>>
    BY <1>8 DEF vars, Line
  <2> QED BY <1>1, <2>1, ActiveSame
<1> QED BY <1>2, <1>3, <1>4, <1>5, <1>6, <1>7, <1>8, ActiveReceive DEF Next, Ends

-----------------------------------------------------------------------------
(* The theorems                                                            *)

LEMMA InitInv == Init => AnalysisInv
<1> SUFFICES ASSUME Init PROVE AnalysisInv OBVIOUS
<1>1. inbox = <<>> /\ outbox = <<>> /\ clearing = None BY DEF Init
<1>2. Line = <<>> /\ Len(Line) = 0 BY <1>1 DEF Line
<1>3. Types
  <2>1. Blank \in [list : SUBSET Findings, hot : Profiles \cup {None}] BY DEF Blank
  <2>2. TypeOK BY <1>1, <2>1 DEF Init, TypeOK
  <2> QED BY <1>1, <2>2 DEF Types
<1>4. OneVersion
  <2>1. Files \subseteq Names /\ kept = [n \in Names |-> {}] /\ rows = [n \in Names |-> {}]
    BY AnalysisAssumption DEF Init
  <2> QED BY <2>1 DEF OneVersion
<1>5. Hovers
  <2>1. \A f \in Files : ~Waits(Hotness(f)) BY <1>2 DEF Waits
  <2>2. \A f \in Files : shown[f].list = First(cache[f])
    BY FirstOfNone DEF Init, Blank
  <2>3. \A f \in Files : HoverAt(f) BY <1>2, <2>2 DEF HoverAt
  <2> QED BY <2>1, <2>3 DEF Hovers
<1>6. Fresh BY <1>1 DEF Fresh
<1>7. Active
  <2>1. active \in Files /\ rows[active] = {} /\ profile = None /\ shown[active] = Blank
    BY AnalysisAssumption DEF Init
  <2>2. shown[active] = Shows(Stored, profile)
    BY <2>1, FirstOfNone DEF Blank, Shows, Stored
  <2> QED BY <1>2, <2>2 DEF Active
<1> QED BY <1>3, <1>4, <1>5, <1>6, <1>7 DEF AnalysisInv

\* The inductive invariant: what stands in the line for a file decides what the
\* editor will show of it (findingsProvider.ts:166-250, main.cpp:561-610).
THEOREM AnalysisInvariant == Spec => []AnalysisInv
<1>1. AnalysisInv /\ [Next]_vars => AnalysisInv'
  BY TypesStep, OneVersionStep, HoversStep, FreshStep, ActiveStep DEF AnalysisInv
<1> QED BY InitInv, <1>1, PTL DEF Spec

\* The rows of a file come from one analysis, but for what rules kept of one that
\* threw, wherever analyses overlap and whenever the sidecar dies between clearing
\* and inserting, if the compile command spells the path as the editor does
\* (main.cpp:561-610, engine.cpp:63-88).
THEOREM OneAnalysis == Spec => []OneAnalysisPerFile
<1>1. AnalysisInv => OneAnalysisPerFile
  BY DEF AnalysisInv, Types, OneVersion, Left, OneAnalysisPerFile
<1> QED BY AnalysisInvariant, <1>1, PTL

\* When everything has arrived the file that has been active all along shows the
\* first of what is stored for it, in the profile that is active, unless it missed
\* findings in an analysis that failed or was of another file
\* (findingsProvider.ts:166-250).
THEOREM ActiveFileIsCurrent == Spec => []ActiveIsCurrent
<1>1. AnalysisInv => ActiveIsCurrent
  <2> SUFFICES ASSUME AnalysisInv, Quiescent, ~switched, active \notin missed
               PROVE  shown[active] = Shows(Stored, profile)
    BY DEF ActiveIsCurrent, Shows, Stored
  <2>1. Len(Line) = 0 BY DEF Quiescent, Line
  <2> QED BY <2>1 DEF AnalysisInv, Active, Settled, Waits, Quiescent
<1> QED BY AnalysisInvariant, <1>1, PTL

\* When everything has arrived the diagnostics of every file are the first of
\* what its hovers show, as long as no profile was dropped
\* (findingsProvider.ts:187-250).
THEOREM HoversAndDiagnosticsAgree == Spec => []HoverMatchesDiagnostics
<1>1. AnalysisInv => HoverMatchesDiagnostics
  <2> SUFFICES ASSUME AnalysisInv, Quiescent, ~dropped, NEW f \in Files
               PROVE  shown[f].list = First(cache[f])
    BY DEF HoverMatchesDiagnostics
  <2>1. Len(Line) = 0 BY DEF Quiescent, Line
  <2> QED BY <2>1 DEF AnalysisInv, Hovers, HoverAt, Waits
<1> QED BY AnalysisInvariant, <1>1, PTL

===============================================================================
