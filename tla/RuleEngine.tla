------------------------------ MODULE RuleEngine ------------------------------
(***************************************************************************)
(* The rule engine (rules/engine.cpp) over the files of a project, as      *)
(* main.cpp:362-431 runs it for --sarif, and the report it writes.  The    *)
(* rules live as long as the engine, and each keeps its findings until     *)
(* they are taken; the finder walks the tree of a file and calls all of    *)
(* them at each node.  A handler of the sidecar drives the same engine.    *)
(*                                                                         *)
(* A path is a sequence of pieces, of which "/" is one, so that a path may *)
(* begin with the text of another and not lie below it.  Line, column and  *)
(* words of a finding are left out; its file is what the compile command   *)
(* calls it, and these are absolute paths.                                 *)
(***************************************************************************)
EXTENDS RulePacks

CONSTANTS
  Projects,  \* the files of a project, in the order of its database
  Nodes,     \* nodes that syntax trees may have
  Trees,     \* Trees[f]: syntax trees f may have, as the finder walks them
  Workspace, \* --workspace, a path
  None

ASSUME EngineAssumption ==
  /\ \A p \in Projects : p \in Seq(DOMAIN Trees)
  /\ \A f \in DOMAIN Trees : Trees[f] \subseteq Seq(Nodes)
  /\ \A n \in Nodes : /\ n.kind \in {"return", "break"} => n.above \in Seq(Constructs)
                      /\ n.kind = "record" => n.fields \in Seq(Range(n.fields))

ASSUME LayoutAssumption ==
  \A n \in Nodes : n.kind = "record" =>
    /\ n.head \in Nat
    /\ \A i \in DOMAIN n.fields :
         /\ n.fields[i].bits \in Nat
         /\ n.fields[i].type.size \in Nat /\ n.fields[i].type.align \in Nat \ {0}

ASSUME PathAssumption ==
  /\ Workspace \in Seq(Range(Workspace))
  /\ \A f \in DOMAIN Trees : f \in Seq(Range(f)) /\ f # <<>> /\ Head(f) = "/"

VARIABLES
  files,    \* the files that are left to analyse, the current one first
  state,    \* "loading", "between", "walking", "written" or "failed"
  findings, \* findings[r]: _findings of the rule r
  tree,     \* the nodes of the current file that are still to be visited
  seen,     \* history: those that were
  batches,  \* all_findings, by the analysis they came from
  threw,    \* history: an analysis threw, and nothing was taken since
  report    \* the document, or None

vars == <<files, state, findings, tree, seen, batches, threw, report>>

Init ==
  /\ files \in Projects
  /\ state = "loading"
  /\ findings = [r \in DOMAIN Rules |-> <<>>]
  /\ tree = <<>> /\ seen = <<>> /\ batches = <<>> /\ threw = FALSE /\ report = None

-----------------------------------------------------------------------------

\* AstProject finds a database that it can load.
LoadProject ==
  /\ state = "loading" /\ state' = "between"
  /\ UNCHANGED <<files, findings, tree, seen, batches, threw, report>>

\* It finds none and throws.
NoProject ==
  /\ state = "loading" /\ state' = "failed"
  /\ UNCHANGED <<files, findings, tree, seen, batches, threw, report>>

\* These do not clear what they keep when they are registered.
KeepingRules == {"hotpath.std-function", "hotpath.virtual-dispatch",
                 "vec.aliasing", "concurrency.mutex-where-atomic"}

\* Mutant: none of the rules clears anything.
RegisterMatchers_KeepAll == UNCHANGED findings

\* registerMatchers of every rule.
RegisterMatchers ==
  findings' = [r \in DOMAIN Rules |->
                 IF Rules[r] \in KeepingRules THEN findings[r] ELSE <<>>]

\* analyseFile begins, and the file parses.
StartFile ==
  /\ state = "between" /\ files # <<>>
  /\ RegisterMatchers
  /\ tree' \in Trees[Head(files)] /\ seen' = <<>>
  /\ state' = "walking"
  /\ UNCHANGED <<files, batches, threw, report>>

\* A file without a compile command, or one that Clang gives no tree for: the
\* engine returns nothing and takes nothing from the rules.
ParseFails ==
  /\ state = "between" /\ files # <<>>
  /\ RegisterMatchers
  /\ batches' = Append(batches, [file |-> Head(files), seen |-> <<>>, found |-> <<>>,
                                 complete |-> FALSE, after |-> threw])
  /\ files' = Tail(files)
  /\ UNCHANGED <<state, tree, seen, threw, report>>

\* Each finding carries the name of the file.
Signed(r, verdict) ==
  [k \in DOMAIN verdict |-> [rule |-> Rules[r], file |-> Head(files),
                             level |-> verdict[k].level, about |-> verdict[k].about]]

\* The finder comes to the next node and runs the callbacks.
Visit ==
  /\ state = "walking" /\ tree # <<>>
  /\ tree' = Tail(tree) /\ seen' = Append(seen, Head(tree))
  /\ LET verdicts == Verdicts(Head(tree)) IN
       findings' = [r \in DOMAIN Rules |-> findings[r] \o Signed(r, verdicts[r])]
  /\ UNCHANGED <<files, state, batches, threw, report>>

\* analyseFile throws, and the file is skipped.
Throw ==
  /\ state = "walking" /\ state' = "between"
  /\ files' = Tail(files)
  /\ batches' = Append(batches, [file |-> Head(files), seen |-> seen, found |-> <<>>,
                                 complete |-> FALSE, after |-> threw])
  /\ threw' = TRUE /\ tree' = <<>> /\ seen' = <<>>
  /\ UNCHANGED <<findings, report>>

\* takeFindings of every rule (AllFindings has them in the rules' order).
TakeFindings ==
  /\ state = "walking" /\ tree = <<>> /\ state' = "between"
  /\ files' = Tail(files)
  /\ batches' = Append(batches, [file |-> Head(files), seen |-> seen,
                                 found |-> findings,
                                 complete |-> TRUE, after |-> threw])
  /\ findings' = [r \in DOMAIN Rules |-> <<>>]
  /\ threw' = FALSE /\ seen' = <<>>
  /\ UNCHANGED <<tree, report>>

-----------------------------------------------------------------------------
(* The report.                                                             *)

AllFindings == FlattenSeq([b \in DOMAIN batches |-> FlattenSeq(batches[b].found)])

Level(f) == IF f.level = Low THEN "note" ELSE "warning"

\* A rule is listed when it is first seen, with the level of that finding.
ListRule(listed, f) ==
  IF \E k \in DOMAIN listed : listed[k].id = f.rule THEN listed
  ELSE Append(listed, [id |-> f.rule, level |-> Level(f)])

\* Mutant: the slash after the workspace stays.
RelPath_KeepsSlash(path) ==
  IF Workspace # <<>> /\ IsPrefix(Workspace, path)
    THEN SubSeq(path, Len(Workspace) + 1, Len(path)) ELSE path

\* What begins with the text of the workspace loses it, and then one slash.
RelPath(path) ==
  IF Workspace # <<>> /\ IsPrefix(Workspace, path)
    THEN LET rest == SubSeq(path, Len(Workspace) + 1, Len(path)) IN
           IF rest # <<>> /\ Head(rest) = "/" THEN Tail(rest) ELSE rest
    ELSE path

\* The rules of all findings, one finding after the other.
ListRules(all) ==
  LET listed[k \in 0..Len(all)] ==
        IF k = 0 THEN <<>> ELSE ListRule(listed[k - 1], all[k])
  IN listed[Len(all)]

\* findings_to_sarif.
Sarif(all) ==
  [rules   |-> ListRules(all),
   results |-> [k \in DOMAIN all |-> [rule |-> all[k].rule, level |-> Level(all[k]),
                                      uri |-> RelPath(all[k].file)]],
   base    |-> Workspace \o <<"/">>]

WriteReport ==
  /\ state = "between" /\ files = <<>>
  /\ report' = Sarif(AllFindings) /\ state' = "written"
  /\ UNCHANGED <<files, findings, tree, seen, batches, threw>>

\* The output cannot be opened, or a path is not UTF-8 and dump() throws.
CannotWrite ==
  /\ state = "between" /\ files = <<>>
  /\ state' = "failed"
  /\ UNCHANGED <<files, findings, tree, seen, batches, threw, report>>

Next == \/ LoadProject \/ NoProject \/ StartFile \/ ParseFails \/ Visit
        \/ Throw \/ TakeFindings \/ WriteReport \/ CannotWrite

Spec == Init /\ [][Next]_vars

-----------------------------------------------------------------------------

TypeOK ==
  /\ state \in {"loading", "between", "walking", "written", "failed"}
  /\ DOMAIN findings = DOMAIN Rules
  /\ state = "walking" => seen \o tree \in Trees[Head(files)]
  /\ state # "walking" => tree = <<>> /\ seen = <<>>
  /\ threw \in BOOLEAN
  /\ state # "written" => report = None

\* What the rule reports at the nodes of one analysis, in the order of the walk.
OwnFindings(r, b) ==
  FlattenSeq([k \in DOMAIN b.seen |->
    LET verdict == Verdicts(b.seen[k])[r] IN
      [j \in DOMAIN verdict |-> [rule |-> Rules[r], file |-> b.file,
                                 level |-> verdict[j].level,
                                 about |-> verdict[j].about]]])

\* The variables have their types, and what an analysis takes from a rule is
\* what the rule found in this file, none missing, none twice and none of
\* another file, although the rules outlive the analyses and an analysis may
\* end without taking anything.  After one that threw, the four rules that do
\* not clear at registration may give older findings first, and no other rule
\* may (rules/engine.cpp:62-87, main.cpp:395-406).
FindingsAreOwn ==
  /\ TypeOK
  /\ \A b \in Range(batches), r \in DOMAIN Rules :
       b.complete =>
         IF b.after /\ Rules[r] \in KeepingRules
           THEN IsSuffix(OwnFindings(r, b), b.found[r])
           ELSE b.found[r] = OwnFindings(r, b)

\* The statement leaves a loop of the function it is in: the innermost thing a
\* break can leave is a loop; a return has a loop between it and its function.
LeavesLoop(n) ==
  \E i \in DOMAIN n.above :
    /\ n.above[i] = "loop"
    /\ LET inside == {n.above[j] : j \in 1..(i - 1)} IN
         IF n.kind = "break" THEN inside \cap {"loop", "switch"} = {}
                             ELSE inside \cap {"lambda", "method"} = {}

\* The node that was visited last.
Visited == IF seen = <<>> THEN {} ELSE {Last(seen)}

\* What is reported as an early exit is one, in whatever nest of loops,
\* switches and lambdas it stands; a return is excepted in a member function of
\* a class that is declared in a loop (vec/complex_cf.cpp:18-20, 64-87).
EarlyExitIsReal ==
  \A n \in Visited :
    n.kind \in {"return", "break"} /\ ComplexCf(n) # <<>> =>
      LeavesLoop(n) \/ (n.kind = "return" /\ Contains(n.above, "method"))

\* The bits of the record that the field occupies.
Bits(n, i) ==
  LET first == Layout(n).at[i] IN first..(first + Width(n.fields[i]) - 1)

Reported(verdict) == {verdict[k].about : k \in DOMAIN verdict}

\* Of a struct without bases, padding is reported exactly if four bytes and
\* more of its bits belong to no field, and as many bytes as that; a field that
\* is no bit-field is reported exactly if it has a name and two cache lines hold
\* bits of it (padding_detected.cpp:22-59, cache_line_straddle.cpp:40-57).
LayoutFindingsAreExact ==
  \A n \in Visited : n.kind = "record" =>
    LET free == 8 * Layout(n).size
                  - Cardinality(UNION {Bits(n, i) : i \in DOMAIN n.fields})
    IN /\ n.head = 0 /\ n.tag = "struct" =>
            Reported(PaddingDetected(n)) = IF free >= 32 THEN {free \div 8} ELSE {}
       /\ \A i \in DOMAIN n.fields : n.fields[i].bits = 0 =>
            (i \in Reported(CacheLineStraddle(n)) <=>
               /\ n.fields[i].named
               /\ Cardinality({bit \div (8 * CacheLine) : bit \in Bits(n, i)}) > 1)

\* How a reader of the report finds the file.
Resolve(uri) == IF Head(uri) = "/" THEN uri ELSE report.base \o uri

\* The path has the text of the workspace in front, and not one slash and a
\* name after that: it lies beside the workspace, or below it by two slashes.
Misread(path) ==
  /\ IsPrefix(Workspace, path)
  /\ LET rest == SubSeq(path, Len(Workspace) + 1, Len(path)) IN
       ~(Len(rest) > 1 /\ rest[1] = "/" /\ rest[2] # "/")

\* A report says where each finding is, and lists its rule once and with the
\* level of the finding; the rules it lists have findings.  Files are lost that
\* lie beside the workspace with names that go on where its name ends, or are
\* named with two slashes (main.cpp:55-116, the test of the prefix at 76).
ReportResolves ==
  state = "written" =>
    /\ Len(report.results) = Len(AllFindings)
    /\ \A k \in DOMAIN report.results :
         LET result == report.results[k]
             file == AllFindings[k].file
             listed == {j \in DOMAIN report.rules : report.rules[j].id = result.rule}
         IN /\ Cardinality(listed) = 1
            /\ \A j \in listed : report.rules[j].level = result.level
            /\ Misread(file) \/ Resolve(result.uri) = file
    /\ \A j \in DOMAIN report.rules : \E k \in DOMAIN report.results :
         report.results[k].rule = report.rules[j].id
===============================================================================
