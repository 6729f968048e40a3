----------------------------- MODULE RemarkParsers -----------------------------
(***************************************************************************)
(* What becomes of a compiler's report: a Clang opt-record file            *)
(* (parser.cpp), the text of GCC's -fopt-info (gcc_parser.cpp), and the    *)
(* category either kind of remark is given (classifier.cpp).               *)
(*                                                                         *)
(* The name of a pass is the sequence of its hyphenated words, a message   *)
(* the sequence of its parts.  A report is [kind, broken, items]: kind is  *)
(* "yaml" or "text", broken says that YAML::LoadAll throws.  An item of a  *)
(* yaml report is a document [map, tag, pass, loc, args], where map is     *)
(* FALSE when it is no mapping, and an argument is [key, scalar, value].   *)
(* An item of a text is a line [match, word, loc, big, message]: whether   *)
(* it matches LINE_RE, and whether a number in it exceeds an int.          *)
(* loc = [file, line] may be None in a document.  Column, function, name   *)
(* and source hash are left out.  The remarks of a report are indexed by   *)
(* the items they come from.                                               *)
(***************************************************************************)
EXTENDS Integers, Sequences, SequencesExt

CONSTANT None

NoLocation == [file |-> None, line |-> 0]

-----------------------------------------------------------------------------
(* classify                                                                *)

Table ==
  << <<<<"loop", "vectorize">>, "Vectorisation">>,
     <<<<"slp", "vectorizer">>, "Vectorisation">>,
     <<<<"loop", "unroll">>, "Unrolling">>,
     <<<<"loop", "delete">>, "LoopTransform">>,
     <<<<"loop", "distribute">>, "LoopTransform">>,
     <<<<"loop", "interchange">>, "LoopTransform">>,
     <<<<"loop", "fusion">>, "LoopTransform">>,
     <<<<"loop", "load", "elim">>, "LoopTransform">>,
     <<<<"inline">>, "Inlining">>,
     <<<<"always", "inline">>, "Inlining">>,
     <<<<"mandatory", "inline">>, "Inlining">>,
     <<<<"licm">>, "Memory">>,
     <<<<"gvn">>, "Memory">>,
     <<<<"memcpyopt">>, "Memory">>,
     <<<<"dce">>, "DeadCode">>,
     <<<<"adce">>, "DeadCode">> >>

\* The second column of row i of a table, or the default if no row was found.
RowOr(table, i, default) == IF i = 0 THEN default ELSE table[i][2]

\* The first prefix that fits decides.
Classify(pass) ==
  RowOr(Table, SelectInSeq(Table, LAMBDA row : IsPrefix(row[1], pass)), "Other")

-----------------------------------------------------------------------------
(* parseClangYamlStream                                                    *)

TypeFromTag(tag) ==
  CASE tag = "!Passed" -> "Passed" [] tag = "!Missed" -> "Missed" [] OTHER -> "Analysis"

\* The arguments that composeMessage and parseArgs go through.
Args(doc) == SelectSeq(doc.args, LAMBDA a : a.scalar /\ a.key # "DebugLoc")

ComposeMessage(doc) == [i \in DOMAIN Args(doc) |-> Args(doc)[i].value]

ParseDocument(doc, build) ==
  [loc |-> IF doc.loc = None THEN NoLocation ELSE doc.loc,
   type |-> TypeFromTag(doc.tag), category |-> Classify(doc.pass),
   message |-> ComposeMessage(doc), build |-> build]

\* An error of the YAML reader loses the file: LoadAll returns nothing.
ParseClangYaml(report, build) ==
  LET docs == {i \in DOMAIN report.items : ~report.broken /\ report.items[i].map}
  IN [i \in docs |-> ParseDocument(report.items[i], build)]

-----------------------------------------------------------------------------
(* parseGccOptInfoStream                                                   *)

TypeFromGccWord(word) ==
  CASE word = "optimized" -> "Passed" [] word = "missed" -> "Missed" [] OTHER -> "Analysis"

Hints == << <<"vectorize", <<"loop", "vectorize">>>>, <<"unrolled", <<"loop", "unroll">>>>,
            <<"inline", <<"inline">>>>, <<"hoisted", <<"licm">>>> >>

GuessPass(message) ==
  RowOr(Hints, SelectInSeq(Hints, LAMBDA row : row[1] \in Range(message)), <<"gcc">>)

ParseGccLine(l, build) ==
  [loc |-> l.loc, type |-> TypeFromGccWord(l.word), message |-> l.message,
   category |-> Classify(GuessPass(l.message)), build |-> build]

\* std::stoi throws for a number too large, and nothing catches it here.
GccThrows(report) == \E i \in DOMAIN report.items : report.items[i].match /\ report.items[i].big

ParseGccOptInfo(report, build) ==
  LET lines == {i \in DOMAIN report.items : report.items[i].match}
  IN [i \in lines |-> ParseGccLine(report.items[i], build)]
===============================================================================
