----------------------------- MODULE MCRemarkTree -----------------------------
EXTENDS RemarkTree

CONSTANTS a, b,                           \* source files
          build, torn, shadow, log, huge  \* reports

Doc(pass, tag, loc) ==
  [map |-> TRUE, pass |-> pass, tag |-> tag, loc |-> loc,
   args |-> <<[key |-> "String", scalar |-> TRUE, value |-> "text"],
              [key |-> "DebugLoc", scalar |-> FALSE, value |-> "place"]>>]

At(file, line) == [file |-> file, line |-> line]

NoDoc == [map |-> FALSE]

YamlReport(broken, items) == [kind |-> "yaml", broken |-> broken, items |-> items]
TextReport(items) == [kind |-> "text", broken |-> FALSE, items |-> items]

TextLine(word, message, file, big) ==
  [match |-> TRUE, word |-> word, loc |-> At(file, 1), big |-> big, message |-> message]

\* A remark without a place, a file that is cut off, and one that the number
\* in its last line makes unreadable.
AllReports ==
  (build :> YamlReport(FALSE, <<NoDoc, Doc(<<"inline">>, "!Missed", At(a, 1)),
                                Doc(<<"prologepilog">>, "!Analysis", None)>>)) @@
  (torn :> YamlReport(TRUE, <<Doc(<<"licm">>, "!Missed", At(a, 2))>>)) @@
  (shadow :> YamlReport(FALSE, <<Doc(<<"loop", "unroll", "and", "jam">>, "!Passed", At(b, 1))>>)) @@
  (log :> TextReport(<<[match |-> FALSE],
                       TextLine("missed", <<"not", "inline">>, a, FALSE),
                       TextLine("note", <<"vectorize", "unrolled">>, b, FALSE)>>)) @@
  (huge :> TextReport(<<TextLine("note", <<"hoisted">>, a, FALSE),
                        TextLine("note", <<"hoisted">>, a, TRUE)>>))
===============================================================================
