---------------------------- MODULE MCProfileStore ----------------------------
EXTENDS ProfileStore

Word(w)  == [name |-> w, num |-> None, colon |-> FALSE]
Number(n) == [name |-> "n", num |-> n, colon |-> FALSE]
Colon(w) == [name |-> w, num |-> None, colon |-> TRUE]

CONSTANT given      \* the id in a metadata record

Misses == "L1-dcache-load-misses"

\* comm, pid, cpu, timestamp:, count, event:
Header(event, count) ==
  <<Word("comm"), Number(7), Word("[000]"), Colon("1.5"), Number(count), Colon(event)>>

HeaderLine(event, count) ==
  [indent |-> FALSE, frame |-> None, toks |-> Header(event, count)]

\* A header with blanks before it also reads as a frame, of a function "7".
IndentedHeader ==
  [indent |-> TRUE, frame |-> [func |-> "7", loc |-> None], toks |-> Header("cycles", 1)]

FrameLine(func, loc) ==
  [indent |-> TRUE, toks |-> <<>>, frame |-> [func |-> func, loc |-> loc]]

Samples == {IndentedHeader, HeaderLine("cycles", 1), HeaderLine("branch-misses", 12),
            FrameLine("f", <<"a.cpp", 1>>), FrameLine("f", None),
            FrameLine("g", <<"a.cpp", 0>>), FrameLine(None, <<"a.cpp", 1>>),
            [indent |-> TRUE,  toks |-> <<>>, frame |-> None],
            [indent |-> FALSE, toks |-> <<>>, frame |-> None]}

Line(event, n, self) ==
  [type |-> "line", key |-> <<event, <<"a.cpp", n>>>>, value |-> self,
   valid |-> n > 0 /\ self > 0]

Function(func, self) ==
  [type |-> "function", key |-> <<"cycles", func>>, valid |-> TRUE,
   value |-> [self |-> self, file |-> "a.cpp"]]

Records == {[type |-> "metadata", id |-> given, total |-> 0],
            [type |-> "metadata", id |-> None, total |-> 5],
            Line("cycles", 1, 7), Line("cycles", 2, 25), Line("cycles", 0, 1),
            Line(Misses, 1, 1), Line(Misses, 2, 6), Line("LLC-load-misses", 1, 12),
            Function("f", 12), Function("g", 1),
            [type |-> "junk"], [type |-> "mistyped"]}

Tools == {{}, {"perf"}, {"perf-importer", "pprof-importer"}}
===============================================================================
