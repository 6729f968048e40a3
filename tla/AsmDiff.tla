------------------------------- MODULE AsmDiff --------------------------------
(***************************************************************************)
(* Two compiler listings are cleaned (asm_parser.cpp) and compared         *)
(* instruction by instruction (diff_engine.cpp).  The parser takes a       *)
(* listing line by line; an action is one turn of its loop.                *)
(*                                                                         *)
(* A line is [kind, ...]: "loc" with the source line and column it names   *)
(* (line 0 if it does not parse), "noise" (a directive that is dropped, a  *)
(* blank line, a lone comment), "label", or "instr" with what it is after  *)
(* normalisation (norm), whether isVectorInstr finds a vector register in  *)
(* that (seen), and the width detectVectorWidth finds in it.  The file a   *)
(* .loc names is read and ignored, so it is no part of a line.             *)
(***************************************************************************)
EXTENDS Integers, Sequences, FiniteSets, SequencesExt

CONSTANTS Lines,        \* the lines a listing may have
          MaxLines      \* bounds on the lengths of the two listings

VARIABLES raw,          \* history: the lines of the listing that was read
          clean,        \* clean_lines
          range,        \* range_start, range_src_line, current_src_col
          sourceMap,    \* out.source_map
          phase,        \* "reading", or "parsed" when the stream is at its end
          listings      \* the listings that are parsed: [instrs, width]

asmVars == <<raw, clean, range, sourceMap, phase, listings>>

NoRange == [start |-> 0, line |-> 0, column |-> 0]

AsmInit == /\ raw = <<>> /\ clean = <<>> /\ sourceMap = <<>>
        /\ range = NoRange /\ phase = "reading" /\ listings = <<>>

-----------------------------------------------------------------------------
(* parseAssembly                                                           *)

\* flush_mapping: nothing before the first .loc, and nothing for a .loc that
\* no line follows.  Indices of clean_lines start at 0.
Flush ==
  IF range.line > 0 /\ Len(clean) > range.start
    THEN Append(sourceMap, [first |-> range.start, last |-> Len(clean) - 1,
                            line |-> range.line, column |-> range.column])
    ELSE sourceMap

Read(l) ==
  /\ phase = "reading" /\ Len(raw) < MaxLines[Len(listings) + 1]
  /\ raw' = Append(raw, l)

\* Mutant: the range starts anew without being flushed if the line is the same.
ReadLoc_SameLine(l) ==
  /\ Read(l) /\ l.kind = "loc" /\ l.line > 0
  /\ sourceMap' = IF l.line = range.line THEN sourceMap ELSE Flush
  /\ range' = [start |-> Len(clean), line |-> l.line, column |-> l.column]
  /\ UNCHANGED <<clean, phase, listings>>

ReadLoc(l) ==
  /\ Read(l) /\ l.kind = "loc" /\ l.line > 0
  /\ sourceMap' = Flush
  /\ range' = [start |-> Len(clean), line |-> l.line, column |-> l.column]
  /\ UNCHANGED <<clean, phase, listings>>

Drop(l) ==
  /\ Read(l) /\ (l.kind = "noise" \/ (l.kind = "loc" /\ l.line = 0))
  /\ UNCHANGED <<clean, range, sourceMap, phase, listings>>

Keep(l) ==
  /\ Read(l) /\ l.kind \in {"label", "instr"}
  /\ clean' = Append(clean, l)
  /\ UNCHANGED <<range, sourceMap, phase, listings>>

EndOfListing ==
  /\ phase = "reading" /\ phase' = "parsed" /\ sourceMap' = Flush
  /\ UNCHANGED <<raw, clean, range, listings>>

ExtractInstructions(lines) ==
  FlattenSeq([i \in DOMAIN lines |->
                IF lines[i].kind = "instr" THEN <<lines[i]>> ELSE <<>>])

\* detectVectorWidth: the widest register of the text, 1 if there is none.
DetectVectorWidth(instrs) == Max({1} \cup {instrs[n].width : n \in 1..Len(instrs)})

\* The result is kept, and the other listing is compiled.
Parsed ==
  /\ phase = "parsed" /\ Len(listings) < 2
  /\ LET instrs == ExtractInstructions(clean) IN
     listings' = Append(listings, [instrs |-> instrs, width |-> DetectVectorWidth(instrs)])
  /\ IF Len(listings) = 0
       THEN /\ raw' = <<>> /\ clean' = <<>> /\ sourceMap' = <<>>
            /\ range' = NoRange /\ phase' = "reading"
       ELSE UNCHANGED <<raw, clean, range, sourceMap, phase>>

AsmNext == (\E l \in Lines : ReadLoc(l) \/ Drop(l) \/ Keep(l)) \/ EndOfListing \/ Parsed

AsmSpec == AsmInit /\ [][AsmNext]_asmVars

-----------------------------------------------------------------------------
(* diffInstructions                                                        *)

Same(x, y) == x.norm = y.norm

\* A row of the table, from its left end; up is the row above it.
LcsRow(a, b, i, up) ==
  LET row[j \in 0..Len(b)] ==
        IF i = 0 \/ j = 0 THEN 0
        ELSE IF Same(a[i], b[j]) THEN up[j - 1] + 1
        ELSE Max({up[j], row[j - 1]})
  IN row

LcsTable(a, b) ==
  LET dp[i \in 0..Len(a)] == LcsRow(a, b, i, IF i = 0 THEN <<>> ELSE dp[i - 1])
  IN dp

Unchanged(x, y) == [kind |-> "unchanged", before |-> <<x>>, after |-> <<y>>, category |-> ""]
Added(y) == [kind |-> "added", before |-> <<>>, after |-> <<y>>,
             category |-> IF y.seen THEN "vectorised" ELSE ""]
Removed(x, improved) ==
  [kind |-> "removed", before |-> <<x>>, after |-> <<>>,
   category |-> IF ~x.seen /\ improved THEN "eliminated" ELSE ""]

\* Mutant: the comparison is turned round.
StepsLeft_Turned(dp, i, j) == j > 0 /\ (i = 0 \/ dp[i][j - 1] <= dp[i - 1][j])

\* Whether the walk leaves the cell for the one to its left.
StepsLeft(dp, i, j) == j > 0 /\ (i = 0 \/ dp[i][j - 1] >= dp[i - 1][j])

\* Mutant: the walk ends at the first border it reaches.
WalkRow_StopsAtBorder(a, b, improved, dp, i, up) ==
  LET row[j \in 0..Len(b)] ==
        IF i = 0 \/ j = 0 THEN <<>>
        ELSE IF Same(a[i], b[j]) THEN Append(up[j - 1], Unchanged(a[i], b[j]))
        ELSE IF StepsLeft(dp, i, j) THEN Append(row[j - 1], Added(b[j]))
        ELSE Append(up[j], Removed(a[i], improved))
  IN row

\* The changes that a walk through the table from a cell of the row to the
\* first one makes; they come out in the order of the listings.
WalkRow(a, b, improved, dp, i, up) ==
  LET row[j \in 0..Len(b)] ==
        IF i = 0 /\ j = 0 THEN <<>>
        ELSE IF i > 0 /\ j > 0 /\ Same(a[i], b[j])
          THEN Append(up[j - 1], Unchanged(a[i], b[j]))
        ELSE IF StepsLeft(dp, i, j) THEN Append(row[j - 1], Added(b[j]))
        ELSE Append(up[j], Removed(a[i], improved))
  IN row

Changes(a, b, improved) ==
  LET dp == LcsTable(a, b)
      walk[i \in 0..Len(a)] ==
        WalkRow(a, b, improved, dp, i, IF i = 0 THEN <<>> ELSE walk[i - 1])
  IN walk[Len(a)][Len(b)]

DiffInstructions(before, after) ==
  Changes(before.instrs, after.instrs, after.width > before.width)

-----------------------------------------------------------------------------
(* Properties                                                              *)

AsmTypeOK == /\ raw \in Seq(Lines) /\ clean \in Seq(Lines)
          /\ range.start \in 0..Len(clean) /\ phase \in {"reading", "parsed"}
          /\ Len(listings) <= 2

Kept(l) == l.kind \in {"label", "instr"}
Locs == {i \in 1..Len(raw) : raw[i].kind = "loc" /\ raw[i].line > 0}

\* How many of the first n lines are kept.
KeptUpTo(n) == Cardinality({m \in 1..n : Kept(raw[m])})

\* The lines that a .loc is about: up to the next one.
Until(i) == IF \E j \in Locs : j > i THEN Min({j \in Locs : j > i}) ELSE Len(raw) + 1

\* The variables have their types, and the map of the parsed listing is what
\* its .loc lines say, said without a parser: one range for each .loc with a
\* line of its own, from the first of its lines to the last, in order; so
\* ranges neither overlap nor leave a gap after the first.  The panel
\* highlights by them.
SourceMapIsExact ==
  AsmTypeOK /\ (phase = "parsed" =>
    /\ ToSet(sourceMap) =
         {[first |-> KeptUpTo(i), last |-> KeptUpTo(Until(i) - 1) - 1,
           line |-> raw[i].line, column |-> raw[i].column] :
            i \in {j \in Locs : KeptUpTo(Until(j) - 1) > KeptUpTo(j)}}
    /\ \A m \in 2..Len(sourceMap) : sourceMap[m].first = sourceMap[m - 1].last + 1)

Diff == DiffInstructions(listings[1], listings[2])

\* The left column of the diff is the listing before and the right one the
\* listing after, line by line: nothing is lost, invented or moved.
DiffIsFaithful ==
  Len(listings) = 2 =>
    /\ FlattenSeq([n \in 1..Len(Diff) |-> Diff[n].before]) = listings[1].instrs
    /\ FlattenSeq([n \in 1..Len(Diff) |-> Diff[n].after])  = listings[2].instrs

\* Ways to take k instructions out of a listing, as their positions in order.
Picks(s, k) == {p \in [1..k -> 1..Len(s)] : \A m, n \in 1..k : m < n => p[m] < p[n]}

HaveCommon(a, b, k) ==
  \E p \in Picks(a, k), q \in Picks(b, k) : \A n \in 1..k : Same(a[p[n]], b[q[n]])

\* No diff shows more of the code as unchanged: if it did, the listings would
\* have a longer subsequence in common.
DiffIsShortest ==
  Len(listings) = 2 =>
    LET kept == Cardinality({n \in 1..Len(Diff) : Diff[n].kind = "unchanged"})
    IN ~HaveCommon(listings[1].instrs, listings[2].instrs, kept + 1)
===============================================================================
