------------------------------ MODULE PerfScript ------------------------------
(***************************************************************************)
(* The parser of `perf script` text (perf_script_parser.cpp): a sample is  *)
(* a header line and the indented frame lines below it, leaf first.  Only  *)
(* the leaf of a sample is counted.                                        *)
(*                                                                         *)
(* A line is [indent, toks, frame]: whether it starts with a blank, its    *)
(* tokens, and the frame it reads as.  A token is [name, num, colon]: its  *)
(* text without a colon at the end, the number it is, whether the colon is *)
(* there.  A frame is [func, loc] with loc = <<file, line>>, where the line *)
(* may be 0.  None stands for what is missing or does not parse.           *)
(***************************************************************************)
EXTENDS Integers, Sequences, FiniteSets, Functions, FiniteSetsExt

CONSTANT None

\* What a line consists of.
Tokens == [name : STRING, num : Nat \cup {None}, colon : BOOLEAN]
Places == STRING \X Nat
Frames == [func : STRING \cup {None}, loc : Places \cup {None}]

\* What is counted of a function, whose file may be unknown.
FunctionCounts == [self : Nat, file : STRING \cup {None}]

-----------------------------------------------------------------------------
(* Lines                                                                   *)

\* Where a count is followed by "event:".
CountAndEvent(toks) == {i \in 2..Len(toks) : toks[i].colon /\ toks[i - 1].num # None}

\* parseHeader: of several such places the last one is taken.
ParseHeader(l) ==
  IF Len(l.toks) < 4 \/ CountAndEvent(l.toks) = {} THEN None
  ELSE LET i == Max(CountAndEvent(l.toks))
       IN [event |-> l.toks[i].name, count |-> l.toks[i - 1].num]

LooksLikeHeader(l) == ParseHeader(l) # None

\* A header begins a sample only if it is not indented.
Begins(l) == IF l.indent THEN None ELSE ParseHeader(l)

-----------------------------------------------------------------------------
(* Aggregator                                                              *)

NoCounts == [k \in {} |-> 0]
NoSamples == [samples |-> 0, lines |-> NoCounts, funcs |-> NoCounts]

Put(f, k, v) == [x \in DOMAIN f \cup {k} |-> IF x = k THEN v ELSE f[x]]

Add(counts, k, n) == Put(counts, k, n + IF k \in DOMAIN counts THEN counts[k] ELSE 0)

\* A place is counted under its line, if it has one.
HasLine(loc) == loc # None /\ loc[2] > 0

FileOf(leaf) == IF leaf.loc = None THEN None ELSE leaf.loc[1]

\* The file of a function is the first one known.
AddFunc(funcs, k, n, file) ==
  LET old == IF k \in DOMAIN funcs THEN funcs[k] ELSE [self |-> 0, file |-> None]
  IN Put(funcs, k, [self |-> old.self + n,
                    file |-> IF old.file = None THEN file ELSE old.file])

\* Aggregator::record
Record(agg, event, count, frames) ==
  LET leaf == frames[1] IN
  [samples |-> agg.samples + 1,
   lines   |-> IF HasLine(leaf.loc) THEN Add(agg.lines, <<event, leaf.loc>>, count)
               ELSE agg.lines,
   funcs   |-> IF leaf.func = None THEN agg.funcs
               ELSE AddFunc(agg.funcs, <<event, leaf.func>>, count, FileOf(leaf))]

-----------------------------------------------------------------------------
(* ingestPerfScript, the loop                                              *)

\* `sample` is the header of the sample that is being read, if any.
NewParser == [sample |-> None, frames |-> <<>>, agg |-> NoSamples]

Flush(s) ==
  IF s.sample = None \/ s.frames = <<>> THEN s.agg
  ELSE Record(s.agg, s.sample.event, s.sample.count, s.frames)

ParseFrame(s, l) ==
  [s EXCEPT !.frames = IF l.frame = None THEN @ ELSE Append(@, l.frame)]

\* Mutant: the frames of the sample before are not cleared.
ParseLine_KeepsFrames(s, l) ==
  IF l.indent /\ s.sample # None THEN ParseFrame(s, l)
  ELSE [s EXCEPT !.sample = Begins(l), !.agg = Flush(s)]

\* Any line that is no frame of the current sample ends it.
ParseLine(s, l) ==
  IF l.indent /\ s.sample # None THEN ParseFrame(s, l)
  ELSE [sample |-> Begins(l), frames |-> <<>>, agg |-> Flush(s)]

-----------------------------------------------------------------------------
(* What the samples of a text are, said without a parser: every header with *)
(* the first frame among the indented lines that follow it without a gap.  *)

FramesBelow(text, i) ==
  {k \in (i + 1)..Len(text) : /\ text[k].frame # None
                              /\ \A m \in (i + 1)..k : text[m].indent}

SamplesOf(text) == {i \in 1..Len(text) : Begins(text[i]) # None /\ FramesBelow(text, i) # {}}

LeafOf(text, i) == text[Min(FramesBelow(text, i))].frame

CountOver(text, S) == SumFunctionOnSet([i \in S |-> ParseHeader(text[i]).count], S)

At(text, event, loc) ==
  {i \in SamplesOf(text) : ParseHeader(text[i]).event = event /\ LeafOf(text, i).loc = loc}

In(text, event, func) ==
  {i \in SamplesOf(text) : ParseHeader(text[i]).event = event /\ LeafOf(text, i).func = func}

Aggregates(agg, text) ==
  /\ agg.samples = Cardinality(SamplesOf(text))
  /\ DOMAIN agg.lines = {<<ParseHeader(text[i]).event, LeafOf(text, i).loc>> :
                           i \in {j \in SamplesOf(text) : HasLine(LeafOf(text, j).loc)}}
  /\ DOMAIN agg.funcs = {<<ParseHeader(text[i]).event, LeafOf(text, i).func>> :
                           i \in {j \in SamplesOf(text) : LeafOf(text, j).func # None}}
  /\ \A k \in DOMAIN agg.lines : agg.lines[k] = CountOver(text, At(text, k[1], k[2]))
  /\ \A k \in DOMAIN agg.funcs :
       LET samples == In(text, k[1], k[2])
           located == {i \in samples : LeafOf(text, i).loc # None}
       IN /\ agg.funcs[k].self = CountOver(text, samples)
          /\ agg.funcs[k].file = IF located = {} THEN None
                                 ELSE FileOf(LeafOf(text, Min(located)))
===============================================================================
