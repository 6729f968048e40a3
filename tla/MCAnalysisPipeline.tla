-------------------------- MODULE MCAnalysisPipeline --------------------------
EXTENDS AnalysisPipeline, TLC

CONSTANTS main, util,     \* source files
          relative        \* how util's compile command spells its path

\* One compile command has the path the editor has, the other has not.
MixedSpelling == [f \in Files |-> IF f = main THEN main ELSE relative]

\* A finding the filter drops, and two it keeps, more than are shown: one of a
\* rule that clears itself, and one of a rule that does not.
SomeKinds == {[place |-> 1, level |-> 0, kept |-> FALSE],
              [place |-> 2, level |-> 2, kept |-> TRUE],
              [place |-> 3, level |-> 2, kept |-> FALSE]}

\* The profiles differ in nothing but their name, and no property names one.
ProfileSymmetry == Permutations(Profiles)
===============================================================================
