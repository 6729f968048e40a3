----------------------------- MODULE ProfileStore -----------------------------
(***************************************************************************)
(* The profile database of the sidecar (profile/store.cpp) and the import  *)
(* of profiles into it (main.cpp, perf_script_parser.cpp).                 *)
(*                                                                         *)
(* The tables are functions on primary keys.  A hotness row's key is the   *)
(* profile and <<event, <<file, line>>>> or <<event, function>>.  Every    *)
(* action ends with at most one commit, so that a crash between two        *)
(* actions leaves what the commits before it wrote.                        *)
(***************************************************************************)
EXTENDS PerfScript, ProfileRules, SequencesExt

CONSTANTS
  GivenIds,       \* profile ids that a metadata record may carry
  Files,
  PerfLines,      \* lines of `perf script` text
  JsonLines,      \* lines of an NDJSON stream
  Installations,  \* which of the three tools may be installed together
  Half,           \* 2^63: half of the numbers that a uint64_t holds
  MaxImports,     \* bound on imports
  MaxLines        \* bound on the lines read, over all imports

\* Lines of text are cut into tokens, a count is what a uint64_t holds once it
\* is read, and what is missing is none of the things that may be there.
ASSUME InputAssumption ==
  /\ None \notin STRING /\ None \notin Places /\ None \notin Nat
  /\ None \notin [event : STRING, count : Nat]
  /\ None \notin [self : Nat, total : Nat]
  /\ None \notin Frames
  /\ PerfLines \subseteq [indent : BOOLEAN, toks : Seq(Tokens), frame : Frames \cup {None}]
  /\ \A l \in JsonLines :
       /\ l.type = "line" /\ l.valid => l.key \in STRING \X Places /\ l.value \in Nat
       /\ l.type = "function" /\ l.valid =>
            l.key \in STRING \X STRING /\ l.value \in FunctionCounts
       /\ l.type = "metadata" => l.id \in GivenIds \cup {None} /\ l.total \in Int
  /\ MaxImports \in Nat /\ IsFiniteSet(Files) /\ Half \in Nat \ {0}

VARIABLES
  profiles,       \* profiles: id -> total_samples
  lineRows,       \* line_hotness: <<id, key>> -> self_count
  funcRows,       \* function_hotness: <<id, key>> -> [self, file]
  hashes,         \* source_hashes: <<id, file>> -> the hash
  job,            \* the import that is running
  stdin,          \* whether the extension holds the other end of stdin
  imports, read,  \* how many imports began; how many lines were read
  ledger          \* history: the rows of the import that created a profile

tables == <<profiles, lineRows, funcRows, hashes>>
bounds == <<imports, read>>
vars   == <<tables, job, stdin, bounds, ledger>>

Idle == [pc |-> "idle", id |-> None, total |-> 0, rows |-> <<>>, frows |-> <<>>,
         text |-> <<>>, parser |-> NewParser]

Init ==
  /\ profiles = NoCounts /\ lineRows = NoCounts
  /\ funcRows = NoCounts /\ hashes = NoCounts
  /\ job = Idle /\ stdin = "open" /\ imports = 0 /\ read = 0 /\ ledger = NoCounts

-----------------------------------------------------------------------------
(* Statements                                                              *)

\* Mutant: PRAGMA foreign_keys is left off.
Cascade_Off(id, table) == table

\* ON DELETE CASCADE.
Cascade(id, table) == Restrict(table, {k \in DOMAIN table : k[1] # id})

\* The rows under id that a sequence of INSERT OR REPLACE leaves.
Keys(id, rows) == {<<id, rows[n].key>> : n \in 1..Len(rows)}

LastValue(key, rows) ==
  rows[CHOOSE n \in 1..Len(rows) :
         /\ rows[n].key = key
         /\ \A m \in (n + 1)..Len(rows) : rows[m].key # key].value

\* One transaction; a row whose profile does not exist fails and is skipped.
Insert(id, rows, table) ==
  IF id \notin DOMAIN profiles THEN table
  ELSE [k \in DOMAIN table \cup Keys(id, rows) |->
          IF k \in Keys(id, rows) THEN LastValue(k[2], rows) ELSE table[k]]

Delete(id) ==
  /\ lineRows' = Cascade(id, lineRows)
  /\ funcRows' = Cascade(id, funcRows)
  /\ hashes'   = Cascade(id, hashes)

\* createProfile: INSERT OR REPLACE, which deletes the row that was there.
CreateProfile(id, total) == profiles' = Put(profiles, id, total) /\ Delete(id)

\* generateId: no id twice.
NewId == Cardinality(DOMAIN ledger \ GivenIds) + 1

-----------------------------------------------------------------------------
(* importProfile                                                           *)

\* What reads the file, by its extension and by what is installed.
Reader(ext, installed) ==
  IF ext = "pprof"
    THEN IF "pprof-importer" \in installed THEN "ndjson" ELSE "open"
  ELSE IF "perf-importer" \in installed THEN "stdin"
  ELSE IF "perf" \in installed THEN "script" ELSE "open"

ImportProfile(ext, installed) ==
  /\ job.pc = "idle" /\ stdin = "open" /\ imports < MaxImports
  /\ imports' = imports + 1
  /\ job' = [Idle EXCEPT !.pc = Reader(ext, installed)]
  /\ UNCHANGED <<tables, stdin, read, ledger>>

\* The built-in parsers open the file themselves, and throw if they cannot.
Open ==
  /\ job.pc = "open"
  /\ \E pc \in {"sniff", "idle"} : job' = [job EXCEPT !.pc = pc]
  /\ UNCHANGED <<tables, stdin, bounds, ledger>>

\* Who reads a file or a pipe still has its own stdin.
ReadOne ==
  /\ stdin = "open" /\ read < MaxLines
  /\ read' = read + 1 /\ UNCHANGED imports

\* The loop of ingestPerfScript.  looksLikePerfScript has looked at the first
\* line that is not empty, and at no other.
ReadPerf(l) ==
  /\ job.pc = "script" \/ (job.pc = "sniff" /\ LooksLikeHeader(l))
  /\ ReadOne
  /\ job' = [job EXCEPT !.pc = "script", !.text = Append(@, l),
                        !.parser = ParseLine(@, l)]
  /\ UNCHANGED <<tables, stdin, ledger>>

AsRows(counts) == {[key |-> k, value |-> counts[k]] : k \in DOMAIN counts}

\* The end of the text: the last sample, then createProfile.
EndPerf ==
  /\ job.pc = "script"
  /\ LET agg == Flush(job.parser)
     IN /\ CreateProfile(NewId, agg.samples)
        /\ job' = [job EXCEPT !.pc = "lines", !.id = NewId, !.total = agg.samples,
                              !.parser.agg = agg,
                              !.rows  = SetToSeq(AsRows(agg.lines)),
                              !.frows = SetToSeq(AsRows(agg.funcs))]
        /\ ledger' = Put(ledger, NewId, [rows |-> job'.rows, frows |-> job'.frows])
  /\ UNCHANGED <<stdin, bounds>>

Reading == job.pc \in {"ndjson", "sniff"}

\* The loop of ingestFromNdjson: a metadata record creates the profile at once.
ReadMetadata(l) ==
  /\ Reading /\ l.type = "metadata" /\ ReadOne
  /\ LET id == IF l.id = None THEN NewId ELSE l.id
     IN /\ CreateProfile(id, l.total)
        /\ job' = [job EXCEPT !.pc = "ndjson", !.id = id, !.total = l.total]
        /\ ledger' = Put(ledger, id, [rows |-> <<>>, frows |-> <<>>])
  /\ UNCHANGED stdin

\* A row without a file, with line 0 or without samples is dropped.
ReadRow(l) ==
  /\ Reading /\ l.type \in {"line", "function"} /\ ReadOne
  /\ LET row == [key |-> l.key, value |-> l.value] IN
     job' = [job EXCEPT !.pc = "ndjson",
              !.rows  = IF l.type = "line" /\ l.valid THEN Append(@, row) ELSE @,
              !.frows = IF l.type = "function" /\ l.valid THEN Append(@, row) ELSE @]
  /\ UNCHANGED <<tables, stdin, ledger>>

\* What does not parse is skipped; perf text is among it.
ReadJunk(l) ==
  /\ Reading /\ l.type = "junk" /\ ReadOne
  /\ job' = [job EXCEPT !.pc = "ndjson"]
  /\ UNCHANGED <<tables, stdin, ledger>>

\* A field of another type makes value() throw, out of the handler.
ReadMistyped(l) ==
  /\ Reading /\ l.type = "mistyped" /\ ReadOne
  /\ job' = Idle
  /\ UNCHANGED <<tables, stdin, ledger>>

\* The end of the stream; without a metadata record a stub is created.
EndJson ==
  /\ Reading
  /\ LET id == IF job.id = None THEN NewId ELSE job.id
     IN /\ IF job.id = None THEN CreateProfile(id, 0) ELSE UNCHANGED tables
        /\ job' = [job EXCEPT !.pc = "lines", !.id = id]
        /\ ledger' = Put(ledger, id, [rows |-> job.rows, frows |-> job.frows])
  /\ UNCHANGED <<stdin, bounds>>

\* Mutant: the rows of a transaction are committed one by one.
InsertLineRows_Singly ==
  /\ job.pc = "lines"
  /\ \E n \in 0..Len(job.rows) :
       lineRows' = Insert(job.id, SubSeq(job.rows, 1, n), lineRows)
  /\ job' = [job EXCEPT !.pc = "functions"]
  /\ UNCHANGED <<profiles, funcRows, hashes, stdin, bounds, ledger>>

InsertLineRows ==
  /\ job.pc = "lines"
  /\ lineRows' = Insert(job.id, job.rows, lineRows)
  /\ job' = [job EXCEPT !.pc = "functions"]
  /\ UNCHANGED <<profiles, funcRows, hashes, stdin, bounds, ledger>>

InsertFunctionRows ==
  /\ job.pc = "functions"
  /\ funcRows' = Insert(job.id, job.frows, funcRows)
  /\ job' = [job EXCEPT !.pc = "total"]
  /\ UNCHANGED <<profiles, lineRows, hashes, stdin, bounds, ledger>>

\* Counts are uint64_t in the program and int64_t in the columns, so that half of
\* them are negative there.  The tables hold them as the program reads them.
Signed(n)   == IF n < Half THEN n ELSE n - 2 * Half
Unsigned(n) == IF n < 0 THEN n + 2 * Half ELSE n

Columns == (-Half)..(Half - 1)

\* A sum of counts as the columns hold them.
SumOf(counts, S) == SumFunctionOnSet([k \in S |-> Signed(counts[k])], S)

CycleRows(rows) == {n \in 1..Len(rows) : rows[n].key[1] = "cycles"}

\* Mutant: the estimate is of the first row only.
Estimate_First(rows) ==
  IF rows[1].key[1] = "cycles" THEN Signed(rows[1].value) ELSE 0

\* The samples of the rows as they were read, repeated keys included.
Estimate(rows) == SumOf([n \in 1..Len(rows) |-> rows[n].value], CycleRows(rows))

\* A total that is missing is estimated; then the request is answered.  What a
\* sum is that overflows is undefined.
Finish ==
  /\ job.pc = "total"
  /\ IF job.total = 0 /\ job.rows # <<>>
       THEN \E total \in Columns :
              /\ Estimate(job.rows) \in Columns => total = Estimate(job.rows)
              /\ profiles' = Put(profiles, job.id, total)
       ELSE profiles' = profiles
  /\ job' = Idle
  /\ UNCHANGED <<lineRows, funcRows, hashes, stdin, bounds, ledger>>

\* perf-importer takes no file: it reads its stdin to the end, and its stdin
\* is the sidecar's, which the extension holds open.
ExtensionLeaves ==
  /\ job.pc = "stdin" /\ stdin = "open" /\ stdin' = "closed"
  /\ UNCHANGED <<tables, job, bounds, ledger>>

\* Only then does it write its metadata record, of no samples.
ImporterEnds ==
  /\ job.pc = "stdin" /\ stdin = "closed"
  /\ CreateProfile(NewId, 0)
  /\ job' = [job EXCEPT !.pc = "ndjson", !.id = NewId]
  /\ ledger' = Put(ledger, NewId, [rows |-> <<>>, frows |-> <<>>])
  /\ UNCHANGED <<stdin, bounds>>

\* The process dies and is started again.
Crash ==
  /\ job.pc # "idle"
  /\ job' = Idle
  /\ UNCHANGED <<tables, stdin, bounds, ledger>>

-----------------------------------------------------------------------------
(* The other handlers that write                                           *)

DeleteProfile(id) ==
  /\ job.pc = "idle" /\ stdin = "open"
  /\ profiles' = Restrict(profiles, DOMAIN profiles \ {id})
  /\ Delete(id)
  /\ UNCHANGED <<job, stdin, bounds, ledger>>

StoreSourceHashes(id, fs) ==
  /\ job.pc = "idle" /\ stdin = "open"
  /\ hashes' = Insert(id, SetToSeq({[key |-> f, value |-> TRUE] : f \in fs}), hashes)
  /\ UNCHANGED <<profiles, lineRows, funcRows, job, stdin, bounds, ledger>>

Ids == Nat \cup GivenIds

Next ==
  \/ \E ext \in {"pprof", "perf"}, installed \in Installations : ImportProfile(ext, installed)
  \/ Open
  \/ \E l \in PerfLines : ReadPerf(l)
  \/ EndPerf
  \/ \E l \in JsonLines : ReadMetadata(l) \/ ReadRow(l) \/ ReadJunk(l) \/ ReadMistyped(l)
  \/ EndJson
  \/ InsertLineRows \/ InsertFunctionRows \/ Finish
  \/ ExtensionLeaves \/ ImporterEnds
  \/ Crash
  \/ \E id \in DOMAIN ledger : DeleteProfile(id) \/ StoreSourceHashes(id, Files)

Spec == Init /\ [][Next]_vars

-----------------------------------------------------------------------------
(* Queries                                                                 *)

RowsOf(id, event) == {k \in DOMAIN lineRows : k[1] = id /\ k[2][1] = event}

\* COALESCE(SUM(self_count), 0): a SUM that overflows is an error, and the total
\* stays 0.
Sum64(counts, S) ==
  LET sum == SumOf(counts, S) IN IF sum \in Columns THEN Unsigned(sum) ELSE 0

\* _totalEventCount: of all files.
Total(id, event) == Sum64(lineRows, RowsOf(id, event))

Hotness(id, event, loc, total) ==
  [self |-> lineRows[<<id, <<event, loc>>>>], total |-> total]

GetLineHotness(id, file, n, event) ==
  LET total == Total(id, event) IN
  IF total = 0 \/ <<id, <<event, <<file, n>>>>>> \notin DOMAIN lineRows
    THEN None ELSE Hotness(id, event, <<file, n>>, total)

GetFileHotness(id, file, event) ==
  LET total == Total(id, event) IN
  IF total = 0 THEN [n \in {} |-> None]
  ELSE [n \in {k[2][2][2] : k \in {j \in RowsOf(id, event) : j[2][2][1] = file}} |->
          Hotness(id, event, <<file, n>>, total)]

FunctionRowsOf(id, event) == {k \in DOMAIN funcRows : k[1] = id /\ k[2][1] = event}

SelfOf(id, event) == [k \in FunctionRowsOf(id, event) |-> funcRows[k].self]

\* Mutant: ORDER BY self_count, without DESC.
GetTopFunctions_Coolest(id, n, event) ==
  LET self   == SelfOf(id, event)
      sorted == CHOOSE s \in SetToSeqs(DOMAIN self) :
                  \A i, j \in DOMAIN s : i < j => Signed(self[s[i]]) <= Signed(self[s[j]])
  IN IF Sum64(self, DOMAIN self) = 0 THEN <<>>
     ELSE SubSeq(sorted, 1, Min({n, Len(sorted)}))

\* getTopFunctions: ORDER BY self_count DESC LIMIT n, ties in any order, of
\* functions that have a total.
GetTopFunctions(id, n, event) ==
  LET self   == SelfOf(id, event)
      sorted == CHOOSE s \in SetToSeqs(DOMAIN self) :
                  \A i, j \in DOMAIN s : i < j => Signed(self[s[i]]) >= Signed(self[s[j]])
  IN IF Sum64(self, DOMAIN self) = 0 THEN <<>>
     ELSE SubSeq(sorted, 1, Min({n, Len(sorted)}))

\* analyseFileWithProfile, as <<rule, line>>.
AnalyseFileWithProfile(id, file) ==
  LET h(event) == GetFileHotness(id, file, event)
      cycles == h("cycles")
      misses == h("L1-dcache-load-misses")
  IN    {"cache-miss-hotspot"} \X CacheMissHotspot(cycles, misses)
   \cup {"branch-mispredict"} \X BranchMispredict(cycles, h("branch-misses"))
   \cup {"memory-bandwidth-bound"} \X MemoryBandwidthBound(cycles, h("LLC-load-misses"))
   \cup {"low-ipc"} \X LowIpc(cycles, misses)

-----------------------------------------------------------------------------
(* Properties                                                              *)

TypeOK ==
  /\ DOMAIN profiles \subseteq Ids /\ \A id \in DOMAIN profiles : profiles[id] \in Int
  /\ \A k \in DOMAIN lineRows : k[1] \in Ids /\ lineRows[k] \in Nat
  /\ \A k \in DOMAIN funcRows : k[1] \in Ids /\ funcRows[k].self \in Nat
  /\ DOMAIN hashes \subseteq Ids \X Files
  /\ job.pc \in {"idle", "open", "sniff", "script", "ndjson", "stdin",
                 "lines", "functions", "total"}
  /\ job.id \in Ids \cup {None}
  /\ stdin \in {"open", "closed"}

\* No table holds a row of a profile that is not there, whatever is deleted,
\* replaced or interrupted, and for whatever profile hashes are stored: the
\* queries look at the rows and never at the profile.
RowsBelong ==
  /\ \A k \in DOMAIN lineRows : k[1] \in DOMAIN profiles
  /\ \A k \in DOMAIN funcRows : k[1] \in DOMAIN profiles
  /\ \A k \in DOMAIN hashes   : k[1] \in DOMAIN profiles

RowsUnder(id, table) == Restrict(table, {k \in DOMAIN table : k[1] = id})

Imported(id, rows) == [k \in Keys(id, rows) |-> LastValue(k[2], rows)]

\* What a profile shows comes from one import: the line rows of the one that
\* created it last, all or none, and its function rows only with them.  It is
\* none if that import was cut short, never what an earlier one left.
OneImportPerProfile ==
  \A id \in DOMAIN profiles :
    LET lines == RowsUnder(id, lineRows)
        funcs == RowsUnder(id, funcRows)
    IN /\ lines \in {NoCounts, Imported(id, ledger[id].rows)}
       /\ funcs \in {NoCounts, Imported(id, ledger[id].frows)}
       /\ funcs # NoCounts => lines = Imported(id, ledger[id].rows)

\* What the parser of perf text has counted at the end is what the samples of
\* the text say, however headers, frames and other lines follow each other.
PerfIsCounted ==
  job.text # <<>> /\ job.pc = "lines" => Aggregates(job.parser.agg, job.text)

\* A total that the importer left out covers the samples of the profile's
\* lines, and is their sum unless a line was imported twice: then the table
\* keeps the last row and the estimate counts both.  It is so as long as the
\* sum does not overflow, and covers them if no count is negative in its column
\* (store.cpp:249-262, 278).
EstimateCoversRows ==
  [][Finish /\ job.total = 0 /\ job.rows # <<>> /\ Estimate(job.rows) \in Columns =>
       LET kept == SumOf(lineRows, RowsOf(job.id, "cycles"))
           once == \A m, n \in 1..Len(job.rows) : job.rows[m].key = job.rows[n].key => m = n
       IN /\ once => profiles'[job.id] = kept
          /\ (\A n \in 1..Len(job.rows) : job.rows[n].value < Half) =>
               profiles'[job.id] >= kept]_vars

Locations == {k[2][2] : k \in DOMAIN lineRows}
Events    == {k[2][1] : k \in DOMAIN lineRows} \cup {k[2][1] : k \in DOMAIN funcRows}

\* The variables have their types, and the queries tell one story: the hover's
\* share of a line is the one the file's decorations have, and unless a count of
\* the event is negative in its column (store.cpp:278) it is never more than the
\* whole, not even of a sum that overflows; and no function that the list leaves
\* out has more in its column than one that it shows.
QueriesAgree ==
  TypeOK /\ (job.pc = "idle" =>
    \A id \in DOMAIN profiles, e \in Events :
      /\ \A loc \in Locations :
           LET file == GetFileHotness(id, loc[1], e)
               line == GetLineHotness(id, loc[1], loc[2], e)
           IN /\ line = IF loc[2] \in DOMAIN file THEN file[loc[2]] ELSE None
              /\ line # None /\ (\A k \in RowsOf(id, e) : lineRows[k] < Half) =>
                   line.self <= line.total
      /\ LET self == SelfOf(id, e)
             top == Range(GetTopFunctions(id, 1, e))
         IN \A k \in top, j \in DOMAIN self \ top : Signed(self[k]) >= Signed(self[j]))

\* What the rules say of a line, they say of a hot one: a line that is reported
\* has its share of the cycles in the same profile, whichever event made the
\* rule look at it.  And none is a hotspot of L1 misses and of low IPC, which
\* compare the same two shares (profile_rules.cpp:38-187).
VerdictsAreConsistent ==
  job.pc = "idle" =>
    \A id \in DOMAIN profiles, f \in Files :
      LET found == AnalyseFileWithProfile(id, f) IN
      \A v \in found :
        LET h == GetLineHotness(id, f, v[2], "cycles") IN
        /\ h # None /\ h.self * 100 >= 3 * h.total
        /\ v[1] = "cache-miss-hotspot" => <<"low-ipc", v[2]>> \notin found
===============================================================================
