-------------------------- MODULE ProfileStoreProofs ---------------------------
(***************************************************************************)
(* No table of the profile database keeps a row of a profile that is gone, *)
(* and what a profile shows comes from one import, for all tools, streams  *)
(* and bounds, through crashes between any two commits.  The parser of     *)
(* perf text counts what its samples say, the estimate of a total covers   *)
(* the rows, the queries tell one story, and the rules of                  *)
(* profile_rules.cpp do not contradict each other on any line.             *)
(*                                                                         *)
(* In this order: the statements and the two invariants of the tables; the *)
(* rules; sums and orders of finite sets; the types of the tables and of a *)
(* running import; the queries, the verdicts and the estimate; the parser; *)
(* and, of ProfileSelection, what the extension knows of the profiles and  *)
(* which of them is active.                                                *)
(***************************************************************************)
EXTENDS ProfileStore, ProfileSelection, FiniteSetTheorems, TLAPS

-----------------------------------------------------------------------------
(* The statements                                                          *)

\* DELETE or REPLACE of a profile keeps every other profile's rows as they are.
LEMMA CascadeKeeps ==
  ASSUME NEW id, NEW table, NEW j, j # id
  PROVE  RowsUnder(j, Cascade(id, table)) = RowsUnder(j, table)
<1>1. DOMAIN Cascade(id, table) = {k \in DOMAIN table : k[1] # id}
  BY DEF Cascade, Restrict
<1>2. \A k \in DOMAIN Cascade(id, table) : Cascade(id, table)[k] = table[k]
  BY DEF Cascade, Restrict
<1>3. {k \in DOMAIN Cascade(id, table) : k[1] = j} = {k \in DOMAIN table : k[1] = j}
  BY <1>1
<1> QED BY <1>2, <1>3 DEF RowsUnder, Restrict

\* What DELETE or REPLACE of a profile leaves of a table.
LEMMA CascadeLeaves ==
  ASSUME NEW id, NEW table
  PROVE  /\ DOMAIN Cascade(id, table) = {k \in DOMAIN table : k[1] # id}
         /\ RowsUnder(id, Cascade(id, table)) = NoCounts
         /\ \A j : j # id => RowsUnder(j, Cascade(id, table)) = RowsUnder(j, table)
<1>1. DOMAIN Cascade(id, table) = {k \in DOMAIN table : k[1] # id}
  BY DEF Cascade, Restrict
<1>2. RowsUnder(id, Cascade(id, table)) = NoCounts
  <2>1. {k \in DOMAIN Cascade(id, table) : k[1] = id} = {} BY <1>1
  <2> QED BY <2>1 DEF RowsUnder, Restrict, NoCounts
<1>3. ASSUME NEW j, j # id
      PROVE  RowsUnder(j, Cascade(id, table)) = RowsUnder(j, table)
  BY <1>3, CascadeKeeps, Zenon
<1> QED BY <1>1, <1>2, <1>3

\* Under an id that shows nothing there are no rows.
LEMMA NoRowsShown ==
  ASSUME NEW id, NEW table, RowsUnder(id, table) = NoCounts
  PROVE  \A k \in DOMAIN table : k[1] # id
<1>1. DOMAIN RowsUnder(id, table) = {k \in DOMAIN table : k[1] = id}
  BY DEF RowsUnder, Restrict
<1>2. DOMAIN NoCounts = {} BY DEF NoCounts
<1> QED BY <1>1, <1>2

\* The keys of inserted rows are keys of their profile.
LEMMA KeysAreUnder ==
  ASSUME NEW id, NEW rows
  PROVE  \A k \in Keys(id, rows) : k[1] = id
BY DEF Keys

\* What one transaction of insertions adds, to a profile without rows.
LEMMA InsertAdds ==
  ASSUME NEW id \in DOMAIN profiles, NEW rows, NEW table,
         RowsUnder(id, table) = NoCounts
  PROVE  /\ RowsUnder(id, Insert(id, rows, table)) = Imported(id, rows)
         /\ \A j : j # id => RowsUnder(j, Insert(id, rows, table)) = RowsUnder(j, table)
<1> DEFINE t == Insert(id, rows, table)
<1>1. DOMAIN t = DOMAIN table \cup Keys(id, rows) BY DEF Insert
<1>2. \A k \in DOMAIN t : t[k] = IF k \in Keys(id, rows) THEN LastValue(k[2], rows)
                                 ELSE table[k]
  BY DEF Insert
<1> HIDE DEF t
<1>3. \A k \in DOMAIN table : k[1] # id BY NoRowsShown
<1>4. \A k \in Keys(id, rows) : k[1] = id BY KeysAreUnder
<1>5. RowsUnder(id, t) = Imported(id, rows)
  <2>1. {k \in DOMAIN t : k[1] = id} = Keys(id, rows) BY <1>1, <1>3, <1>4
  <2>2. \A k \in Keys(id, rows) : t[k] = LastValue(k[2], rows) BY <1>1, <1>2
  <2> QED BY <2>1, <2>2 DEF RowsUnder, Restrict, Imported
<1>6. ASSUME NEW j, j # id PROVE RowsUnder(j, t) = RowsUnder(j, table)
  <2>1. {k \in DOMAIN t : k[1] = j} = {k \in DOMAIN table : k[1] = j}
    BY <1>1, <1>4, <1>6
  <2>2. \A k \in {k \in DOMAIN table : k[1] = j} : t[k] = table[k]
    BY <1>1, <1>2, <1>4, <1>6
  <2> QED BY <2>1, <2>2 DEF RowsUnder, Restrict
<1> QED BY <1>5, <1>6 DEF t

-----------------------------------------------------------------------------
(* RowsBelong: what a step may do to the tables.                           *)

\* A profile that is created takes the rows that were under its id with it.
LEMMA CreateProfileKeepsRows ==
  ASSUME RowsBelong, NEW id, NEW total, CreateProfile(id, total)
  PROVE  RowsBelong'
<1>1. DOMAIN profiles' = DOMAIN profiles \cup {id} BY DEF CreateProfile, Put
<1>2. /\ DOMAIN lineRows' \subseteq DOMAIN lineRows
      /\ DOMAIN funcRows' \subseteq DOMAIN funcRows
      /\ DOMAIN hashes' \subseteq DOMAIN hashes
  BY CascadeLeaves DEF CreateProfile, Delete
<1> QED BY <1>1, <1>2 DEF RowsBelong

\* A transaction of insertions writes under its profile, if it is there.
LEMMA InsertKeepsRows ==
  ASSUME NEW id, NEW rows, NEW table, \A k \in DOMAIN table : k[1] \in DOMAIN profiles
  PROVE  \A k \in DOMAIN Insert(id, rows, table) : k[1] \in DOMAIN profiles
BY KeysAreUnder DEF Insert

\* Every step keeps the rows to the profiles there are.
LEMMA RowsBelongStep ==
  ASSUME RowsBelong, [Next]_vars
  PROVE  RowsBelong'
<1> USE DEF tables
<1>1. CASE UNCHANGED tables BY <1>1 DEF RowsBelong
<1>2. CASE EndPerf BY <1>2, CreateProfileKeepsRows DEF EndPerf
<1>3. ASSUME NEW l \in JsonLines, ReadMetadata(l) PROVE RowsBelong'
  BY <1>3, CreateProfileKeepsRows DEF ReadMetadata
<1>4. CASE EndJson BY <1>4, <1>1, CreateProfileKeepsRows DEF EndJson
<1>5. CASE InsertLineRows
  BY <1>5, InsertKeepsRows DEF InsertLineRows, RowsBelong
<1>6. CASE InsertFunctionRows
  BY <1>6, InsertKeepsRows DEF InsertFunctionRows, RowsBelong
<1>7. CASE Finish
  <2>1. DOMAIN profiles \subseteq DOMAIN profiles' BY <1>7 DEF Finish, Put
  <2> QED BY <2>1, <1>7 DEF Finish, RowsBelong
<1>8. CASE ImporterEnds BY <1>8, CreateProfileKeepsRows DEF ImporterEnds
<1>9. ASSUME NEW id \in DOMAIN ledger, DeleteProfile(id) PROVE RowsBelong'
  <2>1. DOMAIN profiles' = DOMAIN profiles \ {id} BY <1>9 DEF DeleteProfile, Restrict
  <2>2. \A table, k : k \in DOMAIN Cascade(id, table) => k \in DOMAIN table /\ k[1] # id
    BY CascadeLeaves
  <2>3. /\ lineRows' = Cascade(id, lineRows) /\ funcRows' = Cascade(id, funcRows)
        /\ hashes' = Cascade(id, hashes)
    BY <1>9 DEF DeleteProfile, Delete
  <2> QED BY <2>1, <2>2, <2>3 DEF RowsBelong
<1>10. ASSUME NEW id \in DOMAIN ledger, StoreSourceHashes(id, Files) PROVE RowsBelong'
  BY <1>10, InsertKeepsRows DEF StoreSourceHashes, RowsBelong
<1> QED
  BY <1>1, <1>2, <1>3, <1>4, <1>5, <1>6, <1>7, <1>8, <1>9, <1>10
  DEF Next, vars, ImportProfile, Open, ReadPerf, ReadRow, ReadJunk, ReadMistyped,
      ExtensionLeaves, Crash

\* No table holds a row of a profile that is gone: deleted, replaced, or named
\* by a request for hashes without ever having been there (store.cpp:36-82).
THEOREM NoOrphanRows == Spec => []RowsBelong
<1>1. Init => RowsBelong BY DEF Init, RowsBelong, NoCounts
<1>2. RowsBelong /\ [Next]_vars => RowsBelong' BY RowsBelongStep
<1> QED BY <1>1, <1>2, PTL DEF Spec

-----------------------------------------------------------------------------
(* OneImportPerProfile is inductive with what an import has written so far: *)
(* from the moment its profile is there until its first transaction there   *)
(* is no row under it, and until the second none of a function.             *)

Shows(id, lines, funcs) ==
  RowsUnder(id, lineRows) = lines /\ RowsUnder(id, funcRows) = funcs

\* The rows that are in the ledger are those the import is about to insert.
Ledgered(id) == ledger[id].rows = job.rows /\ ledger[id].frows = job.frows

JobIsRecord ==
  job = [pc |-> job.pc, id |-> job.id, total |-> job.total, rows |-> job.rows,
         frows |-> job.frows, text |-> job.text, parser |-> job.parser]

\* What a running import has written, under the id it writes to.
JobWrites(id) ==
  /\ job.pc = "open" => id = None
  /\ Reading /\ id # None => id \in DOMAIN profiles /\ Shows(id, NoCounts, NoCounts)
  /\ job.pc = "lines" =>
       id \in DOMAIN profiles /\ Ledgered(id) /\ Shows(id, NoCounts, NoCounts)
  /\ job.pc = "functions" =>
       /\ id \in DOMAIN profiles /\ Ledgered(id)
       /\ Shows(id, Imported(id, job.rows), NoCounts)
  /\ job.pc = "total" =>
       id \in DOMAIN profiles /\ RowsUnder(id, lineRows) = Imported(id, job.rows)

JobInv == JobIsRecord /\ \A id : id = job.id => JobWrites(id)

IsLedgered == DOMAIN profiles \subseteq DOMAIN ledger

ImportInv == JobInv /\ IsLedgered /\ OneImportPerProfile

\* OneImportPerProfile, of one profile.
OneImport(id) ==
  \E lines \in {NoCounts, Imported(id, ledger[id].rows)},
     funcs \in {NoCounts, Imported(id, ledger[id].frows)} :
    /\ Shows(id, lines, funcs)
    /\ funcs # NoCounts => lines = Imported(id, ledger[id].rows)

\* OneImportPerProfile says it of one profile at a time.
LEMMA ProfileByProfile == OneImportPerProfile <=> \A id \in DOMAIN profiles : OneImport(id)
BY DEF OneImportPerProfile, OneImport, Shows

\* A step leaves what there is under an id.
Untouched(id) ==
  /\ RowsUnder(id, lineRows') = RowsUnder(id, lineRows)
  /\ RowsUnder(id, funcRows') = RowsUnder(id, funcRows)
  /\ ledger'[id] = ledger[id]

\* A step that writes under one id at most, and leaves that one as an import
\* would, keeps every profile to one import.
LEMMA OthersKeep ==
  ASSUME OneImportPerProfile, NEW id,
         \A j \in DOMAIN profiles' : j # id => j \in DOMAIN profiles /\ Untouched(j),
         id \in DOMAIN profiles' => OneImport(id)'
  PROVE  OneImportPerProfile'
<1>1. ASSUME NEW j \in DOMAIN profiles', j # id PROVE OneImport(j)'
  <2>1. OneImport(j) BY <1>1, ProfileByProfile
  <2>2. Untouched(j) BY <1>1
  <2> QED BY <2>1, <2>2 DEF OneImport, Untouched, Shows
<1>2. \A j \in DOMAIN profiles' : OneImport(j)' BY <1>1
<1> QED BY <1>2 DEF OneImportPerProfile, OneImport, Shows

\* The profile that is created shows nothing; no other one is touched.
LEMMA CreateProfileShows ==
  ASSUME NEW id, NEW total, CreateProfile(id, total)
  PROVE  /\ DOMAIN profiles' = DOMAIN profiles \cup {id}
         /\ Shows(id, NoCounts, NoCounts)'
         /\ \A j : j # id => /\ RowsUnder(j, lineRows') = RowsUnder(j, lineRows)
                             /\ RowsUnder(j, funcRows') = RowsUnder(j, funcRows)
<1>1. DOMAIN profiles' = DOMAIN profiles \cup {id} BY DEF CreateProfile, Put
<1>2. lineRows' = Cascade(id, lineRows) /\ funcRows' = Cascade(id, funcRows)
  BY DEF CreateProfile, Delete
<1>3. Shows(id, NoCounts, NoCounts)' BY <1>2, CascadeLeaves DEF Shows
<1>4. ASSUME NEW j, j # id
      PROVE  /\ RowsUnder(j, lineRows') = RowsUnder(j, lineRows)
             /\ RowsUnder(j, funcRows') = RowsUnder(j, funcRows)
  <2>1. RowsUnder(j, Cascade(id, lineRows)) = RowsUnder(j, lineRows)
    BY <1>4, CascadeKeeps
  <2>2. RowsUnder(j, Cascade(id, funcRows)) = RowsUnder(j, funcRows)
    BY <1>4, CascadeKeeps
  <2> QED BY <1>2, <2>1, <2>2
<1> QED BY <1>1, <1>3, <1>4

\* A profile that an import creates is in the ledger and has no rows yet.
LEMMA CreationKeeps ==
  ASSUME IsLedgered, OneImportPerProfile, NEW id, NEW total, NEW entry,
         CreateProfile(id, total), ledger' = Put(ledger, id, entry)
  PROVE  /\ IsLedgered' /\ OneImportPerProfile'
         /\ id \in DOMAIN profiles' /\ Shows(id, NoCounts, NoCounts)'
         /\ ledger'[id] = entry
<1>1. /\ DOMAIN ledger' = DOMAIN ledger \cup {id} /\ ledger'[id] = entry
      /\ \A j \in DOMAIN ledger : j # id => ledger'[j] = ledger[j]
  BY DEF Put
<1>2. IsLedgered' BY <1>1, CreateProfileShows DEF IsLedgered
<1>3. OneImport(id)' BY CreateProfileShows DEF OneImport, Shows
<1>4. \A j \in DOMAIN profiles' : j # id => j \in DOMAIN profiles /\ Untouched(j)
  BY <1>1, CreateProfileShows DEF Untouched, IsLedgered
<1>5. OneImportPerProfile' BY <1>3, <1>4, OthersKeep
<1> QED BY <1>1, <1>2, <1>5, CreateProfileShows

\* A step that leaves the rows, the profiles and the ledger keeps it.
LEMMA StillThere ==
  ASSUME IsLedgered, OneImportPerProfile,
         lineRows' = lineRows, funcRows' = funcRows, ledger' = ledger,
         DOMAIN profiles' = DOMAIN profiles
  PROVE  IsLedgered' /\ OneImportPerProfile'
<1>1. \A j \in DOMAIN profiles' : j \in DOMAIN profiles /\ Untouched(j) BY DEF Untouched
<1>2. \A j \in DOMAIN profiles' : OneImport(j)'
  BY ProfileByProfile, <1>1 DEF OneImport, Untouched, Shows
<1>3. OneImportPerProfile' BY <1>2 DEF OneImportPerProfile, OneImport, Shows
<1> QED BY <1>3 DEF IsLedgered

\* Without a job there is nothing that it could have written.
LEMMA IdleWrites == ASSUME job' = Idle PROVE JobInv'
BY DEF Idle, JobInv, JobIsRecord, JobWrites, Reading

-----------------------------------------------------------------------------
(* ImportInv, action by action.                                            *)

\* Reading a line writes no row, whatever it creates.
LEMMA ReadingSteps ==
  ASSUME ImportInv, NEW l
  PROVE  ReadPerf(l) \/ ReadMetadata(l) \/ ReadRow(l) \/ ReadJunk(l) \/ ReadMistyped(l)
           => ImportInv'
<1> USE DEF tables, ImportInv, JobInv
<1>1. CASE ReadPerf(l)
  <2>1. job'.pc = "script" /\ JobIsRecord' BY <1>1 DEF ReadPerf, JobIsRecord
  <2> QED BY <1>1, <2>1, StillThere DEF ReadPerf, JobWrites, Reading
<1>2. CASE ReadMetadata(l)
  <2> DEFINE id == IF l.id = None THEN NewId ELSE l.id
             entry == [rows |-> <<>>, frows |-> <<>>]
  <2>1. CreateProfile(id, l.total) /\ ledger' = Put(ledger, id, entry)
    BY <1>2 DEF ReadMetadata
  <2>2. job'.pc = "ndjson" /\ job'.id = id /\ JobIsRecord'
    BY <1>2 DEF ReadMetadata, JobIsRecord
  <2> HIDE DEF id, entry
  <2> QED BY <2>1, <2>2, CreationKeeps DEF JobWrites, Reading
<1>3. CASE ReadRow(l) \/ ReadJunk(l)
  <2>1. job'.pc = "ndjson" /\ job'.id = job.id /\ JobIsRecord'
    BY <1>3 DEF ReadRow, ReadJunk, JobIsRecord
  <2>2. UNCHANGED tables /\ ledger' = ledger /\ Reading BY <1>3 DEF ReadRow, ReadJunk
  <2> QED BY <2>1, <2>2, StillThere DEF JobWrites, Reading, Shows
<1>4. CASE ReadMistyped(l)
  BY <1>4, IdleWrites, StillThere DEF ReadMistyped
<1> QED BY <1>1, <1>2, <1>3, <1>4

\* The ends of the text and of the stream: what was read is about to be
\* written.
LEMMA EndSteps ==
  ASSUME ImportInv
  PROVE  EndPerf \/ EndJson \/ ImporterEnds => ImportInv'
<1> USE DEF tables, ImportInv, JobInv
<1>1. CASE EndPerf
  <2>1. PICK total : CreateProfile(NewId, total) BY <1>1 DEF EndPerf
  <2>2. ledger' = Put(ledger, NewId, [rows |-> job'.rows, frows |-> job'.frows])
    BY <1>1 DEF EndPerf
  <2>3. job'.pc = "lines" /\ job'.id = NewId /\ JobIsRecord'
    BY <1>1 DEF EndPerf, JobIsRecord
  <2> QED BY <2>1, <2>2, <2>3, CreationKeeps DEF JobWrites, Reading, Ledgered
<1>2. CASE EndJson
  <2>1. PICK id : id = (IF job.id = None THEN NewId ELSE job.id) OBVIOUS
  <2> DEFINE entry == [rows |-> job.rows, frows |-> job.frows]
  <2>2. job'.pc = "lines" /\ job'.id = id /\ JobIsRecord'
        /\ job'.rows = job.rows /\ job'.frows = job.frows
    BY <1>2, <2>1 DEF EndJson, JobIsRecord
  <2>3. ledger' = Put(ledger, id, entry) BY <1>2, <2>1 DEF EndJson
  <2>4. CASE job.id = None
    <3>1. CreateProfile(id, 0) BY <1>2, <2>1, <2>4 DEF EndJson
    <3> QED BY <3>1, <2>2, <2>3, CreationKeeps DEF JobWrites, Reading, Ledgered
  <2>5. CASE job.id # None
    <3>1. UNCHANGED tables BY <1>2, <2>5 DEF EndJson
    <3>2. id = job.id /\ id \in DOMAIN profiles /\ Shows(id, NoCounts, NoCounts)
      BY <1>2, <2>1, <2>5 DEF EndJson, JobWrites
    <3>3. /\ ledger'[id] = entry /\ DOMAIN ledger' = DOMAIN ledger \cup {id}
          /\ \A j \in DOMAIN ledger : j # id => ledger'[j] = ledger[j]
      BY <2>3 DEF Put
    <3>4. OneImport(id)' BY <3>1, <3>2 DEF OneImport, Shows
    <3>5. \A j \in DOMAIN profiles' : j # id => j \in DOMAIN profiles /\ Untouched(j)
      BY <3>1, <3>3 DEF Untouched, IsLedgered
    <3>6. OneImportPerProfile' BY <3>4, <3>5, OthersKeep
    <3>7. JobWrites(id)' BY <2>2, <3>1, <3>2, <3>3 DEF JobWrites, Reading, Ledgered, Shows
    <3>8. IsLedgered' BY <3>1, <3>3 DEF IsLedgered
    <3> QED BY <2>2, <3>6, <3>7, <3>8
  <2> QED BY <2>4, <2>5
<1>3. CASE ImporterEnds
  <2>1. CreateProfile(NewId, 0)
        /\ ledger' = Put(ledger, NewId, [rows |-> <<>>, frows |-> <<>>])
    BY <1>3 DEF ImporterEnds
  <2>2. job'.pc = "ndjson" /\ job'.id = NewId /\ JobIsRecord'
    BY <1>3 DEF ImporterEnds, JobIsRecord
  <2> QED BY <2>1, <2>2, CreationKeeps DEF JobWrites, Reading
<1> QED BY <1>1, <1>2, <1>3

\* The two transactions and the total.
LEMMA WritingSteps ==
  ASSUME ImportInv
  PROVE  InsertLineRows \/ InsertFunctionRows \/ Finish => ImportInv'
<1> USE DEF tables, ImportInv, JobInv
<1>1. PICK id : id = job.id OBVIOUS
<1>2. CASE InsertLineRows
  <2>1. /\ id \in DOMAIN profiles /\ Ledgered(id) /\ Shows(id, NoCounts, NoCounts)
        /\ lineRows' = Insert(id, job.rows, lineRows)
        /\ UNCHANGED <<profiles, funcRows, ledger>>
    BY <1>1, <1>2 DEF InsertLineRows, JobWrites
  <2>2. job'.pc = "functions" /\ job'.id = id /\ JobIsRecord'
        /\ job'.rows = job.rows /\ job'.frows = job.frows
    BY <1>1, <1>2 DEF InsertLineRows, JobIsRecord
  <2>3. /\ RowsUnder(id, lineRows') = Imported(id, job.rows)
        /\ \A j : j # id => RowsUnder(j, lineRows') = RowsUnder(j, lineRows)
    BY <2>1, InsertAdds DEF Shows
  <2>4. Shows(id, Imported(id, job.rows), NoCounts)' BY <2>1, <2>2, <2>3 DEF Shows
  <2>5. Ledgered(id)' BY <2>1, <2>2 DEF Ledgered
  <2>6. OneImport(id)' BY <2>2, <2>4, <2>5 DEF OneImport, Ledgered
  <2>7. OneImportPerProfile' BY <2>1, <2>3, <2>6, OthersKeep DEF Untouched
  <2>8. JobWrites(id)' BY <2>1, <2>2, <2>4, <2>5 DEF JobWrites, Reading
  <2> QED BY <2>1, <2>2, <2>7, <2>8 DEF IsLedgered
<1>3. CASE InsertFunctionRows
  <2>1. /\ id \in DOMAIN profiles /\ Ledgered(id)
        /\ Shows(id, Imported(id, job.rows), NoCounts)
        /\ funcRows' = Insert(id, job.frows, funcRows)
        /\ UNCHANGED <<profiles, lineRows, ledger>>
    BY <1>1, <1>3 DEF InsertFunctionRows, JobWrites
  <2>2. job'.pc = "total" /\ job'.id = id /\ JobIsRecord' /\ job'.rows = job.rows
    BY <1>1, <1>3 DEF InsertFunctionRows, JobIsRecord
  <2>3. /\ RowsUnder(id, funcRows') = Imported(id, job.frows)
        /\ \A j : j # id => RowsUnder(j, funcRows') = RowsUnder(j, funcRows)
    BY <2>1, InsertAdds DEF Shows
  <2>4. OneImport(id)' BY <2>1, <2>3 DEF OneImport, Ledgered, Shows
  <2>5. OneImportPerProfile' BY <2>1, <2>3, <2>4, OthersKeep DEF Untouched
  <2>6. JobWrites(id)' BY <2>1, <2>2 DEF JobWrites, Reading, Shows
  <2> QED BY <2>1, <2>2, <2>5, <2>6 DEF IsLedgered
<1>4. CASE Finish
  <2>1. id \in DOMAIN profiles BY <1>1, <1>4 DEF Finish, JobWrites
  <2>2. DOMAIN profiles' = DOMAIN profiles BY <1>1, <1>4, <2>1 DEF Finish, Put
  <2> QED BY <1>4, <2>2, StillThere, IdleWrites DEF Finish
<1> QED BY <1>2, <1>3, <1>4

\* Every step keeps every profile to one import.
LEMMA ImportStep ==
  ASSUME ImportInv, [Next]_vars
  PROVE  ImportInv'
<1> USE DEF tables, ImportInv, JobInv
<1>1. CASE UNCHANGED vars
  BY <1>1, StillThere DEF vars, JobIsRecord, JobWrites, Reading, Shows, Ledgered
<1>2. ASSUME NEW ext, NEW installed, ImportProfile(ext, installed) PROVE ImportInv'
  <2>1. job'.pc \in {"ndjson", "open", "stdin", "script"} /\ job'.id = None /\ JobIsRecord'
    BY <1>2 DEF ImportProfile, Idle, Reader, JobIsRecord
  <2> QED BY <1>2, <2>1, StillThere DEF ImportProfile, JobWrites, Reading
<1>3. CASE Open
  <2>1. job'.pc \in {"sniff", "idle"} /\ job'.id = None /\ JobIsRecord'
    BY <1>3 DEF Open, JobIsRecord, JobWrites
  <2> QED BY <1>3, <2>1, StillThere DEF Open, JobWrites, Reading
<1>4. CASE ExtensionLeaves
  BY <1>4, StillThere DEF ExtensionLeaves, JobIsRecord, JobWrites, Reading, Shows, Ledgered
<1>5. CASE Crash
  BY <1>5, StillThere, IdleWrites DEF Crash
<1>6. ASSUME NEW id \in DOMAIN ledger, DeleteProfile(id) PROVE ImportInv'
  <2>1. /\ DOMAIN profiles' = DOMAIN profiles \ {id}
        /\ lineRows' = Cascade(id, lineRows) /\ funcRows' = Cascade(id, funcRows)
        /\ job.pc = "idle" /\ job' = job /\ ledger' = ledger
    BY <1>6 DEF DeleteProfile, Delete, Restrict
  <2>2. \A j \in DOMAIN profiles' : j # id => j \in DOMAIN profiles /\ Untouched(j)
    BY <2>1, CascadeLeaves DEF Untouched
  <2>3. OneImportPerProfile' BY <2>1, <2>2, OthersKeep
  <2> QED BY <2>1, <2>3 DEF IsLedgered, JobIsRecord, JobWrites, Reading
<1>7. ASSUME NEW id \in DOMAIN ledger, StoreSourceHashes(id, Files) PROVE ImportInv'
  BY <1>7, StillThere
  DEF StoreSourceHashes, JobIsRecord, JobWrites, Reading, Shows, Ledgered
<1> HIDE DEF ImportInv
<1> QED
  BY <1>1, <1>2, <1>3, <1>4, <1>5, <1>6, <1>7, ReadingSteps, EndSteps, WritingSteps
  DEF Next

\* At first nothing is imported.
LEMMA ImportInitially == Init => ImportInv
BY DEF Init, NoCounts, Idle, ImportInv, JobInv, JobIsRecord, JobWrites, Reading, IsLedgered,
       OneImportPerProfile

\* What a profile shows is what the import that created it last has read: its
\* rows are written whole or not at all, lines before functions, whatever is
\* imported again, deleted or interrupted between two commits
\* (store.cpp:160-313).
THEOREM ShowsOneImport == Spec => []OneImportPerProfile
<1>1. Init => ImportInv BY ImportInitially
<1>2. ImportInv /\ [Next]_vars => ImportInv' BY ImportStep
<1>3. ImportInv => OneImportPerProfile BY DEF ImportInv
<1> QED BY <1>1, <1>2, <1>3, PTL DEF Spec

-----------------------------------------------------------------------------
(* The rules                                                               *)

\* No line is reported as a hotspot of L1 misses and of low IPC at once, whatever
\* the profile holds: the second rule asks for less than half the misses that the
\* first does (profile_rules.cpp:38-55, 145-156).
THEOREM HotspotIsNotLowIpc ==
  ASSUME NEW cycles, NEW misses, NEW n \in DOMAIN misses,
         misses[n].self \in Nat, misses[n].total \in Nat
  PROVE  ~(n \in CacheMissHotspot(cycles, misses) /\ n \in LowIpc(cycles, misses))
<1> SUFFICES ASSUME n \in CacheMissHotspot(cycles, misses), n \in LowIpc(cycles, misses)
             PROVE  FALSE
  OBVIOUS
<1>1. misses[n].self * 100 >= 10 * misses[n].total
  BY DEF CacheMissHotspot, Share, MissFraction
<1>2. 10 \div 2 = 5 OBVIOUS
<1>3. ~(misses[n].self * 100 >= 5 * misses[n].total)
  BY <1>2 DEF LowIpc, Share, MissFraction
<1> QED BY <1>1, <1>3

-----------------------------------------------------------------------------
(* Sums over finite sets                                                   *)

\* Induction over the subsets of a finite set.
LEMMA SubsetInduction ==
  ASSUME NEW S, IsFiniteSet(S), NEW Good,
         \A T \in SUBSET S :
           (\A R \in SUBSET T : R # T => R \in Good) => T \in Good
  PROVE  SUBSET S \subseteq Good
<1> DEFINE bad == (SUBSET S) \ Good
<1> SUFFICES ASSUME bad # {} PROVE FALSE OBVIOUS
<1>1. IsWellFoundedOn(StrictSubsetOrdering(S), SUBSET S)
  <2>1. FiniteSubsetsOf(S) = SUBSET S BY FS_FiniteSubsetsOfFinite
  <2>2. IsWellFoundedOn(StrictSubsetOrdering(S), FiniteSubsetsOf(S))
    BY FS_StrictSubsetOrderingWellFounded
  <2> HIDE DEF bad
  <2> QED BY <2>1, <2>2, Zenon
<1>2. bad \subseteq SUBSET S OBVIOUS
<1>3. PICK T \in bad : \A R \in bad : <<R, T>> \notin StrictSubsetOrdering(S)
  <2> HIDE DEF bad
  <2> QED BY <1>1, <1>2, WFMin
<1>4. ASSUME NEW R \in SUBSET T, R # T PROVE R \in Good
  <2>1. <<R, T>> \in StrictSubsetOrdering(S) BY <1>4 DEF StrictSubsetOrdering
  <2> QED BY <2>1, <1>3
<1> QED BY <1>3, <1>4

First(s) == CHOOSE x \in s : TRUE

\* A set that is not empty has a first element.
LEMMA FirstIsIn == \A s : s # {} => First(s) \in s
BY DEF First

\* g adds the weights of the subsets of S up, an element at a time.
Adds(g, w, S) ==
  g = [s \in SUBSET S |-> IF s = {} THEN 0 ELSE w[First(s)] + g[s \ {First(s)}]]

\* There is one such g at most.
LEMMA AddsOnce ==
  ASSUME NEW S, IsFiniteSet(S), NEW w, NEW g, NEW h, NEW U, S \subseteq U,
         Adds(g, w, S), Adds(h, w, U)
  PROVE  \A s \in SUBSET S : g[s] = h[s]
<1> DEFINE Good == {s \in SUBSET S : g[s] = h[s]}
<1>1. ASSUME NEW T \in SUBSET S, \A R \in SUBSET T : R # T => R \in Good
      PROVE  T \in Good
  <2>1. T \in SUBSET U OBVIOUS
  <2>2. /\ g[T] = IF T = {} THEN 0 ELSE w[First(T)] + g[T \ {First(T)}]
        /\ h[T] = IF T = {} THEN 0 ELSE w[First(T)] + h[T \ {First(T)}]
    BY <2>1 DEF Adds
  <2>3. CASE T = {} BY <2>2, <2>3
  <2>4. CASE T # {}
    <3>1. T \ {First(T)} \in Good BY <1>1, <2>4, FirstIsIn
    <3> QED BY <2>2, <2>4, <3>1
  <2> QED BY <2>3, <2>4
<1> HIDE DEF Good
<1>2. SUBSET S \subseteq Good BY <1>1, SubsetInduction
<1> QED BY <1>2 DEF Good

\* There is one.
LEMMA AddsExists ==
  ASSUME NEW S, IsFiniteSet(S), NEW w
  PROVE  \E g : Adds(g, w, S)
<1> DEFINE Good == {s \in SUBSET S : \E g : Adds(g, w, s)}
<1>1. ASSUME NEW T \in SUBSET S, \A R \in SUBSET T : R # T => R \in Good
      PROVE  T \in Good
  <2> DEFINE G(s) == CHOOSE g : Adds(g, w, s)
             V(s) == G(s)[s]
             f == [s \in SUBSET T |-> IF s = {} THEN 0 ELSE w[First(s)] + V(s \ {First(s)})]
  <2>1. \A R \in SUBSET T : R # T => Adds(G(R), w, R) BY <1>1
  <2>2. ASSUME NEW R \in SUBSET T, R # T PROVE f[R] = V(R)
    <3>1. G(R)[R] = IF R = {} THEN 0 ELSE w[First(R)] + G(R)[R \ {First(R)}]
      <4> HIDE DEF G
      <4> QED BY <2>1, <2>2 DEF Adds
    <3>2. CASE R = {} BY <3>1, <3>2
    <3>3. CASE R # {}
      <4>1. R \ {First(R)} \in SUBSET T /\ R \ {First(R)} # T BY <2>2, <3>3, FirstIsIn
      <4>2. Adds(G(R), w, R) /\ Adds(G(R \ {First(R)}), w, R \ {First(R)}) BY <2>1, <2>2, <4>1
      <4>3. IsFiniteSet(R \ {First(R)}) BY <4>1, FS_Subset
      <4>4. V(R \ {First(R)}) = G(R)[R \ {First(R)}]
        <5> HIDE DEF G
        <5> QED BY <4>2, <4>3, AddsOnce
      <4> HIDE DEF G
      <4> QED BY <3>1, <3>3, <4>4
    <3> QED BY <3>2, <3>3
  <2>3. ASSUME NEW s \in SUBSET T, s # {} PROVE V(s \ {First(s)}) = f[s \ {First(s)}]
    <3>1. s \ {First(s)} \in SUBSET T /\ s \ {First(s)} # T BY <2>3, FirstIsIn
    <3> HIDE DEF V, f
    <3> QED BY <2>2, <3>1
  <2>4. Adds(f, w, T)
    <3>1. f = [s \in SUBSET T |-> IF s = {} THEN 0 ELSE w[First(s)] + f[s \ {First(s)}]]
      <4> DEFINE e == [s \in SUBSET T |-> IF s = {} THEN 0 ELSE w[First(s)] + f[s \ {First(s)}]]
      <4>1. \A s \in SUBSET T : f[s] = e[s]
        <5> HIDE DEF V
        <5> QED BY <2>3
      <4>2. DOMAIN f = SUBSET T /\ DOMAIN e = SUBSET T OBVIOUS
      <4>3. f = [s \in SUBSET T |-> f[s]] /\ e = [s \in SUBSET T |-> e[s]]
         <5> HIDE DEF V
         <5> QED OBVIOUS
      <4> HIDE DEF f
      <4> QED BY <4>1, <4>3, Zenon
    <3> HIDE DEF f
    <3> QED BY <3>1 DEF Adds
  <2> QED BY <2>4
<1> HIDE DEF Good
<1>2. SUBSET S \subseteq Good BY <1>1, SubsetInduction
<1> QED BY <1>2 DEF Good

\* SumFunctionOnSet is such a sum.
LEMMA SumAdds ==
  ASSUME NEW S, IsFiniteSet(S), NEW w
  PROVE  \E g : Adds(g, w, S) /\ SumFunctionOnSet(w, S) = g[S]
<1> DEFINE g == CHOOSE iter : Adds(iter, w, S)
<1>1. Adds(g, w, S) BY AddsExists
<1>2. SumFunctionOnSet(w, S) = g[S] BY DEF SumFunctionOnSet, FoldFunctionOnSet, MapThenFoldSet,
                                  Adds, First
<1> QED BY <1>1, <1>2

\* The sum of nothing, and of a set by its first element.
LEMMA SumStep ==
  ASSUME NEW S, IsFiniteSet(S), NEW w
  PROVE  /\ SumFunctionOnSet(w, {}) = 0
         /\ S # {} => SumFunctionOnSet(w, S) = w[First(S)] + SumFunctionOnSet(w, S \ {First(S)})
<1>1. SumFunctionOnSet(w, {}) = 0
  <2>1. PICK g : Adds(g, w, {}) /\ SumFunctionOnSet(w, {}) = g[{}] BY SumAdds, FS_EmptySet
  <2> QED BY <2>1 DEF Adds
<1>2. ASSUME S # {} PROVE SumFunctionOnSet(w, S) = w[First(S)] + SumFunctionOnSet(w, S \ {First(S)})
  <2> DEFINE R == S \ {First(S)}
  <2>1. IsFiniteSet(R) BY FS_Subset
  <2>2. PICK g : Adds(g, w, S) /\ SumFunctionOnSet(w, S) = g[S] BY SumAdds
  <2>3. PICK h : Adds(h, w, R) /\ SumFunctionOnSet(w, R) = h[R] BY <2>1, SumAdds
  <2>4. h[R] = g[R] BY <2>1, <2>2, <2>3, AddsOnce
  <2>5. g[S] = w[First(S)] + g[R] BY <1>2, <2>2 DEF Adds
  <2> QED BY <2>2, <2>3, <2>4, <2>5
<1> QED BY <1>1, <1>2

\* Natural numbers have a natural sum.
LEMMA SumIsNat ==
  ASSUME NEW S, IsFiniteSet(S), NEW w, \A k \in S : w[k] \in Nat
  PROVE  SumFunctionOnSet(w, S) \in Nat
<1> DEFINE Good == {T \in SUBSET S : SumFunctionOnSet(w, T) \in Nat}
<1>1. ASSUME NEW T \in SUBSET S, \A R \in SUBSET T : R # T => R \in Good
      PROVE  T \in Good
  <2>1. IsFiniteSet(T) BY FS_Subset
  <2>2. CASE T = {}
    <3>1. SumFunctionOnSet(w, {}) = 0 BY <2>1, SumStep
    <3> QED BY <2>2, <3>1
  <2>3. CASE T # {}
    <3>1. First(T) \in T BY <2>3, FirstIsIn
    <3>2. T \ {First(T)} \in Good BY <1>1, <3>1
    <3>3. SumFunctionOnSet(w, T) = w[First(T)] + SumFunctionOnSet(w, T \ {First(T)})
      BY <2>1, <2>3, SumStep
    <3>4. w[First(T)] \in Nat BY <3>1
    <3> QED BY <3>2, <3>3, <3>4
  <2> QED BY <2>2, <2>3
<1> HIDE DEF Good
<1>2. SUBSET S \subseteq Good BY <1>1, SubsetInduction
<1> QED BY <1>2 DEF Good

\* Integers have an integer sum.
LEMMA SumIsInt ==
  ASSUME NEW S, IsFiniteSet(S), NEW w, \A k \in S : w[k] \in Int
  PROVE  SumFunctionOnSet(w, S) \in Int
<1> DEFINE Good == {T \in SUBSET S : SumFunctionOnSet(w, T) \in Int}
<1>1. ASSUME NEW T \in SUBSET S, \A R \in SUBSET T : R # T => R \in Good
      PROVE  T \in Good
  <2>1. IsFiniteSet(T) BY FS_Subset
  <2>2. CASE T = {}
    <3>1. SumFunctionOnSet(w, {}) = 0 BY <2>1, SumStep
    <3> QED BY <2>2, <3>1
  <2>3. CASE T # {}
    <3>1. First(T) \in T BY <2>3, FirstIsIn
    <3>2. T \ {First(T)} \in Good BY <1>1, <3>1
    <3>3. SumFunctionOnSet(w, T) = w[First(T)] + SumFunctionOnSet(w, T \ {First(T)})
      BY <2>1, <2>3, SumStep
    <3>4. w[First(T)] \in Int BY <3>1
    <3> QED BY <3>2, <3>3, <3>4
  <2> QED BY <2>2, <2>3
<1> HIDE DEF Good
<1>2. SUBSET S \subseteq Good BY <1>1, SubsetInduction
<1> QED BY <1>2 DEF Good

\* It does not matter which element is added first.
LEMMA SumTakesOut ==
  ASSUME NEW S, IsFiniteSet(S), NEW w, \A k \in S : w[k] \in Int, NEW x \in S
  PROVE  SumFunctionOnSet(w, S) = w[x] + SumFunctionOnSet(w, S \ {x})
<1> DEFINE Good == {T \in SUBSET S :
                    \A y \in T : SumFunctionOnSet(w, T) = w[y] + SumFunctionOnSet(w, T \ {y})}
<1>1. ASSUME NEW T \in SUBSET S, \A R \in SUBSET T : R # T => R \in Good
      PROVE  T \in Good
  <2> SUFFICES ASSUME NEW y \in T PROVE SumFunctionOnSet(w, T) = w[y] + SumFunctionOnSet(w, T \ {y})
    OBVIOUS
  <2> DEFINE a == First(T)
  <2>1. IsFiniteSet(T) BY FS_Subset
  <2>2. a \in T BY FirstIsIn
  <2>3. SumFunctionOnSet(w, T) = w[a] + SumFunctionOnSet(w, T \ {a}) BY <2>1, SumStep
  <2>4. CASE y = a BY <2>3, <2>4
  <2>5. CASE y # a
    <3>1. T \ {a} \in Good /\ T \ {y} \in Good BY <1>1, <2>2
    <3>2. SumFunctionOnSet(w, T \ {a}) = w[y] + SumFunctionOnSet(w, (T \ {a}) \ {y}) BY <3>1, <2>5
    <3>3. SumFunctionOnSet(w, T \ {y}) = w[a] + SumFunctionOnSet(w, (T \ {y}) \ {a})
      BY <3>1, <2>2, <2>5
    <3>4. SumFunctionOnSet(w, T \ {a}) = w[y] + SumFunctionOnSet(w, (T \ {y}) \ {a})
      <4>1. (T \ {a}) \ {y} = (T \ {y}) \ {a} OBVIOUS
      <4> QED BY <3>2, <4>1
    <3>5. SumFunctionOnSet(w, (T \ {y}) \ {a}) \in Int
      <4>1. IsFiniteSet((T \ {y}) \ {a}) BY <2>1, FS_Subset
      <4> QED BY <4>1, SumIsInt
    <3>6. w[a] \in Int /\ w[y] \in Int BY <2>2
    <3> HIDE DEF a
    <3> QED BY <2>3, <3>3, <3>4, <3>5, <3>6
  <2> QED BY <2>4, <2>5
<1> HIDE DEF Good
<1>2. SUBSET S \subseteq Good BY <1>1, SubsetInduction
<1> QED BY <1>2 DEF Good

\* The sum over a part is not more than the sum.
LEMMA SumIsMonotone ==
  ASSUME NEW S, IsFiniteSet(S), NEW w, \A k \in S : w[k] \in Nat, NEW T \in SUBSET S
  PROVE  SumFunctionOnSet(w, T) <= SumFunctionOnSet(w, S)
<1> DEFINE Good == {R \in SUBSET S :
                      T \subseteq R => SumFunctionOnSet(w, T) <= SumFunctionOnSet(w, R)}
<1>1. ASSUME NEW R \in SUBSET S, \A Q \in SUBSET R : Q # R => Q \in Good
      PROVE  R \in Good
  <2> SUFFICES ASSUME T \subseteq R PROVE SumFunctionOnSet(w, T) <= SumFunctionOnSet(w, R) OBVIOUS
  <2>1. IsFiniteSet(R) /\ IsFiniteSet(T) BY FS_Subset
  <2>2. SumFunctionOnSet(w, T) \in Nat BY <2>1, SumIsNat
  <2>3. CASE R = T BY <2>2, <2>3
  <2>4. CASE R # T
    <3>1. PICK x \in R : x \notin T BY <2>4
    <3>2. R \ {x} \in Good BY <1>1, <3>1
    <3>3. SumFunctionOnSet(w, T) <= SumFunctionOnSet(w, R \ {x}) BY <3>1, <3>2
    <3>4. SumFunctionOnSet(w, R) = w[x] + SumFunctionOnSet(w, R \ {x}) BY <2>1, SumTakesOut
    <3>5. IsFiniteSet(R \ {x}) BY <2>1, FS_Subset
    <3>6. SumFunctionOnSet(w, R \ {x}) \in Nat BY <3>5, SumIsNat
    <3>7. w[x] \in Nat OBVIOUS
    <3> QED BY <2>2, <3>3, <3>4, <3>6, <3>7
  <2> QED BY <2>3, <2>4
<1> HIDE DEF Good
<1>2. SUBSET S \subseteq Good BY <1>1, SubsetInduction
<1> QED BY <1>2 DEF Good

\* An addend is not more than the sum.
LEMMA SumCovers ==
  ASSUME NEW S, IsFiniteSet(S), NEW w, \A k \in S : w[k] \in Nat, NEW x \in S
  PROVE  w[x] <= SumFunctionOnSet(w, S)
<1>1. IsFiniteSet(S \ {x}) BY FS_Subset
<1>2. SumFunctionOnSet(w, S \ {x}) \in Nat BY <1>1, SumIsNat
<1>3. SumFunctionOnSet(w, S) = w[x] + SumFunctionOnSet(w, S \ {x}) BY SumTakesOut
<1> QED BY <1>2, <1>3

\* Renaming the elements leaves the sum.
LEMMA SumRenames ==
  ASSUME NEW S, IsFiniteSet(S), NEW w, NEW v, NEW f,
         \A k \in S : w[k] \in Int /\ v[f[k]] = w[k],
         \A j, k \in S : f[j] = f[k] => j = k
  PROVE  SumFunctionOnSet(v, {f[k] : k \in S}) = SumFunctionOnSet(w, S)
<1> DEFINE Image(T) == {f[k] : k \in T}
           Good == {T \in SUBSET S :
                      /\ IsFiniteSet(Image(T))
                      /\ SumFunctionOnSet(v, Image(T)) = SumFunctionOnSet(w, T)}
<1>1. ASSUME NEW T \in SUBSET S, \A R \in SUBSET T : R # T => R \in Good
      PROVE  T \in Good
  <2>1. IsFiniteSet(T) BY FS_Subset
  <2>2. CASE T = {}
    <3>1. Image(T) = {} BY <2>2
    <3> HIDE DEF Image
    <3> QED BY <2>1, <2>2, <3>1, FS_EmptySet, SumStep
  <2>3. CASE T # {}
    <3>1. PICK x \in T : TRUE BY <2>3
    <3>2. Image(T) = Image(T \ {x}) \cup {f[x]} OBVIOUS
    <3>8. f[x] \notin Image(T \ {x}) OBVIOUS
    <3>9. Image(T) \ {f[x]} = Image(T \ {x}) BY <3>2, <3>8
    <3>3. T \ {x} \in Good BY <1>1
    <3> HIDE DEF Image
    <3>4. IsFiniteSet(Image(T))
      <4>1. IsFiniteSet(Image(T \ {x})) BY <3>3
      <4>2. IsFiniteSet(Image(T \ {x}) \cup {f[x]}) BY <4>1, FS_AddElement
      <4> QED BY <3>2, <4>2, Zenon
    <3>5. \A k \in Image(T) : v[k] \in Int BY DEF Image
    <3>6. SumFunctionOnSet(v, Image(T)) = v[f[x]] + SumFunctionOnSet(v, Image(T) \ {f[x]})
      BY <3>2, <3>4, <3>5, SumTakesOut
    <3>7. SumFunctionOnSet(w, T) = w[x] + SumFunctionOnSet(w, T \ {x}) BY <2>1, SumTakesOut
    <3> QED BY <3>9, <3>3, <3>4, <3>6, <3>7
  <2> QED BY <2>2, <2>3
<1> HIDE DEF Good
<1>2. SUBSET S \subseteq Good BY <1>1, SubsetInduction
<1> QED BY <1>2 DEF Good

\* Only the weights of the elements matter.
LEMMA SumsAgree ==
  ASSUME NEW S, IsFiniteSet(S), NEW w, NEW v, \A k \in S : w[k] = v[k]
  PROVE  SumFunctionOnSet(w, S) = SumFunctionOnSet(v, S)
<1>1. PICK g : Adds(g, w, S) /\ SumFunctionOnSet(w, S) = g[S] BY SumAdds
<1>2. PICK h : Adds(h, v, S) /\ SumFunctionOnSet(v, S) = h[S] BY SumAdds
<1>3. \A s \in SUBSET S : s # {} => w[First(s)] = v[First(s)] BY FirstIsIn
<1>4. Adds(g, v, S) BY <1>1, <1>3 DEF Adds
<1>5. g[S] = h[S] BY <1>2, <1>4, AddsOnce
<1> QED BY <1>1, <1>2, <1>5

-----------------------------------------------------------------------------
(* Finite sets, their extremes and their sequences                         *)

\* A finite set of numbers has a largest one.
LEMMA LargestExists ==
  ASSUME NEW S \in SUBSET Int, IsFiniteSet(S), S # {}
  PROVE  \E m \in S : \A n \in S : n <= m
<1> DEFINE Good == {T \in SUBSET S : T # {} => \E m \in T : \A n \in T : n <= m}
<1>1. ASSUME NEW T \in SUBSET S, \A R \in SUBSET T : R # T => R \in Good
      PROVE  T \in Good
  <2> SUFFICES ASSUME NEW x \in T PROVE \E m \in T : \A n \in T : n <= m OBVIOUS
  <2>1. T \ {x} \in Good BY <1>1
  <2>2. CASE T = {x} BY <2>2
  <2>3. CASE T # {x}
    <3>1. PICK m \in T \ {x} : \A n \in T \ {x} : n <= m BY <2>1, <2>3
    <3>2. CASE m <= x BY <3>1, <3>2
    <3>3. CASE ~(m <= x) BY <3>1, <3>3
    <3> QED BY <3>2, <3>3
  <2> QED BY <2>2, <2>3
<1> HIDE DEF Good
<1>2. SUBSET S \subseteq Good BY <1>1, SubsetInduction
<1> QED BY <1>2 DEF Good

\* Max is that number.
LEMMA Largest ==
  ASSUME NEW S \in SUBSET Int, IsFiniteSet(S), S # {}
  PROVE  Max(S) \in S /\ \A n \in S : n <= Max(S)
<1>1. PICK m \in S : \A n \in S : n <= m BY LargestExists
<1>2. \E m1 \in S : \A n \in S : m1 >= n BY <1>1
<1>3. Max(S) \in S /\ \A n \in S : Max(S) >= n BY <1>2 DEF Max
<1> QED BY <1>3

\* The image of a finite set is finite.
LEMMA ImageIsFinite ==
  ASSUME NEW f, IsFiniteSet(DOMAIN f), f = [x \in DOMAIN f |-> f[x]]
  PROVE  IsFiniteSet({f[x] : x \in DOMAIN f})
<1>1. f \in Surjection(DOMAIN f, {f[x] : x \in DOMAIN f}) BY DEF Surjection
<1> QED BY <1>1, FS_Surjection

\* SetToSeq has every element of a finite set once.
LEMMA SetToSeqIs ==
  ASSUME NEW S, IsFiniteSet(S)
  PROVE  /\ SetToSeq(S) \in Seq(S) /\ Len(SetToSeq(S)) = Cardinality(S)
         /\ IsInjective(SetToSeq(S))
         /\ \A x \in S : \E n \in 1..Len(SetToSeq(S)) : SetToSeq(S)[n] = x
<1> DEFINE n == Cardinality(S)
<1>1. n \in Nat /\ ExistsBijection(1..n, S) BY FS_CardinalityType
<1>2. PICK b \in [1..n -> S] : IsInjective(b) /\ \A x \in S : \E i \in 1..n : b[i] = x
  <2> HIDE DEF n
  <2>1. PICK b : b \in Bijection(1..n, S) BY <1>1 DEF ExistsBijection
  <2> QED BY <2>1 DEF Bijection, Injection, Surjection, IsInjective
<1>3. SetToSeq(S) \in [1..n -> S] /\ IsInjective(SetToSeq(S))
  BY <1>2 DEF SetToSeq
<1> HIDE DEF n
<1>4. SetToSeq(S) \in Seq(S) /\ Len(SetToSeq(S)) = n BY <1>1, <1>3
<1>5. SetToSeq(S) \in Injection(1..n, S) BY <1>3 DEF Injection
<1>6. SetToSeq(S) \in Surjection(1..n, S)
  <2>1. Cardinality(1..n) = n BY <1>1, FS_Interval
  <2> QED BY <1>5, <2>1, FS_Injection DEF n
<1> QED BY <1>3, <1>4, <1>6 DEF Surjection, n

\* Min is the number that is not above any.
LEMMA MinIs ==
  ASSUME NEW S \in SUBSET Int, NEW m \in S, \A n \in S : m <= n
  PROVE  Min(S) = m
<1>1. \E x \in S : \A y \in S : x <= y OBVIOUS
<1>2. Min(S) \in S /\ \A y \in S : Min(S) <= y BY <1>1 DEF Min
<1>3. Min(S) \in Int /\ m \in Int /\ Min(S) <= m /\ m <= Min(S) BY <1>2
<1> QED BY <1>3

\* A finite set of numbers has a smallest one, and Min is that number.
LEMMA Smallest ==
  ASSUME NEW S \in SUBSET Int, IsFiniteSet(S), S # {}
  PROVE  Min(S) \in S /\ \A n \in S : Min(S) <= n
<1> DEFINE Good == {T \in SUBSET S : T # {} => \E m \in T : \A n \in T : m <= n}
<1>1. ASSUME NEW T \in SUBSET S, \A R \in SUBSET T : R # T => R \in Good
      PROVE  T \in Good
  <2> SUFFICES ASSUME NEW x \in T PROVE \E m \in T : \A n \in T : m <= n OBVIOUS
  <2>1. T \ {x} \in Good BY <1>1
  <2>2. CASE T = {x} BY <2>2
  <2>3. CASE T # {x}
    <3>1. PICK m \in T \ {x} : \A n \in T \ {x} : m <= n BY <2>1, <2>3
    <3>2. CASE x <= m BY <3>1, <3>2
    <3>3. CASE ~(x <= m) BY <3>1, <3>3
    <3> QED BY <3>2, <3>3
  <2> QED BY <2>2, <2>3
<1> HIDE DEF Good
<1>2. SUBSET S \subseteq Good BY <1>1, SubsetInduction
<1>3. \E m \in S : \A n \in S : m <= n BY <1>2 DEF Good
<1> QED BY <1>3 DEF Min

\* Whatever a finite set's elements weigh, they can be put in order.
LEMMA CanBeSorted ==
  ASSUME NEW S, IsFiniteSet(S), NEW w, \A x \in S : w[x] \in Nat
  PROVE  \E s \in SetToSeqs(S) : \A i, j \in DOMAIN s : i < j => w[s[i]] >= w[s[j]]
<1> DEFINE Sorted(s) == \A i, j \in DOMAIN s : i < j => w[s[i]] >= w[s[j]]
           Good == {T \in SUBSET S : \E s \in SetToSeqs(T) : Sorted(s)}
<1>1. ASSUME NEW T \in SUBSET S, \A R \in SUBSET T : R # T => R \in Good
      PROVE  T \in Good
  <2>1. IsFiniteSet(T) BY FS_Subset
  <2>2. CASE T = {}
    <3>1. Cardinality(T) = 0 BY <2>2, FS_EmptySet
    <3>2. <<>> \in SetToSeqs(T) BY <2>2, <3>1 DEF SetToSeqs
    <3> QED BY <3>2
  <2>3. CASE T # {}
    <3>1. PICK x \in T : \A y \in T : w[x] <= w[y]
      <4> DEFINE f == [y \in T |-> w[y]]
                 W == {f[y] : y \in DOMAIN f}
      <4>1. IsFiniteSet(DOMAIN f) /\ f = [y \in DOMAIN f |-> f[y]] BY <2>1
      <4>2. W \in SUBSET Int /\ W # {} BY <2>3
      <4>3. IsFiniteSet(W)
        <5> HIDE DEF f
        <5> QED BY <4>1, ImageIsFinite
      <4>4. Min(W) \in W /\ \A n \in W : Min(W) <= n
        <5> HIDE DEF W
        <5> QED BY <4>2, <4>3, Smallest
      <4>5. PICK x \in T : w[x] = Min(W) BY <4>4
      <4>6. \A y \in T : w[y] \in W OBVIOUS
      <4> HIDE DEF W
      <4> QED BY <4>4, <4>5, <4>6
    <3> DEFINE R == T \ {x}
               n == Cardinality(T)
    <3>2. Cardinality(R) = n - 1 /\ n \in Nat /\ n # 0
      BY <2>1, <2>3, FS_RemoveElement, FS_CardinalityType, FS_EmptySet
    <3>3. R \in Good BY <1>1
    <3>4. PICK s \in SetToSeqs(R) : Sorted(s) BY <3>3
    <3> HIDE DEF n
    <3>5. s \in [1..(n - 1) -> R] /\ \A i, j \in 1..(n - 1) : i # j => s[i] # s[j]
      BY <3>2, <3>4 DEF SetToSeqs
    <3> DEFINE t == [i \in 1..n |-> IF i = n THEN x ELSE s[i]]
    <3>6. \A i \in 1..n : i = n \/ i \in 1..(n - 1) BY <3>2
    <3>7. t \in [1..n -> T] BY <3>5, <3>6
    <3>8. \A i, j \in 1..n : i # j => t[i] # t[j] BY <3>5, <3>6
    <3>9. t \in SetToSeqs(T) BY <3>7, <3>8 DEF SetToSeqs, n
    <3>10. ASSUME NEW i \in 1..n, NEW j \in 1..n, i < j PROVE w[t[i]] >= w[t[j]]
      <4>1. i \in 1..(n - 1) /\ t[i] = s[i] BY <3>2, <3>10
      <4>2. CASE j = n
        <5>1. t[j] = x /\ s[i] \in T BY <3>5, <4>1, <4>2
        <5>2. w[x] <= w[s[i]] /\ w[x] \in Nat /\ w[s[i]] \in Nat BY <3>1, <5>1
        <5> QED BY <4>1, <5>1, <5>2
      <4>3. CASE j # n
        <5>1. j \in 1..(n - 1) /\ t[j] = s[j] BY <3>6, <4>3
        <5> QED BY <3>4, <3>5, <3>10, <4>1, <5>1
      <4> QED BY <4>2, <4>3
    <3> QED BY <3>9, <3>10
  <2> QED BY <2>2, <2>3
<1> HIDE DEF Good
<1>2. SUBSET S \subseteq Good BY <1>1, SubsetInduction
<1> QED BY <1>2 DEF Good

\* Such a sequence has every element.
LEMMA SetToSeqsIs ==
  ASSUME NEW S, IsFiniteSet(S), NEW s \in SetToSeqs(S)
  PROVE  s \in Seq(S) /\ \A x \in S : \E i \in 1..Len(s) : s[i] = x
<1> DEFINE n == Cardinality(S)
<1>1. n \in Nat BY FS_CardinalityType
<1>2. s \in [1..n -> S] /\ \A i, j \in 1..n : i # j => s[i] # s[j] BY DEF SetToSeqs
<1>3. Cardinality(1..n) = n
  <2> HIDE DEF n
  <2> QED BY <1>1, FS_Interval
<1>4. s \in Injection(1..n, S) BY <1>2 DEF Injection, IsInjective
<1>5. s \in Surjection(1..n, S) BY <1>3, <1>4, FS_Injection
<1> HIDE DEF n
<1> QED BY <1>1, <1>2, <1>5 DEF Surjection

-----------------------------------------------------------------------------
(* What the tables and a running import hold.                              *)

LineKeys     == STRING \X Places
FunctionKeys == STRING \X STRING
Headers      == [event : STRING, count : Nat]

Rows(K, V) == [key : K, value : V]

\* A finite map from keys to values, and a table of such maps, one for each id.
IsMap(m, K, V) ==
  /\ m = [k \in DOMAIN m |-> m[k]] /\ IsFiniteSet(DOMAIN m)
  /\ DOMAIN m \subseteq K /\ \A k \in DOMAIN m : m[k] \in V

IsTable(t, K, V) ==
  /\ IsFiniteSet(DOMAIN t)
  /\ \A k \in DOMAIN t : k = <<k[1], k[2]>> /\ k[1] \in Ids /\ k[2] \in K /\ t[k] \in V

IsAggregate(agg) ==
  /\ agg = [samples |-> agg.samples, lines |-> agg.lines, funcs |-> agg.funcs]
  /\ agg.samples \in Nat /\ IsMap(agg.lines, LineKeys, Nat)
  /\ IsMap(agg.funcs, FunctionKeys, FunctionCounts)

IsParser(s) ==
  /\ s = [sample |-> s.sample, frames |-> s.frames, agg |-> s.agg]
  /\ s.sample \in Headers \cup {None} /\ s.frames \in Seq(Frames) /\ IsAggregate(s.agg)

IsJob ==
  /\ JobIsRecord /\ IsParser(job.parser) /\ job.total \in Int /\ job.id \in Ids \cup {None}
  /\ job.rows \in Seq(Rows(LineKeys, Nat))
  /\ job.frows \in Seq(Rows(FunctionKeys, FunctionCounts))
  /\ job.pc \in {"idle", "open", "sniff", "script", "ndjson", "stdin",
                 "lines", "functions", "total"}

AreTables ==
  /\ DOMAIN profiles \subseteq Ids /\ \A id \in DOMAIN profiles : profiles[id] \in Int
  /\ IsTable(lineRows, LineKeys, Nat)
  /\ IsTable(funcRows, FunctionKeys, FunctionCounts)
  /\ IsTable(hashes, Files, {TRUE})

AreCounters ==
  /\ imports \in 0..MaxImports /\ stdin \in {"open", "closed"}
  /\ DOMAIN ledger \subseteq Ids /\ IsFiniteSet(DOMAIN ledger)

TypesInv == IsJob /\ AreTables /\ AreCounters

\* A header that is found in a line says which event and how often.
LEMMA HeaderIs ==
  ASSUME NEW l \in PerfLines
  PROVE  ParseHeader(l) \in Headers \cup {None}
<1>1. l.toks \in Seq(Tokens) BY InputAssumption
<1> SUFFICES ASSUME CountAndEvent(l.toks) # {} PROVE ParseHeader(l) \in Headers \cup {None}
  BY DEF ParseHeader
<1> DEFINE S == CountAndEvent(l.toks)
<1>2. S \subseteq 2..Len(l.toks) /\ Len(l.toks) \in Nat BY <1>1 DEF CountAndEvent
<1>3. IsFiniteSet(S)
  <2>1. IsFiniteSet(2..Len(l.toks)) BY <1>2, FS_Interval
  <2> QED BY <1>2, <2>1, FS_Subset
<1>4. Max(S) \in S
  <2>1. S \in SUBSET Int BY <1>2
  <2> HIDE DEF S
  <2> QED BY <1>3, <2>1, Largest DEF S
<1>5. PICK i \in CountAndEvent(l.toks) : i = Max(CountAndEvent(l.toks)) BY <1>4
<1>6. /\ i \in 2..Len(l.toks) /\ i - 1 \in 1..Len(l.toks)
      /\ l.toks[i - 1].num # None
  BY <1>1, <1>5 DEF CountAndEvent
<1>7. l.toks[i] \in Tokens /\ l.toks[i - 1] \in Tokens BY <1>1, <1>6
<1>8. l.toks[i].name \in STRING /\ l.toks[i - 1].num \in Nat BY <1>6, <1>7 DEF Tokens
<1>9. [event |-> l.toks[i].name, count |-> l.toks[i - 1].num] \in Headers
  BY <1>8 DEF Headers
<1> QED BY <1>5, <1>9 DEF ParseHeader

\* Put keeps a map of its type.
LEMMA PutKeeps ==
  ASSUME NEW m, NEW K, NEW V, IsMap(m, K, V), NEW k \in K, NEW v \in V
  PROVE  IsMap(Put(m, k, v), K, V)
<1>1. Put(m, k, v) = [x \in DOMAIN m \cup {k} |-> IF x = k THEN v ELSE m[x]] BY DEF Put
<1>2. IsFiniteSet(DOMAIN m \cup {k}) BY FS_AddElement DEF IsMap
<1> QED BY <1>1, <1>2 DEF IsMap

\* Aggregator::record keeps the types.
LEMMA RecordKeeps ==
  ASSUME NEW agg, IsAggregate(agg), NEW e \in STRING, NEW n \in Nat, NEW frames,
         frames[1] \in Frames
  PROVE  IsAggregate(Record(agg, e, n, frames))
<1> DEFINE leaf == frames[1]
           new == Record(agg, e, n, frames)
<1>1. /\ new = [samples |-> agg.samples + 1, lines |-> new.lines, funcs |-> new.funcs]
      /\ new.lines = IF HasLine(leaf.loc) THEN Add(agg.lines, <<e, leaf.loc>>, n) ELSE agg.lines
      /\ new.funcs = IF leaf.func = None THEN agg.funcs
                     ELSE AddFunc(agg.funcs, <<e, leaf.func>>, n, FileOf(leaf))
  BY DEF Record
<1>2. leaf.loc \in Places \cup {None} /\ leaf.func \in STRING \cup {None} BY DEF Frames
<1>3. FileOf(leaf) \in STRING \cup {None} BY <1>2 DEF FileOf, Places
<1> HIDE DEF leaf, new
<1>4. ASSUME NEW k \in LineKeys PROVE IsMap(Add(agg.lines, k, n), LineKeys, Nat)
  <2> DEFINE v == n + IF k \in DOMAIN agg.lines THEN agg.lines[k] ELSE 0
  <2>1. v \in Nat BY DEF IsAggregate, IsMap
  <2>2. Add(agg.lines, k, n) = Put(agg.lines, k, v) BY DEF Add
  <2> HIDE DEF v
  <2> QED BY <2>1, <2>2, PutKeeps DEF IsAggregate
<1>5. ASSUME NEW k \in FunctionKeys, NEW file \in STRING \cup {None}
      PROVE  IsMap(AddFunc(agg.funcs, k, n, file), FunctionKeys, FunctionCounts)
  <2> DEFINE old == IF k \in DOMAIN agg.funcs THEN agg.funcs[k] ELSE [self |-> 0, file |-> None]
             v == [self |-> old.self + n, file |-> IF old.file = None THEN file ELSE old.file]
  <2>1. old \in FunctionCounts BY DEF IsAggregate, IsMap, FunctionCounts
  <2>2. v \in FunctionCounts
    <3> HIDE DEF old
    <3> QED BY <2>1 DEF FunctionCounts
  <2>3. AddFunc(agg.funcs, k, n, file) = Put(agg.funcs, k, v) BY DEF AddFunc
  <2> HIDE DEF v
  <2> QED BY <2>2, <2>3, PutKeeps DEF IsAggregate
<1>6. IsMap(new.lines, LineKeys, Nat)
  <2>1. CASE ~HasLine(leaf.loc) BY <1>1, <2>1 DEF IsAggregate
  <2>2. CASE HasLine(leaf.loc)
    <3>1. <<e, leaf.loc>> \in LineKeys BY <1>2, <2>2 DEF LineKeys, HasLine
    <3> QED BY <1>1, <1>4, <2>2, <3>1
  <2> QED BY <2>1, <2>2
<1>7. IsMap(new.funcs, FunctionKeys, FunctionCounts)
  <2>1. CASE leaf.func = None BY <1>1, <2>1 DEF IsAggregate
  <2>2. CASE leaf.func # None
    <3>1. <<e, leaf.func>> \in FunctionKeys BY <1>2, <2>2 DEF FunctionKeys
    <3> QED BY <1>1, <1>3, <1>5, <2>2, <3>1
  <2> QED BY <2>1, <2>2
<1>8. agg.samples + 1 \in Nat BY DEF IsAggregate
<1> QED BY <1>1, <1>6, <1>7, <1>8 DEF IsAggregate, new

\* Flush leaves an aggregate.
LEMMA FlushIs ==
  ASSUME NEW s, IsParser(s)
  PROVE  IsAggregate(Flush(s))
<1>1. CASE s.sample = None \/ s.frames = <<>> BY <1>1 DEF Flush, IsParser
<1>2. CASE ~(s.sample = None \/ s.frames = <<>>)
  <2>1. s.frames[1] \in Frames /\ s.sample \in Headers BY <1>2 DEF IsParser
  <2>2. s.sample.event \in STRING /\ s.sample.count \in Nat BY <2>1 DEF Headers
  <2>3. Flush(s) = Record(s.agg, s.sample.event, s.sample.count, s.frames)
    BY <1>2 DEF Flush
  <2> QED BY <2>1, <2>2, <2>3, RecordKeeps DEF IsParser
<1> QED BY <1>1, <1>2

\* A line leaves the parser of its type.
LEMMA ParserKeeps ==
  ASSUME NEW s, IsParser(s), NEW l \in PerfLines
  PROVE  IsParser(ParseLine(s, l))
<1>1. l.frame \in Frames \cup {None} BY InputAssumption
<1>2. CASE l.indent /\ s.sample # None
  <2> DEFINE fs == IF l.frame = None THEN s.frames ELSE Append(s.frames, l.frame)
  <2>1. fs \in Seq(Frames) BY <1>1 DEF IsParser
  <2>2. ParseLine(s, l) = [s EXCEPT !.frames = fs] BY <1>2 DEF ParseLine, ParseFrame
  <2> HIDE DEF fs
  <2>3. ParseLine(s, l) = [sample |-> s.sample, frames |-> fs, agg |-> s.agg]
    BY <2>2 DEF IsParser
  <2> QED BY <2>1, <2>3 DEF IsParser
<1>3. CASE ~(l.indent /\ s.sample # None)
  <2>1. ParseLine(s, l) = [sample |-> Begins(l), frames |-> <<>>, agg |-> Flush(s)]
    BY <1>3 DEF ParseLine
  <2>2. Begins(l) \in Headers \cup {None} BY HeaderIs DEF Begins
  <2> QED BY <2>1, <2>2, FlushIs DEF IsParser
<1> QED BY <1>2, <1>3

\* What the parser has counted, as rows.
LEMMA CountsAsRows ==
  ASSUME NEW m, NEW K, NEW V, IsMap(m, K, V)
  PROVE  SetToSeq(AsRows(m)) \in Seq(Rows(K, V))
<1> DEFINE f == [k \in DOMAIN m |-> [key |-> k, value |-> m[k]]]
<1>1. IsFiniteSet(AsRows(m))
  <2>1. AsRows(m) = {f[k] : k \in DOMAIN f} BY DEF AsRows
  <2>2. IsFiniteSet(DOMAIN f) BY DEF IsMap
  <2>3. f = [k \in DOMAIN f |-> f[k]] OBVIOUS
  <2> HIDE DEF f
  <2> QED BY <2>1, <2>2, <2>3, ImageIsFinite
<1>2. AsRows(m) \subseteq Rows(K, V) BY DEF AsRows, Rows, IsMap
<1>3. SetToSeq(AsRows(m)) \in Seq(AsRows(m)) BY <1>1, SetToSeqIs
<1> HIDE DEF f
<1> QED BY <1>2, <1>3

\* Of the rows with one key the last one counts.
LEMMA LastValueIs ==
  ASSUME NEW K, NEW V, NEW rows \in Seq(Rows(K, V)),
         NEW key, \E n \in 1..Len(rows) : rows[n].key = key
  PROVE  \E n \in 1..Len(rows) :
           /\ rows[n].key = key /\ LastValue(key, rows) = rows[n].value
           /\ \A m \in (n + 1)..Len(rows) : rows[m].key # key
<1> DEFINE S == {n \in 1..Len(rows) : rows[n].key = key}
<1>1. Len(rows) \in Nat OBVIOUS
<1>2. S \in SUBSET Int /\ S # {} OBVIOUS
<1>3. IsFiniteSet(S)
  <2>1. IsFiniteSet(1..Len(rows)) BY <1>1, FS_Interval
  <2> QED BY <2>1, FS_Subset
<1>4. PICK n \in S : \A m \in S : m <= n
  <2> HIDE DEF S
  <2> QED BY <1>2, <1>3, Largest
<1>5. \E i \in 1..Len(rows) : /\ rows[i].key = key
                              /\ \A m \in (i + 1)..Len(rows) : rows[m].key # key
  <2>1. \A m \in (n + 1)..Len(rows) : rows[m].key # key BY <1>1, <1>4
  <2> QED BY <1>4, <2>1
<1> DEFINE last == CHOOSE i \in 1..Len(rows) :
                     /\ rows[i].key = key
                     /\ \A m \in (i + 1)..Len(rows) : rows[m].key # key
<1>6. /\ last \in 1..Len(rows) /\ rows[last].key = key
      /\ \A m \in (last + 1)..Len(rows) : rows[m].key # key
  BY <1>5
<1>7. LastValue(key, rows) = rows[last].value BY DEF LastValue
<1> HIDE DEF last
<1> QED BY <1>6, <1>7

\* Insertion leaves a table of its type.
LEMMA InsertKeepsTable ==
  ASSUME DOMAIN profiles \subseteq Ids, NEW t, NEW K, NEW V, IsTable(t, K, V),
         NEW id, NEW rows \in Seq(Rows(K, V))
  PROVE  IsTable(Insert(id, rows, t), K, V)
<1> DEFINE f == [n \in 1..Len(rows) |-> <<id, rows[n].key>>]
           u == Insert(id, rows, t)
<1>1. IsFiniteSet(Keys(id, rows))
  <2>1. IsFiniteSet(1..Len(rows)) BY FS_Interval
  <2>2. Keys(id, rows) = {f[n] : n \in DOMAIN f} BY DEF Keys
  <2>3. IsFiniteSet(DOMAIN f) /\ f = [n \in DOMAIN f |-> f[n]] BY <2>1
  <2> HIDE DEF f
  <2> QED BY <2>2, <2>3, ImageIsFinite
<1>2. \A k \in Keys(id, rows) : /\ k = <<k[1], k[2]>> /\ k[1] = id /\ k[2] \in K
                                /\ \E n \in 1..Len(rows) : rows[n].key = k[2]
  <2> SUFFICES ASSUME NEW n \in 1..Len(rows) PROVE rows[n].key \in K
    BY DEF Keys
  <2>1. rows[n] \in Rows(K, V) OBVIOUS
  <2> QED BY <2>1 DEF Rows
<1>3. \A k \in Keys(id, rows) : LastValue(k[2], rows) \in V
  <2> SUFFICES ASSUME NEW k \in Keys(id, rows) PROVE LastValue(k[2], rows) \in V OBVIOUS
  <2>1. PICK n \in 1..Len(rows) : LastValue(k[2], rows) = rows[n].value
    BY <1>2, LastValueIs
  <2>2. rows[n] \in Rows(K, V) OBVIOUS
  <2> QED BY <2>1, <2>2 DEF Rows
<1>4. CASE id \notin DOMAIN profiles BY <1>4 DEF Insert
<1>5. CASE id \in DOMAIN profiles
  <2>1. u = [k \in DOMAIN t \cup Keys(id, rows) |->
               IF k \in Keys(id, rows) THEN LastValue(k[2], rows) ELSE t[k]]
    BY <1>5 DEF Insert
  <2>2. DOMAIN u = DOMAIN t \cup Keys(id, rows) BY <2>1
  <2>3. IsFiniteSet(DOMAIN u)
    <3>1. IsFiniteSet(DOMAIN t) BY DEF IsTable
    <3>2. IsFiniteSet(DOMAIN t \cup Keys(id, rows)) BY <1>1, <3>1, FS_Union
    <3> QED BY <2>2, <3>2
  <2>4. \A k \in DOMAIN u : k = <<k[1], k[2]>> /\ k[1] \in Ids /\ k[2] \in K
    BY <1>2, <1>5, <2>2 DEF IsTable
  <2>5. \A k \in DOMAIN u : u[k] \in V BY <1>3, <2>1, <2>2 DEF IsTable
  <2> HIDE DEF u
  <2>6. IsTable(u, K, V) BY <2>3, <2>4, <2>5 DEF IsTable
  <2> QED BY <2>6 DEF u
<1> QED BY <1>4, <1>5

\* Deletion leaves a table of its type.
LEMMA CascadeKeepsTable ==
  ASSUME NEW t, NEW K, NEW V, IsTable(t, K, V), NEW id
  PROVE  IsTable(Cascade(id, t), K, V)
<1>1. DOMAIN Cascade(id, t) = {k \in DOMAIN t : k[1] # id} BY CascadeLeaves
<1>2. \A k \in DOMAIN Cascade(id, t) : Cascade(id, t)[k] = t[k] BY DEF Cascade, Restrict
<1>3. IsFiniteSet(DOMAIN Cascade(id, t)) BY <1>1, FS_Subset DEF IsTable
<1> QED BY <1>1, <1>2, <1>3 DEF IsTable

\* createProfile leaves the tables of their types.
LEMMA CreateKeepsTables ==
  ASSUME AreTables, NEW id \in Ids, NEW total \in Int, CreateProfile(id, total)
  PROVE  AreTables'
<1>1. /\ DOMAIN profiles' \subseteq Ids /\ \A j \in DOMAIN profiles' : profiles'[j] \in Int
  BY DEF CreateProfile, Put, AreTables
<1>2. /\ lineRows' = Cascade(id, lineRows) /\ funcRows' = Cascade(id, funcRows)
      /\ hashes' = Cascade(id, hashes)
  BY DEF CreateProfile, Delete
<1>3. /\ IsTable(lineRows', LineKeys, Nat) /\ IsTable(hashes', Files, {TRUE})
      /\ IsTable(funcRows', FunctionKeys, FunctionCounts)
  BY <1>2, CascadeKeepsTable DEF AreTables
<1> QED BY <1>1, <1>3 DEF AreTables

\* An entry for an id leaves the ledger one of ids.
LEMMA LedgerKeeps ==
  ASSUME DOMAIN ledger \subseteq Ids, IsFiniteSet(DOMAIN ledger), NEW id \in Ids, NEW entry,
         ledger' = Put(ledger, id, entry)
  PROVE  DOMAIN ledger' \subseteq Ids /\ IsFiniteSet(DOMAIN ledger')
<1>1. DOMAIN ledger' = DOMAIN ledger \cup {id} BY DEF Put
<1> QED BY <1>1, FS_AddElement

\* A generated id is one.
LEMMA NewIdIsId == ASSUME IsFiniteSet(DOMAIN ledger) PROVE NewId \in Ids
<1>1. IsFiniteSet(DOMAIN ledger \ GivenIds) BY FS_Subset
<1> QED BY <1>1, FS_CardinalityType DEF NewId, Ids

\* A new import has its type.
LEMMA NewJob ==
  /\ IsParser(NewParser)
  /\ \A pc \in {"idle", "open", "script", "ndjson", "stdin"} :
       job' = [Idle EXCEPT !.pc = pc] => IsJob'
<1>1. IsAggregate(NoSamples)
  BY FS_EmptySet DEF NoSamples, NoCounts, IsAggregate, IsMap
<1>2. IsParser(NewParser) BY <1>1 DEF NewParser, IsParser
<1>3. ASSUME NEW pc \in {"idle", "open", "script", "ndjson", "stdin"},
             job' = [Idle EXCEPT !.pc = pc]
      PROVE  IsJob'
  <2>1. job' = [pc |-> pc, id |-> None, total |-> 0, rows |-> <<>>, frows |-> <<>>,
                text |-> <<>>, parser |-> NewParser]
    BY <1>3 DEF Idle
  <2>2. JobIsRecord' BY <2>1 DEF JobIsRecord
  <2>3. /\ job'.pc = pc /\ job'.id = None /\ job'.total = 0 /\ job'.rows = <<>>
        /\ job'.frows = <<>> /\ job'.parser = NewParser
    BY <2>1
  <2>4. <<>> \in Seq(Rows(LineKeys, Nat)) /\ <<>> \in Seq(Rows(FunctionKeys, FunctionCounts))
    OBVIOUS
  <2> QED BY <1>2, <2>2, <2>3, <2>4 DEF IsJob
<1> QED BY <1>2, <1>3

\* No import has the type of one.
LEMMA IdleIsJob == ASSUME job' = Idle PROVE IsJob'
<1>1. Idle = [Idle EXCEPT !.pc = "idle"] BY DEF Idle
<1> QED BY <1>1, NewJob

\* Reading a line keeps the types.
LEMMA ReadingTypes ==
  ASSUME TypesInv, NEW l,
         \/ l \in PerfLines /\ ReadPerf(l)
         \/ l \in JsonLines /\ (ReadMetadata(l) \/ ReadRow(l) \/ ReadJunk(l) \/ ReadMistyped(l))
  PROVE  TypesInv'
<1> USE DEF TypesInv, tables
<1>1. CASE l \in PerfLines /\ ReadPerf(l)
  <2>1. /\ JobIsRecord' /\ job'.pc = "script" /\ job'.id = job.id /\ job'.total = job.total
        /\ job'.rows = job.rows /\ job'.frows = job.frows /\ job.pc # "idle"
        /\ job'.parser = ParseLine(job.parser, l)
    BY <1>1 DEF ReadPerf, JobIsRecord, IsJob
  <2>2. IsParser(job'.parser) BY <1>1, <2>1, ParserKeeps DEF IsJob
  <2>3. IsJob' BY <2>1, <2>2 DEF IsJob
  <2> QED BY <1>1, <2>1, <2>3 DEF ReadPerf, ReadOne, AreTables, AreCounters
<1>2. CASE l \in JsonLines /\ ReadMetadata(l)
  <2> DEFINE id == IF l.id = None THEN NewId ELSE l.id
  <2>1. l.id \in GivenIds \cup {None} /\ l.total \in Int BY <1>2, InputAssumption DEF ReadMetadata
  <2>2. /\ JobIsRecord' /\ job'.pc = "ndjson" /\ job'.id = id /\ job'.total = l.total
        /\ job'.rows = job.rows /\ job'.frows = job.frows /\ job.pc # "idle"
        /\ job'.parser = job.parser
    BY <1>2 DEF ReadMetadata, Reading, JobIsRecord, IsJob
  <2>3. id \in Ids BY <2>1, NewIdIsId DEF AreCounters, Ids
  <2>4. CreateProfile(id, l.total) /\ ledger' = Put(ledger, id, [rows |-> <<>>, frows |-> <<>>])
    BY <1>2 DEF ReadMetadata
  <2>5. /\ imports' = imports /\ stdin' = stdin BY <1>2 DEF ReadMetadata, ReadOne
  <2> HIDE DEF id
  <2>6. IsJob' BY <2>1, <2>2, <2>3 DEF IsJob
  <2>7. AreTables' BY <2>1, <2>3, <2>4, CreateKeepsTables
  <2>8. AreCounters' BY <2>2, <2>3, <2>4, <2>5, LedgerKeeps DEF AreCounters
  <2> QED BY <2>6, <2>7, <2>8
<1>3. CASE l \in JsonLines /\ ReadRow(l)
  <2>1. /\ JobIsRecord' /\ job'.pc = "ndjson" /\ job'.id = job.id /\ job'.total = job.total
        /\ job'.parser = job.parser /\ job.pc # "idle"
        /\ job'.rows = (IF l.type = "line" /\ l.valid
                          THEN Append(job.rows, [key |-> l.key, value |-> l.value]) ELSE job.rows)
        /\ job'.frows = (IF l.type = "function" /\ l.valid
                          THEN Append(job.frows, [key |-> l.key, value |-> l.value]) ELSE job.frows)
    BY <1>3 DEF ReadRow, Reading, JobIsRecord, IsJob
  <2>2. /\ l.type = "line" /\ l.valid =>
             [key |-> l.key, value |-> l.value] \in Rows(LineKeys, Nat)
        /\ l.type = "function" /\ l.valid =>
             [key |-> l.key, value |-> l.value] \in Rows(FunctionKeys, FunctionCounts)
    BY <1>3, InputAssumption DEF Rows, LineKeys, FunctionKeys
  <2>3. /\ job'.rows \in Seq(Rows(LineKeys, Nat))
        /\ job'.frows \in Seq(Rows(FunctionKeys, FunctionCounts))
    BY <2>1, <2>2 DEF IsJob
  <2>4. IsJob' BY <2>1, <2>3 DEF IsJob
  <2> QED BY <1>3, <2>1, <2>4 DEF ReadRow, ReadOne, AreTables, AreCounters
<1>4. CASE ReadJunk(l)
  <2>1. IsJob' /\ job.pc # "idle" BY <1>4 DEF ReadJunk, Reading, IsJob, JobIsRecord
  <2> QED BY <1>4, <2>1 DEF ReadJunk, ReadOne, AreTables, AreCounters
<1>5. CASE ReadMistyped(l)
  <2>1. job'.pc = "idle" /\ IsJob' BY <1>5, IdleIsJob DEF ReadMistyped, Idle
  <2> QED BY <1>5, <2>1 DEF ReadMistyped, ReadOne, AreTables, AreCounters
<1> QED BY <1>1, <1>2, <1>3, <1>4, <1>5

\* The end of what is read keeps the types.
LEMMA EndTypes ==
  ASSUME TypesInv, EndPerf \/ EndJson \/ ImporterEnds
  PROVE  TypesInv'
<1> USE DEF TypesInv, tables, bounds
<1>1. CASE EndPerf
  <2> DEFINE agg == Flush(job.parser)
  <2>1. /\ JobIsRecord' /\ job'.pc = "lines" /\ job'.id = NewId /\ job'.total = agg.samples
        /\ job'.rows = SetToSeq(AsRows(agg.lines)) /\ job'.frows = SetToSeq(AsRows(agg.funcs))
        /\ job'.parser = [job.parser EXCEPT !.agg = agg] /\ job.pc # "idle"
    BY <1>1 DEF EndPerf, JobIsRecord, IsJob
  <2>2. IsAggregate(agg) BY FlushIs DEF IsJob
  <2>3. NewId \in Ids BY NewIdIsId DEF AreCounters
  <2>4. CreateProfile(NewId, agg.samples) /\ UNCHANGED <<stdin, imports>>
        /\ ledger' = Put(ledger, NewId, [rows |-> job'.rows, frows |-> job'.frows])
    BY <1>1 DEF EndPerf
  <2> HIDE DEF agg
  <2>5. IsParser(job'.parser) BY <2>1, <2>2 DEF IsJob, IsParser
  <2>6. /\ job'.rows \in Seq(Rows(LineKeys, Nat))
        /\ job'.frows \in Seq(Rows(FunctionKeys, FunctionCounts))
    BY <2>1, <2>2, CountsAsRows DEF IsAggregate
  <2>7. agg.samples \in Nat BY <2>2 DEF IsAggregate
  <2>8. IsJob' BY <2>1, <2>3, <2>5, <2>6, <2>7 DEF IsJob
  <2>9. AreTables' BY <2>3, <2>4, <2>7, CreateKeepsTables
  <2>10. AreCounters' BY <2>1, <2>3, <2>4, LedgerKeeps DEF AreCounters
  <2> QED BY <2>8, <2>9, <2>10
<1>2. CASE EndJson
  <2>1. PICK id : id = (IF job.id = None THEN NewId ELSE job.id) OBVIOUS
  <2>2. job.pc # "idle" BY <1>2 DEF EndJson, Reading
  <2>3. id \in Ids BY <2>1, NewIdIsId DEF AreCounters, IsJob
  <2>4. /\ CreateProfile(id, 0) \/ UNCHANGED tables
        /\ ledger' = Put(ledger, id, [rows |-> job.rows, frows |-> job.frows])
        /\ UNCHANGED <<stdin, imports>> /\ job' = [job EXCEPT !.pc = "lines", !.id = id]
    BY <1>2, <2>1 DEF EndJson
  <2>5. IsJob' BY <2>3, <2>4 DEF IsJob, JobIsRecord
  <2>6. AreTables' BY <2>3, <2>4, CreateKeepsTables DEF AreTables
  <2>7. AreCounters' BY <2>2, <2>3, <2>4, LedgerKeeps DEF AreCounters
  <2> QED BY <2>5, <2>6, <2>7
<1>3. CASE ImporterEnds
  <2>1. job.pc # "idle" BY <1>3 DEF ImporterEnds
  <2>2. NewId \in Ids BY NewIdIsId DEF AreCounters
  <2>3. /\ CreateProfile(NewId, 0) /\ UNCHANGED <<stdin, imports>>
        /\ ledger' = Put(ledger, NewId, [rows |-> <<>>, frows |-> <<>>])
        /\ job' = [job EXCEPT !.pc = "ndjson", !.id = NewId]
    BY <1>3 DEF ImporterEnds
  <2>4. IsJob' BY <2>2, <2>3 DEF IsJob, JobIsRecord
  <2>5. AreTables' BY <2>2, <2>3, CreateKeepsTables
  <2>6. AreCounters' BY <2>1, <2>2, <2>3, LedgerKeeps DEF AreCounters
  <2> QED BY <2>4, <2>5, <2>6
<1> QED BY <1>1, <1>2, <1>3

\* The commits of the rows and of the total keep the types.
LEMMA WritingTypes ==
  ASSUME TypesInv, ImportInv, InsertLineRows \/ InsertFunctionRows \/ Finish
  PROVE  TypesInv'
<1> USE DEF TypesInv, tables, bounds
<1>1. CASE InsertLineRows
  <2>1. job' = [job EXCEPT !.pc = "functions"] /\ job.pc = "lines" BY <1>1 DEF InsertLineRows
  <2>2. IsJob' BY <2>1 DEF IsJob, JobIsRecord
  <2>3. /\ lineRows' = Insert(job.id, job.rows, lineRows)
        /\ UNCHANGED <<profiles, funcRows, hashes, stdin, imports, ledger>>
    BY <1>1 DEF InsertLineRows
  <2>4. IsTable(lineRows', LineKeys, Nat) BY <2>3, InsertKeepsTable DEF AreTables, IsJob
  <2> QED BY <2>1, <2>2, <2>3, <2>4 DEF AreTables, AreCounters
<1>2. CASE InsertFunctionRows
  <2>1. job' = [job EXCEPT !.pc = "total"] /\ job.pc = "functions" BY <1>2 DEF InsertFunctionRows
  <2>2. IsJob' BY <2>1 DEF IsJob, JobIsRecord
  <2>3. /\ funcRows' = Insert(job.id, job.frows, funcRows)
        /\ UNCHANGED <<profiles, lineRows, hashes, stdin, imports, ledger>>
    BY <1>2 DEF InsertFunctionRows
  <2>4. IsTable(funcRows', FunctionKeys, FunctionCounts)
    BY <2>3, InsertKeepsTable DEF AreTables, IsJob
  <2> QED BY <2>1, <2>2, <2>3, <2>4 DEF AreTables, AreCounters
<1>3. CASE Finish
  <2>1. job.id \in DOMAIN profiles BY <1>3 DEF Finish, ImportInv, JobInv, JobWrites
  <2>2. \/ profiles' = profiles
        \/ \E total \in Columns : profiles' = Put(profiles, job.id, total)
    BY <1>3 DEF Finish
  <2>3. DOMAIN profiles' \subseteq Ids /\ \A id \in DOMAIN profiles' : profiles'[id] \in Int
    BY <2>1, <2>2, InputAssumption DEF Put, AreTables, Columns
  <2>4. IsJob' /\ job'.pc = "idle" BY <1>3, IdleIsJob DEF Finish, Idle
  <2> QED BY <1>3, <2>3, <2>4 DEF Finish, AreTables, AreCounters
<1> QED BY <1>1, <1>2, <1>3

\* Every step keeps the types.
LEMMA TypesStep ==
  ASSUME TypesInv, ImportInv, [Next]_vars
  PROVE  TypesInv'
<1> USE DEF tables, bounds
<1>1. CASE UNCHANGED vars
  BY <1>1 DEF vars, TypesInv, IsJob, JobIsRecord, AreTables, AreCounters
<1>2. ASSUME NEW ext, NEW installed, ImportProfile(ext, installed) PROVE TypesInv'
  <2>1. PICK pc \in {"idle", "open", "script", "ndjson", "stdin"} :
          job' = [Idle EXCEPT !.pc = pc]
    BY <1>2 DEF ImportProfile, Reader
  <2>2. IsJob' BY <2>1, NewJob
  <2>3. imports' \in 1..MaxImports BY <1>2, InputAssumption DEF ImportProfile, TypesInv, AreCounters
  <2> QED BY <1>2, <2>2, <2>3 DEF ImportProfile, TypesInv, AreTables, AreCounters
<1>3. CASE Open
  <2>1. IsJob' /\ job.pc # "idle" BY <1>3 DEF Open, TypesInv, IsJob, JobIsRecord
  <2> QED BY <1>3, <2>1 DEF Open, TypesInv, AreTables, AreCounters
<1>4. CASE ExtensionLeaves
  BY <1>4 DEF ExtensionLeaves, TypesInv, IsJob, JobIsRecord, AreTables, AreCounters
<1>5. CASE Crash
  <2>1. IsJob' /\ job'.pc = "idle" BY <1>5, IdleIsJob DEF Crash, Idle
  <2> QED BY <1>5, <2>1 DEF Crash, TypesInv, AreTables, AreCounters
<1>6. ASSUME NEW id, DeleteProfile(id) PROVE TypesInv'
  <2>1. /\ DOMAIN profiles' \subseteq DOMAIN profiles
        /\ \A j \in DOMAIN profiles' : profiles'[j] = profiles[j]
    BY <1>6 DEF DeleteProfile, Restrict
  <2>2. /\ lineRows' = Cascade(id, lineRows) /\ funcRows' = Cascade(id, funcRows)
        /\ hashes' = Cascade(id, hashes)
    BY <1>6 DEF DeleteProfile, Delete
  <2>3. /\ IsTable(lineRows', LineKeys, Nat) /\ IsTable(hashes', Files, {TRUE})
        /\ IsTable(funcRows', FunctionKeys, FunctionCounts)
    BY <2>2, CascadeKeepsTable DEF TypesInv, AreTables
  <2> QED BY <1>6, <2>1, <2>3 DEF DeleteProfile, TypesInv, IsJob, JobIsRecord, AreTables,
                                  AreCounters
<1>7. ASSUME NEW id, StoreSourceHashes(id, Files) PROVE TypesInv'
  <2> DEFINE f == [x \in Files |-> [key |-> x, value |-> TRUE]]
             rows == {[key |-> x, value |-> TRUE] : x \in Files}
  <2>1. IsFiniteSet(rows)
    <3>1. f \in Surjection(Files, rows) BY DEF Surjection
    <3>2. IsFiniteSet(Files) BY InputAssumption
    <3> HIDE DEF f, rows
    <3> QED BY <3>1, <3>2, FS_Surjection
  <2>2. rows \subseteq Rows(Files, {TRUE})
    <3>1. \A x \in Files : [key |-> x, value |-> TRUE] \in [key : Files, value : {TRUE}]
      OBVIOUS
    <3> QED BY <3>1 DEF Rows
  <2>3. SetToSeq(rows) \in Seq(Rows(Files, {TRUE}))
    <3> HIDE DEF rows
    <3>1. SetToSeq(rows) \in Seq(rows) BY <2>1, SetToSeqIs
    <3> QED BY <2>2, <3>1
  <2>4. hashes' = Insert(id, SetToSeq(rows), hashes) BY <1>7 DEF StoreSourceHashes
  <2> HIDE DEF rows
  <2>5. IsTable(hashes', Files, {TRUE})
    BY <2>3, <2>4, InsertKeepsTable DEF TypesInv, AreTables
  <2> QED BY <1>7, <2>5 DEF StoreSourceHashes, TypesInv, IsJob, JobIsRecord, AreTables,
                            AreCounters
<1> QED
  BY <1>1, <1>2, <1>3, <1>4, <1>5, <1>6, <1>7, ReadingTypes, EndTypes, WritingTypes
  DEF Next

\* The types hold at first.
LEMMA TypesInitially == Init => TypesInv
<1> SUFFICES ASSUME Init PROVE TypesInv OBVIOUS
<1>1. IsJob
  <2>1. job = Idle BY DEF Init
  <2> QED BY <2>1, NewJob DEF Idle, IsJob, JobIsRecord
<1>2. AreTables BY FS_EmptySet DEF Init, NoCounts, AreTables, IsTable
<1>3. AreCounters BY InputAssumption, FS_EmptySet DEF Init, NoCounts, Idle, AreCounters
<1> QED BY <1>1, <1>2, <1>3 DEF TypesInv

\* They are the ones that TypeOK states.
LEMMA TypesAreOK == TypesInv => TypeOK
<1> SUFFICES ASSUME TypesInv PROVE TypeOK OBVIOUS
<1>1. DOMAIN hashes \subseteq Ids \X Files
  <2>1. \A k \in DOMAIN hashes : k = <<k[1], k[2]>> /\ k[1] \in Ids /\ k[2] \in Files
    BY DEF TypesInv, AreTables, IsTable
  <2> QED BY <2>1
<1>2. \A k \in DOMAIN funcRows : funcRows[k].self \in Nat
  BY DEF TypesInv, AreTables, IsTable, FunctionCounts
<1> QED BY <1>1, <1>2 DEF TypesInv, IsJob, AreTables, AreCounters, IsTable, TypeOK

-----------------------------------------------------------------------------
(* The queries                                                             *)

\* A count that is not negative in its column is the number it is.
LEMMA SignedIs ==
  ASSUME NEW n \in Nat
  PROVE  Signed(n) \in Int /\ n - 2 * Half <= Signed(n) /\ (n < Half => Signed(n) = n)
BY InputAssumption DEF Signed

\* A sum of such counts, as a column holds them, covers each of them.
LEMMA SumOfCovers ==
  ASSUME NEW S, IsFiniteSet(S), NEW counts, \A k \in S : counts[k] \in Nat /\ counts[k] < Half
  PROVE  /\ SumOf(counts, S) = SumFunctionOnSet(counts, S) /\ SumOf(counts, S) \in Nat
         /\ \A k \in S : counts[k] <= SumOf(counts, S)
<1> DEFINE w == [k \in S |-> Signed(counts[k])]
<1>1. \A k \in S : w[k] = counts[k] BY SignedIs
<1>2. SumOf(counts, S) = SumFunctionOnSet(w, S) BY DEF SumOf
<1> HIDE DEF w
<1>3. SumFunctionOnSet(w, S) = SumFunctionOnSet(counts, S) BY <1>1, SumsAgree
<1> QED BY <1>2, <1>3, SumIsNat, SumCovers

\* What a query reads of a sum is a number, and covers the counts unless one is
\* negative in its column.
LEMMA Sum64Is ==
  ASSUME NEW S, IsFiniteSet(S), NEW counts, \A k \in S : counts[k] \in Nat
  PROVE  /\ Sum64(counts, S) \in Nat
         /\ Sum64(counts, S) # 0 /\ (\A k \in S : counts[k] < Half) =>
              \A k \in S : counts[k] <= Sum64(counts, S)
<1> DEFINE sum == SumOf(counts, S)
<1>1. Sum64(counts, S) = IF sum \in Columns THEN Unsigned(sum) ELSE 0 BY DEF Sum64
<1>2. ASSUME \A k \in S : counts[k] < Half
      PROVE  sum \in Nat /\ \A k \in S : counts[k] <= sum
  BY <1>2, SumOfCovers
<1> HIDE DEF sum
<1>3. sum \in Columns => Unsigned(sum) \in Nat BY InputAssumption DEF Columns, Unsigned
<1>4. sum \in Nat => Unsigned(sum) = sum BY DEF Unsigned
<1> QED BY <1>1, <1>2, <1>3, <1>4

\* A total is a number, and covers the counts of its rows unless one is negative
\* in its column.
LEMMA TotalIs ==
  ASSUME IsTable(lineRows, LineKeys, Nat), NEW id, NEW event
  PROVE  /\ IsFiniteSet(RowsOf(id, event)) /\ Total(id, event) \in Nat
         /\ Total(id, event) # 0 /\ (\A k \in RowsOf(id, event) : lineRows[k] < Half) =>
              \A k \in RowsOf(id, event) : lineRows[k] <= Total(id, event)
<1>1. IsFiniteSet(RowsOf(id, event)) BY FS_Subset DEF IsTable, RowsOf
<1>2. \A k \in RowsOf(id, event) : lineRows[k] \in Nat BY DEF RowsOf, IsTable
<1> QED BY <1>1, <1>2, Sum64Is DEF Total

\* A line in its file's hotness is a row that is stored, with the profile's total.
LEMMA HotnessIs ==
  ASSUME IsTable(lineRows, LineKeys, Nat), NEW id, NEW f, NEW event,
         NEW n \in DOMAIN GetFileHotness(id, f, event)
  PROVE  LET h == GetFileHotness(id, f, event)[n]
         IN /\ h = GetLineHotness(id, f, n, event) /\ h # None
            /\ h.self \in Nat /\ h.total \in Nat /\ h.total # 0
            /\ (\A k \in RowsOf(id, event) : lineRows[k] < Half) => h.self <= h.total
<1> DEFINE lines == {k[2][2][2] : k \in {j \in RowsOf(id, event) : j[2][2][1] = f}}
           key == <<id, <<event, <<f, n>>>>>>
           h == Hotness(id, event, <<f, n>>, Total(id, event))
<1>1. Total(id, event) # 0 /\ n \in lines
  BY DEF GetFileHotness
<1>2. GetFileHotness(id, f, event)[n] = h
  BY <1>1 DEF GetFileHotness
<1>3. key \in RowsOf(id, event)
  <2>1. PICK k \in RowsOf(id, event) : k[2][2][1] = f /\ n = k[2][2][2] BY <1>1
  <2>2. /\ k = <<k[1], k[2]>> /\ k[2] \in STRING \X (STRING \X Nat)
        /\ k[1] = id /\ k[2][1] = event
    BY <2>1 DEF RowsOf, IsTable, LineKeys, Places
  <2>3. k[2] = <<k[2][1], k[2][2]>> /\ k[2][2] = <<k[2][2][1], k[2][2][2]>>
    BY <2>2
  <2> QED BY <2>1, <2>2, <2>3
<1>4. GetLineHotness(id, f, n, event) = h
  BY <1>1, <1>3 DEF GetLineHotness, RowsOf
<1>5. /\ h = [self |-> lineRows[key], total |-> Total(id, event)]
      /\ lineRows[key] \in Nat /\ Total(id, event) \in Nat
      /\ (\A k \in RowsOf(id, event) : lineRows[k] < Half) => lineRows[key] <= Total(id, event)
  BY <1>1, <1>3, TotalIs DEF Hotness, IsTable, RowsOf
<1>6. h \in [self : Nat, total : Nat] BY <1>5
<1> QED BY <1>1, <1>2, <1>4, <1>5, <1>6, InputAssumption

\* A line has one hotness, in its own query and in its file's.
LEMMA LineIsItsFiles ==
  ASSUME IsTable(lineRows, LineKeys, Nat), NEW id, NEW e, NEW loc \in Locations
  PROVE  LET file == GetFileHotness(id, loc[1], e)
             line == GetLineHotness(id, loc[1], loc[2], e)
         IN /\ line = IF loc[2] \in DOMAIN file THEN file[loc[2]] ELSE None
            /\ line # None /\ (\A k \in RowsOf(id, e) : lineRows[k] < Half) =>
                 line.self <= line.total
<1> DEFINE file == GetFileHotness(id, loc[1], e)
           line == GetLineHotness(id, loc[1], loc[2], e)
<1>1. loc = <<loc[1], loc[2]>>
  <2>1. PICK k \in DOMAIN lineRows : loc = k[2][2] BY DEF Locations
  <2>2. k[2] \in STRING \X (STRING \X Nat) BY DEF IsTable, LineKeys, Places
  <2> QED BY <2>1, <2>2
<1>2. CASE loc[2] \in DOMAIN file
  <2>1. /\ file[loc[2]] = line
        /\ (\A k \in RowsOf(id, e) : lineRows[k] < Half) => file[loc[2]].self <= file[loc[2]].total
    BY <1>2, HotnessIs
  <2> QED BY <1>2, <2>1
<1>3. CASE loc[2] \notin DOMAIN file
  <2> SUFFICES line = None BY <1>3
  <2>1. CASE Total(id, e) = 0 BY <2>1 DEF GetLineHotness
  <2>2. CASE Total(id, e) # 0
    <3> DEFINE k == <<id, <<e, <<loc[1], loc[2]>>>>>>
    <3>1. DOMAIN file = {j[2][2][2] : j \in {i \in RowsOf(id, e) : i[2][2][1] = loc[1]}}
      BY <2>2 DEF GetFileHotness
    <3>2. ASSUME k \in DOMAIN lineRows PROVE FALSE
      <4>1. k[1] = id /\ k[2][1] = e /\ k[2][2][1] = loc[1] /\ k[2][2][2] = loc[2]
        OBVIOUS
      <4>2. k \in RowsOf(id, e) BY <3>2, <4>1 DEF RowsOf
      <4> HIDE DEF k, file
      <4> QED BY <1>3, <3>1, <4>1, <4>2
    <3> QED BY <3>2 DEF GetLineHotness
  <2> QED BY <2>1, <2>2
<1> QED BY <1>2, <1>3

\* The function that the list of one shows has as much in its column as any.
LEMMA TopIsHottest ==
  ASSUME IsTable(funcRows, FunctionKeys, FunctionCounts), NEW id, NEW e
  PROVE  LET self == SelfOf(id, e)
             top == Range(GetTopFunctions(id, 1, e))
         IN \A k \in top, j \in DOMAIN self \ top : Signed(self[k]) >= Signed(self[j])
<1> DEFINE self == SelfOf(id, e)
           S == DOMAIN self
           w == [k \in S |-> Signed(self[k]) + 2 * Half]
           sorted == CHOOSE s \in SetToSeqs(S) :
                       \A i, j \in DOMAIN s : i < j => Signed(self[s[i]]) >= Signed(self[s[j]])
<1>1. IsFiniteSet(S) /\ \A k \in S : Signed(self[k]) \in Int /\ w[k] \in Nat
  <2>1. S \subseteq DOMAIN funcRows BY DEF FunctionRowsOf, SelfOf
  <2>2. \A k \in S : self[k] \in Nat
    BY <2>1 DEF IsTable, FunctionCounts, SelfOf
  <2> HIDE DEF self
  <2>3. \A k \in S : Signed(self[k]) \in Int /\ self[k] - 2 * Half <= Signed(self[k])
    BY <2>2, SignedIs
  <2>4. \A k \in S : Signed(self[k]) + 2 * Half \in Nat BY <2>2, <2>3, InputAssumption
  <2> QED BY <2>1, <2>3, <2>4, FS_Subset DEF IsTable
<1>2. \A k \in S : w[k] = Signed(self[k]) + 2 * Half OBVIOUS
<1>3. \/ GetTopFunctions(id, 1, e) = <<>>
      \/ GetTopFunctions(id, 1, e) = SubSeq(sorted, 1, Min({1, Len(sorted)}))
  BY DEF GetTopFunctions
<1> HIDE DEF self, S, w
<1>4. \E s \in SetToSeqs(S) :
        \A i, j \in DOMAIN s : i < j => Signed(self[s[i]]) >= Signed(self[s[j]])
  <2>1. PICK s \in SetToSeqs(S) : \A i, j \in DOMAIN s : i < j => w[s[i]] >= w[s[j]]
    BY <1>1, CanBeSorted
  <2>2. s \in Seq(S) BY <1>1, SetToSeqsIs
  <2>3. ASSUME NEW i \in DOMAIN s, NEW j \in DOMAIN s, i < j
        PROVE  Signed(self[s[i]]) >= Signed(self[s[j]])
    <3>1. s[i] \in S /\ s[j] \in S BY <2>2
    <3>2. w[s[i]] >= w[s[j]] BY <2>1, <2>3
    <3> QED BY <1>1, <1>2, <3>1, <3>2, InputAssumption
  <2> QED BY <2>1, <2>3
<1>5. /\ sorted \in SetToSeqs(S)
      /\ \A i, j \in DOMAIN sorted : i < j => Signed(self[sorted[i]]) >= Signed(self[sorted[j]])
  BY <1>4
<1> HIDE DEF sorted
<1>6. sorted \in Seq(S) /\ \A x \in S : \E i \in 1..Len(sorted) : sorted[i] = x
  BY <1>1, <1>5, SetToSeqsIs
<1> DEFINE top == Range(GetTopFunctions(id, 1, e))
<1> SUFFICES ASSUME NEW k \in top, NEW j \in S \ top
             PROVE  Signed(self[k]) >= Signed(self[j])
  BY DEF S, self
<1>7. PICK i \in 1..Len(sorted) : sorted[i] = j BY <1>6
<1>8. Len(sorted) \in Nat /\ 1 <= Len(sorted) BY <1>6, <1>7
<1>9. Min({1, Len(sorted)}) = 1
  <2> DEFINE L == {1, Len(sorted)}
  <2>1. L \in SUBSET Int /\ 1 \in L /\ \A m \in L : 1 <= m BY <1>8
  <2> HIDE DEF L
  <2>2. Min(L) = 1 BY <2>1, MinIs
  <2> QED BY <2>2 DEF L
<1>10. top = {sorted[1]}
  <2>1. GetTopFunctions(id, 1, e) = SubSeq(sorted, 1, 1)
    <3>1. Range(<<>>) = {} BY DEF Range
    <3> QED BY <1>3, <1>9, <3>1
  <2>2. /\ DOMAIN SubSeq(sorted, 1, 1) = {1}
        /\ SubSeq(sorted, 1, 1)[1] = sorted[1]
    BY <1>6, <1>8
  <2> QED BY <2>1, <2>2 DEF Range
<1>11. k = sorted[1] /\ i # 1 BY <1>7, <1>10
<1>12. 1 < i /\ 1 \in 1..Len(sorted) BY <1>7, <1>8, <1>11
<1>13. DOMAIN sorted = 1..Len(sorted) BY <1>6
<1> QED BY <1>5, <1>7, <1>11, <1>12, <1>13

\* The variables keep their types, a line has the same share in its own query
\* and in its file's, never more than the whole unless a count of the event is
\* negative in its column, and no function has more in its column than the one
\* that heads the list, whatever was imported or deleted (store.cpp:326-451).
THEOREM OneStory == Spec => []QueriesAgree
<1>1. Init => TypesInv /\ ImportInv BY TypesInitially, ImportInitially
<1>2. TypesInv /\ ImportInv /\ [Next]_vars => TypesInv' /\ ImportInv'
  BY TypesStep, ImportStep
<1>3. TypesInv => QueriesAgree
  <2> SUFFICES ASSUME TypesInv PROVE QueriesAgree OBVIOUS
  <2>1. TypeOK BY TypesAreOK
  <2>2. IsTable(lineRows, LineKeys, Nat) /\ IsTable(funcRows, FunctionKeys, FunctionCounts)
    BY DEF TypesInv, AreTables
  <2> QED BY <2>1, <2>2, LineIsItsFiles, TopIsHottest DEF QueriesAgree
<1> QED BY <1>1, <1>2, <1>3, PTL DEF Spec

\* Every threshold of the rules on cycles is 3 % at least.
LEMMA SharesAreLarge ==
  ASSUME NEW h, h.self \in Nat, h.total \in Nat, NEW p \in {3, 5, 10}, Share(h, p)
  PROVE  h.self * 100 >= 3 * h.total
BY DEF Share

\* On typed tables the verdicts are consistent.
LEMMA VerdictsAgree == IsTable(lineRows, LineKeys, Nat) => VerdictsAreConsistent
<1> SUFFICES ASSUME IsTable(lineRows, LineKeys, Nat), NEW id, NEW f,
                    NEW v \in AnalyseFileWithProfile(id, f)
             PROVE  LET h == GetLineHotness(id, f, v[2], "cycles") IN
                    /\ h # None /\ h.self * 100 >= 3 * h.total
                    /\ v[1] = "cache-miss-hotspot" =>
                         <<"low-ipc", v[2]>> \notin AnalyseFileWithProfile(id, f)
  BY DEF VerdictsAreConsistent
<1> DEFINE H(event) == GetFileHotness(id, f, event)
           cycles == H("cycles")
           misses == H("L1-dcache-load-misses")
           n == v[2]
<1>1. \/ v[1] = "cache-miss-hotspot" /\ n \in CacheMissHotspot(cycles, misses)
      \/ v[1] = "branch-mispredict" /\ n \in BranchMispredict(cycles, H("branch-misses"))
      \/ v[1] = "memory-bandwidth-bound"
         /\ n \in MemoryBandwidthBound(cycles, H("LLC-load-misses"))
      \/ v[1] = "low-ipc" /\ n \in LowIpc(cycles, misses)
  BY DEF AnalyseFileWithProfile
<1>2. n \in DOMAIN cycles /\ \E p \in {3, 5, 10} : Share(cycles[n], p)
  <2> HIDE DEF H, cycles, misses, n
  <2>1. /\ CycleFraction = 5 /\ BranchCycles = 3 /\ 2 * LowIpcCycles = 10
    BY DEF CycleFraction, BranchCycles, LowIpcCycles
  <2> QED BY <1>1, <2>1 DEF CacheMissHotspot, BranchMispredict, MemoryBandwidthBound, LowIpc
<1>3. /\ cycles[n] = GetLineHotness(id, f, n, "cycles") /\ cycles[n] # None
      /\ cycles[n].self \in Nat /\ cycles[n].total \in Nat
  <2>1. n \in DOMAIN GetFileHotness(id, f, "cycles") BY <1>2
  <2> HIDE DEF n
  <2>2. LET h == GetFileHotness(id, f, "cycles")[n]
        IN /\ h = GetLineHotness(id, f, n, "cycles") /\ h # None
           /\ h.self \in Nat /\ h.total \in Nat
    BY <2>1, HotnessIs
  <2> QED BY <2>2
<1>4. cycles[n].self * 100 >= 3 * cycles[n].total BY <1>2, <1>3, SharesAreLarge
<1>5. ASSUME v[1] = "cache-miss-hotspot", <<"low-ipc", n>> \in AnalyseFileWithProfile(id, f)
      PROVE  FALSE
  <2>1. n \in CacheMissHotspot(cycles, misses) BY <1>1, <1>5
  <2>2. n \in LowIpc(cycles, misses) BY <1>5 DEF AnalyseFileWithProfile
  <2>3. n \in DOMAIN misses BY <2>1 DEF CacheMissHotspot
  <2>4. misses[n].self \in Nat /\ misses[n].total \in Nat BY <2>3, HotnessIs
  <2> HIDE DEF H, cycles, misses, n
  <2> QED BY <2>1, <2>2, <2>3, <2>4, HotspotIsNotLowIpc
<1> QED BY <1>3, <1>4, <1>5

\* A line that the profile-driven rules report has its share of the cycles in
\* the same profile, and is not a hotspot of L1 misses and of low IPC at once,
\* whatever was imported before, negative counts and sums that overflow included
\* (profile_rules.cpp:38-187).
THEOREM Verdicts == Spec => []VerdictsAreConsistent
<1>1. Init => TypesInv /\ ImportInv BY TypesInitially, ImportInitially
<1>2. TypesInv /\ ImportInv /\ [Next]_vars => TypesInv' /\ ImportInv'
  BY TypesStep, ImportStep
<1>3. TypesInv => VerdictsAreConsistent BY VerdictsAgree DEF TypesInv, AreTables
<1> QED BY <1>1, <1>2, <1>3, PTL DEF Spec

-----------------------------------------------------------------------------
(* The estimate                                                            *)

\* What the table has of an import, as a map from its keys to the rows' numbers.
LEMMA StoredIsLast ==
  ASSUME IsTable(lineRows, LineKeys, Nat), NEW id, NEW rows \in Seq(Rows(LineKeys, Nat)),
         RowsUnder(id, lineRows) = Imported(id, rows)
  PROVE  LET S == {n \in 1..Len(rows) : rows[n].key[1] = "cycles"}
             L == RowsOf(id, "cycles")
         IN /\ \A k \in L : \E n \in S : rows[n].key = k[2] /\ rows[n].value = lineRows[k]
            /\ \A k \in L : k = <<id, k[2]>>
            /\ \A n \in S : <<id, rows[n].key>> \in L
<1> DEFINE U == {k \in DOMAIN lineRows : k[1] = id}
<1>1. U = Keys(id, rows) /\ \A k \in U : lineRows[k] = LastValue(k[2], rows)
  <2>1. /\ DOMAIN RowsUnder(id, lineRows) = U
        /\ \A k \in U : RowsUnder(id, lineRows)[k] = lineRows[k]
    BY DEF RowsUnder, Restrict
  <2>2. /\ DOMAIN Imported(id, rows) = Keys(id, rows)
        /\ \A k \in Keys(id, rows) : Imported(id, rows)[k] = LastValue(k[2], rows)
    BY DEF Imported
  <2> HIDE DEF U
  <2> QED BY <2>1, <2>2
<1>2. RowsOf(id, "cycles") = {k \in U : k[2][1] = "cycles"} BY DEF RowsOf
<1> HIDE DEF U
<1>3. ASSUME NEW k \in U
      PROVE  \E n \in 1..Len(rows) : rows[n].key = k[2] /\ rows[n].value = lineRows[k]
  <2>1. \E n \in 1..Len(rows) : rows[n].key = k[2] BY <1>1, <1>3 DEF Keys
  <2>2. PICK n \in 1..Len(rows) : rows[n].key = k[2] /\ LastValue(k[2], rows) = rows[n].value
    BY <2>1, LastValueIs
  <2> QED BY <2>2, <1>1, <1>3
<1>4. \A k \in U : k = <<id, k[2]>> BY <1>1 DEF Keys
<1>5. \A n \in 1..Len(rows) : <<id, rows[n].key>> \in U BY <1>1 DEF Keys
<1> QED BY <1>2, <1>3, <1>4, <1>5

\* Each key keeps one row of those that were read: the estimate covers the sum of
\* what is stored.
LEMMA EstimateCovers ==
  ASSUME IsTable(lineRows, LineKeys, Nat), NEW id, NEW rows \in Seq(Rows(LineKeys, Nat)),
         RowsUnder(id, lineRows) = Imported(id, rows)
  PROVE  /\ (\A m, n \in 1..Len(rows) : rows[m].key = rows[n].key => m = n)
              => Estimate(rows) = SumOf(lineRows, RowsOf(id, "cycles"))
         /\ (\A n \in 1..Len(rows) : rows[n].value < Half)
              => Estimate(rows) >= SumOf(lineRows, RowsOf(id, "cycles"))
<1> DEFINE S == CycleRows(rows)
           L == RowsOf(id, "cycles")
           v == [n \in S |-> Signed(rows[n].value)]
           w == [k \in L |-> Signed(lineRows[k])]
           f == [k \in L |-> CHOOSE n \in S : rows[n].key = k[2] /\ rows[n].value = lineRows[k]]
           last == {f[k] : k \in L}
<1>1. Estimate(rows) = SumFunctionOnSet(v, S) /\ IsFiniteSet(S)
  <2>1. IsFiniteSet(1..Len(rows)) BY FS_Interval
  <2>2. IsFiniteSet(S) BY <2>1, FS_Subset DEF CycleRows
  <2> DEFINE counts == [n \in 1..Len(rows) |-> rows[n].value]
  <2>3. \A n \in S : counts[n] = rows[n].value BY DEF CycleRows
  <2>4. [n \in S |-> Signed(counts[n])] = v BY <2>3
  <2>5. Estimate(rows) = SumFunctionOnSet([n \in S |-> Signed(counts[n])], S)
    BY DEF Estimate, SumOf
  <2> QED BY <2>2, <2>4, <2>5
<1>2. SumOf(lineRows, L) = SumFunctionOnSet(w, L) /\ IsFiniteSet(L) BY TotalIs DEF SumOf
<1>3. /\ \A k \in L : \E n \in S : rows[n].key = k[2] /\ rows[n].value = lineRows[k]
      /\ \A k \in L : k = <<id, k[2]>>
      /\ \A n \in S : <<id, rows[n].key>> \in L
  <2> HIDE DEF L
  <2> QED BY StoredIsLast DEF L, CycleRows
<1>4. \A n \in S : /\ rows[n].value \in Nat
                   /\ v[n] = Signed(rows[n].value) /\ v[n] \in Int
  <2>1. \A n \in S : rows[n] \in Rows(LineKeys, Nat) BY DEF CycleRows
  <2>2. \A n \in S : rows[n].value \in Nat BY <2>1 DEF Rows
  <2> QED BY <2>2, SignedIs
<1>5. \A k \in L : w[k] = Signed(lineRows[k]) /\ w[k] \in Int
  <2>1. \A k \in L : lineRows[k] \in Nat BY DEF IsTable, RowsOf
  <2> QED BY <2>1, SignedIs
<1> HIDE DEF S, L, v, w
<1>6. \A k \in L : f[k] \in S /\ rows[f[k]].key = k[2] /\ rows[f[k]].value = lineRows[k]
  BY <1>3
<1> HIDE DEF f
<1>7. SumFunctionOnSet(v, last) = SumFunctionOnSet(w, L)
  <2>1. \A k \in L : w[k] \in Int /\ v[f[k]] = w[k] BY <1>4, <1>5, <1>6
  <2>2. \A j, k \in L : f[j] = f[k] => j = k BY <1>3, <1>6
  <2> QED BY <1>2, <2>1, <2>2, SumRenames
<1>8. last \in SUBSET S BY <1>6
<1>9. ASSUME \A m, n \in 1..Len(rows) : rows[m].key = rows[n].key => m = n
      PROVE  Estimate(rows) = SumOf(lineRows, L)
  <2>1. ASSUME NEW n \in S PROVE n \in last
    <3> DEFINE k == <<id, rows[n].key>>
    <3>1. k \in L /\ k[2] = rows[n].key BY <1>3
    <3>2. f[k] \in S /\ rows[f[k]].key = rows[n].key BY <3>1, <1>6
    <3>3. f[k] = n BY <1>9, <3>2 DEF S, CycleRows
    <3> QED BY <3>1, <3>3
  <2>2. last = S BY <2>1, <1>8
  <2> HIDE DEF last
  <2> QED BY <2>2, <1>1, <1>2, <1>7
<1>10. ASSUME \A n \in 1..Len(rows) : rows[n].value < Half
       PROVE  Estimate(rows) >= SumOf(lineRows, L)
  <2>1. \A n \in S : rows[n].value < Half BY <1>10 DEF S, CycleRows
  <2>2. \A n \in S : v[n] \in Nat BY <2>1, <1>4, SignedIs
  <2>3. SumFunctionOnSet(v, last) <= SumFunctionOnSet(v, S)
    BY <1>1, <1>8, <2>2, SumIsMonotone
  <2>4. SumFunctionOnSet(v, S) \in Nat BY <1>1, <2>2, SumIsNat
  <2>5. IsFiniteSet(last) BY <1>1, <1>8, FS_Subset
  <2>6. SumFunctionOnSet(v, last) \in Nat BY <2>5, <1>8, <2>2, SumIsNat
  <2> HIDE DEF last
  <2> QED BY <2>3, <2>4, <2>6, <1>1, <1>2, <1>7
<1> QED BY <1>9, <1>10 DEF L

\* What an estimate that does not overflow stores, at the end of an import,
\* covers the samples of the lines that are stored unless a count is negative in
\* its column, and is their sum unless a line came twice, whatever lines came in
\* between (store.cpp:247-262).
THEOREM EstimateIsEnough == Spec => EstimateCoversRows
<1>1. Init => TypesInv /\ ImportInv BY TypesInitially, ImportInitially
<1>2. TypesInv /\ ImportInv /\ [Next]_vars => TypesInv' /\ ImportInv'
  BY TypesStep, ImportStep
<1> DEFINE Estimates ==
      Finish /\ job.total = 0 /\ job.rows # <<>> /\ Estimate(job.rows) \in Columns =>
        LET kept == SumOf(lineRows, RowsOf(job.id, "cycles"))
            once == \A m, n \in 1..Len(job.rows) : job.rows[m].key = job.rows[n].key => m = n
        IN /\ once => profiles'[job.id] = kept
           /\ (\A n \in 1..Len(job.rows) : job.rows[n].value < Half) =>
                profiles'[job.id] >= kept
<1>3. TypesInv /\ ImportInv => Estimates
  <2> SUFFICES ASSUME TypesInv, ImportInv, Finish, job.total = 0, job.rows # <<>>,
                      Estimate(job.rows) \in Columns
               PROVE  LET kept == SumOf(lineRows, RowsOf(job.id, "cycles"))
                          once == \A m, n \in 1..Len(job.rows) :
                                    job.rows[m].key = job.rows[n].key => m = n
                      IN /\ once => profiles'[job.id] = kept
                         /\ (\A n \in 1..Len(job.rows) : job.rows[n].value < Half) =>
                              profiles'[job.id] >= kept
    OBVIOUS
  <2>1. RowsUnder(job.id, lineRows) = Imported(job.id, job.rows)
    BY DEF ImportInv, JobInv, JobWrites, Finish
  <2>2. profiles'[job.id] = Estimate(job.rows) BY DEF Finish, Put
  <2>3. IsTable(lineRows, LineKeys, Nat) /\ job.rows \in Seq(Rows(LineKeys, Nat))
    BY DEF TypesInv, IsJob, AreTables
  <2> QED BY <2>1, <2>2, <2>3, EstimateCovers
<1>4. TypesInv /\ ImportInv /\ [Next]_vars => [Estimates]_vars BY <1>3
<1> QED BY <1>1, <1>2, <1>4, PTL DEF Spec, EstimateCoversRows

-----------------------------------------------------------------------------
(* The parser of perf text                                                 *)

\* The header of the sample whose frames are being read, in the text.
Current(text) ==
  {i \in 1..Len(text) : Begins(text[i]) # None /\ \A m \in (i + 1)..Len(text) : text[m].indent}

\* What the parser's state says of the text that it has read.
HasCounted(s, text) ==
  /\ Aggregates(Flush(s), text)
  /\ s.sample = None => Current(text) = {}
  /\ s.sample # None =>
       \E i \in Current(text) :
         /\ s.sample = Begins(text[i])
         /\ s.frames = <<>> => FramesBelow(text, i) = {}
         /\ s.frames # <<>> => FramesBelow(text, i) # {} /\ s.frames[1] = LeafOf(text, i)

\* The frames below a header are finitely many lines after it.
LEMMA FramesAre ==
  ASSUME NEW text \in Seq(PerfLines), NEW i \in 1..Len(text)
  PROVE  /\ FramesBelow(text, i) \in SUBSET Int /\ IsFiniteSet(FramesBelow(text, i))
         /\ \A k \in FramesBelow(text, i) : k \in (i + 1)..Len(text)
<1>1. Len(text) \in Nat /\ i \in Nat OBVIOUS
<1>2. IsFiniteSet((i + 1)..Len(text)) BY <1>1, FS_Interval
<1>3. FramesBelow(text, i) \subseteq (i + 1)..Len(text) BY DEF FramesBelow
<1>4. IsFiniteSet(FramesBelow(text, i)) BY <1>2, <1>3, FS_Subset
<1> QED BY <1>1, <1>3, <1>4

\* A sample's header is a header, and a sample's leaf is a frame.
LEMMA SamplesAre ==
  ASSUME NEW text \in Seq(PerfLines), NEW i \in SamplesOf(text)
  PROVE  /\ i \in 1..Len(text) /\ Begins(text[i]) = ParseHeader(text[i])
         /\ ParseHeader(text[i]) \in Headers /\ LeafOf(text, i) \in Frames
         /\ ~text[i].indent
<1>1. /\ i \in 1..Len(text) /\ Begins(text[i]) # None /\ FramesBelow(text, i) # {}
      /\ text[i] \in PerfLines
  BY DEF SamplesOf
<1>2. Begins(text[i]) = ParseHeader(text[i]) /\ ~text[i].indent BY <1>1 DEF Begins
<1>3. ParseHeader(text[i]) \in Headers BY <1>1, <1>2, HeaderIs
<1>4. Min(FramesBelow(text, i)) \in FramesBelow(text, i) BY <1>1, FramesAre, Smallest
<1>5. PICK k \in FramesBelow(text, i) : k = Min(FramesBelow(text, i)) BY <1>4
<1>6. k \in 1..Len(text) /\ text[k].frame # None BY <1>1, <1>5 DEF FramesBelow
<1>7. text[k] \in PerfLines BY <1>6
<1>8. text[k].frame \in Frames BY <1>6, <1>7, InputAssumption
<1>9. LeafOf(text, i) \in Frames BY <1>5, <1>8 DEF LeafOf
<1> QED BY <1>1, <1>2, <1>3, <1>9

\* t has one line more than text.
Continues(t, text) ==
  /\ t \in Seq(PerfLines) /\ Len(t) = Len(text) + 1
  /\ \A i \in 1..Len(text) : t[i] = text[i]

\* The last line, if it is a frame below the header at i.
LastFrame(t, i) ==
  {k \in {Len(t)} : t[k].frame # None /\ \A m \in (i + 1)..k : t[m].indent}

\* What another line adds to the frames below a header.
LEMMA FramesGrow ==
  ASSUME NEW text \in Seq(PerfLines), NEW t, Continues(t, text)
  PROVE  /\ FramesBelow(t, Len(t)) = {}
         /\ \A i \in 1..Len(text) :
              FramesBelow(t, i) = FramesBelow(text, i) \cup LastFrame(t, i)
<1>1. /\ Len(t) = Len(text) + 1 /\ \A i \in 1..Len(text) : t[i] = text[i]
      /\ Len(text) \in Nat
  BY DEF Continues
<1>2. FramesBelow(t, Len(t)) = {} BY <1>1 DEF FramesBelow
<1>3. ASSUME NEW i \in 1..Len(text)
      PROVE  FramesBelow(t, i) = FramesBelow(text, i) \cup LastFrame(t, i)
  <2>1. ASSUME NEW k \in (i + 1)..Len(text)
        PROVE  k \in FramesBelow(t, i) <=> k \in FramesBelow(text, i)
    <3>1. t[k] = text[k] /\ \A m \in (i + 1)..k : t[m] = text[m] BY <1>1
    <3> QED BY <1>1, <3>1 DEF FramesBelow
  <2>2. (i + 1)..Len(t) = (i + 1)..Len(text) \cup {Len(t)} BY <1>1
  <2>3. Len(t) \notin FramesBelow(text, i) BY <1>1 DEF FramesBelow
  <2>4. Len(t) \in FramesBelow(t, i) <=> Len(t) \in LastFrame(t, i)
    BY <1>1 DEF FramesBelow, LastFrame
  <2>5. /\ FramesBelow(t, i) \subseteq (i + 1)..Len(t)
        /\ FramesBelow(text, i) \subseteq (i + 1)..Len(text)
        /\ LastFrame(t, i) \subseteq {Len(t)}
    BY DEF FramesBelow, LastFrame
  <2> QED BY <2>1, <2>2, <2>3, <2>4, <2>5
<1> QED BY <1>1, <1>2, <1>3

\* Another line leaves the samples there were, with their leaves.
LEMMA SamplesStay ==
  ASSUME NEW text \in Seq(PerfLines), NEW t, Continues(t, text),
         NEW i \in 1..Len(text), FramesBelow(text, i) # {}
  PROVE  FramesBelow(t, i) # {} /\ LeafOf(t, i) = LeafOf(text, i)
<1>0. /\ Len(t) = Len(text) + 1 /\ \A j \in 1..Len(text) : t[j] = text[j]
      /\ FramesBelow(t, i) = FramesBelow(text, i) \cup LastFrame(t, i)
  BY FramesGrow DEF Continues
<1> DEFINE F == FramesBelow(text, i)
           G == FramesBelow(t, i)
           k == Min(F)
<1>1. k \in F /\ (\A j \in F : k <= j) /\ F \subseteq (i + 1)..Len(text)
  BY FramesAre, Smallest
<1>2. F \subseteq G /\ G \subseteq F \cup {Len(t)} /\ Len(t) = Len(text) + 1 /\ t[k] = text[k]
  <2>1. k \in 1..Len(text) BY <1>1
  <2>2. LastFrame(t, i) \subseteq {Len(t)} BY DEF LastFrame
  <2> HIDE DEF k
  <2> QED BY <1>0, <2>1, <2>2
<1>3. Min(G) = k
  <2>1. G \in SUBSET Int /\ k \in G /\ \A j \in G : k <= j
    BY <1>1, <1>2
  <2> HIDE DEF G, k
  <2> QED BY <2>1, MinIs
<1> QED BY <1>1, <1>2, <1>3 DEF LeafOf

\* A set of samples is finite and has counts.
LEMMA SamplesAreFinite ==
  ASSUME NEW text \in Seq(PerfLines), NEW S \in SUBSET SamplesOf(text)
  PROVE  IsFiniteSet(S) /\ S \in SUBSET Int /\ \A i \in S : ParseHeader(text[i]).count \in Nat
<1>1. S \subseteq 1..Len(text) BY SamplesAre
<1>2. IsFiniteSet(1..Len(text)) BY FS_Interval
<1>3. \A i \in S : ParseHeader(text[i]) \in Headers BY SamplesAre
<1>4. IsFiniteSet(S) BY <1>1, <1>2, FS_Subset
<1>5. \A i \in S : ParseHeader(text[i]).count \in Nat BY <1>3 DEF Headers
<1> QED BY <1>1, <1>4, <1>5

\* The samples of text are samples of t, too, with what belongs to them.
Same(t, text) ==
  \A i \in SamplesOf(text) : t[i] = text[i] /\ LeafOf(t, i) = LeafOf(text, i)

\* Samples that stay count the same.
LEMMA CountsTheSame ==
  ASSUME NEW text, NEW t, Same(t, text), NEW S \in SUBSET SamplesOf(text)
  PROVE  CountOver(t, S) = CountOver(text, S)
<1>1. [i \in S |-> ParseHeader(t[i]).count] = [i \in S |-> ParseHeader(text[i]).count]
  BY DEF Same
<1> QED BY <1>1 DEF CountOver

\* A count is a number.
LEMMA CountIsNat ==
  ASSUME NEW text \in Seq(PerfLines), NEW S \in SUBSET SamplesOf(text)
  PROVE  CountOver(text, S) \in Nat
<1> DEFINE w == [i \in S |-> ParseHeader(text[i]).count]
<1>1. IsFiniteSet(S) /\ \A i \in S : w[i] \in Nat BY SamplesAreFinite
<1> HIDE DEF w
<1>2. SumFunctionOnSet(w, S) \in Nat BY <1>1, SumIsNat
<1> QED BY <1>2 DEF CountOver, w

\* A line that ends no sample and completes none leaves the aggregates.
LEMMA NoMoreSamples ==
  ASSUME NEW text \in Seq(PerfLines), NEW t, Same(t, text), SamplesOf(t) = SamplesOf(text),
         NEW agg, Aggregates(agg, text)
  PROVE  Aggregates(agg, t)
<1>1. \A e, x : At(t, e, x) = At(text, e, x) /\ At(text, e, x) \subseteq SamplesOf(text)
  BY DEF At, Same
<1>2. \A e, x : In(t, e, x) = In(text, e, x) /\ In(text, e, x) \subseteq SamplesOf(text)
  BY DEF In, Same
<1>3. \A e, x : /\ CountOver(t, At(t, e, x)) = CountOver(text, At(text, e, x))
                /\ CountOver(t, In(t, e, x)) = CountOver(text, In(text, e, x))
  BY <1>1, <1>2, CountsTheSame
<1>4. \A e, x : {i \in In(t, e, x) : LeafOf(t, i).loc # None}
                  = {i \in In(text, e, x) : LeafOf(text, i).loc # None}
  BY <1>2 DEF Same
<1>5. /\ DOMAIN agg.lines = {<<ParseHeader(t[i]).event, LeafOf(t, i).loc>> :
                               i \in {j \in SamplesOf(t) : HasLine(LeafOf(t, j).loc)}}
      /\ DOMAIN agg.funcs = {<<ParseHeader(t[i]).event, LeafOf(t, i).func>> :
                               i \in {j \in SamplesOf(t) : LeafOf(t, j).func # None}}
  BY DEF Aggregates, Same
<1>6. \A k \in DOMAIN agg.lines : agg.lines[k] = CountOver(t, At(t, k[1], k[2]))
  BY <1>3 DEF Aggregates
<1>7. ASSUME NEW k \in DOMAIN agg.funcs
      PROVE  LET located == {i \in In(t, k[1], k[2]) : LeafOf(t, i).loc # None}
             IN /\ agg.funcs[k].self = CountOver(t, In(t, k[1], k[2]))
                /\ agg.funcs[k].file = IF located = {} THEN None
                                       ELSE FileOf(LeafOf(t, Min(located)))
  <2> DEFINE located == {i \in In(text, k[1], k[2]) : LeafOf(text, i).loc # None}
  <2>1. /\ agg.funcs[k].self = CountOver(text, In(text, k[1], k[2]))
        /\ agg.funcs[k].file = IF located = {} THEN None
                               ELSE FileOf(LeafOf(text, Min(located)))
    BY DEF Aggregates
  <2>2. located = {i \in In(t, k[1], k[2]) : LeafOf(t, i).loc # None} BY <1>4
  <2>3. located # {} => LeafOf(t, Min(located)) = LeafOf(text, Min(located))
    <3>1. located \in SUBSET SamplesOf(text) BY <1>2
    <3> HIDE DEF located
    <3>2. IsFiniteSet(located) /\ located \in SUBSET Int BY <3>1, SamplesAreFinite
    <3>3. located # {} => Min(located) \in located BY <3>2, Smallest
    <3> QED BY <3>1, <3>3 DEF Same
  <2> HIDE DEF located
  <2>4. agg.funcs[k].self = CountOver(t, In(t, k[1], k[2])) BY <2>1, <1>3
  <2> QED BY <2>1, <2>2, <2>3, <2>4
<1>8. agg.samples = Cardinality(SamplesOf(t)) BY DEF Aggregates
<1> QED BY <1>5, <1>6, <1>7, <1>8 DEF Aggregates

\* The counts of a set of samples and of one more.
LEMMA CountsOneMore ==
  ASSUME NEW text \in Seq(PerfLines), NEW t \in Seq(PerfLines), Same(t, text),
         NEW i \in SamplesOf(t), i \notin SamplesOf(text), SamplesOf(text) \subseteq SamplesOf(t),
         NEW S \in SUBSET SamplesOf(text)
  PROVE  CountOver(t, S \cup {i}) = ParseHeader(t[i]).count + CountOver(text, S)
<1> DEFINE T == S \cup {i}
           w == [j \in T |-> ParseHeader(t[j]).count]
           v == [j \in S |-> ParseHeader(t[j]).count]
<1>1. T \in SUBSET SamplesOf(t) /\ T \ {i} = S /\ i \in T OBVIOUS
<1> HIDE DEF T
<1>2. IsFiniteSet(T) /\ \A j \in T : w[j] \in Nat BY <1>1, SamplesAreFinite
<1>3. SumFunctionOnSet(w, T) = w[i] + SumFunctionOnSet(w, S)
  <2> HIDE DEF w
  <2> QED BY <1>1, <1>2, SumTakesOut
<1>4. SumFunctionOnSet(w, S) = SumFunctionOnSet(v, S)
  <2>1. IsFiniteSet(S) /\ S \subseteq T BY <1>1, <1>2, FS_Subset
  <2>2. \A j \in S : w[j] = v[j] BY <2>1
  <2> HIDE DEF w, v
  <2> QED BY <2>1, <2>2, SumsAgree
<1>5. CountOver(t, S) = CountOver(text, S) BY CountsTheSame
<1> QED BY <1>1, <1>3, <1>4, <1>5 DEF CountOver, T

\* Aggregator::record counts one sample more.
LEMMA OneMoreSample ==
  ASSUME NEW text \in Seq(PerfLines), NEW t \in Seq(PerfLines), Same(t, text),
         NEW i, i \notin SamplesOf(text), SamplesOf(t) = SamplesOf(text) \cup {i},
         \A j \in SamplesOf(text) : j < i,
         NEW agg, Aggregates(agg, text), NEW frames, frames[1] = LeafOf(t, i)
  PROVE  Aggregates(Record(agg, ParseHeader(t[i]).event, ParseHeader(t[i]).count, frames), t)
<1> DEFINE e == ParseHeader(t[i]).event
           c == ParseHeader(t[i]).count
           leaf == LeafOf(t, i)
           new == Record(agg, e, c, frames)
<1>1. /\ c \in Nat /\ leaf \in Frames /\ i \in SamplesOf(t) /\ i \in Int
      /\ IsFiniteSet(SamplesOf(text))
  <2>1. i \in SamplesOf(t) OBVIOUS
  <2>2. i \in 1..Len(t) /\ ParseHeader(t[i]) \in Headers /\ leaf \in Frames
    BY <2>1, SamplesAre
  <2> QED BY <2>1, <2>2, SamplesAreFinite DEF Headers
<1>2. /\ new.samples = agg.samples + 1
      /\ new.lines = IF HasLine(leaf.loc) THEN Add(agg.lines, <<e, leaf.loc>>, c) ELSE agg.lines
      /\ new.funcs = IF leaf.func = None THEN agg.funcs
                     ELSE AddFunc(agg.funcs, <<e, leaf.func>>, c, FileOf(leaf))
  BY DEF Record
<1> HIDE DEF new
<1>3. /\ \A x, y : At(text, x, y) \subseteq SamplesOf(text)
      /\ \A x, y : In(text, x, y) \subseteq SamplesOf(text)
  BY DEF At, In
<1>4. \A x, y : At(t, x, y) = IF x = e /\ y = leaf.loc THEN At(text, x, y) \cup {i}
                              ELSE At(text, x, y)
  BY DEF At, Same
<1>5. \A x, y : In(t, x, y) = IF x = e /\ y = leaf.func THEN In(text, x, y) \cup {i}
                              ELSE In(text, x, y)
  BY DEF In, Same
<1>6. \A S \in SUBSET SamplesOf(text) : /\ CountOver(t, S) = CountOver(text, S)
                                        /\ CountOver(t, S \cup {i}) = c + CountOver(text, S)
  BY <1>1, CountsTheSame, CountsOneMore
<1> HIDE DEF e, c, leaf
<1>7. new.samples = Cardinality(SamplesOf(t))
  <2>1. Cardinality(SamplesOf(t)) = Cardinality(SamplesOf(text)) + 1 BY <1>1, FS_AddElement
  <2> QED BY <1>2, <2>1 DEF Aggregates
<1>8. DOMAIN new.lines = {<<ParseHeader(t[j]).event, LeafOf(t, j).loc>> :
                            j \in {j \in SamplesOf(t) : HasLine(LeafOf(t, j).loc)}}
  <2> DEFINE Old == {<<ParseHeader(t[j]).event, LeafOf(t, j).loc>> :
                       j \in {j \in SamplesOf(text) : HasLine(LeafOf(t, j).loc)}}
  <2>1. DOMAIN agg.lines = Old BY DEF Aggregates, Same
  <2>2. DOMAIN new.lines = IF HasLine(leaf.loc) THEN DOMAIN agg.lines \cup {<<e, leaf.loc>>}
                           ELSE DOMAIN agg.lines
    BY <1>2 DEF Add, Put
  <2>3. {<<ParseHeader(t[j]).event, LeafOf(t, j).loc>> :
            j \in {j \in SamplesOf(t) : HasLine(LeafOf(t, j).loc)}}
          = IF HasLine(leaf.loc) THEN Old \cup {<<e, leaf.loc>>} ELSE Old
    BY DEF leaf, e
  <2> HIDE DEF Old
  <2> QED BY <2>1, <2>2, <2>3
<1>9. DOMAIN new.funcs = {<<ParseHeader(t[j]).event, LeafOf(t, j).func>> :
                            j \in {j \in SamplesOf(t) : LeafOf(t, j).func # None}}
  <2> DEFINE Old == {<<ParseHeader(t[j]).event, LeafOf(t, j).func>> :
                       j \in {j \in SamplesOf(text) : LeafOf(t, j).func # None}}
  <2>1. DOMAIN agg.funcs = Old BY DEF Aggregates, Same
  <2>2. DOMAIN new.funcs = IF leaf.func = None THEN DOMAIN agg.funcs
                           ELSE DOMAIN agg.funcs \cup {<<e, leaf.func>>}
    BY <1>2 DEF AddFunc, Put
  <2>3. {<<ParseHeader(t[j]).event, LeafOf(t, j).func>> :
            j \in {j \in SamplesOf(t) : LeafOf(t, j).func # None}}
          = IF leaf.func = None THEN Old ELSE Old \cup {<<e, leaf.func>>}
    BY DEF leaf, e
  <2> HIDE DEF Old
  <2> QED BY <2>1, <2>2, <2>3
<1>10. ASSUME NEW k \in DOMAIN new.lines
       PROVE  new.lines[k] = CountOver(t, At(t, k[1], k[2]))
  <2>1. k = <<k[1], k[2]>> BY <1>8
  <2>2. CASE HasLine(leaf.loc) /\ k = <<e, leaf.loc>>
    <3>1. CountOver(t, At(t, k[1], k[2])) = c + CountOver(text, At(text, k[1], k[2]))
      BY <1>3, <1>4, <1>6, <2>2
    <3>2. new.lines[k] = c + (IF k \in DOMAIN agg.lines THEN agg.lines[k] ELSE 0)
      BY <1>2, <2>2 DEF Add, Put
    <3>3. k \in DOMAIN agg.lines => agg.lines[k] = CountOver(text, At(text, k[1], k[2]))
      BY DEF Aggregates
    <3>4. ASSUME k \notin DOMAIN agg.lines PROVE CountOver(text, At(text, k[1], k[2])) = 0
      <4>1. At(text, k[1], k[2]) = {}
        <5> SUFFICES ASSUME NEW j \in At(text, k[1], k[2]) PROVE FALSE OBVIOUS
        <5>1. /\ j \in SamplesOf(text) /\ ParseHeader(text[j]).event = e
              /\ LeafOf(text, j).loc = leaf.loc
          BY <2>2 DEF At
        <5> QED BY <5>1, <2>2, <3>4 DEF Aggregates
      <4> QED BY <4>1, SumStep, FS_EmptySet DEF CountOver
    <3> QED BY <3>1, <3>2, <3>3, <3>4
  <2>3. CASE ~(HasLine(leaf.loc) /\ k = <<e, leaf.loc>>)
    <3>1. k \in DOMAIN agg.lines /\ new.lines[k] = agg.lines[k]
      BY <1>2, <2>3 DEF Add, Put
    <3>2. HasLine(k[2]) BY <3>1 DEF Aggregates
    <3>3. At(t, k[1], k[2]) = At(text, k[1], k[2]) BY <1>4, <2>1, <2>3, <3>2
    <3> QED BY <1>3, <1>6, <3>1, <3>3 DEF Aggregates
  <2> QED BY <2>2, <2>3
<1>11. ASSUME NEW k \in DOMAIN new.funcs
       PROVE  LET located == {j \in In(t, k[1], k[2]) : LeafOf(t, j).loc # None}
              IN /\ new.funcs[k].self = CountOver(t, In(t, k[1], k[2]))
                 /\ new.funcs[k].file = IF located = {} THEN None
                                        ELSE FileOf(LeafOf(t, Min(located)))
  <2> DEFINE located == {j \in In(t, k[1], k[2]) : LeafOf(t, j).loc # None}
             before == {j \in In(text, k[1], k[2]) : LeafOf(text, j).loc # None}
             old == IF k \in DOMAIN agg.funcs THEN agg.funcs[k] ELSE [self |-> 0, file |-> None]
  <2>1. k = <<k[1], k[2]>> BY <1>9
  <2>2. k \in DOMAIN agg.funcs =>
          /\ agg.funcs[k].self = CountOver(text, In(text, k[1], k[2]))
          /\ agg.funcs[k].file = IF before = {} THEN None ELSE FileOf(LeafOf(text, Min(before)))
    BY DEF Aggregates
  <2>3. before \in SUBSET SamplesOf(text) BY <1>3
  <2>4. before # {} =>
          Min(before) \in before /\ LeafOf(t, Min(before)) = LeafOf(text, Min(before))
                       /\ \A j \in before : Min(before) <= j
    <3> HIDE DEF before
    <3>1. IsFiniteSet(before) /\ before \in SUBSET Int BY <2>3, SamplesAreFinite
    <3> QED BY <2>3, <3>1, Smallest DEF Same
  <2>5. CASE leaf.func # None /\ k = <<e, leaf.func>>
    <3>1. CountOver(t, In(t, k[1], k[2])) = c + CountOver(text, In(text, k[1], k[2]))
      BY <1>3, <1>5, <1>6, <2>5
    <3>2. /\ new.funcs[k].self = old.self + c
          /\ new.funcs[k].file = IF old.file = None THEN FileOf(leaf) ELSE old.file
      BY <1>2, <2>5 DEF AddFunc, Put
    <3>4. ASSUME k \notin DOMAIN agg.funcs
          PROVE  before = {} /\ CountOver(text, In(text, k[1], k[2])) = 0
      <4>1. In(text, k[1], k[2]) = {}
        <5> SUFFICES ASSUME NEW j \in In(text, k[1], k[2]) PROVE FALSE OBVIOUS
        <5>1. /\ j \in SamplesOf(text) /\ ParseHeader(text[j]).event = e
              /\ LeafOf(text, j).func = leaf.func
          BY <2>5 DEF In
        <5> QED BY <5>1, <2>5, <3>4 DEF Aggregates
      <4> QED BY <4>1, SumStep, FS_EmptySet DEF CountOver
    <3>5. old.self = CountOver(text, In(text, k[1], k[2]))
      BY <2>2, <3>4
    <3>6. old.file = IF before = {} THEN None ELSE FileOf(LeafOf(text, Min(before)))
      BY <2>2, <3>4
    <3>7. located = IF leaf.loc # None THEN before \cup {i} ELSE before
      BY <1>3, <1>5, <2>5 DEF Same, leaf
    <3>8. before # {} => FileOf(LeafOf(text, Min(before))) # None
      <4> SUFFICES ASSUME before # {} PROVE FileOf(LeafOf(text, Min(before))) # None OBVIOUS
      <4> DEFINE m == Min(before)
      <4>1. m \in SamplesOf(text) /\ LeafOf(text, m).loc # None BY <2>3, <2>4
      <4> HIDE DEF m
      <4>2. LeafOf(text, m) \in Frames BY <4>1, SamplesAre
      <4>3. LeafOf(text, m).loc \in STRING \X Nat BY <4>1, <4>2 DEF Frames, Places
      <4> QED BY <4>1, <4>3, InputAssumption DEF FileOf, m
    <3>9. CountOver(text, In(text, k[1], k[2])) \in Nat
      <4>1. In(text, k[1], k[2]) \in SUBSET SamplesOf(text) BY <1>3
      <4> QED BY <4>1, CountIsNat
    <3>10. new.funcs[k].self = CountOver(t, In(t, k[1], k[2]))
      <4> HIDE DEF old
      <4> QED BY <1>1, <3>1, <3>2, <3>5, <3>9
    <3>11. new.funcs[k].file = IF located = {} THEN None ELSE FileOf(LeafOf(t, Min(located)))
      <4>1. CASE before # {}
        <5>1. Min(located) = Min(before)
          <6>1. \A j \in before : j < i /\ j \in Int BY <2>3, SamplesAreFinite
          <6> HIDE DEF located, before
          <6>2. located \in SUBSET Int /\ Min(before) \in located
                /\ \A j \in located : Min(before) <= j
            BY <1>1, <2>4, <3>7, <4>1, <6>1
          <6> QED BY <6>2, MinIs
        <5> HIDE DEF located, before, old
        <5> QED BY <2>4, <3>2, <3>6, <3>7, <3>8, <4>1, <5>1
      <4>2. CASE before = {} /\ leaf.loc # None
        <5>1. located = {i} BY <3>7, <4>2
        <5> HIDE DEF located, before, old
        <5>2. located \in SUBSET Int /\ i \in located /\ \A j \in located : i <= j
          BY <1>1, <5>1
        <5>3. Min(located) = i BY <5>2, MinIs
        <5> QED BY <3>2, <3>6, <4>2, <5>1, <5>3 DEF leaf
      <4>3. CASE before = {} /\ leaf.loc = None
        <5> HIDE DEF located, before, old
        <5> QED BY <3>2, <3>6, <3>7, <4>3 DEF FileOf
      <4> QED BY <4>1, <4>2, <4>3
    <3> QED BY <3>10, <3>11
  <2>6. CASE ~(leaf.func # None /\ k = <<e, leaf.func>>)
    <3>1. k \in DOMAIN agg.funcs /\ new.funcs[k] = agg.funcs[k]
      BY <1>2, <2>6 DEF AddFunc, Put
    <3>2. k[2] # None BY <3>1 DEF Aggregates
    <3>3. In(t, k[1], k[2]) = In(text, k[1], k[2]) BY <1>5, <2>1, <2>6, <3>2
    <3>4. CountOver(t, In(t, k[1], k[2])) = CountOver(text, In(text, k[1], k[2]))
      BY <1>3, <1>6, <3>3
    <3>5. located = before BY <1>3, <3>3 DEF Same
    <3>6. /\ new.funcs[k].self = CountOver(t, In(t, k[1], k[2]))
          /\ new.funcs[k].file = IF located = {} THEN None ELSE FileOf(LeafOf(t, Min(located)))
      <4> HIDE DEF located, before
      <4> QED BY <2>2, <2>4, <3>1, <3>4, <3>5
    <3> QED BY <3>6
  <2> QED BY <2>5, <2>6
<1> QED BY <1>7, <1>8, <1>9, <1>10, <1>11 DEF Aggregates, new, e, c

\* Which samples the last line completes.
LEMMA MoreLines ==
  ASSUME NEW text \in Seq(PerfLines), NEW t, Continues(t, text)
  PROVE  /\ Same(t, text)
         /\ SamplesOf(t) = SamplesOf(text) \cup
              {i \in Current(text) : /\ FramesBelow(text, i) = {}
                                     /\ t[Len(t)].frame # None /\ t[Len(t)].indent}
<1>1. /\ Len(text) \in Nat /\ Len(t) = Len(text) + 1
      /\ \A i \in 1..Len(text) : t[i] = text[i]
  BY DEF Continues
<1>2. Same(t, text)
  <2> SUFFICES ASSUME NEW i \in SamplesOf(text)
               PROVE  t[i] = text[i] /\ LeafOf(t, i) = LeafOf(text, i)
    BY DEF Same
  <2>1. i \in 1..Len(text) /\ FramesBelow(text, i) # {} BY DEF SamplesOf
  <2> QED BY <2>1, <1>1, SamplesStay
<1>3. FramesBelow(t, Len(t)) = {} BY FramesGrow
<1>4. ASSUME NEW i \in 1..Len(text), Begins(text[i]) # None
      PROVE  LastFrame(t, i) # {} <=>
               i \in Current(text) /\ t[Len(t)].frame # None /\ t[Len(t)].indent
  <2>1. LastFrame(t, i) # {} <=>
          t[Len(t)].frame # None /\ \A m \in (i + 1)..Len(t) : t[m].indent
    BY DEF LastFrame
  <2>2. (i + 1)..Len(t) = (i + 1)..Len(text) \cup {Len(t)} BY <1>1
  <2>3. \A m \in (i + 1)..Len(text) : t[m] = text[m] BY <1>1
  <2>4. (\A m \in (i + 1)..Len(t) : t[m].indent) <=> i \in Current(text) /\ t[Len(t)].indent
    BY <1>4, <2>2, <2>3 DEF Current
  <2> QED BY <2>1, <2>4
<1>5. \A i \in 1..Len(text) : FramesBelow(t, i) = FramesBelow(text, i) \cup LastFrame(t, i)
  BY FramesGrow
<1>6. ASSUME NEW i
      PROVE  i \in SamplesOf(t) <=>
               i \in SamplesOf(text)
               \/ (/\ i \in Current(text) /\ FramesBelow(text, i) = {}
                   /\ t[Len(t)].frame # None /\ t[Len(t)].indent)
  <2>1. CASE i \in 1..Len(text) /\ Begins(text[i]) # None
    <3>1. i \in SamplesOf(t) <=> FramesBelow(t, i) # {} BY <1>1, <2>1 DEF SamplesOf
    <3>2. i \in SamplesOf(text) <=> FramesBelow(text, i) # {} BY <2>1 DEF SamplesOf
    <3> QED BY <3>1, <3>2, <1>4, <1>5, <2>1
  <2>2. CASE ~(i \in 1..Len(text) /\ Begins(text[i]) # None)
    <3>1. i \notin SamplesOf(text) /\ i \notin Current(text) BY <2>2 DEF SamplesOf, Current
    <3>2. i \notin SamplesOf(t) BY <2>2, <1>1, <1>3 DEF SamplesOf
    <3> QED BY <3>1, <3>2
  <2> QED BY <2>1, <2>2
<1> QED BY <1>2, <1>6

\* Which header is current then.
LEMMA CurrentIs ==
  ASSUME NEW text \in Seq(PerfLines)
  PROVE  /\ \A i, j \in Current(text) : i = j
         /\ \A i \in Current(text), j \in SamplesOf(text) : j <= i
         /\ \A i \in Current(text) : i \in 1..Len(text) /\ Begins(text[i]) = ParseHeader(text[i])
                                     /\ Begins(text[i]) # None
<1>1. \A i \in 1..Len(text) : Begins(text[i]) # None =>
        ~text[i].indent /\ Begins(text[i]) = ParseHeader(text[i])
  BY DEF Begins
<1> QED BY <1>1 DEF Current, SamplesOf

\* The current header, after another line.
LEMMA CurrentNext ==
  ASSUME NEW text \in Seq(PerfLines), NEW t, Continues(t, text)
  PROVE  Current(t) = IF t[Len(t)].indent THEN Current(text)
                      ELSE {i \in {Len(t)} : Begins(t[i]) # None}
<1>1. /\ Len(text) \in Nat /\ Len(t) = Len(text) + 1
      /\ \A i \in 1..Len(text) : t[i] = text[i]
  BY DEF Continues
<1>2. 1..Len(t) = 1..Len(text) \cup {Len(t)} BY <1>1
<1>3. t[Len(t)].indent => Begins(t[Len(t)]) = None BY DEF Begins
<1>4. ASSUME NEW i \in 1..Len(text)
      PROVE  i \in Current(t) <=> i \in Current(text) /\ t[Len(t)].indent
  <2>1. (i + 1)..Len(t) = (i + 1)..Len(text) \cup {Len(t)} BY <1>1
  <2>2. \A m \in (i + 1)..Len(text) : t[m] = text[m] BY <1>1
  <2>3. (\A m \in (i + 1)..Len(t) : t[m].indent) <=>
          (\A m \in (i + 1)..Len(text) : text[m].indent) /\ t[Len(t)].indent
    BY <2>1, <2>2
  <2>4. t[i] = text[i] /\ i \in 1..Len(t) BY <1>1
  <2> QED BY <2>3, <2>4 DEF Current
<1>5. Len(t) \in Current(t) <=> Begins(t[Len(t)]) # None
  BY <1>1 DEF Current
<1>6. Current(t) \subseteq 1..Len(t) /\ Current(text) \subseteq 1..Len(text)
  BY DEF Current
<1>7. Len(t) \notin 1..Len(text) BY <1>1
<1>8. CASE t[Len(t)].indent BY <1>2, <1>3, <1>4, <1>5, <1>6, <1>7, <1>8
<1>9. CASE ~t[Len(t)].indent
  <2>1. \A i : i \in Current(t) <=> i = Len(t) /\ Begins(t[i]) # None
    BY <1>2, <1>4, <1>5, <1>6, <1>9
  <2> QED BY <2>1, <1>9
<1> QED BY <1>8, <1>9

\* A line keeps what the parser has counted in step with the text.
LEMMA HasCountedNext ==
  ASSUME NEW text \in Seq(PerfLines), NEW l \in PerfLines,
         NEW s, IsParser(s), HasCounted(s, text)
  PROVE  HasCounted(ParseLine(s, l), Append(text, l))
<1> DEFINE t == Append(text, l)
           s1 == ParseLine(s, l)
<1>1. Continues(t, text) /\ t[Len(t)] = l BY DEF Continues
<1> HIDE DEF t, s1
<1>2. t \in Seq(PerfLines) /\ Len(t) = Len(text) + 1 /\ \A i \in 1..Len(text) : t[i] = text[i]
  BY <1>1 DEF Continues
<1>3. /\ Same(t, text)
      /\ SamplesOf(t) = SamplesOf(text) \cup
           {i \in Current(text) : FramesBelow(text, i) = {} /\ l.frame # None /\ l.indent}
  BY <1>1, MoreLines
<1>4. Current(t) = IF l.indent THEN Current(text) ELSE {i \in {Len(t)} : Begins(t[i]) # None}
  BY <1>1, CurrentNext
<1>5. \A i \in 1..Len(text) : FramesBelow(t, i) = FramesBelow(text, i) \cup LastFrame(t, i)
  BY <1>1, FramesGrow
<1>6. \A i \in 1..Len(text) : FramesBelow(text, i) # {} =>
        FramesBelow(t, i) # {} /\ LeafOf(t, i) = LeafOf(text, i)
  BY <1>1, SamplesStay
<1>7. SamplesOf(t) = SamplesOf(text) => \A agg : Aggregates(agg, text) => Aggregates(agg, t)
  BY <1>3, NoMoreSamples
<1>8. CASE l.indent /\ s.sample # None
  <2>1. PICK i \in Current(text) :
          /\ s.sample = Begins(text[i])
          /\ s.frames = <<>> => FramesBelow(text, i) = {}
          /\ s.frames # <<>> => FramesBelow(text, i) # {} /\ s.frames[1] = LeafOf(text, i)
    BY <1>8 DEF HasCounted
  <2>2. /\ i \in 1..Len(text) /\ s.sample = ParseHeader(text[i]) /\ t[i] = text[i]
        /\ i \in Current(t) /\ \A j \in Current(text) : j = i
    BY <1>2, <1>4, <1>8, <2>1, CurrentIs
  <2>3. /\ s1.sample = s.sample /\ s1.agg = s.agg
        /\ s1.frames = IF l.frame = None THEN s.frames ELSE Append(s.frames, l.frame)
    BY <1>8 DEF s1, ParseLine, ParseFrame, IsParser
  <2>4. s.frames \in Seq(Frames) BY DEF IsParser
  <2>5. CASE l.frame = None
    <3>1. s1.frames = s.frames BY <2>3, <2>5
    <3>2. Flush(s1) = Flush(s) BY <2>3, <3>1 DEF Flush
    <3>3. SamplesOf(t) = SamplesOf(text) BY <1>3, <2>5
    <3>4. LastFrame(t, i) = {} BY <1>1, <2>5 DEF LastFrame
    <3>5. FramesBelow(t, i) = FramesBelow(text, i) BY <1>5, <2>2, <3>4
    <3> QED BY <1>6, <1>7, <1>8, <2>1, <2>2, <2>3, <3>1, <3>2, <3>3, <3>5 DEF HasCounted, t, s1
  <2>6. CASE l.frame # None /\ s.frames = <<>>
    <3>1. s1.frames # <<>> /\ s1.frames[1] = l.frame BY <2>3, <2>6, <1>8
    <3>2. FramesBelow(text, i) = {} BY <2>1, <2>6
    <3>3. SamplesOf(t) = SamplesOf(text) \cup {i} /\ i \notin SamplesOf(text)
      BY <1>3, <1>8, <2>2, <2>6, <3>2 DEF SamplesOf
    <3>4. FramesBelow(t, i) = {Len(t)}
      <4>1. FramesBelow(t, i) # {} BY <3>3 DEF SamplesOf
      <4>2. LastFrame(t, i) \subseteq {Len(t)} BY DEF LastFrame
      <4> QED BY <4>1, <4>2, <1>5, <2>2, <3>2
    <3>5. LeafOf(t, i) = l.frame
      <4>1. PICK S : S = {Len(t)} OBVIOUS
      <4>2. S \in SUBSET Int /\ Len(t) \in S /\ \A n \in S : Len(t) <= n BY <1>2, <4>1
      <4>3. Min(S) = Len(t) BY <4>2, MinIs
      <4> QED BY <4>1, <4>3, <3>4, <1>1 DEF LeafOf
    <3>6. \A j \in SamplesOf(text) : j < i
      <4>1. \A j \in SamplesOf(text) : j <= i /\ j # i /\ j \in Int
        BY <3>3, CurrentIs, SamplesAreFinite
      <4> QED BY <4>1, <2>2
    <3>7. Aggregates(s.agg, text) BY <2>6 DEF HasCounted, Flush
    <3>8. Flush(s1) = Record(s.agg, ParseHeader(t[i]).event, ParseHeader(t[i]).count, s1.frames)
      BY <1>8, <2>2, <2>3, <3>1 DEF Flush
    <3>9. Aggregates(Flush(s1), t)
      <4>1. s1.frames[1] = LeafOf(t, i) BY <3>1, <3>5
      <4> QED BY <1>2, <1>3, <3>3, <3>6, <3>7, <3>8, <4>1, OneMoreSample
    <3> QED BY <1>8, <2>1, <2>2, <2>3, <3>1, <3>4, <3>5, <3>9 DEF HasCounted, t, s1
  <2>7. CASE l.frame # None /\ s.frames # <<>>
    <3>1. s1.frames # <<>> /\ s1.frames[1] = s.frames[1] BY <2>3, <2>4, <2>7, <1>8
    <3>2. Flush(s1) = Flush(s)
      BY <1>8, <2>3, <2>7, <3>1 DEF Flush, Record
    <3>3. SamplesOf(t) = SamplesOf(text) BY <1>3, <2>1, <2>2, <2>7
    <3> QED BY <1>6, <1>7, <1>8, <2>1, <2>2, <2>3, <2>7, <3>1, <3>2, <3>3 DEF HasCounted, t, s1
  <2> QED BY <2>5, <2>6, <2>7
<1>9. CASE ~(l.indent /\ s.sample # None)
  <2>1. s1 = [sample |-> Begins(l), frames |-> <<>>, agg |-> Flush(s)]
    BY <1>9 DEF s1, ParseLine
  <2>2. Flush(s1) = Flush(s) BY <2>1 DEF Flush
  <2>3. l.indent => Current(text) = {} BY <1>9 DEF HasCounted
  <2>4. SamplesOf(t) = SamplesOf(text) BY <1>3, <2>3
  <2>5. Aggregates(Flush(s1), t) BY <1>7, <2>2, <2>4 DEF HasCounted
  <2>6. CASE l.indent
    <3>1. s1.sample = None /\ Current(t) = {} BY <1>4, <2>1, <2>3, <2>6 DEF Begins
    <3> QED BY <2>5, <3>1 DEF HasCounted, t, s1
  <2>7. CASE ~l.indent
    <3>1. Current(t) = {i \in {Len(t)} : Begins(l) # None} BY <1>1, <1>4, <2>7
    <3>2. FramesBelow(t, Len(t)) = {} BY <1>1, FramesGrow
    <3> QED BY <1>1, <2>1, <2>5, <3>1, <3>2 DEF HasCounted, t, s1
  <2> QED BY <2>6, <2>7
<1> QED BY <1>8, <1>9

\* A new parser has counted what a text without lines has.
LEMMA HasCountedNothing == HasCounted(NewParser, <<>>)
<1>1. SamplesOf(<<>>) = {} /\ Current(<<>>) = {} BY DEF SamplesOf, Current
<1>2. Flush(NewParser) = NoSamples BY DEF Flush, NewParser
<1>3. Aggregates(NoSamples, <<>>) BY <1>1, FS_EmptySet DEF Aggregates, NoSamples, NoCounts
<1> QED BY <1>1, <1>2, <1>3 DEF HasCounted, NewParser

-----------------------------------------------------------------------------
(* PerfIsCounted, action by action                                         *)

\* Before the import's perf text begins nothing is read, while it is read the
\* parser is in step with it.
CountInv ==
  /\ job.text \in Seq(PerfLines)
  /\ job.pc \notin {"script", "lines", "functions", "total"} =>
       job.text = <<>> /\ job.parser = NewParser
  /\ job.pc = "script" => HasCounted(job.parser, job.text)
  /\ PerfIsCounted

\* Without an import nothing is counted.
LEMMA IdleHasCounted == ASSUME job' = Idle PROVE CountInv'
BY DEF Idle, CountInv, PerfIsCounted

\* Every step keeps the parser in step with its text.
LEMMA CountStep ==
  ASSUME TypesInv, CountInv, [Next]_vars
  PROVE  CountInv'
<1> USE DEF tables
<1>1. CASE UNCHANGED job BY <1>1 DEF CountInv, PerfIsCounted
<1>2. ASSUME NEW ext, NEW installed, ImportProfile(ext, installed) PROVE CountInv'
  <2>1. job'.pc \in {"ndjson", "open", "stdin", "script"} /\ job'.text = <<>>
        /\ job'.parser = NewParser
    BY <1>2 DEF ImportProfile, Idle, Reader
  <2> QED BY <2>1, HasCountedNothing DEF CountInv, PerfIsCounted
<1>3. CASE Open
  <2>1. /\ job'.pc \in {"sniff", "idle"} /\ job'.text = job.text /\ job'.parser = job.parser
        /\ job.pc = "open"
    BY <1>3 DEF Open, TypesInv, IsJob, JobIsRecord
  <2> QED BY <2>1 DEF CountInv, PerfIsCounted
<1>4. ASSUME NEW l \in PerfLines, ReadPerf(l) PROVE CountInv'
  <2>1. HasCounted(job.parser, job.text) /\ IsParser(job.parser)
    BY <1>4, HasCountedNothing DEF ReadPerf, CountInv, TypesInv, IsJob
  <2>2. /\ job'.pc = "script" /\ job'.text = Append(job.text, l)
        /\ job'.parser = ParseLine(job.parser, l)
    BY <1>4 DEF ReadPerf, TypesInv, IsJob, JobIsRecord
  <2>3. job.text \in Seq(PerfLines) BY DEF CountInv
  <2>4. HasCounted(job'.parser, job'.text) BY <2>1, <2>2, <2>3, HasCountedNext
  <2>5. job'.text \in Seq(PerfLines) BY <2>2, <2>3
  <2> QED BY <2>2, <2>4, <2>5 DEF CountInv, PerfIsCounted, HasCounted
<1>5. CASE EndPerf
  <2>1. /\ job'.pc = "lines" /\ job'.text = job.text /\ job.pc = "script"
        /\ job'.parser.agg = Flush(job.parser)
    BY <1>5 DEF EndPerf, TypesInv, IsJob, JobIsRecord, IsParser
  <2> QED BY <2>1 DEF CountInv, PerfIsCounted, HasCounted
<1>6. ASSUME NEW l, ReadMetadata(l) \/ ReadRow(l) \/ ReadJunk(l) PROVE CountInv'
  <2>1. /\ job'.pc = "ndjson" /\ job'.text = job.text /\ job'.parser = job.parser
        /\ job.pc \in {"ndjson", "sniff"}
    BY <1>6 DEF ReadMetadata, ReadRow, ReadJunk, Reading, TypesInv, IsJob, JobIsRecord
  <2> QED BY <2>1 DEF CountInv, PerfIsCounted
<1>7. ASSUME NEW l, ReadMistyped(l) PROVE CountInv'
  BY <1>7, IdleHasCounted DEF ReadMistyped
<1>8. CASE EndJson
  <2>1. /\ job'.pc = "lines" /\ job'.text = job.text /\ job'.parser = job.parser
        /\ job.pc \in {"ndjson", "sniff"}
    BY <1>8 DEF EndJson, Reading, TypesInv, IsJob, JobIsRecord
  <2> QED BY <2>1 DEF CountInv, PerfIsCounted
<1>9. CASE InsertLineRows \/ InsertFunctionRows
  <2>1. /\ job'.pc \in {"functions", "total"} /\ job'.text = job.text
        /\ job'.parser = job.parser
    BY <1>9 DEF InsertLineRows, InsertFunctionRows, TypesInv, IsJob, JobIsRecord
  <2> QED BY <2>1 DEF CountInv, PerfIsCounted
<1>10. CASE Finish \/ Crash BY <1>10, IdleHasCounted DEF Finish, Crash
<1>11. CASE ImporterEnds
  <2>1. /\ job'.pc = "ndjson" /\ job'.text = job.text /\ job'.parser = job.parser
        /\ job.pc = "stdin"
    BY <1>11 DEF ImporterEnds, TypesInv, IsJob, JobIsRecord
  <2> QED BY <2>1 DEF CountInv, PerfIsCounted
<1>12. ASSUME NEW id, DeleteProfile(id) \/ StoreSourceHashes(id, Files) \/ ExtensionLeaves
       PROVE  job' = job
  BY <1>12 DEF DeleteProfile, StoreSourceHashes, ExtensionLeaves
<1> QED
  BY <1>1, <1>2, <1>3, <1>4, <1>5, <1>6, <1>7, <1>8, <1>9, <1>10, <1>11, <1>12
  DEF Next, vars

\* What is counted of perf text at its end is what its samples say: each header
\* with the first frame below it, under the event of that header, once, however
\* headers, frames, blank and other lines follow each other
\* (perf_script_parser.cpp:182-275).
THEOREM TextIsCounted == Spec => []PerfIsCounted
<1>1. Init => TypesInv /\ ImportInv /\ CountInv
  <2>1. Init => CountInv BY DEF Init, Idle, CountInv, PerfIsCounted
  <2> QED BY <2>1, TypesInitially, ImportInitially
<1>2. TypesInv /\ ImportInv /\ CountInv /\ [Next]_vars
        => TypesInv' /\ ImportInv' /\ CountInv'
  BY TypesStep, ImportStep, CountStep
<1>3. CountInv => PerfIsCounted BY DEF CountInv
<1> QED BY <1>1, <1>2, <1>3, PTL DEF Spec

-----------------------------------------------------------------------------
(* Which profile is active (ProfileSelection)                              *)

\* The profiles imports were given.
Given == Profiles \ fresh

\* What is on its way, either way.
Requests ==
  [what : {"import", "delete", "list", "top"}, id : Profiles \cup {NoProfile},
   then : {"import", "delete", "nothing", "activate", "deleted", "fetch", "second", "restore"},
   arg  : Profiles \cup {NoProfile}, prev : Profiles \cup {NoProfile} \cup SUBSET Profiles]

\* What is awaited goes on with profiles that an import was given.
Proper(m) ==
  /\ m.id \in Given \cup {NoProfile} /\ m.arg \in Given \cup {NoProfile}
  /\ m.what = "import" => m.then = "import"
  /\ m.what = "delete" => m.then = "delete" /\ m.id \in doomed
  /\ m.what = "list"   => m.then \in {"nothing", "activate", "deleted"}
  /\ m.what = "top"    => /\ m.then \in {"fetch", "second", "restore"}
                          /\ m.prev \in Given \cup {NoProfile}

Made(q) == q \in Seq(Requests) /\ \A m \in Range(q) : Proper(m)

\* What a message is about, or has done to the store.
Listing(m)  == m.what = "list"
Deleting(m) == m.what = "delete"
Changing(m) == Deleting(m) \/ (m.what = "import" /\ m.id # NoProfile)

\* The types of the variables.
ChoiceTypes ==
  /\ fresh \subseteq Profiles /\ stored \subseteq Given /\ doomed \subseteq Given
  /\ seen \subseteq Given /\ known \subseteq seen /\ unlisted \subseteq Given
  /\ active \in Given \cup {NoProfile} /\ panel \in BOOLEAN /\ revived \in BOOLEAN
  /\ Made(inbox) /\ Made(outbox)
  /\ \A m \in Range(outbox) : Listing(m) => m.prev \subseteq Given

\* A profile that is gone was deleted at somebody's request.
GoneIsDoomed == Given \subseteq stored \cup doomed

\* What the store has but for what failed imports have left there since it was
\* listed.
Announced == stored \ unlisted

\* A list on its way is the store's, or the answer to a change or another list
\* comes after it.
ListIsCurrent ==
  \A n \in DOMAIN outbox : Listing(outbox[n]) =>
    \/ outbox[n].prev = Announced
    \/ \E m \in DOMAIN outbox : m > n /\ (Changing(outbox[m]) \/ Listing(outbox[m]))

\* The extension's list is the store's, or another will be fetched.
KnownOrListed ==
  \/ known = Announced
  \/ \E m \in Range(inbox) : Listing(m)
  \/ \E m \in Range(outbox) : Listing(m) \/ Changing(m)

\* The active profile is stored, or its deletion is on its way.
ActiveOrDeleting ==
  ~revived => \/ active \in stored \cup {NoProfile}
              \/ \E m \in Range(inbox) \cup Range(outbox) : Deleting(m) /\ m.id = active

\* The inductive invariant of the choice.
ChoiceInv == /\ ChoiceTypes /\ GoneIsDoomed
             /\ ListIsCurrent /\ KnownOrListed /\ ActiveOrDeleting

\* A pipe that takes in a message.
LEMMA PipeAppends ==
  ASSUME NEW S, NEW q \in Seq(S), NEW x \in S
  PROVE  /\ Append(q, x) \in Seq(S) /\ Range(Append(q, x)) = Range(q) \cup {x}
<1>1. Append(q, x) \in Seq(S) OBVIOUS
<1>2. DOMAIN Append(q, x) = DOMAIN q \cup {Len(q) + 1} /\ DOMAIN q = 1..Len(q) OBVIOUS
<1>3. \A n \in DOMAIN q : Append(q, x)[n] = q[n] OBVIOUS
<1>4. Append(q, x)[Len(q) + 1] = x OBVIOUS
<1>5. Range(Append(q, x)) \subseteq Range(q) \cup {x} BY <1>2, <1>3, <1>4 DEF Range
<1>6. Range(q) \subseteq Range(Append(q, x)) BY <1>2, <1>3 DEF Range
<1>7. x \in Range(Append(q, x)) BY <1>2, <1>4 DEF Range
<1> QED BY <1>1, <1>5, <1>6, <1>7

\* A pipe that takes in several.
LEMMA PipesJoin ==
  ASSUME NEW S, NEW q \in Seq(S), NEW r \in Seq(S)
  PROVE  q \o r \in Seq(S) /\ Range(q \o r) = Range(q) \cup Range(r)
<1>1. q \o r \in Seq(S) /\ Len(q \o r) = Len(q) + Len(r) OBVIOUS
<1>2. \A n \in DOMAIN q : n \in DOMAIN (q \o r) /\ (q \o r)[n] = q[n] OBVIOUS
<1>3. \A n \in DOMAIN r : Len(q) + n \in DOMAIN (q \o r) /\ (q \o r)[Len(q) + n] = r[n] OBVIOUS
<1>4. ASSUME NEW n \in DOMAIN (q \o r) PROVE (q \o r)[n] \in Range(q) \cup Range(r)
  <2>1. CASE n <= Len(q)
    <3>1. n \in DOMAIN q BY <2>1, <1>1
    <3> QED BY <3>1, <1>2 DEF Range
  <2>2. CASE n > Len(q)
    <3>1. n - Len(q) \in DOMAIN r /\ n = Len(q) + (n - Len(q)) BY <2>2, <1>1
    <3>2. (q \o r)[n] = r[n - Len(q)] BY <3>1, <1>3
    <3> QED BY <3>1, <3>2 DEF Range
  <2> QED BY <2>1, <2>2, <1>1
<1>5. Range(q \o r) \subseteq Range(q) \cup Range(r) BY <1>4 DEF Range
<1>6. Range(q) \subseteq Range(q \o r) BY <1>2 DEF Range
<1>7. Range(r) \subseteq Range(q \o r) BY <1>3 DEF Range
<1> QED BY <1>1, <1>5, <1>6, <1>7

\* A pipe that gives out its first message.
LEMMA PipeGives ==
  ASSUME NEW S, NEW q \in Seq(S), q # <<>>
  PROVE  /\ Head(q) \in S /\ Tail(q) \in Seq(S) /\ Range(q) = {Head(q)} \cup Range(Tail(q))
         /\ Len(Tail(q)) = Len(q) - 1 /\ Head(q) = q[1]
         /\ \A n \in 1..Len(Tail(q)) : Tail(q)[n] = q[n + 1]
<1>1. /\ Head(q) \in S /\ Tail(q) \in Seq(S) /\ Len(Tail(q)) = Len(q) - 1
      /\ Head(q) = q[1] /\ 1 \in DOMAIN q
  OBVIOUS
<1>2. \A n \in 1..Len(Tail(q)) : n + 1 \in DOMAIN q /\ Tail(q)[n] = q[n + 1] OBVIOUS
<1>3. \A n \in DOMAIN q : n = 1 \/ (n - 1 \in DOMAIN Tail(q) /\ q[n] = Tail(q)[n - 1])
  BY <1>1, <1>2
<1>4. Range(Tail(q)) \subseteq Range(q) BY <1>1, <1>2 DEF Range
<1>5. Range(q) \subseteq {Head(q)} \cup Range(Tail(q)) BY <1>1, <1>3 DEF Range
<1>6. Head(q) \in Range(q) BY <1>1 DEF Range
<1> QED BY <1>1, <1>2, <1>4, <1>5, <1>6

\* An empty pipe holds nothing.
LEMMA PipeIsEmpty == Range(<<>>) = {}
BY DEF Range

\* The invariant survives what only asks for more: messages are added, and the
\* active profile is kept or becomes one whose deletion nobody asked for.
LEMMA AskingKeeps ==
  ASSUME ChoiceInv,
         NEW q \in Seq(Requests), \A m \in Range(q) : Proper(m) \/ Proper(m)',
         inbox' = q, Range(inbox) \subseteq Range(q),
         UNCHANGED <<stored, fresh, known, seen, outbox, unlisted>>,
         doomed \subseteq doomed', doomed' \subseteq Given,
         active' \in Given \cup {NoProfile}, panel' \in BOOLEAN, revived' \in BOOLEAN,
         ~revived' => ~revived /\ (active' = active \/ active' \notin doomed)
  PROVE  ChoiceInv'
<1>1. inbox' \in Seq(Requests) /\ inbox' = q /\ Range(inbox) \subseteq Range(inbox')
  BY DEF Made
<1>2. \A m : Proper(m) => Proper(m)' BY DEF Proper, Given
<1>3. ChoiceTypes'
  BY <1>1, <1>2 DEF ChoiceInv, ChoiceTypes, Made, Given, Listing
<1>4. GoneIsDoomed' BY DEF ChoiceInv, GoneIsDoomed, Given
<1>5. ListIsCurrent' BY DEF ChoiceInv, ListIsCurrent, Announced, Listing, Changing, Deleting
<1>6. KnownOrListed' BY <1>1 DEF ChoiceInv, KnownOrListed, Announced, Listing, Changing, Deleting
<1>7. ActiveOrDeleting'
  <2> SUFFICES ASSUME ~revived'
               PROVE  \/ active' \in stored' \cup {NoProfile}
                      \/ \E m \in Range(inbox') \cup Range(outbox') : Deleting(m)' /\ m.id = active'
    BY DEF ActiveOrDeleting
  <2>1. CASE active' = active BY <1>1, <2>1 DEF ChoiceInv, ActiveOrDeleting, Deleting
  <2>2. CASE active' \notin doomed BY <2>2 DEF ChoiceInv, GoneIsDoomed
  <2> QED BY <2>1, <2>2
<1> QED BY <1>3, <1>4, <1>5, <1>6, <1>7 DEF ChoiceInv

\* And what an answer makes the extension do: a list it brings is kept, the
\* answer to a change is followed by a list.
LEMMA AnswerKeeps ==
  ASSUME ChoiceInv, outbox # <<>>, outbox' = Tail(outbox),
         NEW q, Made(q),
         inbox' = q, Range(inbox) \subseteq Range(q),
         UNCHANGED <<stored, fresh, doomed, panel, unlisted>>,
         IF Listing(Head(outbox))
           THEN known' = Head(outbox).prev /\ seen' = seen \cup Head(outbox).prev
           ELSE UNCHANGED <<known, seen>>,
         Changing(Head(outbox)) => \E m \in Range(q) : Listing(m),
         active' \in Given \cup {NoProfile}, revived' \in BOOLEAN,
         ~revived' => /\ ~revived
                      /\ \/ /\ active' = active
                            /\ ~(Deleting(Head(outbox)) /\ Head(outbox).id = active)
                         \/ active' \notin doomed
  PROVE  ChoiceInv'
<1> DEFINE msg == Head(outbox)
<1>1. inbox' \in Seq(Requests) /\ inbox' = q /\ Range(inbox) \subseteq Range(inbox')
  BY DEF Made
<1>2. /\ msg \in Requests /\ outbox' \in Seq(Requests)
      /\ Range(outbox) = {msg} \cup Range(outbox')
      /\ Len(outbox') = Len(outbox) - 1 /\ msg = outbox[1]
      /\ \A n \in 1..Len(outbox') : outbox'[n] = outbox[n + 1]
  BY PipeGives DEF ChoiceInv, ChoiceTypes, Made
<1>3. \A m : Proper(m)' <=> Proper(m) BY DEF Proper, Given
<1>4. Proper(msg) /\ (Listing(msg) => msg.prev \subseteq Given)
  BY <1>2 DEF ChoiceInv, ChoiceTypes, Made
<1>5. seen' \subseteq Given /\ known' \subseteq seen'
  BY <1>4 DEF ChoiceInv, ChoiceTypes, Made
<1>6. ChoiceTypes'
  BY <1>1, <1>2, <1>3, <1>5 DEF ChoiceInv, ChoiceTypes, Made, Given, Listing
<1>7. GoneIsDoomed' BY DEF ChoiceInv, GoneIsDoomed, Given
<1>8. DOMAIN outbox = 1..Len(outbox) /\ DOMAIN outbox' = 1..Len(outbox') /\ Len(outbox) \in Nat \ {0}
  BY <1>2 DEF ChoiceInv, ChoiceTypes, Made
<1>9. ListIsCurrent'
  <2> SUFFICES ASSUME NEW n \in DOMAIN outbox', Listing(outbox'[n])
               PROVE  \/ outbox'[n].prev = Announced
                      \/ \E m \in DOMAIN outbox' :
                           m > n /\ (Changing(outbox'[m]) \/ Listing(outbox'[m]))
    BY DEF ListIsCurrent, Announced, Listing, Changing, Deleting
  <2>1. n + 1 \in DOMAIN outbox /\ outbox'[n] = outbox[n + 1] BY <1>2, <1>8
  <2>2. CASE outbox[n + 1].prev = Announced BY <2>1, <2>2
  <2>3. CASE \E m \in DOMAIN outbox :
               m > n + 1 /\ (Changing(outbox[m]) \/ Listing(outbox[m]))
    <3>1. PICK m \in DOMAIN outbox :
                 m > n + 1 /\ (Changing(outbox[m]) \/ Listing(outbox[m]))
      BY <2>3
    <3>2. m - 1 \in DOMAIN outbox' /\ m - 1 > n /\ outbox'[m - 1] = outbox[m]
      BY <3>1, <1>2, <1>8
    <3> QED BY <3>1, <3>2
  <2> QED BY <2>1, <2>2, <2>3 DEF ChoiceInv, ListIsCurrent
<1>10. KnownOrListed'
  <2>1. CASE Listing(msg)
    <3>1. CASE msg.prev = Announced BY <2>1, <3>1 DEF KnownOrListed, Announced
    <3>2. CASE \E m \in DOMAIN outbox :
                 m > 1 /\ (Changing(outbox[m]) \/ Listing(outbox[m]))
      <4>1. PICK m \in DOMAIN outbox :
                   m > 1 /\ (Changing(outbox[m]) \/ Listing(outbox[m]))
        BY <3>2
      <4>2. m - 1 \in DOMAIN outbox' /\ outbox'[m - 1] = outbox[m] BY <4>1, <1>2, <1>8
      <4> QED BY <4>1, <4>2 DEF KnownOrListed, Listing, Changing, Deleting, Range
    <3> QED BY <2>1, <3>1, <3>2, <1>2, <1>8 DEF ChoiceInv, ListIsCurrent
  <2>2. CASE Changing(msg) BY <2>2, <1>1 DEF KnownOrListed, Listing
  <2>3. CASE ~Listing(msg) /\ ~Changing(msg)
    BY <2>3, <1>1, <1>2 DEF ChoiceInv, KnownOrListed, Announced, Listing, Changing, Deleting
  <2> QED BY <2>1, <2>2, <2>3
<1>11. ActiveOrDeleting'
  <2> SUFFICES ASSUME ~revived'
               PROVE  \/ active' \in stored' \cup {NoProfile}
                      \/ \E m \in Range(inbox') \cup Range(outbox') : Deleting(m)' /\ m.id = active'
    BY DEF ActiveOrDeleting
  <2>1. CASE active' = active /\ ~(Deleting(msg) /\ msg.id = active)
    BY <1>1, <1>2, <2>1 DEF ChoiceInv, ActiveOrDeleting, Deleting
  <2>2. CASE active' \notin doomed BY <2>2 DEF ChoiceInv, GoneIsDoomed
  <2> QED BY <2>1, <2>2
<1> QED BY <1>6, <1>7, <1>9, <1>10, <1>11 DEF ChoiceInv

\* And a request that is handled: its answer keeps what the code goes on with.
LEMMA HandlingKeeps ==
  ASSUME ChoiceInv, inbox # <<>>, inbox' = Tail(inbox),
         NEW msg \in Requests, outbox' = Append(outbox, msg),
         \A m : m = msg => Proper(m)',
         Listing(msg) => msg.prev \subseteq Given /\ msg.prev = Announced',
         unlisted' \subseteq Profiles \ fresh',
         UNCHANGED <<active, known, seen, panel, doomed, revived>>,
         fresh' \subseteq fresh, stored' \subseteq Profiles \ fresh',
         (fresh \ fresh') \subseteq stored',
         \A id \in stored \ stored' : Deleting(msg) /\ msg.id = id /\ id \in doomed,
         Announced' # Announced => Changing(msg) \/ Listing(msg),
         Listing(Head(inbox)) => Listing(msg),
         Deleting(Head(inbox)) => Deleting(msg) /\ msg.id = Head(inbox).id
  PROVE  ChoiceInv'
<1>1. /\ inbox' \in Seq(Requests) /\ Range(inbox) = {Head(inbox)} \cup Range(inbox')
      /\ Head(inbox) \in Requests
  BY PipeGives DEF ChoiceInv, ChoiceTypes, Made
<1>2. outbox' \in Seq(Requests) /\ Range(outbox') = Range(outbox) \cup {msg}
  BY PipeAppends DEF ChoiceInv, ChoiceTypes, Made
<1>3. Given \subseteq Given' BY DEF Given
<1>4. \A m : Proper(m) => Proper(m)' BY <1>3 DEF Proper
<1>5. Listing(msg) => msg.prev \subseteq Given' BY <1>3 DEF ChoiceInv, ChoiceTypes, Made
<1>6. ChoiceTypes'
  <2>1. fresh' \subseteq Profiles /\ stored' \subseteq Given' BY DEF ChoiceInv, ChoiceTypes, Given
  <2>2. /\ doomed' \subseteq Given' /\ seen' \subseteq Given' /\ known' \subseteq seen'
        /\ active' \in Given' \cup {NoProfile} /\ panel' \in BOOLEAN /\ revived' \in BOOLEAN
        /\ unlisted' \subseteq Given'
    BY <1>3 DEF ChoiceInv, ChoiceTypes, Made, Given
  <2>3. Made(inbox)' BY <1>1, <1>4 DEF ChoiceInv, ChoiceTypes, Made
  <2>4. Made(outbox)' BY <1>2, <1>4 DEF ChoiceInv, ChoiceTypes, Made
  <2>5. \A m \in Range(outbox') : Listing(m) => m.prev \subseteq Given'
    BY <1>2, <1>3, <1>5 DEF ChoiceInv, ChoiceTypes, Made
  <2> QED BY <1>1, <1>2, <2>1, <2>2, <2>3, <2>4, <2>5 DEF ChoiceTypes, Listing
<1>7. GoneIsDoomed' BY DEF ChoiceInv, GoneIsDoomed, Given
<1>8. /\ Len(outbox) \in Nat /\ Len(outbox') = Len(outbox) + 1 /\ outbox'[Len(outbox) + 1] = msg
      /\ DOMAIN outbox = 1..Len(outbox) /\ DOMAIN outbox' = 1..(Len(outbox) + 1)
      /\ \A n \in DOMAIN outbox : outbox'[n] = outbox[n]
  BY DEF ChoiceInv, ChoiceTypes, Made
<1>9. ListIsCurrent'
  <2> SUFFICES ASSUME NEW n \in DOMAIN outbox', Listing(outbox'[n])
               PROVE  \/ outbox'[n].prev = Announced'
                      \/ \E m \in DOMAIN outbox' :
                           m > n /\ (Changing(outbox'[m]) \/ Listing(outbox'[m]))
    BY DEF ListIsCurrent, Listing, Changing, Deleting
  <2>1. CASE n = Len(outbox) + 1 BY <2>1, <1>8
  <2>2. CASE n \in DOMAIN outbox /\ Announced' = Announced
    <3>1. \/ outbox[n].prev = Announced
          \/ \E m \in DOMAIN outbox : m > n /\ (Changing(outbox[m]) \/ Listing(outbox[m]))
      BY <2>2, <1>8 DEF ChoiceInv, ListIsCurrent
    <3> QED BY <3>1, <2>2, <1>8
  <2>3. CASE n \in DOMAIN outbox /\ Announced' # Announced BY <2>3, <1>8
  <2> QED BY <2>1, <2>2, <2>3, <1>8
<1>10. KnownOrListed'
  <2>1. CASE Announced' # Announced
    BY <2>1, <1>2 DEF KnownOrListed, Listing, Changing, Deleting
  <2>2. CASE Announced' = Announced
    BY <2>2, <1>1, <1>2 DEF ChoiceInv, KnownOrListed, Listing, Changing, Deleting
  <2> QED BY <2>1, <2>2
<1>11. ActiveOrDeleting'
  <2> SUFFICES ASSUME ~revived
               PROVE  \/ active \in stored' \cup {NoProfile}
                      \/ \E m \in Range(inbox') \cup Range(outbox') : Deleting(m) /\ m.id = active
    BY DEF ActiveOrDeleting, Deleting
  <2>1. CASE active \in stored \cup {NoProfile} BY <2>1, <1>2
  <2>2. CASE \E m \in Range(inbox) \cup Range(outbox) : Deleting(m) /\ m.id = active
    BY <2>2, <1>1, <1>2
  <2> QED BY <2>1, <2>2 DEF ChoiceInv, ActiveOrDeleting
<1> QED BY <1>6, <1>7, <1>9, <1>10, <1>11 DEF ChoiceInv

\* A message alone.
LEMMA OneMessage ==
  ASSUME NEW m \in Requests
  PROVE  <<m>> \in Seq(Requests) /\ Range(<<m>>) = {m}
BY DEF Range
\* The messages the code makes.
LEMMA MadeMessages ==
  ASSUME fresh \subseteq Profiles
  PROVE  /\ \A id \in Given \cup {NoProfile}, then \in {"nothing", "activate", "deleted"} :
              Made(<<List(then, id)>>) /\ Listing(List(then, id))
         /\ \A id \in Given \cup {NoProfile}, arg \in Given \cup {NoProfile}, prev \in Given \cup {NoProfile},
               then \in {"fetch", "second", "restore"} :
              Made(<<Top(id, then, arg, prev)>>)
         /\ Made(Fired)
<1>1. Given \subseteq Profiles BY DEF Given
<1>2. \A id \in Given \cup {NoProfile}, then \in {"nothing", "activate", "deleted"} :
        Made(<<List(then, id)>>) /\ Listing(List(then, id))
  <2> TAKE id \in Given \cup {NoProfile}, then \in {"nothing", "activate", "deleted"}
  <2>1. List(then, id) =
          [what |-> "list", id |-> NoProfile, then |-> then, arg |-> id, prev |-> NoProfile]
    BY DEF List, Msg
  <2>2. List(then, id) \in Requests BY <1>1, <2>1 DEF Requests
  <2>3. Proper(List(then, id)) BY <2>1 DEF Proper
  <2> QED BY <2>1, <2>2, <2>3, OneMessage DEF Listing, Made
<1>3. \A id \in Given \cup {NoProfile}, arg \in Given \cup {NoProfile}, prev \in Given \cup {NoProfile},
         then \in {"fetch", "second", "restore"} :
        Made(<<Top(id, then, arg, prev)>>)
  <2> TAKE id \in Given \cup {NoProfile}, arg \in Given \cup {NoProfile}, prev \in Given \cup {NoProfile},
           then \in {"fetch", "second", "restore"}
  <2>1. Top(id, then, arg, prev) =
          [what |-> "top", id |-> id, then |-> then, arg |-> arg, prev |-> prev]
    BY DEF Top, Msg
  <2>2. Top(id, then, arg, prev) \in Requests BY <1>1, <2>1 DEF Requests
  <2>3. Proper(Top(id, then, arg, prev)) BY <2>1 DEF Proper
  <2> QED BY <2>2, <2>3, OneMessage DEF Made
<1>4. Made(Fired)
  <2>1. CASE panel
    <3>1. Fired = <<List("nothing", NoProfile)>> BY <2>1 DEF Fired
    <3> QED BY <3>1, <1>2
  <2>2. CASE ~panel BY <2>2, PipeIsEmpty DEF Fired, Made
  <2> QED BY <2>1, <2>2
<1> QED BY <1>2, <1>3, <1>4


\* Messages after messages.
LEMMA MadeJoins ==
  ASSUME NEW q, NEW r, Made(q), Made(r)
  PROVE  /\ Made(q \o r)
         /\ Range(q) \subseteq Range(q \o r) /\ Range(r) \subseteq Range(q \o r)
BY PipesJoin DEF Made

\* What users start keeps the invariant.
LEMMA UsersKeep ==
  ASSUME ChoiceInv,
         \/ Refresh \/ Close \/ Import
         \/ \E id \in Profiles : AskDelete(id) \/ Select(id)
         \/ \E p, q \in Profiles : Compare(p, q) \/ Diff(p, q)
  PROVE  ChoiceInv'
<1> USE ProfileAssumption
<1>1. /\ fresh \subseteq Profiles /\ inbox \in Seq(Requests) /\ Made(inbox)
      /\ seen \subseteq Given /\ doomed \subseteq Given /\ Given \subseteq Profiles
      /\ active \in Given \cup {NoProfile} /\ panel \in BOOLEAN /\ revived \in BOOLEAN
  BY DEF ChoiceInv, ChoiceTypes, Made, Given
<1>2. /\ \A id \in Given \cup {NoProfile}, then \in {"nothing", "activate", "deleted"} :
           Made(<<List(then, id)>>)
      /\ \A id \in Given \cup {NoProfile}, arg \in Given \cup {NoProfile}, prev \in Given \cup {NoProfile},
            then \in {"fetch", "second", "restore"} :
           Made(<<Top(id, then, arg, prev)>>)
      /\ Made(Fired)
  BY <1>1, MadeMessages
<1>3. CASE Refresh
  <2>1. Made(<<List("nothing", NoProfile)>>) BY <1>2
  <2>2. inbox' = inbox \o <<List("nothing", NoProfile)>>
    BY <1>1, <1>3, <2>1 DEF Refresh, Made
  <2>3. /\ Made(inbox \o <<List("nothing", NoProfile)>>)
        /\ Range(inbox) \subseteq Range(inbox \o <<List("nothing", NoProfile)>>)
    BY <1>1, <2>1, MadeJoins
  <2> QED
    BY <1>1, <1>3, <2>2, <2>3, AskingKeeps
    DEF Made, Refresh, sidecar, lists, history
<1>4. CASE Close
  <2>1. /\ UNCHANGED <<stored, fresh, active, known, seen, inbox, outbox, doomed, revived, unlisted>>
        /\ panel' \in BOOLEAN
    BY <1>4 DEF Close, sidecar, lists, history
  <2> QED
    BY <2>1 DEF ChoiceInv, ChoiceTypes, GoneIsDoomed, ListIsCurrent, KnownOrListed,
                Announced, ActiveOrDeleting, Made, Proper, Given, Listing, Changing, Deleting
<1>5. CASE Import
  <2> DEFINE msg == [what |-> "import", id |-> NoProfile, then |-> "import",
                     arg |-> NoProfile, prev |-> NoProfile]
  <2>1. msg \in Requests BY DEF Requests
  <2>2. Proper(msg) BY DEF Proper
  <2>3. Made(<<msg>>) BY <2>1, <2>2, OneMessage DEF Made
  <2>4. inbox' = inbox \o <<msg>>
    BY <1>1, <1>5, <2>1 DEF Import, Msg
  <2> HIDE DEF msg
  <2>5. Made(inbox \o <<msg>>) /\ Range(inbox) \subseteq Range(inbox \o <<msg>>)
    BY <1>1, <2>3, MadeJoins
  <2> QED
    BY <1>1, <1>5, <2>4, <2>5, AskingKeeps
    DEF Made, Import, sidecar, lists, history
<1>6. ASSUME NEW id \in Profiles, AskDelete(id) PROVE ChoiceInv'
  <2> DEFINE msg == [what |-> "delete", id |-> id, then |-> "delete",
                     arg |-> NoProfile, prev |-> NoProfile]
  <2>1. msg \in Requests BY DEF Requests
  <2>2. id \in Given BY <1>1, <1>6 DEF AskDelete
  <2>3. /\ UNCHANGED <<stored, fresh, active, known, seen, panel, outbox, revived, unlisted>>
        /\ doomed' = doomed \cup {id}
    BY <1>6 DEF AskDelete, sidecar, lists
  <2>4. Proper(msg)' BY <2>2, <2>3 DEF Proper, Given
  <2>5. /\ Append(inbox, msg) \in Seq(Requests)
        /\ Range(Append(inbox, msg)) = Range(inbox) \cup {msg}
        /\ \A m \in Range(Append(inbox, msg)) : Proper(m) \/ Proper(m)'
    BY <1>1, <2>1, <2>4, PipeAppends DEF Made
  <2>6. inbox' = Append(inbox, msg) BY <1>6 DEF AskDelete, Msg
  <2> QED BY <1>1, <2>2, <2>3, <2>5, <2>6, AskingKeeps
<1>7. ASSUME NEW id \in Profiles, Select(id) PROVE ChoiceInv'
  <2> DEFINE list == <<List("nothing", NoProfile)>>
  <2>1. Made(list) BY <1>2
  <2>2. /\ Made((inbox \o Fired) \o list)
        /\ Range(inbox) \subseteq Range((inbox \o Fired) \o list)
    <3> HIDE DEF list
    <3>1. Made(inbox \o Fired) /\ Range(inbox) \subseteq Range(inbox \o Fired)
      BY <1>1, <1>2, MadeJoins
    <3> QED BY <2>1, <3>1, MadeJoins
  <2>3. /\ UNCHANGED <<stored, fresh, known, seen, panel, outbox, doomed, unlisted>>
        /\ active' = id /\ revived' = (revived \/ id \in doomed) /\ id \in seen
    BY <1>7 DEF Select, SetActive, sidecar, lists
  <2>4. inbox' = (inbox \o Fired) \o list BY <1>7 DEF Select
  <2> HIDE DEF list
  <2> QED BY <1>1, <2>2, <2>3, <2>4, AskingKeeps DEF Made
<1>8. ASSUME NEW before \in Profiles, NEW after \in Profiles, Compare(before, after)
      PROVE  ChoiceInv'
  <2>1. /\ UNCHANGED <<stored, fresh, known, seen, panel, outbox, doomed, unlisted>>
        /\ before \in Given /\ after \in Given
    BY <1>1, <1>8 DEF Compare, sidecar, lists
  <2>2. CASE active # NoProfile
    <3> DEFINE first == <<Top(active, "fetch", before, NoProfile)>>
               last  == <<Top(after, "restore", NoProfile, active)>>
    <3>1. Made(first) /\ Made(last) BY <1>1, <1>2, <2>1
    <3>2. inbox' = ((inbox \o first) \o Fired) \o last BY <1>8, <2>2 DEF Compare
    <3>3. /\ Made(((inbox \o first) \o Fired) \o last)
          /\ Range(inbox) \subseteq Range(((inbox \o first) \o Fired) \o last)
      <4> HIDE DEF first, last
      <4>1. Made(inbox \o first) /\ Range(inbox) \subseteq Range(inbox \o first)
        BY <1>1, <3>1, MadeJoins
      <4>2. /\ Made((inbox \o first) \o Fired)
            /\ Range(inbox) \subseteq Range((inbox \o first) \o Fired)
        BY <1>2, <4>1, MadeJoins
      <4> QED BY <3>1, <4>2, MadeJoins
    <3>4. active' = after /\ revived' = (revived \/ after \in doomed)
      BY <1>8, <2>2 DEF Compare, SetActive
    <3> HIDE DEF first, last
    <3> QED BY <1>1, <2>1, <3>2, <3>3, <3>4, AskingKeeps DEF Made
  <2>3. CASE active = NoProfile
    <3> DEFINE first == <<Top(after, "restore", NoProfile, NoProfile)>>
               last  == <<Top(before, "restore", NoProfile, after)>>
    <3>1. Made(first) /\ Made(last) BY <1>2, <2>1
    <3>2. inbox' = (((inbox \o Fired) \o first) \o Fired) \o last
      BY <1>8, <2>3 DEF Compare
    <3>3. /\ Made((((inbox \o Fired) \o first) \o Fired) \o last)
          /\ Range(inbox) \subseteq
               Range((((inbox \o Fired) \o first) \o Fired) \o last)
      <4> HIDE DEF first, last
      <4>1. Made(inbox \o Fired) /\ Range(inbox) \subseteq Range(inbox \o Fired)
        BY <1>1, <1>2, MadeJoins
      <4>2. /\ Made((inbox \o Fired) \o first)
            /\ Range(inbox) \subseteq Range((inbox \o Fired) \o first)
        BY <3>1, <4>1, MadeJoins
      <4>3. /\ Made(((inbox \o Fired) \o first) \o Fired)
            /\ Range(inbox) \subseteq Range(((inbox \o Fired) \o first) \o Fired)
        BY <1>2, <4>2, MadeJoins
      <4> QED BY <3>1, <4>3, MadeJoins
    <3>4. active' = before /\ revived' = (revived \/ {before, after} \cap doomed # {})
      BY <1>8, <2>3 DEF Compare
    <3> HIDE DEF first, last
    <3> QED BY <1>1, <2>1, <3>2, <3>3, <3>4, AskingKeeps DEF Made
  <2> QED BY <2>2, <2>3
<1>9. ASSUME NEW before \in Profiles, NEW after \in Profiles, Diff(before, after)
      PROVE  ChoiceInv'
  <2> DEFINE second == <<Top(before, "second", after, active)>>
  <2>1. /\ UNCHANGED <<stored, fresh, known, seen, panel, outbox, doomed, unlisted>>
        /\ before \in Given /\ after \in Given
        /\ active' = before /\ revived' = (revived \/ before \in doomed)
    BY <1>1, <1>9 DEF Diff, SetActive, sidecar, lists
  <2>2. Made(second) BY <1>1, <1>2, <2>1
  <2>3. inbox' = (inbox \o Fired) \o second BY <1>9 DEF Diff
  <2> HIDE DEF second
  <2>4. /\ Made((inbox \o Fired) \o second)
        /\ Range(inbox) \subseteq Range((inbox \o Fired) \o second)
    <3>1. Made(inbox \o Fired) /\ Range(inbox) \subseteq Range(inbox \o Fired)
      BY <1>1, <1>2, MadeJoins
    <3> QED BY <2>2, <3>1, MadeJoins
  <2> QED BY <1>1, <2>1, <2>3, <2>4, AskingKeeps DEF Made
<1> QED BY <1>3, <1>4, <1>5, <1>6, <1>7, <1>8, <1>9

\* What an answer makes the extension do keeps it too.
LEMMA ReceiveKeeps ==
  ASSUME ChoiceInv, Receive
  PROVE  ChoiceInv'
<1> USE ProfileAssumption
<1> DEFINE msg == Head(outbox)
<1>1. /\ fresh \subseteq Profiles /\ inbox \in Seq(Requests) /\ Made(inbox)
      /\ seen \subseteq Given /\ doomed \subseteq Given /\ Given \subseteq Profiles
      /\ active \in Given \cup {NoProfile} /\ panel \in BOOLEAN /\ revived \in BOOLEAN
  BY DEF ChoiceInv, ChoiceTypes, Made, Given
<1>2. /\ \A id \in Given \cup {NoProfile}, then \in {"nothing", "activate", "deleted"} :
           Made(<<List(then, id)>>) /\ Listing(List(then, id))
      /\ \A id \in Given \cup {NoProfile}, arg \in Given \cup {NoProfile}, prev \in Given \cup {NoProfile},
            then \in {"fetch", "second", "restore"} :
           Made(<<Top(id, then, arg, prev)>>)
      /\ Made(Fired) /\ Made(<<>>)
  BY <1>1, MadeMessages, PipeIsEmpty DEF Made
<1>3. /\ outbox # <<>> /\ outbox' = Tail(outbox)
      /\ UNCHANGED <<stored, fresh, doomed, panel, unlisted>>
  BY DEF Receive, sidecar
<1>4. msg \in Requests /\ Proper(msg) /\ (Listing(msg) => msg.prev \subseteq Given)
  BY <1>3, PipeGives DEF ChoiceInv, ChoiceTypes, Made
<1>5. Made(inbox \o Fired) /\ Range(inbox) \subseteq Range(inbox \o Fired)
  BY <1>1, <1>2, MadeJoins
<1>6. \A id \in Given \cup {NoProfile}, then \in {"nothing", "activate", "deleted"} :
        /\ Made(Append(inbox, List(then, id)))
        /\ Range(inbox) \subseteq Range(Append(inbox, List(then, id)))
        /\ \E m \in Range(Append(inbox, List(then, id))) : Listing(m)
  <2> TAKE id \in Given \cup {NoProfile}, then \in {"nothing", "activate", "deleted"}
  <2> DEFINE l == List(then, id)
  <2>1. Made(<<l>>) /\ Listing(l) BY <1>2
  <2> HIDE DEF l
  <2>2. l \in Requests /\ Proper(l)
    <3>1. <<l>>[1] = l /\ 1 \in DOMAIN <<l>> OBVIOUS
    <3> QED BY <2>1, <3>1 DEF Made, Range
  <2>3. /\ Append(inbox, l) \in Seq(Requests) /\ Range(Append(inbox, l)) = Range(inbox) \cup {l}
    BY <1>1, <2>2, PipeAppends DEF Made
  <2> QED BY <1>1, <2>1, <2>2, <2>3 DEF l, Made
<1> HIDE DEF msg
<1>7. CASE msg.what = "import" /\ GotImport(msg)
  <2>1. UNCHANGED <<active, known, seen, revived>> /\ ~Listing(msg) /\ ~Deleting(msg)
    BY <1>7 DEF GotImport, lists, Listing, Deleting
  <2>2. CASE msg.id = NoProfile
    <3>1. inbox' = inbox /\ ~Changing(msg)
      BY <1>7, <2>2 DEF GotImport, Changing, Deleting
    <3> QED BY <1>1, <1>3, <2>1, <3>1, AnswerKeeps DEF msg
  <2>3. CASE msg.id # NoProfile
    <3>1. inbox' = Append(inbox, List("activate", msg.id))
      BY <1>7, <2>3 DEF GotImport
    <3>2. /\ Made(Append(inbox, List("activate", msg.id)))
          /\ Range(inbox) \subseteq Range(Append(inbox, List("activate", msg.id)))
          /\ \E m \in Range(Append(inbox, List("activate", msg.id))) : Listing(m)
      BY <1>4, <1>6 DEF Proper
    <3> QED BY <1>1, <1>3, <2>1, <3>1, <3>2, AnswerKeeps DEF msg
  <2> QED BY <2>2, <2>3
<1>8. CASE msg.what = "delete" /\ GotDelete(msg)
  <2>1. /\ UNCHANGED <<known, seen, revived>> /\ ~Listing(msg)
        /\ active' = IF active = msg.id THEN NoProfile ELSE active
    BY <1>8 DEF GotDelete, lists, Listing
  <2>2. inbox' = Append(inbox, List("deleted", NoProfile)) BY <1>8 DEF GotDelete
  <2>3. /\ Made(Append(inbox, List("deleted", NoProfile)))
        /\ Range(inbox) \subseteq Range(Append(inbox, List("deleted", NoProfile)))
        /\ \E m \in Range(Append(inbox, List("deleted", NoProfile))) : Listing(m)
    BY <1>6
  <2>4. NoProfile \notin doomed BY <1>1
  <2> QED BY <1>1, <1>3, <2>1, <2>2, <2>3, <2>4, AnswerKeeps DEF msg
<1>9. CASE msg.what = "list" /\ GotList(msg)
  <2> DEFINE then == msg.then
  <2>1. /\ Listing(msg) /\ ~Changing(msg) /\ ~Deleting(msg)
        /\ known' = msg.prev /\ seen' = seen \cup msg.prev
        /\ then \in {"nothing", "activate", "deleted"} /\ msg.arg \in Given \cup {NoProfile}
    BY <1>4, <1>9 DEF GotList, Proper, Listing, Changing, Deleting
  <2>2. /\ active' \in Given \cup {NoProfile} /\ revived' \in BOOLEAN
        /\ ~revived' => ~revived /\ (active' = active \/ active' \notin doomed)
    <3>1. CASE then = "activate"
      <4>1. active' = msg.arg /\ revived' = (revived \/ msg.arg \in doomed)
        BY <1>9, <3>1 DEF GotList, SetActive
      <4> QED BY <1>1, <2>1, <4>1
    <3>2. CASE then # "activate"
      <4>1. active' = active /\ revived' = revived BY <1>9, <3>2 DEF GotList
      <4> QED BY <1>1, <4>1
    <3> QED BY <3>1, <3>2
  <2>3. CASE then = "activate"
    <3>1. inbox' = inbox \o Fired BY <1>9, <2>3 DEF GotList
    <3> QED BY <1>3, <1>5, <2>1, <2>2, <3>1, AnswerKeeps DEF msg
  <2>4. CASE then = "deleted"
    <3> DEFINE list == <<List("nothing", NoProfile)>>
    <3>1. inbox' = inbox \o (Fired \o list) BY <1>9, <2>4 DEF GotList
    <3>2. Made(list) BY <1>2
    <3> HIDE DEF list
    <3>3. Made(Fired \o list) BY <1>2, <3>2, MadeJoins
    <3>4. /\ Made(inbox \o (Fired \o list))
          /\ Range(inbox) \subseteq Range(inbox \o (Fired \o list))
      BY <1>1, <3>3, MadeJoins
    <3> QED BY <1>3, <2>1, <2>2, <3>1, <3>4, AnswerKeeps DEF msg
  <2>5. CASE then = "nothing"
    <3>1. inbox' = inbox \o <<>> BY <1>9, <2>5 DEF GotList
    <3>2. Made(inbox \o <<>>) /\ Range(inbox) \subseteq Range(inbox \o <<>>)
      BY <1>1, <1>2, MadeJoins
    <3> QED BY <1>3, <2>1, <2>2, <3>1, <3>2, AnswerKeeps DEF msg
  <2> QED BY <2>1, <2>3, <2>4, <2>5
<1>10. CASE msg.then \in {"fetch", "second", "restore"}
  <2>1. /\ msg.what = "top" /\ ~Listing(msg) /\ ~Changing(msg) /\ ~Deleting(msg)
        /\ msg.arg \in Given \cup {NoProfile} /\ msg.prev \in Given \cup {NoProfile}
    <3>1. msg.what \in {"import", "delete", "list", "top"} BY <1>4 DEF Requests
    <3> QED BY <1>4, <1>10, <3>1 DEF Proper, Listing, Changing, Deleting
  <2>2. CASE Fetch(msg)
    <3> DEFINE top == <<Top(msg.arg, "restore", NoProfile, active)>>
    <3>1. /\ UNCHANGED <<known, seen>> /\ active' = msg.arg
          /\ revived' = (revived \/ msg.arg \in doomed)
      BY <2>2 DEF Fetch, SetActive, lists
    <3>2. Made(top) BY <1>1, <1>2, <2>1
    <3>3. inbox' = (inbox \o Fired) \o top BY <2>2 DEF Fetch
    <3> HIDE DEF top
    <3>4. /\ Made((inbox \o Fired) \o top)
          /\ Range(inbox) \subseteq Range((inbox \o Fired) \o top)
      BY <1>5, <3>2, MadeJoins
    <3> QED BY <1>1, <1>3, <2>1, <3>1, <3>3, <3>4, AnswerKeeps DEF msg
  <2>3. CASE Second(msg)
    <3> DEFINE top == <<Top(msg.arg, "restore", NoProfile, msg.prev)>>
    <3>1. /\ UNCHANGED <<known, seen>> /\ active' = msg.arg
          /\ revived' = (revived \/ msg.arg \in doomed)
      BY <2>3 DEF Second, SetActive, lists
    <3>2. Made(top) BY <1>1, <1>2, <2>1
    <3>3. inbox' = (inbox \o Fired) \o top BY <2>3 DEF Second
    <3> HIDE DEF top
    <3>4. /\ Made((inbox \o Fired) \o top)
          /\ Range(inbox) \subseteq Range((inbox \o Fired) \o top)
      BY <1>5, <3>2, MadeJoins
    <3> QED BY <1>1, <1>3, <2>1, <3>1, <3>3, <3>4, AnswerKeeps DEF msg
  <2>4. CASE Restore(msg)
    <3>1. /\ UNCHANGED <<known, seen>> /\ active' = msg.prev
          /\ revived' = (revived \/ msg.prev \in doomed)
          /\ inbox' = inbox \o Fired
      BY <2>4 DEF Restore, SetActive, lists
    <3> QED BY <1>1, <1>3, <1>5, <2>1, <3>1, AnswerKeeps DEF msg
  <2> QED BY <1>10, <2>1, <2>2, <2>3, <2>4 DEF Receive, msg
<1> QED BY <1>7, <1>8, <1>9, <1>10 DEF Receive, msg

\* And what the sidecar does.
LEMMA SidecarKeeps ==
  ASSUME ChoiceInv, AnswerImport \/ AnswerDelete \/ AnswerList \/ AnswerTop
  PROVE  ChoiceInv'
<1> USE ProfileAssumption
<1> DEFINE msg == Head(inbox)
<1>1. /\ fresh \subseteq Profiles /\ stored \subseteq Given /\ doomed \subseteq Given
      /\ unlisted \subseteq Given /\ inbox \in Seq(Requests) /\ Made(inbox)
  BY DEF ChoiceInv, ChoiceTypes, Made
<1>2. inbox # <<>> BY DEF AnswerImport, AnswerDelete, AnswerList, AnswerTop, Handles
<1>3. msg \in Requests /\ Proper(msg)
  BY <1>1, <1>2, PipeGives DEF Made
<1>4. UNCHANGED <<active, known, seen, panel, doomed, revived>>
  BY DEF AnswerImport, AnswerDelete, AnswerList, AnswerTop, lists, history
<1>5. CASE AnswerImport
  <2>1. msg.what = "import" /\ msg.then = "import" /\ ~Listing(msg) /\ ~Deleting(msg)
    BY <1>3, <1>5 DEF AnswerImport, Handles, Proper, Listing, Deleting
  <2>2. PICK new \in SUBSET fresh :
          /\ stored' = stored \cup new /\ fresh' = fresh \ new
          /\ \/ /\ \E id \in new : Answer([msg EXCEPT !.id = id])
                /\ UNCHANGED unlisted
             \/ Answer(msg) /\ unlisted' = unlisted \cup new
    BY <1>5 DEF AnswerImport
  <2>3. /\ fresh' \subseteq fresh /\ stored' \subseteq Profiles \ fresh'
        /\ fresh \ fresh' \subseteq stored' /\ stored \ stored' = {}
        /\ unlisted' \subseteq Profiles \ fresh'
    BY <1>1, <2>2 DEF Given
  <2> HIDE DEF msg
  <2>4. CASE UNCHANGED unlisted /\ \E id \in new : Answer([msg EXCEPT !.id = id])
    <3>1. PICK id \in new : Answer([msg EXCEPT !.id = id]) BY <2>4
    <3> DEFINE answer == [msg EXCEPT !.id = id]
    <3>2. id \in Profiles /\ id # NoProfile BY <1>1, <2>2, <3>1
    <3>3. /\ answer \in Requests
          /\ answer.what = msg.what /\ answer.then = msg.then /\ answer.arg = msg.arg
          /\ answer.prev = msg.prev /\ answer.id = id
      BY <1>3, <3>2 DEF Requests
    <3>4. inbox' = Tail(inbox) /\ outbox' = Append(outbox, answer)
      BY <3>1 DEF Answer
    <3> HIDE DEF answer
    <3>5. \A m : m = answer => Proper(m)'
      BY <1>1, <1>3, <2>1, <2>2, <3>1, <3>2, <3>3 DEF Proper, Given
    <3>6. ~Listing(answer) /\ Changing(answer)
      BY <2>1, <3>2, <3>3 DEF Listing, Changing
    <3> QED BY <1>2, <1>4, <2>1, <2>3, <3>3, <3>4, <3>5, <3>6, HandlingKeeps DEF msg
  <2>5. CASE Answer(msg) /\ unlisted' = unlisted \cup new
    <3>1. inbox' = Tail(inbox) /\ outbox' = Append(outbox, msg) BY <2>5 DEF Answer
    <3>2. \A m : m = msg => Proper(m)' BY <1>3, <1>4, <2>2 DEF Proper, Given
    <3>3. Announced' = Announced BY <1>1, <2>2, <2>5 DEF Announced, Given
    <3> QED BY <1>2, <1>3, <1>4, <2>1, <2>3, <3>1, <3>2, <3>3, HandlingKeeps DEF msg
  <2> QED BY <2>2, <2>4, <2>5
<1>6. CASE AnswerDelete
  <2>1. /\ Deleting(msg) /\ ~Listing(msg) /\ Changing(msg) /\ msg.id \in doomed
        /\ stored' = stored \ {msg.id} /\ fresh' = fresh /\ unlisted' = unlisted
        /\ inbox' = Tail(inbox) /\ outbox' = Append(outbox, msg)
    BY <1>3, <1>6 DEF AnswerDelete, Handles, Answer, Proper, history,
                      Listing, Changing, Deleting
  <2>2. \A m : m = msg => Proper(m)' BY <1>3, <1>4, <2>1 DEF Proper, Given
  <2>3. stored' \subseteq Profiles \ fresh' /\ unlisted' \subseteq Profiles \ fresh'
    BY <1>1, <2>1 DEF Given
  <2> HIDE DEF msg
  <2> QED BY <1>2, <1>3, <1>4, <2>1, <2>2, <2>3, HandlingKeeps DEF msg
<1>7. CASE AnswerList
  <2> DEFINE answer == [msg EXCEPT !.prev = stored]
  <2>1. /\ answer \in Requests
        /\ answer.what = msg.what /\ answer.then = msg.then /\ answer.arg = msg.arg
        /\ answer.prev = stored /\ answer.id = msg.id
    <3>1. stored \in SUBSET Profiles BY <1>1 DEF Given
    <3> QED BY <1>3, <3>1 DEF Requests
  <2>2. /\ msg.what = "list" /\ UNCHANGED <<stored, fresh>> /\ unlisted' = {}
        /\ inbox' = Tail(inbox) /\ outbox' = Append(outbox, answer)
    BY <1>7 DEF AnswerList, Handles, Answer, sidecar
  <2> HIDE DEF answer, msg
  <2>3. \A m : m = answer => Proper(m)' BY <1>3, <1>4, <2>1, <2>2 DEF Proper, Given
  <2>4. Listing(answer) /\ ~Deleting(msg) BY <2>1, <2>2 DEF Listing, Deleting
  <2>5. stored' \subseteq Profiles \ fresh' /\ unlisted' \subseteq Profiles \ fresh'
    BY <1>1, <2>2 DEF Given
  <2>6. answer.prev \subseteq Given /\ answer.prev = Announced'
    BY <1>1, <2>1, <2>2 DEF Announced
  <2> QED BY <1>2, <1>4, <2>1, <2>2, <2>3, <2>4, <2>5, <2>6, HandlingKeeps DEF msg
<1>8. CASE AnswerTop
  <2>1. /\ msg.what = "top" /\ ~Listing(msg) /\ ~Deleting(msg)
        /\ UNCHANGED <<stored, fresh, unlisted>>
        /\ inbox' = Tail(inbox) /\ outbox' = Append(outbox, msg)
    BY <1>8 DEF AnswerTop, Handles, Answer, sidecar, history,
                Listing, Deleting
  <2>2. \A m : m = msg => Proper(m)' BY <1>3, <1>4, <2>1 DEF Proper, Given
  <2>3. stored' \subseteq Profiles \ fresh' /\ unlisted' \subseteq Profiles \ fresh'
    BY <1>1, <2>1 DEF Given
  <2>4. Announced' = Announced BY <2>1 DEF Announced
  <2> HIDE DEF msg
  <2> QED BY <1>2, <1>3, <1>4, <2>1, <2>2, <2>3, <2>4, HandlingKeeps DEF msg
<1> QED BY <1>5, <1>6, <1>7, <1>8

\* The invariant holds throughout.
THEOREM ChoiceInvariant == ChoiceSpec => []ChoiceInv
<1>1. ChoiceInit => ChoiceInv
  <2> SUFFICES ASSUME ChoiceInit PROVE ChoiceInv OBVIOUS
  <2>1. inbox = <<>> /\ outbox = <<>> /\ Made(<<>>) /\ Range(<<>>) = {}
    BY PipeIsEmpty DEF ChoiceInit, Made
  <2>2. ChoiceTypes BY <2>1 DEF ChoiceInit, ChoiceTypes, Given
  <2>3. GoneIsDoomed BY DEF ChoiceInit, GoneIsDoomed, Given
  <2>4. ListIsCurrent /\ KnownOrListed /\ ActiveOrDeleting
    BY <2>1 DEF ChoiceInit, ListIsCurrent, KnownOrListed, Announced, ActiveOrDeleting
  <2> QED BY <2>2, <2>3, <2>4 DEF ChoiceInv
<1>2. ChoiceInv /\ [ChoiceNext]_choiceVars => ChoiceInv'
  <2> SUFFICES ASSUME ChoiceInv, [ChoiceNext]_choiceVars PROVE ChoiceInv' OBVIOUS
  <2>1. CASE ChoiceNext
    BY <2>1, UsersKeep, ReceiveKeeps, SidecarKeeps DEF ChoiceNext
  <2>2. CASE UNCHANGED choiceVars
    BY <2>2 DEF choiceVars, sidecar, lists, history, ChoiceInv,
                ChoiceTypes, GoneIsDoomed, ListIsCurrent, KnownOrListed, Announced,
                ActiveOrDeleting, Made, Proper, Given, Listing, Changing, Deleting
  <2> QED BY <2>1, <2>2
<1> QED BY <1>1, <1>2, PTL DEF ChoiceSpec

\* The types of ProfileSelection.
LEMMA ChoiceTypesCorrect == ChoiceInv => ChoiceTypeOK
<1> SUFFICES ASSUME ChoiceInv PROVE ChoiceTypeOK OBVIOUS
<1>1. \A n \in DOMAIN inbox : inbox[n] \in Range(inbox) /\ inbox[n] \in Requests
  BY DEF ChoiceInv, ChoiceTypes, Made, Range
<1>2. \A n \in DOMAIN outbox : outbox[n] \in Range(outbox) /\ outbox[n] \in Requests
  BY DEF ChoiceInv, ChoiceTypes, Made, Range
<1>3. \A n \in DOMAIN inbox : inbox[n].what \in {"import", "delete", "list", "top"}
  BY <1>1 DEF Requests
<1>4. \A n \in DOMAIN outbox : outbox[n].what = "list" => outbox[n].prev \subseteq Profiles
  BY <1>2 DEF ChoiceInv, ChoiceTypes, Listing, Given
<1>5. /\ stored \subseteq Profiles /\ fresh \subseteq Profiles \ stored
      /\ active \in Profiles \cup {NoProfile} /\ known \subseteq seen
      /\ seen \subseteq Profiles \ fresh /\ panel \in BOOLEAN
      /\ unlisted \subseteq Profiles \ fresh
  BY DEF ChoiceInv, ChoiceTypes, Given
<1> QED BY <1>3, <1>4, <1>5 DEF ChoiceTypeOK

\* What the panels list is what the store holds, once all has arrived, but for
\* the profiles failed imports have left there since it was listed.
THEOREM ListIsTheStore == ChoiceSpec => []KnownIsStored
<1>1. ChoiceInv => KnownIsStored
  BY ChoiceTypesCorrect, PipeIsEmpty
  DEF KnownIsStored, Quiescent, ChoiceInv, KnownOrListed, Announced
<1> QED BY <1>1, ChoiceInvariant, PTL

\* A profile that was deleted is not active, once all has arrived.
THEOREM DeletedGoes == ChoiceSpec => []DeletedIsNotActive
<1>1. ChoiceInv => DeletedIsNotActive
  BY PipeIsEmpty
  DEF DeletedIsNotActive, Quiescent, ChoiceInv, ActiveOrDeleting
<1> QED BY <1>1, ChoiceInvariant, PTL
===============================================================================
