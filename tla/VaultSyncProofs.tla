--------------------------- MODULE VaultSyncProofs ---------------------------
(***************************************************************************)
(* Proofs about VaultSync for every finite set of notes and excluded       *)
(* paths, and every number of edits, starts and waiting batches.           *)
(***************************************************************************)
EXTENDS VaultSync, SequenceLemmas, SequenceTheorems, FiniteSetTheorems, TLAPS

\* The last change of the sequence that is about p is the i-th.
LastFor(changes, i, p) ==
  /\ p \in Touched(changes[i])
  /\ \A j \in DOMAIN changes : j > i => p \notin Touched(changes[j])

\* There is a file at p exactly if the change c left one there.
Agrees(c, p, file) == file # 0 <=> c.path = p /\ c.kind # "DELETED"

LastAgrees(changes, p, file) ==
  \A i \in DOMAIN changes : LastFor(changes, i, p) => Agrees(changes[i], p, file)

Compiling == stage \notin {"idle", "save"}

\* A change about p has not reached the lock yet.
Waiting(p) ==
  \/ p \in TouchedBy(pending)
  \/ \E f \in DOMAIN flights : p \in TouchedBy(flights[f].changes)

\* No change from the i-th on is about p.
Behind(changes, i, p) == \A j \in DOMAIN changes : j >= i => p \notin Touched(changes[j])

\* The newest change about a note that has not been overtaken agrees with the
\* vault, wherever on its way it is.
ChangesAgree(p) ==
  /\ LastAgrees(pending, p, vault[p])
  /\ p \notin TouchedBy(pending) =>
       \A f \in DOMAIN flights :
         /\ p \notin flights[f].overtaken
         /\ \A g \in DOMAIN flights : g > f => p \notin TouchedBy(flights[g].changes)
         => LastAgrees(flights[f].changes, p, vault[p])
  /\ Compiling /\ ~Waiting(p) /\ p \notin batch.overtaken =>
       LastAgrees(batch.changes, p, vault[p])

CauseNames == {"unseen", "overtaken", "mtime", "failed", "raised", "unpublished"}

\* All that may be wrong about a path is that its content is not published yet.
Extracted(p) == staleGraph[p] \subseteq {"unpublished"}

\* Which parts of the state are in use, by what the process does.
PhaseInv ==
  /\ proc # "running" => pending = <<>> /\ flights = <<>> /\ stage = "idle"
  /\ proc # "cold" => toScan = {} /\ scanning = None
  /\ scanning # None => scanning.path \in listed \ toScan
  /\ stage \notin {"sync", "commit"} => rows = index
  /\ stage = "stat" => batch.changes[pos].path \in Notes

\* Cold start: what the scan has dealt with is as in the vault.
ScanInv(p) ==
  proc = "cold" /\ p \notin toScan /\ Extracted(p) =>
    IF scanning # None /\ scanning.path = p THEN vault[p] # 0
    ELSE IF p \in listed THEN cache[p].content = vault[p]
    ELSE vault[p] = 0

\* The cache has the content of a note no change on its way is about, ...
RestInv(p) ==
  /\ proc \in {"published", "running"}
  /\ Extracted(p) /\ ~Waiting(p)
  /\ Compiling => p \notin TouchedBy(batch.changes)
  => cache[p].content = vault[p]

\* ... and the graph has what the cache has, but for what a batch that raised
\* extracted, until the next batch publishes it.
SnapInv(p) ==
  /\ proc \in {"published", "running"}
  /\ "unpublished" \notin staleGraph[p]
  /\ Compiling => p \notin TouchedBy(batch.changes)
  => snapshot[p] = cache[p].content

\* The cache has the content of a note whose last change in the batch was
\* extracted, ...
ExtractInv(p) ==
  /\ Compiling /\ p \in TouchedBy(batch.changes)
  /\ ~Waiting(p) /\ p \notin batch.overtaken /\ p \notin batch.failed
  /\ stage \in {"extract", "stat"} => Behind(batch.changes, pos, p)
  => cache[p].content = vault[p]

\* ... and will have that of the one that is being extracted.
ReadInv(p) ==
  /\ stage = "stat" /\ LastFor(batch.changes, pos, p)
  /\ ~Waiting(p) /\ p \notin batch.overtaken
  => IF batch.changes[pos].path = p THEN readFile = vault[p] ELSE cache[p].content = vault[p]

RowRight(row, file) == row = IF file = 0 THEN None ELSE file

\* The same for the committed rows and for those of the open transaction.
RowsInv(p) ==
  /\ /\ p \notin staleIndex /\ ~Waiting(p)
     /\ stage \in {"extract", "stat", "sync", "commit"} => p \notin TouchedBy(batch.changes)
     => RowRight(index[p], vault[p])
  /\ stage \in {"sync", "commit"} /\ p \notin TouchedBy(batch.changes) => rows[p] = index[p]
  /\ /\ stage \in {"sync", "commit"} /\ p \in TouchedBy(batch.changes)
     /\ ~Waiting(p) /\ p \notin batch.overtaken
     /\ stage = "sync" => Behind(batch.changes, pos, p)
     => RowRight(rows[p], vault[p])

NoteInv(p) ==
  /\ ChangesAgree(p) /\ ScanInv(p) /\ RestInv(p) /\ SnapInv(p)
  /\ ExtractInv(p) /\ ReadInv(p) /\ RowsInv(p)

\* The inductive invariant.
SyncInv == TypeOK /\ PhaseInv /\ ExcludedStaysOut /\ \A p \in Notes : NoteInv(p)

-----------------------------------------------------------------------------
(* Types *)

LEMMA InitialIsNat == Initial \in Nat
  BY VaultSyncAssumption, FS_CardinalityType DEF Initial, Files

\* The next edit has a number that is a version.
LEMMA NextVersion ==
  ASSUME edits \in Versions, edits < Initial + MaxEdits
  PROVE  edits + 1 \in Versions /\ edits + 1 # 0 /\ 0 \in Versions
  BY InitialIsNat, VaultSyncAssumption DEF Versions

LEMMA ZeroIsVersion == 0 \in Versions
  BY InitialIsNat, VaultSyncAssumption DEF Versions

\* What the cache's operations do to an entry, and that they keep the type.
LEMMA DropType ==
  ASSUME NEW entries \in Entries, NEW S
  PROVE  /\ Drop(entries, S) \in Entries
         /\ \A p \in Files : Drop(entries, S)[p] = IF p \in S THEN NoEntry ELSE entries[p]
  BY ZeroIsVersion DEF Drop, NoEntry, Entries

LEMMA SetEntryType ==
  ASSUME NEW entries \in Entries, NEW p \in Files, NEW c \in Versions, NEW m \in Versions
  PROVE  /\ SetEntry(entries, p, c, m) \in Entries
         /\ SetEntry(entries, p, c, m)[p].content = c
         /\ \A q \in Files : q # p => SetEntry(entries, p, c, m)[q] = entries[q]
  BY DEF SetEntry, Entries

LEMMA EmptyCacheType ==
  /\ EmptyCache \in Entries
  /\ \A p \in Files : EmptyCache[p] = NoEntry
  BY ZeroIsVersion DEF EmptyCache, NoEntry, Entries

LEMMA GraphType ==
  ASSUME NEW entries \in Entries
  PROVE  /\ Graph(entries) \in [Files -> Versions]
         /\ \A p \in Files : Graph(entries)[p] = entries[p].content
  BY DEF Graph, Entries

\* A change in the loop of extract_batch or sync_batch.
LEMMA CurrentChange ==
  ASSUME TypeOK, stage \in {"extract", "stat", "sync"}
  PROVE  /\ batch \in Batches
         /\ pos \in DOMAIN batch.changes
         /\ batch.changes[pos] \in Changes
         /\ batch.changes \in Seq(Changes) /\ Len(batch.changes) \in Nat
         /\ pos \in 1..Len(batch.changes)
<1>1. batch \in Batches /\ pos \in DOMAIN batch.changes
  BY DEF TypeOK
<1>2. batch.changes \in Seq(Changes)
  BY <1>1 DEF Batches
<1>. QED BY <1>1, <1>2

LEMMA ChangeType ==
  ASSUME NEW c \in Changes
  PROVE  /\ c.path \in Files
         /\ c.kind = "RENAMED" => c.previous \in Files /\ c.previous # c.path
         /\ c.kind # "RENAMED" => c.previous = None /\ c.path \in Notes
         /\ Removed(c) \subseteq Touched(c)
         /\ c.path \in Touched(c)
         /\ Touched(c) = {c.path} \cup (IF c.kind = "RENAMED" THEN {c.previous} ELSE {})
  BY VaultSyncAssumption DEF Changes, Files, Removed, Touched

\* NextChange keeps the position inside the batch.
LEMMA NextChangeType ==
  ASSUME TypeOK, stage \in {"extract", "stat", "sync"}, NEW after, NextChange(after),
         batch' \in Batches, batch'.changes = batch.changes
  PROVE  /\ pos' \in Nat
         /\ \/ stage' = after
            \/ /\ stage' = IF stage = "stat" THEN "extract" ELSE stage
               /\ pos' \in DOMAIN batch'.changes
<1>1. pos \in 1..Len(batch.changes) /\ Len(batch.changes) \in Nat /\ batch.changes \in Seq(Changes)
  BY CurrentChange
<1>. QED BY <1>1 DEF NextChange

\* What an edit of the vault does, whichever kind it is.
Edited(c) ==
  /\ VaultChange(c)
  /\ vault' \in [Files -> Versions]
  /\ \A p \in Files \ Touched(c) : vault'[p] = vault[p]
  /\ \A p \in Touched(c) : vault'[p] # 0 <=> c.path = p /\ c.kind # "DELETED"
  /\ Reported(c) => c \in Changes
  /\ ~Reported(c) => Touched(c) \subseteq Hidden

EditStep == (\E p \in Files : Write(p) \/ Delete(p)) \/ (\E p, q \in Files : Move(p, q))

LEMMA EditIsEdited ==
  ASSUME TypeOK, EditStep
  PROVE  \E c : Edited(c)
<1>1. vault \in [Files -> Versions] /\ edits \in Versions
  BY DEF TypeOK
<1>2. CASE \E p \in Files : Write(p)
  <2>1. PICK p \in Files : Write(p)
    BY <1>2
  <2>. DEFINE c == Change(IF vault[p] = 0 THEN "CREATED" ELSE "MODIFIED", p, None)
  <2>2. /\ c.path = p /\ c.previous = None /\ c.kind \in {"CREATED", "MODIFIED"}
        /\ c \in [kind : {"CREATED", "MODIFIED"}, path : Files, previous : {None}]
    BY DEF Change
  <2>3. VaultChange(c) /\ vault' = [vault EXCEPT ![p] = edits + 1]
    BY <2>1 DEF Write
  <2>4. edits + 1 \in Versions /\ edits + 1 # 0
    BY <1>1, <2>3, NextVersion DEF VaultChange
  <2>. HIDE DEF c
  <2>5. Touched(c) = {p}
    BY <2>2, VaultSyncAssumption DEF Touched, Files
  <2>6. Reported(c) => c \in Changes
    BY <2>2 DEF Reported, Changes, Files
  <2>7. ~Reported(c) => Touched(c) \subseteq Hidden
    BY <2>2, <2>5 DEF Reported
  <2>8. Edited(c)
    BY <1>1, <2>2, <2>3, <2>4, <2>5, <2>6, <2>7 DEF Edited
  <2>. QED BY <2>8
<1>3. CASE \E p \in Files : Delete(p)
  <2>1. PICK p \in Files : Delete(p)
    BY <1>3
  <2>. DEFINE c == Change("DELETED", p, None)
  <2>2. /\ c.path = p /\ c.previous = None /\ c.kind = "DELETED"
        /\ c \in [kind : {"DELETED"}, path : Files, previous : {None}]
    BY DEF Change
  <2>3. VaultChange(c) /\ vault' = [vault EXCEPT ![p] = 0]
    BY <2>1 DEF Delete
  <2>. HIDE DEF c
  <2>5. Touched(c) = {p}
    BY <2>2, VaultSyncAssumption DEF Touched, Files
  <2>6. Reported(c) => c \in Changes
    BY <2>2 DEF Reported, Changes, Files
  <2>7. ~Reported(c) => Touched(c) \subseteq Hidden
    BY <2>2, <2>5 DEF Reported
  <2>8. Edited(c)
    BY <1>1, <2>2, <2>3, <2>5, <2>6, <2>7, ZeroIsVersion DEF Edited
  <2>. QED BY <2>8
<1>4. CASE \E p, q \in Files : Move(p, q)
  <2>1. PICK p \in Files, q \in Files : Move(p, q)
    BY <1>4
  <2>. DEFINE c == Change("RENAMED", q, p)
  <2>2. /\ c.path = q /\ c.previous = p /\ c.kind = "RENAMED" /\ p # q
        /\ c \in [kind : {"RENAMED"}, path : Files, previous : Files]
    BY <2>1 DEF Change, Move
  <2>3. VaultChange(c) /\ vault[p] # 0 /\ vault' = [vault EXCEPT ![p] = 0, ![q] = vault[p]]
    BY <2>1 DEF Move
  <2>. HIDE DEF c
  <2>5. Touched(c) = {p, q}
    BY <2>2 DEF Touched
  <2>6. Reported(c) /\ c \in Changes
    BY <2>2 DEF Reported, Changes
  <2>8. Edited(c)
    BY <1>1, <2>2, <2>3, <2>5, <2>6, ZeroIsVersion DEF Edited
  <2>. QED BY <2>8
<1>. QED BY <1>2, <1>3, <1>4 DEF EditStep

\* The types of what the copies hold, apart from the batches.
LEMMA EditType ==
  ASSUME TypeOK, NEW c, Edited(c)
  PROVE  TypeOK'
<1>1. edits' \in Versions /\ vault' \in [Files -> Versions]
  BY NextVersion DEF TypeOK, Edited, VaultChange
<1>2. pending' \in Seq(Changes)
  BY DEF TypeOK, Edited, VaultChange
<1>3. Touched(c) \subseteq Files
  BY DEF Touched
<1>4. staleGraph' \in [Files -> SUBSET CauseNames]
  BY DEF TypeOK, Edited, VaultChange, CauseNames
<1>5. staleIndex' \subseteq Files
  BY <1>3 DEF TypeOK, Edited, VaultChange
<1>6. UNCHANGED <<proc, starts, flights, batch, pos, stage, readFile, cache, index, rows,
                  snapshot, cacheFile, scanVars>>
  BY DEF Edited, VaultChange
<1>. QED BY <1>1, <1>2, <1>4, <1>5, <1>6 DEF TypeOK, scanVars, CauseNames

LEMMA TakeBatchType ==
  ASSUME TypeOK, TakeBatch
  PROVE  TypeOK'
<1>1. [changes |-> pending, overtaken |-> {}, failed |-> {}] \in Batches
  BY DEF TypeOK, TakeBatch, Batches
<1>2. flights' \in Seq(Batches) /\ pending' \in Seq(Changes)
  BY <1>1 DEF TypeOK, TakeBatch
<1>. QED BY <1>2 DEF TypeOK, TakeBatch, vaultVars, scanVars, historyVars

\* The batches that are passed, each with what overtook it.
Passed(i) ==
  [j \in DOMAIN flights |->
     IF j < i THEN [flights[j] EXCEPT !.overtaken = @ \cup
                      (TouchedBy(flights[i].changes) \cap TouchedBy(flights[j].changes))]
     ELSE flights[j]]

LEMMA TouchedByFiles == \A changes : TouchedBy(changes) \subseteq Files
  BY DEF TouchedBy, Touched

LEMMA PassedType ==
  ASSUME flights \in Seq(Batches), NEW i \in DOMAIN flights
  PROVE  /\ Passed(i) \in Seq(Batches) /\ Len(Passed(i)) = Len(flights)
         /\ \A j \in 1..Len(flights) :
              /\ Passed(i)[j].changes = flights[j].changes
              /\ flights[j].overtaken \subseteq Passed(i)[j].overtaken
              /\ j < i => TouchedBy(flights[i].changes) \cap TouchedBy(flights[j].changes)
                            \subseteq Passed(i)[j].overtaken
<1>1. Len(flights) \in Nat /\ DOMAIN flights = 1..Len(flights)
  OBVIOUS
<1>2. \A j \in 1..Len(flights) : flights[j] \in Batches
  BY <1>1
<1>3. \A j \in 1..Len(flights) :
        /\ Passed(i)[j] \in Batches
        /\ Passed(i)[j].changes = flights[j].changes
        /\ flights[j].overtaken \subseteq Passed(i)[j].overtaken
        /\ j < i => TouchedBy(flights[i].changes) \cap TouchedBy(flights[j].changes)
                      \subseteq Passed(i)[j].overtaken
  <2>1. TAKE j \in 1..Len(flights)
  <2>2. flights[j] \in Batches
    BY <1>2
  <2>3. TouchedBy(flights[i].changes) \subseteq Files
    BY TouchedByFiles
  <2>. QED BY <1>1, <2>2, <2>3 DEF Passed, Batches
<1>4. Passed(i) \in [1..Len(flights) -> Batches]
  BY <1>1, <1>3 DEF Passed
<1>5. Passed(i) \in Seq(Batches) /\ Len(Passed(i)) = Len(flights)
  BY <1>1, <1>4
<1>. QED BY <1>3, <1>5

\* StartCompile, flight by flight.
LEMMA StartCompileFlights ==
  ASSUME TypeOK, NEW i \in DOMAIN flights, StartCompile(i)
  PROVE  /\ flights \in Seq(Batches) /\ Len(flights) \in Nat /\ i \in 1..Len(flights)
         /\ flights' \in Seq(Batches) /\ Len(flights') = Len(flights) - 1
         /\ batch' = flights[i] /\ batch' \in Batches
         /\ \A j \in 1..(Len(flights) - 1) :
              flights'[j] = IF j < i THEN Passed(i)[j] ELSE Passed(i)[j + 1]
<1>1. flights \in Seq(Batches) /\ Len(flights) \in Nat /\ i \in 1..Len(flights)
  BY DEF TypeOK
<1>2. flights' = RemoveAt(Passed(i), i) /\ batch' = flights[i]
  BY DEF StartCompile, Passed
<1>3. Passed(i) \in Seq(Batches) /\ Len(Passed(i)) = Len(flights)
  BY <1>1, PassedType
<1>. HIDE DEF Passed
<1>4. /\ RemoveAt(Passed(i), i) \in Seq(Batches)
      /\ Len(RemoveAt(Passed(i), i)) = Len(Passed(i)) - 1
      /\ \A j \in 1..(Len(Passed(i)) - 1) :
           RemoveAt(Passed(i), i)[j] = IF j < i THEN Passed(i)[j] ELSE Passed(i)[j + 1]
  BY <1>1, <1>3, RemoveAtProperties
<1>. QED BY <1>1, <1>2, <1>3, <1>4

LEMMA StartCompileType ==
  ASSUME TypeOK, NEW i \in DOMAIN flights, StartCompile(i)
  PROVE  TypeOK'
<1>1. flights' \in Seq(Batches) /\ batch' \in Batches
  BY StartCompileFlights
<1>2. batch'.changes \in Seq(Changes) /\ batch'.changes # <<>> /\ pos' = 1 /\ stage' = "extract"
  BY <1>1 DEF Batches, StartCompile
<1>3. pos' \in DOMAIN batch'.changes /\ pos' \in Nat
  BY <1>2
<1>. QED BY <1>1, <1>2, <1>3 DEF TypeOK, StartCompile, vaultVars, scanVars, historyVars

\* The three ways to begin with a change of the batch: what is removed, what is
\* left of the batch's record.
ExtractStep == SkipChange \/ FailChange \/ ReadChange \/ StatChange

LEMMA ExtractType ==
  ASSUME TypeOK, ExtractStep
  PROVE  TypeOK'
<1>1. PICK c \in Changes : c = batch.changes[pos]
  BY CurrentChange DEF ExtractStep, SkipChange, FailChange, ReadChange, StatChange
<1>2. c.path \in Files /\ vault[c.path] \in Versions
  BY ChangeType DEF TypeOK
<1>3. stage \in {"extract", "stat"} /\ batch \in Batches /\ cache \in Entries
  BY DEF TypeOK, ExtractStep, SkipChange, FailChange, ReadChange, StatChange
<1>4. CASE SkipChange
  <2>1. batch' \in Batches /\ batch'.changes = batch.changes
    BY <1>3, <1>4 DEF SkipChange, Batches
  <2>2. cache' \in Entries
    BY <1>3, <1>4, DropType DEF SkipChange
  <2>3. /\ pos' \in Nat
        /\ stage' = "sync" \/ (stage' = "extract" /\ pos' \in DOMAIN batch'.changes)
    BY <1>3, <1>4, <2>1, NextChangeType DEF SkipChange
  <2>4. pos' \in DOMAIN batch'.changes
    BY <1>3, <1>4, <2>1, <2>3, CurrentChange DEF SkipChange, NextChange
  <2>. QED BY <1>4, <2>1, <2>2, <2>3, <2>4 DEF TypeOK, SkipChange, vaultVars, scanVars, historyVars
<1>5. CASE FailChange
  <2>1. batch' \in Batches /\ batch'.changes = batch.changes
    BY <1>1, <1>2, <1>3, <1>5 DEF FailChange, Batches
  <2>2. cache' \in Entries
    BY <1>3, <1>5, DropType DEF FailChange
  <2>3. /\ pos' \in Nat
        /\ stage' = "sync" \/ (stage' = "extract" /\ pos' \in DOMAIN batch'.changes)
    BY <1>3, <1>5, <2>1, NextChangeType DEF FailChange
  <2>4. pos' \in DOMAIN batch'.changes
    BY <1>3, <1>5, <2>1, <2>3, CurrentChange DEF FailChange, NextChange
  <2>. QED BY <1>5, <2>1, <2>2, <2>3, <2>4 DEF TypeOK, FailChange, vaultVars, scanVars, historyVars
<1>6. CASE ReadChange
  <2>1. batch' \in Batches /\ batch'.changes = batch.changes
    BY <1>3, <1>6 DEF ReadChange, Batches
  <2>2. cache' \in Entries
    BY <1>3, <1>6, DropType DEF ReadChange
  <2>3. readFile' \in Versions /\ stage' = "stat" /\ pos' = pos
    BY <1>1, <1>2, <1>6 DEF ReadChange
  <2>4. pos' \in DOMAIN batch'.changes
    BY <1>3, <2>1, <2>3, CurrentChange
  <2>. QED BY <1>6, <2>1, <2>2, <2>3, <2>4 DEF TypeOK, ReadChange, vaultVars, scanVars, historyVars
<1>7. CASE StatChange
  <2>1. batch' = batch
    BY <1>7 DEF StatChange
  <2>2. cache' \in Entries
    <3>1. cache' = SetEntry(cache, c.path, readFile, vault[c.path])
      BY <1>1, <1>7 DEF StatChange
    <3>. QED BY <1>2, <1>3, <3>1, SetEntryType DEF TypeOK
  <2>3. /\ pos' \in Nat
        /\ stage' = "sync" \/ (stage' = "extract" /\ pos' \in DOMAIN batch'.changes)
    BY <1>3, <1>7, <2>1, NextChangeType DEF StatChange
  <2>4. pos' \in DOMAIN batch'.changes
    BY <1>3, <1>7, <2>1, <2>3, CurrentChange DEF StatChange, NextChange
  <2>5. readFile' \in Versions
    BY <1>7, ZeroIsVersion DEF StatChange
  <2>. QED BY <1>3, <1>7, <2>1, <2>2, <2>3, <2>4, <2>5
         DEF TypeOK, StatChange, vaultVars, scanVars, historyVars
<1>. QED BY <1>4, <1>5, <1>6, <1>7 DEF ExtractStep

\* What a change does to the rows, row by row.
LEMMA SyncedType ==
  ASSUME TypeOK, NEW c \in Changes
  PROVE  /\ Synced(c) \in [Files -> Versions \cup {None}]
         /\ \A p \in Files :
              Synced(c)[p] = IF p = c.path /\ c.kind # "DELETED" /\ p \notin Hidden THEN vault[p]
                             ELSE IF p \in Touched(c) /\ ~(p = c.path /\ c.kind = "RENAMED")
                                    THEN None
                             ELSE rows[p]
<1>1. /\ rows \in [Files -> Versions \cup {None}] /\ vault \in [Files -> Versions]
      /\ c.path \in Files /\ c.kind \in {"CREATED", "MODIFIED", "DELETED", "RENAMED"}
      /\ c.kind = "RENAMED" => c.previous \in Files /\ c.previous # c.path
      /\ c.kind # "RENAMED" => c.path \notin Hidden
      /\ Touched(c) = {c.path} \cup (IF c.kind = "RENAMED" THEN {c.previous} ELSE {})
  BY ChangeType, VaultSyncAssumption DEF TypeOK, Changes
<1>2. CASE c.kind = "DELETED"
  <2>1. Synced(c) = [rows EXCEPT ![c.path] = None]
    BY <1>2 DEF Synced
  <2>. QED BY <1>1, <1>2, <2>1
<1>3. CASE c.kind = "RENAMED" /\ c.path \in Hidden
  <2>1. Synced(c) = [rows EXCEPT ![c.previous] = None]
    BY <1>3 DEF Synced
  <2>. QED BY <1>1, <1>3, <2>1
<1>4. CASE c.kind = "RENAMED" /\ c.path \notin Hidden
  <2>1. Synced(c) = [rows EXCEPT ![c.previous] = None, ![c.path] = vault[c.path]]
    BY <1>4 DEF Synced
  <2>. QED BY <1>1, <1>4, <2>1
<1>5. CASE c.kind \notin {"DELETED", "RENAMED"}
  <2>1. Synced(c) = [rows EXCEPT ![c.path] = vault[c.path]]
    BY <1>5 DEF Synced
  <2>. QED BY <1>1, <1>5, <2>1
<1>. QED BY <1>2, <1>3, <1>4, <1>5

\* Each path's causes after the batch has been extracted, or abandoned.
LEMMA CausesType ==
  ASSUME NEW p PROVE Causes(p) \subseteq CauseNames \ {"unpublished"}
  BY DEF Causes, CauseNames

LEMMA SyncType ==
  ASSUME TypeOK, SyncChange \/ Commit \/ Publish \/ BatchRaises
  PROVE  TypeOK'
<1>1. CASE SyncChange
  <2>1. stage = "sync" /\ batch' = batch
    BY <1>1 DEF SyncChange
  <2>2. batch \in Batches /\ batch.changes[pos] \in Changes
    BY <2>1, CurrentChange
  <2>3. rows' \in [Files -> Versions \cup {None}]
    BY <1>1, <2>2, SyncedType DEF SyncChange
  <2>4. /\ pos' \in Nat
        /\ stage' = "commit" \/ (stage' = "sync" /\ pos' \in DOMAIN batch'.changes)
    BY <1>1, <2>1, <2>2, NextChangeType DEF SyncChange
  <2>. QED BY <1>1, <2>1, <2>2, <2>3, <2>4 DEF TypeOK, SyncChange, vaultVars, scanVars, historyVars
<1>2. CASE Commit
  <2>1. batch \in Batches /\ batch' = batch /\ stage' = "publish"
    BY <1>2 DEF Commit, TypeOK
  <2>2. staleIndex' \subseteq Files
    BY <1>2, <2>1 DEF Commit, TypeOK, Batches
  <2>. QED BY <1>2, <2>1, <2>2 DEF TypeOK, Commit, vaultVars, scanVars
<1>3. CASE Publish
  <2>1. batch' = <<>> /\ pos' \in Nat /\ stage' = "idle"
    BY <1>3 DEF Publish
  <2>2. staleGraph' \in [Files -> SUBSET CauseNames]
    BY <1>3, CausesType DEF Publish, TypeOK, CauseNames
  <2>3. snapshot' \in [Files -> Versions]
    BY <1>3, GraphType DEF Publish, TypeOK
  <2>. QED BY <1>3, <2>1, <2>2, <2>3 DEF TypeOK, Publish, vaultVars, scanVars, CauseNames
<1>4. CASE BatchRaises
  <2>1. batch' = <<>> /\ pos' \in Nat /\ stage' = "idle" /\ readFile' \in Versions
    BY <1>4, ZeroIsVersion DEF BatchRaises
  <2>2. staleGraph' \in [Files -> SUBSET CauseNames]
    BY <1>4, CausesType DEF BatchRaises, TypeOK, CauseNames
  <2>3. staleIndex' \subseteq Files
    BY <1>4, TouchedByFiles DEF BatchRaises, TypeOK
  <2>. QED BY <1>4, <2>1, <2>2, <2>3 DEF TypeOK, BatchRaises, vaultVars, scanVars, CauseNames
<1>. QED BY <1>1, <1>2, <1>3, <1>4

LEMMA SaveType ==
  ASSUME TypeOK, SaveBegin \/ SaveEnd \/ SaveRaises
  PROVE  TypeOK'
<1>1. cacheFile' \in [status : {"absent", "torn", "good"}, entries : Entries]
  BY EmptyCacheType DEF TypeOK, SaveBegin, SaveEnd, SaveRaises
<1>2. stage' \in {"idle", "save"} /\ batch' = batch /\ batch = <<>>
  BY DEF TypeOK, SaveBegin, SaveEnd, SaveRaises
<1>3. UNCHANGED <<vaultVars, proc, starts, pending, flights, batch, pos, readFile, cache,
                  index, rows, snapshot, scanVars, historyVars>>
  BY DEF SaveBegin, SaveEnd, SaveRaises
<1>. QED BY <1>1, <1>2, <1>3 DEF TypeOK, vaultVars, scanVars, historyVars

LEMMA EndsType ==
  ASSUME TypeOK, Ends, proc' = "down"
  PROVE  TypeOK'
<1>1. cache' \in Entries /\ snapshot' \in [Files -> Versions]
  BY EmptyCacheType, GraphType DEF Ends
<1>2. /\ pending' = <<>> /\ flights' = <<>> /\ batch' = <<>> /\ pos' = 1
      /\ stage' = "idle" /\ readFile' = 0 /\ rows' = index
      /\ listed' = {} /\ toScan' = {} /\ scanning' = None
      /\ staleGraph' = [p \in Files |-> {}]
      /\ vault' = vault /\ edits' = edits /\ starts' = starts /\ index' = index
      /\ cacheFile' = cacheFile
  BY DEF Ends, vaultVars
<1>3. staleIndex' \subseteq Files
  <2>1. UNION {TouchedBy(flights[i].changes) : i \in DOMAIN flights} \subseteq Files
    BY TouchedByFiles
  <2>. QED BY <2>1, TouchedByFiles DEF Ends, TypeOK
<1>4. pending' \in Seq(Changes) /\ flights' \in Seq(Batches)
  BY <1>2
<1>5. staleGraph' \in [Files -> SUBSET CauseNames]
  BY <1>2
<1>. QED BY <1>1, <1>2, <1>3, <1>4, <1>5, ZeroIsVersion DEF TypeOK, CauseNames

ColdStep ==
  \/ LoadFails \/ StartScan
  \/ \E p \in Notes : ScanSkip(p) \/ ScanStat(p)
  \/ ScanExtract \/ ScanFails
  \/ PublishInitial \/ StartWatcher

LEMMA ColdType ==
  ASSUME TypeOK, ColdStep
  PROVE  TypeOK'
<1>1. CASE LoadFails
  BY <1>1, VaultSyncAssumption
     DEF TypeOK, LoadFails, vaultVars, batchVars, scanVars, historyVars
<1>2. CASE StartScan
  <2>1. starts' \in 0..MaxStarts /\ cache' \in Entries
    BY <1>2, VaultSyncAssumption DEF TypeOK, StartScan
  <2>2. toScan' \subseteq listed' /\ listed' \subseteq Notes /\ proc' = "cold"
    BY <1>2 DEF StartScan
  <2>. QED BY <1>2, <2>1, <2>2 DEF TypeOK, StartScan, vaultVars, batchVars, historyVars
<1>3. ASSUME NEW p \in Notes, ScanSkip(p)
      PROVE  TypeOK'
  <2>1. staleGraph' \in [Files -> SUBSET CauseNames]
    BY <1>3 DEF TypeOK, ScanSkip, CauseNames
  <2>. QED BY <1>3, <2>1 DEF TypeOK, ScanSkip, vaultVars, batchVars, CauseNames
<1>4. ASSUME NEW p \in Notes, ScanStat(p)
      PROVE  TypeOK'
  <2>1. scanning' \in [path : Notes, mtime : Versions]
    BY <1>4 DEF TypeOK, ScanStat, Files
  <2>. QED BY <1>4, <2>1 DEF TypeOK, ScanStat, vaultVars, batchVars, historyVars
<1>5. CASE ScanExtract
  <2>1. scanning.path \in Files /\ scanning.mtime \in Versions /\ vault[scanning.path] \in Versions
    BY <1>5 DEF TypeOK, ScanExtract, Files
  <2>2. cache' \in Entries
    BY <1>5, <2>1, SetEntryType DEF TypeOK, ScanExtract
  <2>. QED BY <1>5, <2>2 DEF TypeOK, ScanExtract, vaultVars, batchVars, historyVars
<1>6. CASE ScanFails
  <2>1. staleGraph' \in [Files -> SUBSET CauseNames]
    BY <1>6 DEF TypeOK, ScanFails, CauseNames
  <2>. QED BY <1>6, <2>1 DEF TypeOK, ScanFails, vaultVars, batchVars, CauseNames
<1>7. CASE PublishInitial
  <2>1. cache' \in Entries
    BY <1>7, DropType DEF TypeOK, PublishInitial, Forget
  <2>2. snapshot' \in [Files -> Versions]
    BY <1>7, <2>1, GraphType DEF PublishInitial
  <2>. QED BY <1>7, <2>1, <2>2 DEF TypeOK, PublishInitial, vaultVars, batchVars, scanVars, historyVars
<1>8. CASE StartWatcher
  BY <1>8 DEF TypeOK, StartWatcher, vaultVars, batchVars, scanVars, historyVars
<1>. QED BY <1>1, <1>2, <1>3, <1>4, <1>5, <1>6, <1>7, <1>8 DEF ColdStep

LEMMA TypeStep ==
  ASSUME TypeOK, [Next]_vars
  PROVE  TypeOK'
<1>1. CASE EditStep
  BY <1>1, EditIsEdited, EditType
<1>2. CASE TakeBatch \/ (\E i \in DOMAIN flights : StartCompile(i))
  BY <1>2, TakeBatchType, StartCompileType
<1>3. CASE \/ ExtractStep \/ SyncChange \/ Commit \/ Publish \/ BatchRaises
           \/ SaveBegin \/ SaveEnd \/ SaveRaises
  BY <1>3, ExtractType, SyncType, SaveType
<1>4. CASE ProcessEnds \/ (\E p \in Notes : ScanRaises(p))
  BY <1>4, EndsType DEF ProcessEnds, ScanRaises
<1>5. CASE ColdStep
  BY <1>5, ColdType
<1>6. CASE UNCHANGED vars
  BY <1>6 DEF TypeOK, vars, vaultVars, batchVars, scanVars, historyVars
<1>. QED BY <1>1, <1>2, <1>3, <1>4, <1>5, <1>6 DEF Next, EditStep, ExtractStep, ColdStep

LEMMA TypeInit == Init => TypeOK
<1>. SUFFICES ASSUME Init PROVE TypeOK
  OBVIOUS
<1>1. vault \in [Files -> Versions] /\ edits \in Versions
  BY InitialIsNat, VaultSyncAssumption DEF Init, InitialVaults, Versions
<1>2. cache \in Entries /\ snapshot \in [Files -> Versions]
  BY EmptyCacheType, GraphType DEF Init
<1>3. cacheFile \in [status : {"absent", "torn", "good"}, entries : Entries]
  BY EmptyCacheType DEF Init
<1>4. pending \in Seq(Changes) /\ flights \in Seq(Batches)
  BY DEF Init
<1>5. staleGraph \in [Files -> SUBSET CauseNames]
  BY DEF Init
<1>6. starts \in 0..MaxStarts /\ staleIndex \subseteq Files
  BY VaultSyncAssumption DEF Init, Files
<1>7. index \in [Files -> Versions \cup {None}] /\ rows = index
  BY DEF Init
<1>. QED BY <1>1, <1>2, <1>3, <1>4, <1>5, <1>6, <1>7, ZeroIsVersion DEF Init, TypeOK, CauseNames

\* The types of every copy, and that every queued change is one the watcher can
\* make and every batch is compiled within its bounds.
THEOREM TypeCorrect == Spec => []TypeOK
  BY TypeInit, TypeStep, PTL DEF Spec

-----------------------------------------------------------------------------
(* Phases, and paths outside the observed scope *)

LEMMA PhaseStep ==
  ASSUME TypeOK, TypeOK', PhaseInv, [Next]_vars
  PROVE  PhaseInv'
<1>. USE DEF PhaseInv, Compiling
<1>1. CASE EditStep
  <2>1. PICK c : VaultChange(c)
    BY <1>1, EditIsEdited DEF Edited
  <2>. QED BY <2>1 DEF VaultChange, scanVars
<1>2. CASE TakeBatch
  BY <1>2 DEF TakeBatch, scanVars
<1>3. CASE \E i \in DOMAIN flights : StartCompile(i)
  BY <1>3 DEF StartCompile, scanVars
<1>4. CASE ExtractStep
  <2>1. stage' = "stat" => batch'.changes[pos'].path \in Notes
    <3>. SUFFICES ASSUME stage' = "stat" PROVE batch'.changes[pos'].path \in Notes
      OBVIOUS
    <3>1. ReadChange
      BY <1>4 DEF ExtractStep, SkipChange, FailChange, StatChange, NextChange
    <3>2. /\ stage = "extract" /\ batch'.changes = batch.changes /\ pos' = pos
          /\ Extractable(batch.changes[pos])
      BY <3>1 DEF ReadChange, TypeOK, Batches
    <3>. QED BY <3>2, CurrentChange, ChangeType DEF Extractable, Files
  <2>. QED BY <1>4, <2>1
         DEF ExtractStep, SkipChange, FailChange, ReadChange, StatChange, NextChange, scanVars
<1>5. CASE SyncChange \/ Commit
  BY <1>5 DEF SyncChange, Commit, NextChange, scanVars
<1>6. CASE Publish \/ BatchRaises
  BY <1>6 DEF Publish, BatchRaises, scanVars
<1>7. CASE SaveBegin \/ SaveEnd \/ SaveRaises
  BY <1>7 DEF SaveBegin, SaveEnd, SaveRaises, scanVars
<1>8. CASE ProcessEnds \/ (\E p \in Notes : ScanRaises(p))
  BY <1>8 DEF ProcessEnds, ScanRaises, Ends
<1>9. CASE LoadFails \/ StartScan
  BY <1>9 DEF LoadFails, StartScan, batchVars, scanVars
<1>10. CASE \E p \in Notes : ScanSkip(p) \/ ScanStat(p)
  BY <1>10 DEF ScanSkip, ScanStat, batchVars, TypeOK
<1>11. CASE ScanExtract \/ ScanFails
  BY <1>11 DEF ScanExtract, ScanFails, batchVars
<1>12. CASE PublishInitial
  BY <1>12 DEF PublishInitial, batchVars, scanVars
<1>13. CASE StartWatcher
  BY <1>13 DEF StartWatcher, batchVars, scanVars
<1>14. CASE UNCHANGED vars
  BY <1>14 DEF vars, batchVars, scanVars
<1>. QED BY <1>1, <1>2, <1>3, <1>4, <1>5, <1>6, <1>7, <1>8, <1>9, <1>10, <1>11, <1>12, <1>13,
            <1>14 DEF Next, EditStep, ExtractStep

\* What a step of the batch does to an entry of the cache.
LEMMA CacheStep ==
  ASSUME TypeOK, ExtractStep, NEW p \in Files
  PROVE  LET c == batch.changes[pos] IN
         /\ p \notin Touched(c) => cache'[p] = cache[p]
         /\ ~StatChange /\ p \in Removed(c) => cache'[p] = NoEntry
         /\ StatChange => cache'[p] = cache[p] \/ p = c.path
         /\ StatChange /\ p = c.path => cache'[p].content = readFile
<1>1. PICK d \in Changes : d = batch.changes[pos]
  BY CurrentChange DEF ExtractStep, SkipChange, FailChange, ReadChange, StatChange
<1>2. /\ cache \in Entries /\ readFile \in Versions /\ vault[d.path] \in Versions
      /\ d.path \in Files /\ d.path \in Touched(d) /\ Removed(d) \subseteq Touched(d)
  BY ChangeType DEF TypeOK
<1>3. CASE SkipChange \/ FailChange \/ ReadChange
  <2>1. cache' = Drop(cache, Removed(d)) /\ stage = "extract"
    BY <1>1, <1>3 DEF SkipChange, FailChange, ReadChange
  <2>2. ~StatChange
    BY <2>1 DEF StatChange
  <2>. QED BY <1>1, <1>2, <2>1, <2>2, DropType
<1>4. CASE StatChange
  <2>1. cache' = SetEntry(cache, d.path, readFile, vault[d.path])
    BY <1>1, <1>4 DEF StatChange
  <2>2. /\ cache'[d.path].content = readFile
        /\ \A q \in Files : q # d.path => cache'[q] = cache[q]
    BY <1>2, <2>1, SetEntryType
  <2>. QED BY <1>1, <1>2, <1>4, <2>2
<1>. QED BY <1>3, <1>4 DEF ExtractStep

LEMMA HiddenStep ==
  ASSUME TypeOK, TypeOK', PhaseInv, ExcludedStaysOut, [Next]_vars
  PROVE  ExcludedStaysOut'
<1>. SUFFICES ASSUME NEW h \in Hidden
              PROVE  /\ cache'[h] = NoEntry /\ cacheFile'.entries[h] = NoEntry
                     /\ snapshot'[h] = 0
                     /\ index'[h] = None /\ rows'[h] = None
  BY DEF ExcludedStaysOut
<1>0. h \in Files /\ h \notin Notes
  BY VaultSyncAssumption DEF Files
<1>1. /\ cache[h] = NoEntry /\ cacheFile.entries[h] = NoEntry
      /\ snapshot[h] = 0
      /\ index[h] = None /\ rows[h] = None
      /\ cache \in Entries /\ cache' \in Entries /\ NoEntry.content = 0
  BY DEF ExcludedStaysOut, TypeOK, NoEntry
<1>2. CASE EditStep
  <2>1. PICK c : VaultChange(c)
    BY <1>2, EditIsEdited DEF Edited
  <2>. QED BY <1>1, <2>1 DEF VaultChange
<1>3. CASE TakeBatch \/ \E i \in DOMAIN flights : StartCompile(i)
  BY <1>1, <1>3 DEF TakeBatch, StartCompile
<1>4. CASE ExtractStep
  <2>1. /\ cacheFile' = cacheFile /\ snapshot' = snapshot /\ index' = index /\ rows' = rows
    BY <1>4 DEF ExtractStep, SkipChange, FailChange, ReadChange, StatChange
  <2>2. cache'[h] = NoEntry
    <3>1. CASE StatChange
      <4>1. batch.changes[pos].path \in Notes
        BY <3>1 DEF PhaseInv, StatChange
      <4>. QED BY <1>0, <1>1, <1>4, <3>1, <4>1, CacheStep
    <3>2. CASE ~StatChange
      <4>1. cache' = Drop(cache, Removed(batch.changes[pos]))
        BY <1>4, <3>2 DEF ExtractStep, SkipChange, FailChange, ReadChange
      <4>. QED BY <1>0, <1>1, <4>1, DropType
    <3>. QED BY <3>1, <3>2
  <2>. QED BY <1>1, <2>1, <2>2
<1>5. CASE SyncChange
  <2>1. batch.changes[pos] \in Changes /\ rows' = Synced(batch.changes[pos])
    BY <1>5, CurrentChange DEF SyncChange
  <2>2. rows'[h] = None
    BY <1>0, <1>1, <2>1, SyncedType
  <2>. QED BY <1>1, <1>5, <2>2 DEF SyncChange
<1>6. CASE Commit
  BY <1>1, <1>6 DEF Commit
<1>7. CASE Publish
  BY <1>0, <1>1, <1>7, GraphType DEF Publish
<1>8. CASE SaveBegin \/ SaveEnd \/ SaveRaises \/ BatchRaises
  BY <1>0, <1>1, <1>8, EmptyCacheType DEF SaveBegin, SaveEnd, SaveRaises, BatchRaises
<1>9. CASE ProcessEnds \/ (\E p \in Notes : ScanRaises(p))
  BY <1>0, <1>1, <1>9, EmptyCacheType, GraphType DEF ProcessEnds, ScanRaises, Ends
<1>10. CASE LoadFails \/ StartScan \/ StartWatcher \/ ScanFails
  BY <1>1, <1>10 DEF LoadFails, StartScan, StartWatcher, ScanFails
<1>11. CASE \E p \in Notes : ScanSkip(p) \/ ScanStat(p)
  BY <1>1, <1>11 DEF ScanSkip, ScanStat
<1>12. CASE ScanExtract
  <2>1. /\ scanning.path \in Notes /\ scanning.path \in Files /\ scanning.mtime \in Versions
        /\ vault[scanning.path] \in Versions
    BY <1>12 DEF ScanExtract, TypeOK, Files
  <2>2. cache'[h] = cache[h]
    BY <1>0, <1>1, <1>12, <2>1, SetEntryType DEF ScanExtract
  <2>. QED BY <1>1, <1>12, <2>2 DEF ScanExtract
<1>13. CASE PublishInitial
  <2>1. cache'[h] = NoEntry
    BY <1>0, <1>1, <1>13, DropType DEF PublishInitial, Forget
  <2>. QED BY <1>0, <1>1, <1>13, <2>1, GraphType DEF PublishInitial
<1>14. CASE UNCHANGED vars
  BY <1>1, <1>14 DEF vars
<1>. QED BY <1>2, <1>3, <1>4, <1>5, <1>6, <1>7, <1>8, <1>9, <1>10, <1>11, <1>12, <1>13, <1>14
         DEF Next, EditStep, ExtractStep

-----------------------------------------------------------------------------
(* Changes on their way *)

LEMMA InTouchedBy ==
  \A changes, p : p \in TouchedBy(changes) <=>
                    \E i \in DOMAIN changes : p \in Touched(changes[i])
  BY DEF TouchedBy

LEMMA NoneTouched == TouchedBy(<<>>) = {}
  BY DEF TouchedBy

LEMMA AppendTouched ==
  ASSUME NEW s \in Seq(Changes), NEW c \in Changes
  PROVE  /\ \A p : p \in TouchedBy(Append(s, c)) <=> p \in TouchedBy(s) \/ p \in Touched(c)
         /\ \A p : p \in Touched(c) =>
              \A i \in DOMAIN Append(s, c) : LastFor(Append(s, c), i, p) => Append(s, c)[i] = c
         /\ \A p : p \notin Touched(c) =>
              \A i \in DOMAIN Append(s, c) : LastFor(Append(s, c), i, p) =>
                i \in DOMAIN s /\ LastFor(s, i, p) /\ Append(s, c)[i] = s[i]
<1>. DEFINE a == Append(s, c)
<1>1. /\ a \in Seq(Changes) /\ Len(s) \in Nat /\ Len(a) = Len(s) + 1
      /\ DOMAIN s = 1..Len(s) /\ DOMAIN a = 1..(Len(s) + 1)
      /\ a[Len(s) + 1] = c /\ \A i \in 1..Len(s) : a[i] = s[i]
  OBVIOUS
<1>. HIDE DEF a
<1>2. \A p : p \in TouchedBy(a) <=> p \in TouchedBy(s) \/ p \in Touched(c)
  BY <1>1, InTouchedBy
<1>3. ASSUME NEW p, p \in Touched(c), NEW i \in DOMAIN a, LastFor(a, i, p)
      PROVE  a[i] = c
  BY <1>1, <1>3 DEF LastFor
<1>4. ASSUME NEW p, p \notin Touched(c), NEW i \in DOMAIN a, LastFor(a, i, p)
      PROVE  i \in DOMAIN s /\ LastFor(s, i, p) /\ a[i] = s[i]
  <2>1. i \in 1..Len(s)
    BY <1>1, <1>4 DEF LastFor
  <2>. QED BY <1>1, <1>4, <2>1 DEF LastFor
<1>. QED BY <1>2, <1>3, <1>4 DEF a

\* An edit of the vault keeps the invariant of a note it is not about.
LEMMA EditElsewhere ==
  ASSUME TypeOK, NEW c, Edited(c), NEW p \in Notes, p \notin Touched(c), NoteInv(p)
  PROVE  NoteInv(p)'
<1>1. /\ vault'[p] = vault[p] /\ staleGraph'[p] = staleGraph[p]
      /\ p \in staleIndex' <=> p \in staleIndex
  BY DEF Edited, VaultChange, UnseenBy, TypeOK, Files
<1>2. /\ proc' = proc /\ flights' = flights /\ batch' = batch /\ pos' = pos /\ stage' = stage
      /\ readFile' = readFile /\ cache' = cache /\ index' = index /\ rows' = rows
      /\ snapshot' = snapshot
      /\ listed' = listed /\ toScan' = toScan /\ scanning' = scanning
  BY DEF Edited, VaultChange, scanVars
<1>3. /\ p \in TouchedBy(pending') <=> p \in TouchedBy(pending)
      /\ LastAgrees(pending, p, vault[p]) => LastAgrees(pending', p, vault[p])
  <2>1. CASE pending' = pending
    BY <2>1
  <2>2. CASE pending' = Append(pending, c) /\ c \in Changes
    <3>1. pending \in Seq(Changes)
      BY DEF TypeOK
    <3>2. \A i \in DOMAIN pending' : LastFor(pending', i, p) =>
            i \in DOMAIN pending /\ LastFor(pending, i, p) /\ pending'[i] = pending[i]
      BY <2>2, <3>1, AppendTouched
    <3>. QED BY <2>2, <3>1, <3>2, AppendTouched DEF LastAgrees
  <2>. QED BY <2>1, <2>2 DEF Edited, VaultChange
<1>4. Waiting(p)' <=> Waiting(p)
  BY <1>2, <1>3 DEF Waiting
<1>5. ChangesAgree(p)'
  BY <1>1, <1>2, <1>3, <1>4 DEF NoteInv, ChangesAgree, Compiling
<1>6. ScanInv(p)' /\ RestInv(p)' /\ SnapInv(p)' /\ ExtractInv(p)' /\ ReadInv(p)'
  BY <1>1, <1>2, <1>4 DEF NoteInv, ScanInv, RestInv, SnapInv, ExtractInv, ReadInv, Extracted, Compiling
<1>7. RowsInv(p)'
  BY <1>1, <1>2, <1>4 DEF NoteInv, RowsInv
<1>. QED BY <1>5, <1>6, <1>7 DEF NoteInv

\* An edit of a note: the watcher queues the change, or the note is stale.
LEMMA EditOf ==
  ASSUME TypeOK, PhaseInv, NEW c, Edited(c), NEW p \in Notes, p \in Touched(c), NoteInv(p)
  PROVE  NoteInv(p)'
<1>1. /\ proc' = proc /\ flights' = flights /\ batch' = batch /\ pos' = pos /\ stage' = stage
      /\ readFile' = readFile /\ cache' = cache /\ index' = index /\ rows' = rows
      /\ snapshot' = snapshot
      /\ listed' = listed /\ toScan' = toScan /\ scanning' = scanning
  BY DEF Edited, VaultChange, scanVars
<1>2. Reported(c) /\ c \in Changes /\ Agrees(c, p, vault'[p])
  BY VaultSyncAssumption DEF Edited, Agrees
<1>3. /\ staleGraph[p] \subseteq staleGraph'[p]
      /\ ("unpublished" \in staleGraph'[p] <=> "unpublished" \in staleGraph[p])
  BY DEF Edited, VaultChange, TypeOK, Files
<1>4. SnapInv(p)'
  BY <1>1, <1>3 DEF NoteInv, SnapInv, Compiling
<1>5. CASE proc = "running"
  <2>1. pending' = Append(pending, c) /\ pending \in Seq(Changes)
    BY <1>2, <1>5 DEF Edited, VaultChange, TypeOK
  <2>2. p \in TouchedBy(pending') /\ Waiting(p)'
    BY <1>2, <2>1, AppendTouched DEF Waiting
  <2>3. LastAgrees(pending', p, vault'[p])
    BY <1>2, <2>1, AppendTouched DEF LastAgrees
  <2>4. ChangesAgree(p)'
    BY <2>2, <2>3 DEF ChangesAgree
  <2>5. ScanInv(p)' /\ RestInv(p)' /\ ExtractInv(p)' /\ ReadInv(p)'
    BY <1>1, <1>5, <2>2 DEF ScanInv, RestInv, ExtractInv, ReadInv
  <2>6. RowsInv(p)'
    BY <1>1, <2>2 DEF NoteInv, RowsInv
  <2>. QED BY <1>4, <2>4, <2>5, <2>6 DEF NoteInv
<1>6. CASE proc # "running"
  <2>1. pending' = <<>> /\ flights' = <<>> /\ stage' = "idle"
    BY <1>1, <1>6 DEF PhaseInv, Edited, VaultChange
  <2>2. ChangesAgree(p)'
    BY <2>1, NoneTouched DEF ChangesAgree, LastAgrees, Compiling
  <2>3. p \in staleIndex'
    BY <1>6 DEF Edited, VaultChange
  <2>4. RowsInv(p)' /\ ExtractInv(p)' /\ ReadInv(p)'
    BY <2>1, <2>3 DEF RowsInv, ExtractInv, ReadInv, Compiling
  <2>5. proc \in {"cold", "published"} /\ p \notin toScan
          /\ (scanning # None /\ scanning.path = p => vault'[p] = 0)
          => ~Extracted(p)'
    BY DEF Edited, VaultChange, UnseenBy, Extracted, Files
  <2>6. ScanInv(p)'
    BY <1>1, <2>5 DEF ScanInv
  <2>7. RestInv(p)'
    BY <1>1, <1>6, <2>5 DEF RestInv, PhaseInv
  <2>. QED BY <1>4, <2>2, <2>4, <2>6, <2>7 DEF NoteInv
<1>. QED BY <1>5, <1>6

\* _flush: the queue becomes the newest batch that waits for the lock.
LEMMA TakeBatchNote ==
  ASSUME TypeOK, TakeBatch, NEW p \in Notes, NoteInv(p)
  PROVE  NoteInv(p)'
<1>1. /\ vault' = vault /\ proc' = proc /\ batch' = batch /\ pos' = pos /\ stage' = stage
      /\ readFile' = readFile /\ cache' = cache /\ index' = index /\ rows' = rows
      /\ listed' = listed /\ toScan' = toScan /\ scanning' = scanning
      /\ snapshot' = snapshot
      /\ staleGraph' = staleGraph /\ staleIndex' = staleIndex /\ pending' = <<>>
  BY DEF TakeBatch, vaultVars, scanVars, historyVars
<1>2. PICK b \in Batches : b.changes = pending /\ flights' = Append(flights, b)
  <2>1. [changes |-> pending, overtaken |-> {}, failed |-> {}] \in Batches
    BY DEF TypeOK, TakeBatch, Batches
  <2>. QED BY <2>1 DEF TakeBatch
<1>3. /\ flights \in Seq(Batches) /\ flights' \in Seq(Batches) /\ Len(flights) \in Nat
      /\ DOMAIN flights = 1..Len(flights) /\ DOMAIN flights' = 1..(Len(flights) + 1)
      /\ flights'[Len(flights) + 1] = b /\ \A f \in 1..Len(flights) : flights'[f] = flights[f]
  BY <1>2 DEF TypeOK
<1>4. Waiting(p)' <=> Waiting(p)
  BY <1>1, <1>2, <1>3, NoneTouched DEF Waiting
<1>5. ChangesAgree(p)'
  <2>1. LastAgrees(pending', p, vault'[p])
    BY <1>1 DEF LastAgrees
  <2>2. ASSUME NEW f \in DOMAIN flights', p \notin flights'[f].overtaken,
               \A g \in DOMAIN flights' : g > f => p \notin TouchedBy(flights'[g].changes)
        PROVE  LastAgrees(flights'[f].changes, p, vault'[p])
    <3>1. CASE f = Len(flights) + 1
      BY <1>1, <1>2, <1>3, <3>1 DEF NoteInv, ChangesAgree
    <3>2. CASE f \in 1..Len(flights)
      <4>1. p \notin TouchedBy(pending)
        BY <1>2, <1>3, <2>2, <3>2
      <4>2. \A g \in DOMAIN flights : g > f => p \notin TouchedBy(flights[g].changes)
        BY <1>3, <2>2, <3>2
      <4>. QED BY <1>1, <1>3, <2>2, <3>2, <4>1, <4>2 DEF NoteInv, ChangesAgree
    <3>. QED BY <1>3, <3>1, <3>2
  <2>3. Compiling' /\ ~Waiting(p)' /\ p \notin batch'.overtaken =>
          LastAgrees(batch'.changes, p, vault'[p])
    BY <1>1, <1>4 DEF NoteInv, ChangesAgree, Compiling
  <2>. QED BY <2>1, <2>2, <2>3 DEF ChangesAgree
<1>6. /\ ScanInv(p)' /\ RestInv(p)' /\ SnapInv(p)'
      /\ ExtractInv(p)' /\ ReadInv(p)' /\ RowsInv(p)'
  BY <1>1, <1>4 DEF NoteInv, ScanInv, RestInv, SnapInv, ExtractInv, ReadInv, RowsInv, Extracted,
       Compiling
<1>. QED BY <1>5, <1>6 DEF NoteInv

\* A flush thread gets the lock: the batches it passes are overtaken on the
\* paths they share with it, and only on those.
LEMMA StartCompileNote ==
  ASSUME TypeOK, NEW i \in DOMAIN flights, StartCompile(i), NEW p \in Notes, NoteInv(p)
  PROVE  NoteInv(p)'
<1>1. /\ vault' = vault /\ proc' = proc /\ pos' = 1 /\ stage' = "extract" /\ stage = "idle"
      /\ pending' = pending /\ cache' = cache /\ index' = index /\ rows' = rows
      /\ listed' = listed /\ toScan' = toScan /\ scanning' = scanning
      /\ snapshot' = snapshot /\ staleGraph' = staleGraph /\ staleIndex' = staleIndex
  BY DEF StartCompile, vaultVars, scanVars, historyVars
<1>2. /\ flights \in Seq(Batches) /\ Len(flights) \in Nat /\ i \in 1..Len(flights)
      /\ flights' \in Seq(Batches) /\ Len(flights') = Len(flights) - 1
      /\ batch' = flights[i] /\ batch' \in Batches
      /\ DOMAIN flights = 1..Len(flights) /\ DOMAIN flights' = 1..(Len(flights) - 1)
  BY StartCompileFlights
<1>3. ASSUME NEW f \in 1..(Len(flights) - 1)
      PROVE  \E k \in 1..Len(flights) :
               /\ k = IF f < i THEN f ELSE f + 1
               /\ flights'[f].changes = flights[k].changes
               /\ flights[k].overtaken \subseteq flights'[f].overtaken
               /\ k < i => TouchedBy(flights[i].changes) \cap TouchedBy(flights[k].changes)
                             \subseteq flights'[f].overtaken
  <2>1. PICK k \in 1..Len(flights) : k = IF f < i THEN f ELSE f + 1
    BY <1>2
  <2>2. flights'[f] = Passed(i)[k]
    BY <2>1, StartCompileFlights
  <2>. QED BY <1>2, <2>1, <2>2, PassedType
<1>4. \A k \in 1..Len(flights) : k # i =>
        \E f \in 1..(Len(flights) - 1) :
          f = (IF k < i THEN k ELSE k - 1) /\ flights'[f].changes = flights[k].changes
  <2>1. SUFFICES ASSUME NEW k \in 1..Len(flights), k # i
                 PROVE  \E f \in 1..(Len(flights) - 1) :
                          /\ f = (IF k < i THEN k ELSE k - 1)
                          /\ flights'[f].changes = flights[k].changes
    OBVIOUS
  <2>2. PICK f \in 1..(Len(flights) - 1) : f = (IF k < i THEN k ELSE k - 1)
    BY <1>2, <2>1
  <2>3. PICK m \in 1..Len(flights) : m = (IF f < i THEN f ELSE f + 1)
                                       /\ flights'[f].changes = flights[m].changes
    BY <1>3
  <2>4. m = k
    BY <1>2, <2>1, <2>2, <2>3
  <2>. QED BY <2>2, <2>3, <2>4
<1>5. Waiting(p) <=> Waiting(p)' \/ p \in TouchedBy(batch'.changes)
  <2>1. (\E k \in DOMAIN flights : p \in TouchedBy(flights[k].changes)) <=>
          \/ \E f \in DOMAIN flights' : p \in TouchedBy(flights'[f].changes)
          \/ p \in TouchedBy(flights[i].changes)
    <3>1. ASSUME NEW k \in DOMAIN flights, p \in TouchedBy(flights[k].changes), k # i
          PROVE  \E f \in DOMAIN flights' : p \in TouchedBy(flights'[f].changes)
      BY <1>2, <1>4, <3>1
    <3>2. ASSUME NEW f \in DOMAIN flights', p \in TouchedBy(flights'[f].changes)
          PROVE  \E k \in DOMAIN flights : p \in TouchedBy(flights[k].changes)
      BY <1>2, <1>3, <3>2
    <3>. QED BY <3>1, <3>2
  <2>. QED BY <1>1, <1>2, <2>1 DEF Waiting
<1>6. ChangesAgree(p)'
  <2>1. LastAgrees(pending', p, vault'[p])
    BY <1>1 DEF NoteInv, ChangesAgree
  <2>2. ASSUME p \notin TouchedBy(pending'), NEW f \in DOMAIN flights',
               p \notin flights'[f].overtaken,
               \A g \in DOMAIN flights' : g > f => p \notin TouchedBy(flights'[g].changes)
        PROVE  LastAgrees(flights'[f].changes, p, vault'[p])
    <3>1. PICK k \in 1..Len(flights) :
               /\ k = IF f < i THEN f ELSE f + 1
               /\ flights'[f].changes = flights[k].changes
               /\ flights[k].overtaken \subseteq flights'[f].overtaken
               /\ k < i => TouchedBy(flights[i].changes) \cap TouchedBy(flights[k].changes)
                             \subseteq flights'[f].overtaken
      BY <1>2, <1>3
    <3>2. CASE p \notin TouchedBy(flights[k].changes)
      BY <3>1, <3>2, InTouchedBy DEF LastAgrees, LastFor
    <3>3. CASE p \in TouchedBy(flights[k].changes)
      <4>1. ASSUME NEW g \in DOMAIN flights, g > k
            PROVE  p \notin TouchedBy(flights[g].changes)
        <5>1. CASE g = i
          BY <2>2, <3>1, <3>3, <4>1, <5>1
        <5>2. CASE g # i
          <6>1. PICK h \in 1..(Len(flights) - 1) :
                  h = (IF g < i THEN g ELSE g - 1) /\ flights'[h].changes = flights[g].changes
            BY <1>2, <1>4, <5>2
          <6>2. h > f
            BY <1>2, <3>1, <4>1, <5>2, <6>1
          <6>. QED BY <1>2, <2>2, <6>1, <6>2
        <5>. QED BY <5>1, <5>2
      <4>2. p \notin flights[k].overtaken
        BY <2>2, <3>1
      <4>. QED BY <1>1, <1>2, <2>2, <3>1, <4>1, <4>2 DEF NoteInv, ChangesAgree
    <3>. QED BY <3>2, <3>3
  <2>3. ASSUME ~Waiting(p)', p \notin batch'.overtaken
        PROVE  LastAgrees(batch'.changes, p, vault'[p])
    <3>1. p \notin TouchedBy(pending)
      BY <1>1, <2>3 DEF Waiting
    <3>2. ASSUME NEW g \in DOMAIN flights, g > i
          PROVE  p \notin TouchedBy(flights[g].changes)
      <4>1. g # i
        BY <1>2, <3>2
      <4>2. PICK h \in 1..(Len(flights) - 1) : flights'[h].changes = flights[g].changes
        BY <1>2, <1>4, <4>1
      <4>. QED BY <1>2, <2>3, <4>2 DEF Waiting
    <3>. QED BY <1>1, <1>2, <2>3, <3>1, <3>2 DEF NoteInv, ChangesAgree
  <2>. QED BY <2>1, <2>2, <2>3 DEF ChangesAgree
<1>7. ScanInv(p)' /\ RestInv(p)' /\ SnapInv(p)'
  BY <1>1, <1>5 DEF NoteInv, ScanInv, RestInv, SnapInv, Extracted, Compiling
<1>8. ExtractInv(p)'
  <2>1. DOMAIN batch'.changes = 1..Len(batch'.changes) /\ Len(batch'.changes) \in Nat
    BY <1>2 DEF Batches
  <2>2. pos' = 1
    BY <1>1
  <2>3. p \in TouchedBy(batch'.changes) => ~Behind(batch'.changes, pos', p)
    BY <2>1, <2>2, InTouchedBy DEF Behind
  <2>. QED BY <1>1, <2>3 DEF ExtractInv
<1>9. ReadInv(p)' /\ RowsInv(p)'
  BY <1>1, <1>5 DEF NoteInv, ReadInv, RowsInv
<1>. QED BY <1>6, <1>7, <1>8, <1>9 DEF NoteInv

-----------------------------------------------------------------------------
(* Extraction, transaction, publication *)

\* The step leaves the vault, what waits and the batch's changes alone.
BatchStepFrame ==
  /\ vault' = vault /\ proc' = proc /\ pending' = pending /\ flights' = flights
  /\ batch'.changes = batch.changes /\ batch'.overtaken = batch.overtaken
  /\ index' = index /\ scanning' = scanning /\ toScan' = toScan /\ listed' = listed
  /\ snapshot' = snapshot /\ staleGraph' = staleGraph /\ staleIndex' = staleIndex
  /\ Compiling /\ Compiling'

LEMMA BatchFrame ==
  ASSUME PhaseInv, BatchStepFrame, NEW p \in Notes, NoteInv(p)
  PROVE  /\ proc = "running" /\ (Waiting(p)' <=> Waiting(p))
         /\ ChangesAgree(p)' /\ ScanInv(p)'
<1>1. proc = "running"
  BY DEF PhaseInv, BatchStepFrame, Compiling
<1>2. Waiting(p)' <=> Waiting(p)
  BY DEF Waiting, BatchStepFrame
<1>3. ChangesAgree(p)'
  BY <1>2 DEF NoteInv, ChangesAgree, BatchStepFrame
<1>. QED BY <1>1, <1>2, <1>3 DEF ScanInv, BatchStepFrame

\* The loop has gone past position pos, the last one of what is about p.
LEMMA LoopStep ==
  ASSUME NEW s \in Seq(Changes), NEW i \in 1..Len(s), NEW p,
         i < Len(s) => Behind(s, i + 1, p)
  PROVE  /\ p \in Touched(s[i]) => LastFor(s, i, p)
         /\ p \notin Touched(s[i]) => Behind(s, i, p)
<1>1. \A j \in DOMAIN s : j > i => p \notin Touched(s[j])
  BY DEF Behind
<1>. QED BY <1>1 DEF Behind, LastFor

\* The last change about a note, read against the file it agrees with.
LEMMA AgreementMeans ==
  ASSUME NEW c \in Changes, NEW p \in Notes, p \in Touched(c), NEW file, Agrees(c, p, file)
  PROVE  /\ file # 0 => c.path = p /\ c.kind # "DELETED"
         /\ file = 0 => p \in Removed(c)
         /\ p # c.path => p \in Removed(c) /\ file = 0
<1>1. p \notin Hidden
  BY VaultSyncAssumption
<1>2. p = c.path \/ (c.kind = "RENAMED" /\ p = c.previous)
  BY ChangeType
<1>. QED BY <1>1, <1>2, ChangeType DEF Agrees, Removed

\* A step of extract_batch's loop keeps the invariant of every note: one the
\* batch is not about is left alone, and the last change about one decides.
LEMMA ExtractNote ==
  ASSUME TypeOK, PhaseInv, ExtractStep, NEW p \in Notes, NoteInv(p)
  PROVE  NoteInv(p)'
<1>0. p \in Files /\ p \notin Hidden
  BY VaultSyncAssumption DEF Files
<1>1. stage \in {"extract", "stat"}
  BY DEF ExtractStep, SkipChange, FailChange, ReadChange, StatChange
<1>2. /\ batch \in Batches /\ batch.changes \in Seq(Changes) /\ Len(batch.changes) \in Nat
      /\ pos \in 1..Len(batch.changes) /\ DOMAIN batch.changes = 1..Len(batch.changes)
      /\ batch.changes[pos] \in Changes
  BY <1>1, CurrentChange
<1>3. PICK c \in Changes : c = batch.changes[pos]
  BY <1>2
<1>4. BatchStepFrame /\ rows' = rows
  <2>1. batch'.changes = batch.changes /\ batch'.overtaken = batch.overtaken
    BY <1>2 DEF ExtractStep, SkipChange, FailChange, ReadChange, StatChange, Batches
  <2>2. Compiling /\ Compiling'
    BY <1>1 DEF ExtractStep, SkipChange, FailChange, ReadChange, StatChange, NextChange, Compiling
  <2>. QED BY <2>1, <2>2 DEF BatchStepFrame, ExtractStep, SkipChange, FailChange, ReadChange,
             StatChange, vaultVars, scanVars, historyVars
<1>5. /\ proc = "running" /\ (Waiting(p)' <=> Waiting(p)) /\ ChangesAgree(p)' /\ ScanInv(p)'
  BY <1>4, BatchFrame
<1>6. p \notin Touched(c) => cache'[p] = cache[p] /\ (p \in batch'.failed <=> p \in batch.failed)
  <2>1. c.path \in Touched(c) /\ Removed(c) \subseteq Touched(c)
    BY ChangeType
  <2>2. p \notin Touched(c) => cache'[p] = cache[p]
    BY <1>0, <1>3, CacheStep
  <2>3. batch'.failed \in {batch.failed, batch.failed \ Removed(c),
           (batch.failed \ Removed(c)) \cup {c.path}, batch.failed \ (Removed(c) \cup {c.path})}
    BY <1>2, <1>3 DEF ExtractStep, SkipChange, FailChange, ReadChange, StatChange, Batches
  <2>. QED BY <2>1, <2>2, <2>3
<1>7. RestInv(p)' /\ SnapInv(p)'
  <2>1. p \notin TouchedBy(batch.changes) => p \notin Touched(c)
    BY <1>2, <1>3, InTouchedBy
  <2>. QED BY <1>4, <1>5, <1>6, <2>1 DEF NoteInv, RestInv, SnapInv, Extracted, BatchStepFrame
<1>8. NoEntry.content = 0
  BY DEF NoEntry
<1>9. ASSUME ~Waiting(p), p \notin batch.overtaken, LastFor(batch.changes, pos, p)
      PROVE  p \in Touched(c) /\ Agrees(c, p, vault[p])
  BY <1>2, <1>3, <1>4, <1>9 DEF NoteInv, ChangesAgree, LastAgrees, LastFor, BatchStepFrame
<1>10. ExtractInv(p)'
  <2>. SUFFICES ASSUME p \in TouchedBy(batch.changes), ~Waiting(p), p \notin batch.overtaken,
                       p \notin batch'.failed,
                       stage' \in {"extract", "stat"} => Behind(batch.changes, pos', p)
                PROVE  cache'[p].content = vault[p]
    BY <1>4, <1>5 DEF ExtractInv, BatchStepFrame
  <2>1. CASE p \notin Touched(c) /\ Behind(batch.changes, pos, p)
    BY <1>1, <1>4, <1>6, <2>1 DEF NoteInv, ExtractInv, BatchStepFrame
  <2>2. CASE ReadChange
    <3>1. Behind(batch.changes, pos, p)
      BY <2>2 DEF ReadChange
    <3>2. p \notin Touched(c)
      BY <1>2, <1>3, <3>1 DEF Behind
    <3>. QED BY <2>1, <3>1, <3>2
  <2>3. CASE ~ReadChange
    <3>1. NextChange("sync")
      BY <2>3 DEF ExtractStep, SkipChange, FailChange, StatChange
    <3>2. pos < Len(batch.changes) => Behind(batch.changes, pos + 1, p)
      BY <1>1, <3>1 DEF NextChange
    <3>3. CASE p \notin Touched(c)
      BY <1>2, <1>3, <2>1, <3>2, <3>3, LoopStep
    <3>4. CASE p \in Touched(c)
      <4>1. LastFor(batch.changes, pos, p)
        BY <1>2, <1>3, <3>2, <3>4, LoopStep
      <4>2. Agrees(c, p, vault[p])
        BY <1>9, <4>1
      <4>3. /\ vault[p] # 0 => c.path = p /\ c.kind # "DELETED"
            /\ vault[p] = 0 => p \in Removed(c)
            /\ p # c.path => p \in Removed(c) /\ vault[p] = 0
        BY <3>4, <4>2, AgreementMeans
      <4>4. CASE SkipChange
        <5>1. ~Extractable(c) /\ ~StatChange
          BY <1>3, <4>4 DEF SkipChange, StatChange
        <5>2. vault[p] = 0
          BY <1>0, <4>3, <5>1 DEF Extractable
        <5>. QED BY <1>0, <1>3, <1>8, <4>3, <5>1, <5>2, CacheStep
      <4>5. CASE FailChange
        <5>1. p # c.path /\ ~StatChange
          BY <1>2, <1>3, <4>5 DEF FailChange, StatChange, Batches
        <5>. QED BY <1>0, <1>3, <1>8, <4>3, <5>1, CacheStep
      <4>6. CASE StatChange
        <5>1. IF c.path = p THEN readFile = vault[p] ELSE cache[p].content = vault[p]
          BY <1>3, <4>1, <4>6 DEF NoteInv, ReadInv, StatChange
        <5>. QED BY <1>0, <1>3, <4>6, <5>1, CacheStep
      <4>. QED BY <2>3, <4>4, <4>5, <4>6 DEF ExtractStep
    <3>. QED BY <3>3, <3>4
  <2>. QED BY <2>2, <2>3
<1>11. ReadInv(p)'
  <2>. SUFFICES ASSUME stage' = "stat", LastFor(batch.changes, pos', p), ~Waiting(p),
                       p \notin batch.overtaken
                PROVE  IF batch.changes[pos'].path = p
                         THEN readFile' = vault[p] ELSE cache'[p].content = vault[p]
    BY <1>4, <1>5 DEF ReadInv, BatchStepFrame
  <2>1. ReadChange
    BY DEF ExtractStep, SkipChange, FailChange, StatChange, NextChange
  <2>2. pos' = pos /\ readFile' = vault[c.path] /\ ~StatChange
    BY <1>3, <2>1 DEF ReadChange, StatChange
  <2>3. p \in Touched(c) /\ Agrees(c, p, vault[p])
    BY <1>9, <2>2
  <2>4. p # c.path => p \in Removed(c) /\ vault[p] = 0
    BY <2>3, AgreementMeans
  <2>. QED BY <1>0, <1>3, <1>8, <2>2, <2>4, CacheStep
<1>12. RowsInv(p)'
  <2>1. stage' \in {"extract", "stat", "sync"} /\ (stage' = "sync" => pos' = 1)
    BY <1>1 DEF ExtractStep, SkipChange, FailChange, ReadChange, StatChange, NextChange
  <2>2. p \in TouchedBy(batch.changes) => ~Behind(batch.changes, 1, p)
    BY <1>2, InTouchedBy DEF Behind
  <2>3. rows' = index'
    BY <1>1, <1>4 DEF PhaseInv, BatchStepFrame
  <2>. QED BY <1>1, <1>4, <1>5, <2>1, <2>2, <2>3 DEF NoteInv, RowsInv, BatchStepFrame
<1>. QED BY <1>5, <1>7, <1>10, <1>11, <1>12 DEF NoteInv

LEMMA SyncChangeNote ==
  ASSUME TypeOK, PhaseInv, SyncChange, NEW p \in Notes, NoteInv(p)
  PROVE  NoteInv(p)'
<1>0. p \in Files /\ p \notin Hidden
  BY VaultSyncAssumption DEF Files
<1>1. stage = "sync" /\ stage' \in {"sync", "commit"} /\ batch' = batch /\ cache' = cache
  BY DEF SyncChange, NextChange
<1>2. /\ batch.changes \in Seq(Changes) /\ Len(batch.changes) \in Nat
      /\ pos \in 1..Len(batch.changes) /\ DOMAIN batch.changes = 1..Len(batch.changes)
      /\ batch.changes[pos] \in Changes
  BY <1>1, CurrentChange
<1>3. PICK c \in Changes : c = batch.changes[pos]
  BY <1>2
<1>4. BatchStepFrame
  BY <1>1 DEF BatchStepFrame, Compiling, SyncChange, vaultVars, scanVars, historyVars
<1>5. /\ proc = "running" /\ (Waiting(p)' <=> Waiting(p)) /\ ChangesAgree(p)' /\ ScanInv(p)'
  BY <1>4, BatchFrame
<1>6. RestInv(p)' /\ SnapInv(p)' /\ ExtractInv(p)' /\ ReadInv(p)'
  BY <1>1, <1>4, <1>5
     DEF NoteInv, RestInv, SnapInv, ExtractInv, ReadInv, Extracted, BatchStepFrame
<1>7. rows'[p] = IF p = c.path /\ c.kind # "DELETED" THEN vault[p]
                 ELSE IF p \in Touched(c) /\ ~(p = c.path /\ c.kind = "RENAMED") THEN None
                 ELSE rows[p]
  BY <1>0, <1>3, SyncedType DEF SyncChange
<1>8. c.path \in Touched(c)
  BY ChangeType
<1>9. p \notin TouchedBy(batch.changes) => rows'[p] = index[p]
  BY <1>1, <1>2, <1>3, <1>7, <1>8, InTouchedBy DEF NoteInv, RowsInv
<1>10. ASSUME p \in TouchedBy(batch.changes), ~Waiting(p), p \notin batch.overtaken,
              stage' = "sync" => Behind(batch.changes, pos', p)
       PROVE  RowRight(rows'[p], vault[p])
  <2>1. pos < Len(batch.changes) => Behind(batch.changes, pos + 1, p)
    BY <1>1, <1>10 DEF SyncChange, NextChange
  <2>2. CASE p \notin Touched(c)
    <3>1. Behind(batch.changes, pos, p)
      BY <1>2, <1>3, <2>1, <2>2, LoopStep
    <3>2. RowRight(rows[p], vault[p])
      BY <1>1, <1>10, <3>1 DEF NoteInv, RowsInv
    <3>. QED BY <1>7, <1>8, <2>2, <3>2
  <2>3. CASE p \in Touched(c)
    <3>1. LastFor(batch.changes, pos, p)
      BY <1>2, <1>3, <2>1, <2>3, LoopStep
    <3>2. Agrees(c, p, vault[p])
      BY <1>2, <1>3, <1>4, <1>10, <3>1
         DEF NoteInv, ChangesAgree, LastAgrees, BatchStepFrame
    <3>. QED BY <1>7, <2>3, <3>2 DEF Agrees, RowRight
  <2>. QED BY <2>2, <2>3
<1>11. RowsInv(p)'
  BY <1>1, <1>4, <1>5, <1>9, <1>10 DEF NoteInv, RowsInv, BatchStepFrame
<1>. QED BY <1>5, <1>6, <1>11 DEF NoteInv

LEMMA CommitNote ==
  ASSUME TypeOK, PhaseInv, Commit, NEW p \in Notes, NoteInv(p)
  PROVE  NoteInv(p)'
<1>1. /\ stage = "commit" /\ stage' = "publish" /\ batch' = batch /\ cache' = cache /\ pos' = pos
      /\ vault' = vault /\ proc' = proc /\ pending' = pending /\ flights' = flights
      /\ scanning' = scanning /\ toScan' = toScan /\ listed' = listed /\ readFile' = readFile
      /\ snapshot' = snapshot /\ staleGraph' = staleGraph /\ rows' = rows /\ index' = rows
      /\ staleIndex' = (staleIndex \ TouchedBy(batch.changes)) \cup batch.overtaken
  BY DEF Commit, vaultVars, scanVars
<1>2. Waiting(p)' <=> Waiting(p)
  BY <1>1 DEF Waiting
<1>3. /\ ChangesAgree(p)' /\ ScanInv(p)' /\ RestInv(p)' /\ SnapInv(p)'
      /\ ExtractInv(p)' /\ ReadInv(p)'
  BY <1>1, <1>2 DEF NoteInv, ChangesAgree, ScanInv, RestInv, SnapInv, ExtractInv, ReadInv,
       Extracted, Compiling
<1>4. RowsInv(p)'
  <2>. SUFFICES ASSUME p \notin staleIndex', ~Waiting(p)
                PROVE  RowRight(rows[p], vault[p])
    BY <1>1, <1>2 DEF RowsInv
  <2>1. CASE p \in TouchedBy(batch.changes)
    BY <1>1, <2>1 DEF NoteInv, RowsInv
  <2>2. CASE p \notin TouchedBy(batch.changes)
    BY <1>1, <2>2 DEF NoteInv, RowsInv
  <2>. QED BY <2>1, <2>2
<1>. QED BY <1>3, <1>4 DEF NoteInv

LEMMA PublishNote ==
  ASSUME TypeOK, PhaseInv, Publish, NEW p \in Notes, NoteInv(p)
  PROVE  NoteInv(p)'
<1>0. p \in Files
  BY DEF Files
<1>1. /\ stage = "publish" /\ stage' = "idle" /\ cache' = cache /\ snapshot' = Graph(cache)
      /\ vault' = vault /\ proc' = proc /\ pending' = pending /\ flights' = flights
      /\ scanning' = scanning /\ toScan' = toScan /\ listed' = listed
      /\ rows' = rows /\ index' = index /\ staleIndex' = staleIndex
  BY DEF Publish, vaultVars, scanVars
<1>2. Extracted(p)' =>
        \/ p \notin TouchedBy(batch.changes) /\ Extracted(p)
        \/ p \in TouchedBy(batch.changes) /\ p \notin batch.overtaken /\ p \notin batch.failed
  <2>1. CASE p \in TouchedBy(batch.changes)
    <3>1. staleGraph'[p] = Causes(p)
      BY <1>0, <2>1 DEF Publish
    <3>. QED BY <2>1, <3>1 DEF Causes, Extracted
  <2>2. CASE p \notin TouchedBy(batch.changes)
    <3>1. staleGraph'[p] = staleGraph[p] \ {"unpublished"}
      BY <1>0, <2>2 DEF Publish
    <3>. QED BY <2>2, <3>1 DEF Extracted
  <2>. QED BY <2>1, <2>2
<1>3. Waiting(p)' <=> Waiting(p)
  BY <1>1 DEF Waiting
<1>4. ChangesAgree(p)' /\ ExtractInv(p)' /\ ReadInv(p)' /\ RowsInv(p)'
  BY <1>1, <1>3 DEF NoteInv, ChangesAgree, ExtractInv, ReadInv, RowsInv, Compiling
<1>5. proc = "running"
  BY <1>1 DEF PhaseInv
<1>6. ScanInv(p)' /\ RestInv(p)'
  BY <1>1, <1>2, <1>3, <1>5 DEF NoteInv, ScanInv, RestInv, ExtractInv, Compiling
<1>7. SnapInv(p)'
  BY <1>0, <1>1, GraphType DEF SnapInv, TypeOK
<1>. QED BY <1>4, <1>6, <1>7 DEF NoteInv

\* A batch is abandoned: what it had extracted is in the cache, only not
\* published; what it had not come to, and the rows of all its paths unless they
\* were committed, are recorded as stale; everything else is as it was.
LEMMA RaiseNote ==
  ASSUME TypeOK, PhaseInv, BatchRaises, NEW p \in Notes, NoteInv(p)
  PROVE  NoteInv(p)'
<1>0. p \in Files
  BY DEF Files
<1>1. /\ stage \in {"stat", "sync", "commit", "publish"} /\ stage' = "idle" /\ cache' = cache
      /\ snapshot' = snapshot
      /\ vault' = vault /\ proc' = proc /\ pending' = pending /\ flights' = flights
      /\ scanning' = scanning /\ toScan' = toScan /\ listed' = listed /\ index' = index
      /\ staleIndex' = IF stage = "publish" THEN staleIndex
                       ELSE staleIndex \cup TouchedBy(batch.changes)
      /\ Compiling /\ ~Compiling'
  BY DEF BatchRaises, vaultVars, scanVars, Compiling
<1>2. /\ p \notin TouchedBy(batch.changes) => staleGraph'[p] = staleGraph[p]
      /\ p \in TouchedBy(batch.changes) =>
           staleGraph'[p] = {"unpublished"} \cup (IF p \in Unextracted THEN {"raised"} ELSE Causes(p))
  BY <1>0 DEF BatchRaises
<1>3. Waiting(p)' <=> Waiting(p)
  BY <1>1 DEF Waiting
<1>4. ChangesAgree(p)' /\ ExtractInv(p)' /\ ReadInv(p)'
  BY <1>1, <1>3 DEF NoteInv, ChangesAgree, ExtractInv, ReadInv, Compiling
<1>5. proc = "running"
  BY <1>1 DEF PhaseInv
<1>6. SnapInv(p)'
  BY <1>1, <1>2 DEF NoteInv, SnapInv
<1>7. RestInv(p)'
  <2>. SUFFICES ASSUME Extracted(p)', ~Waiting(p)
                PROVE  cache[p].content = vault[p]
    BY <1>1, <1>3 DEF RestInv
  <2>1. CASE p \notin TouchedBy(batch.changes)
    BY <1>2, <1>5, <2>1 DEF NoteInv, RestInv, Extracted
  <2>2. CASE p \in TouchedBy(batch.changes)
    <3>1. p \notin Unextracted
      BY <1>2, <2>2 DEF Extracted
    <3>2. p \notin batch.overtaken /\ p \notin batch.failed
      BY <1>2, <2>2, <3>1 DEF Extracted, Causes
    <3>3. stage = "stat" => Behind(batch.changes, pos, p)
      <4>1. SUFFICES ASSUME stage = "stat", NEW j \in DOMAIN batch.changes, j >= pos
                     PROVE  p \notin Touched(batch.changes[j])
        BY DEF Behind
      <4>2. j \in pos..Len(batch.changes)
        BY <4>1, CurrentChange
      <4>. QED BY <3>1, <4>1, <4>2 DEF Unextracted
    <3>. QED BY <1>1, <2>2, <3>2, <3>3 DEF NoteInv, ExtractInv
  <2>. QED BY <2>1, <2>2
<1>8. ScanInv(p)'
  BY <1>1, <1>5 DEF ScanInv
<1>9. RowsInv(p)'
  <2>. SUFFICES ASSUME p \notin staleIndex', ~Waiting(p)
                PROVE  RowRight(index[p], vault[p])
    BY <1>1, <1>3 DEF RowsInv
  <2>1. p \notin staleIndex /\ (stage # "publish" => p \notin TouchedBy(batch.changes))
    BY <1>1
  <2>. QED BY <1>1, <2>1 DEF NoteInv, RowsInv
<1>. QED BY <1>4, <1>6, <1>7, <1>8, <1>9 DEF NoteInv

LEMMA SaveNote ==
  ASSUME TypeOK, SaveBegin \/ SaveEnd \/ SaveRaises, NEW p \in Notes, NoteInv(p)
  PROVE  NoteInv(p)'
<1>1. /\ stage \in {"idle", "save"} /\ stage' \in {"idle", "save"} /\ cache' = cache
      /\ snapshot' = snapshot
      /\ vault' = vault /\ proc' = proc /\ pending' = pending /\ flights' = flights
      /\ scanning' = scanning /\ toScan' = toScan /\ listed' = listed
      /\ rows' = rows /\ index' = index /\ staleIndex' = staleIndex /\ staleGraph' = staleGraph
  BY DEF SaveBegin, SaveEnd, SaveRaises, vaultVars, scanVars, historyVars
<1>2. Waiting(p)' <=> Waiting(p)
  BY <1>1 DEF Waiting
<1>. QED BY <1>1, <1>2 DEF NoteInv, ChangesAgree, ScanInv, RestInv, SnapInv, ExtractInv, ReadInv,
       RowsInv, Extracted, Compiling

-----------------------------------------------------------------------------
(* The process ends, and cold start *)

\* Nothing is on its way, before and after the step.
LEMMA Still ==
  ASSUME pending' = <<>>, flights' = <<>>, stage' = "idle", NEW p \in Notes
  PROVE  ~Waiting(p)' /\ ~Compiling' /\ ChangesAgree(p)' /\ ExtractInv(p)' /\ ReadInv(p)'
<1>1. ~Waiting(p)' /\ ~Compiling'
  BY NoneTouched DEF Waiting, Compiling
<1>. QED BY <1>1 DEF ChangesAgree, LastAgrees, ExtractInv, ReadInv

\* What was on its way never reaches the index: its paths are recorded as stale.
LEMMA EndsNote ==
  ASSUME TypeOK, PhaseInv, Ends, proc' = "down", NEW p \in Notes, NoteInv(p)
  PROVE  NoteInv(p)'
<1>1. /\ pending' = <<>> /\ flights' = <<>> /\ stage' = "idle"
      /\ vault' = vault /\ index' = index
  BY DEF Ends, vaultVars
<1>2. ASSUME p \notin staleIndex'
      PROVE  /\ p \notin staleIndex /\ ~Waiting(p)
             /\ stage \in {"extract", "stat", "sync", "commit"} => p \notin TouchedBy(batch.changes)
  <2>1. /\ p \notin staleIndex /\ p \notin TouchedBy(pending)
        /\ p \notin UNION {TouchedBy(flights[i].changes) : i \in DOMAIN flights}
        /\ stage \in {"extract", "stat", "sync", "commit"} => p \notin TouchedBy(batch.changes)
    BY <1>2 DEF Ends
  <2>. QED BY <2>1 DEF Waiting
<1>3. RowsInv(p)'
  BY <1>1, <1>2 DEF NoteInv, RowsInv
<1>4. ScanInv(p)' /\ RestInv(p)' /\ SnapInv(p)'
  BY DEF ScanInv, RestInv, SnapInv
<1>. QED BY <1>1, <1>3, <1>4, Still DEF NoteInv

\* A step of cold start changes neither the vault, the index nor what is queued.
LEMMA ColdFrame ==
  ASSUME TypeOK, PhaseInv, ColdStep, NEW p \in Notes, NoteInv(p)
  PROVE  /\ vault' = vault /\ proc # "running"
         /\ ~Waiting(p)' /\ ~Compiling' /\ ~Waiting(p) /\ ~Compiling
         /\ ChangesAgree(p)' /\ ExtractInv(p)' /\ ReadInv(p)' /\ RowsInv(p)'
<1>1. /\ vault' = vault /\ index' = index /\ staleIndex' = staleIndex
      /\ pending' = pending /\ flights' = flights /\ stage' = stage
  BY DEF ColdStep, LoadFails, StartScan, ScanSkip, ScanStat, ScanExtract, ScanFails,
         PublishInitial, StartWatcher, vaultVars, batchVars, historyVars
<1>2. proc # "running"
  BY DEF PhaseInv, ColdStep, LoadFails, StartScan, ScanSkip, ScanStat, ScanExtract, ScanFails,
         PublishInitial, StartWatcher
<1>3. pending = <<>> /\ flights = <<>> /\ stage = "idle"
  BY <1>2 DEF PhaseInv
<1>4. ~Waiting(p) /\ ~Compiling
  BY <1>3, NoneTouched DEF Waiting, Compiling
<1>5. /\ ~Waiting(p)' /\ ~Compiling' /\ ChangesAgree(p)' /\ ExtractInv(p)' /\ ReadInv(p)'
  BY <1>1, <1>3, Still
<1>6. RowsInv(p)'
  BY <1>1, <1>3, <1>4 DEF NoteInv, RowsInv
<1>. QED BY <1>1, <1>2, <1>4, <1>5, <1>6

LEMMA ColdNote ==
  ASSUME TypeOK, PhaseInv, ColdStep, NEW p \in Notes, NoteInv(p)
  PROVE  NoteInv(p)'
<1>0. p \in Files /\ cache \in Entries /\ NoEntry.content = 0
  BY DEF Files, TypeOK, NoEntry
<1>1. /\ vault' = vault /\ proc # "running"
      /\ ~Waiting(p)' /\ ~Compiling' /\ ~Waiting(p) /\ ~Compiling
      /\ ChangesAgree(p)' /\ ExtractInv(p)' /\ ReadInv(p)' /\ RowsInv(p)'
  BY ColdFrame
<1>2. ScanInv(p) /\ RestInv(p) /\ SnapInv(p)
  BY DEF NoteInv
<1>3. SnapInv(p)'
  <2>1. CASE PublishInitial
    <3>1. cache' \in Entries /\ snapshot' = Graph(cache')
      BY <1>0, <2>1, DropType DEF PublishInitial, Forget
    <3>. QED BY <1>0, <3>1, GraphType DEF SnapInv
  <2>2. CASE StartWatcher
    BY <1>1, <1>2, <2>2 DEF StartWatcher, SnapInv, historyVars
  <2>3. CASE ~PublishInitial /\ ~StartWatcher
    <3>1. proc' \notin {"published", "running"}
      BY <2>3 DEF ColdStep, LoadFails, StartScan, ScanSkip, ScanStat, ScanExtract, ScanFails, PhaseInv
    <3>. QED BY <3>1 DEF SnapInv
  <2>. QED BY <2>1, <2>2, <2>3
<1>. SUFFICES ScanInv(p)' /\ RestInv(p)'
  BY <1>1, <1>3 DEF NoteInv
<1>4. CASE LoadFails
  BY <1>4 DEF LoadFails, ScanInv, RestInv
<1>5. CASE StartScan
  <2>1. proc' = "cold" /\ scanning' = None /\ toScan' = listed' /\ (p \notin listed' => vault[p] = 0)
    BY <1>5 DEF StartScan, PhaseInv
  <2>. QED BY <1>1, <2>1 DEF ScanInv, RestInv
<1>6. ASSUME NEW q \in Notes, ScanSkip(q)
      PROVE  ScanInv(p)' /\ RestInv(p)'
  <2>1. /\ proc = "cold" /\ proc' = proc /\ cache' = cache /\ listed' = listed
        /\ scanning = None /\ scanning' = None /\ toScan' = toScan \ {q} /\ q \in listed
    BY <1>6 DEF ScanSkip, PhaseInv, TypeOK
  <2>2. CASE p = q
    <3>1. Extracted(p)' => cache[p].content = vault[p]
      BY <1>0, <1>6, <2>2 DEF ScanSkip, TypeOK, Extracted
    <3>. QED BY <1>1, <2>1, <2>2, <3>1 DEF ScanInv, RestInv
  <2>3. CASE p # q
    <3>1. staleGraph'[p] = staleGraph[p]
      BY <1>0, <1>6, <2>3 DEF ScanSkip, TypeOK
    <3>. QED BY <1>1, <1>2, <2>1, <2>3, <3>1 DEF ScanInv, RestInv, Extracted
  <2>. QED BY <2>2, <2>3
<1>7. ASSUME NEW q \in Notes, ScanStat(q)
      PROVE  ScanInv(p)' /\ RestInv(p)'
  <2>1. /\ proc = "cold" /\ proc' = proc /\ cache' = cache /\ listed' = listed
        /\ staleGraph' = staleGraph
        /\ scanning = None /\ scanning' = [path |-> q, mtime |-> vault[q]]
        /\ toScan' = toScan \ {q} /\ vault[q] # 0
    BY <1>7 DEF ScanStat, PhaseInv, historyVars
  <2>2. scanning'.path = q /\ scanning' # None
    <3>1. vault[q] \in Nat
      BY InitialIsNat, VaultSyncAssumption DEF TypeOK, Versions, Files
    <3>. QED BY <2>1, <3>1, VaultSyncAssumption
  <2>. QED BY <1>1, <1>2, <2>1, <2>2 DEF ScanInv, RestInv, Extracted
<1>8. CASE ScanExtract
  <2>1. PICK q \in Notes : q = scanning.path /\ q \in listed /\ q \in Files
    BY <1>8 DEF ScanExtract, PhaseInv, TypeOK, Files
  <2>2. /\ proc = "cold" /\ proc' = proc /\ listed' = listed /\ toScan' = toScan
        /\ staleGraph' = staleGraph /\ scanning # None /\ scanning' = None
    BY <1>8 DEF ScanExtract, PhaseInv, historyVars
  <2>3. /\ p = q /\ vault[p] # 0 => cache'[p].content = vault[p]
        /\ p # q => cache'[p] = cache[p]
    <3>1. vault[q] \in Versions /\ scanning.mtime \in Versions
      BY <1>8, <2>1 DEF ScanExtract, TypeOK
    <3>2. cache' = IF vault[q] = 0 THEN cache ELSE SetEntry(cache, q, vault[q], scanning.mtime)
      BY <1>8, <2>1 DEF ScanExtract
    <3>. QED BY <1>0, <2>1, <3>1, <3>2, SetEntryType
  <2>. QED BY <1>1, <1>2, <2>1, <2>2, <2>3 DEF ScanInv, RestInv, Extracted
<1>9. CASE ScanFails
  <2>1. PICK q \in Notes : q = scanning.path
    BY <1>9 DEF ScanFails, TypeOK
  <2>2. /\ proc = "cold" /\ proc' = proc /\ listed' = listed /\ toScan' = toScan
        /\ cache' = cache /\ scanning' = None
    BY <1>9 DEF ScanFails, PhaseInv
  <2>3. IF p = q THEN ~Extracted(p)' ELSE staleGraph'[p] = staleGraph[p]
    BY <1>0, <1>9, <2>1 DEF ScanFails, TypeOK, Extracted
  <2>. QED BY <1>1, <1>2, <2>1, <2>2, <2>3 DEF ScanInv, RestInv, Extracted
<1>10. CASE PublishInitial
  <2>1. /\ proc = "cold" /\ proc' = "published" /\ toScan = {} /\ scanning = None
        /\ staleGraph' = staleGraph
    BY <1>10 DEF PublishInitial, historyVars
  <2>2. cache'[p] = IF p \in listed THEN cache[p] ELSE NoEntry
    BY <1>0, <1>10, DropType DEF PublishInitial, Forget
  <2>. QED BY <1>0, <1>1, <1>2, <2>1, <2>2 DEF ScanInv, RestInv, Extracted
<1>11. CASE StartWatcher
  <2>1. proc = "published" /\ proc' = "running" /\ cache' = cache /\ staleGraph' = staleGraph
    BY <1>11 DEF StartWatcher, historyVars
  <2>. QED BY <1>1, <1>2, <2>1 DEF ScanInv, RestInv, Extracted
<1>. QED BY <1>4, <1>5, <1>6, <1>7, <1>8, <1>9, <1>10, <1>11 DEF ColdStep

-----------------------------------------------------------------------------
(* The inductive invariant and what follows from it *)

LEMMA NoteStep ==
  ASSUME TypeOK, PhaseInv, [Next]_vars, NEW p \in Notes, NoteInv(p)
  PROVE  NoteInv(p)'
<1>1. CASE EditStep
  BY <1>1, EditIsEdited, EditElsewhere, EditOf
<1>2. CASE TakeBatch
  BY <1>2, TakeBatchNote
<1>3. CASE \E i \in DOMAIN flights : StartCompile(i)
  BY <1>3, StartCompileNote
<1>4. CASE ExtractStep
  BY <1>4, ExtractNote
<1>5. CASE SyncChange
  BY <1>5, SyncChangeNote
<1>6. CASE Commit
  BY <1>6, CommitNote
<1>7. CASE Publish
  BY <1>7, PublishNote
<1>8. CASE BatchRaises
  BY <1>8, RaiseNote
<1>9. CASE SaveBegin \/ SaveEnd \/ SaveRaises
  BY <1>9, SaveNote
<1>10. CASE ProcessEnds \/ (\E q \in Notes : ScanRaises(q))
  BY <1>10, EndsNote DEF ProcessEnds, ScanRaises
<1>11. CASE ColdStep
  BY <1>11, ColdNote
<1>12. CASE UNCHANGED vars
  BY <1>12 DEF vars, vaultVars, batchVars, scanVars, historyVars, NoteInv, ChangesAgree, Waiting,
               Compiling, ScanInv, RestInv, SnapInv, ExtractInv, ReadInv, RowsInv, Extracted
<1>. QED BY <1>1, <1>2, <1>3, <1>4, <1>5, <1>6, <1>7, <1>8, <1>9, <1>10, <1>11, <1>12
         DEF Next, EditStep, ExtractStep, ColdStep

LEMMA SyncInit == Init => SyncInv
<1>. SUFFICES ASSUME Init PROVE SyncInv
  OBVIOUS
<1>1. TypeOK
  BY TypeInit
<1>2. PhaseInv
  BY DEF Init, PhaseInv
<1>3. ExcludedStaysOut
  <2>1. \A h \in Hidden : EmptyCache[h] = NoEntry /\ Graph(EmptyCache)[h] = 0
    BY EmptyCacheType, GraphType DEF Files, NoEntry
  <2>2. /\ cache = EmptyCache /\ cacheFile.entries = EmptyCache /\ snapshot = Graph(EmptyCache)
        /\ index = [p \in Files |-> None] /\ rows = index
    BY DEF Init
  <2>. QED BY <2>1, <2>2 DEF ExcludedStaysOut, Files
<1>4. ASSUME NEW p \in Notes PROVE NoteInv(p)
  <2>1. pending = <<>> /\ flights = <<>> /\ stage = "idle" /\ proc = "down"
    BY DEF Init
  <2>2. ~Waiting(p) /\ ~Compiling
    BY <2>1, NoneTouched DEF Waiting, Compiling
  <2>3. p \notin staleIndex => RowRight(index[p], vault[p])
    BY DEF Init, RowRight, Files
  <2>. QED BY <2>1, <2>2, <2>3
         DEF NoteInv, ChangesAgree, LastAgrees, ScanInv, RestInv, SnapInv, ExtractInv, ReadInv,
             RowsInv
<1>. QED BY <1>1, <1>2, <1>3, <1>4 DEF SyncInv

LEMMA SyncStep == SyncInv /\ [Next]_vars => SyncInv'
<1>. SUFFICES ASSUME SyncInv, [Next]_vars PROVE SyncInv'
  OBVIOUS
<1>1. TypeOK /\ PhaseInv /\ ExcludedStaysOut
  BY DEF SyncInv
<1>2. TypeOK'
  BY <1>1, TypeStep
<1>3. PhaseInv' /\ ExcludedStaysOut'
  BY <1>1, <1>2, PhaseStep, HiddenStep
<1>4. \A p \in Notes : NoteInv(p)'
  BY <1>1, NoteStep DEF SyncInv
<1>. QED BY <1>2, <1>3, <1>4 DEF SyncInv

\* In every state the newest change about a note agrees with the vault unless
\* it was overtaken, what is behind the loops of extract_batch and sync_batch is
\* as in the vault, a batch that raises leaves wrong only what it names, and
\* nothing of an excluded path is in any copy.
THEOREM SyncInvariant == Spec => []SyncInv
  BY SyncInit, SyncStep, PTL DEF Spec

\* Neither extract_batch nor sync_batch nor the cold-start scan ever leaves
\* anything under an excluded path in the cache, graph_cache.json, the graph or
\* the index.
THEOREM ExclusionHolds == Spec => []ExcludedStaysOut
<1>1. SyncInv => ExcludedStaysOut
  BY DEF SyncInv
<1>. QED BY <1>1, SyncInvariant, PTL

\* Once nothing is on its way the published graph has exactly the vault's
\* files, with their last content, except for paths the history variable names:
\* extract_batch and cold_start lose no edit, whatever interleaves with them,
\* and a batch that raises costs only its own paths, and those it had extracted
\* only until the next batch is published.
THEOREM GraphIsCurrent == Spec => []GraphFollowsVault
<1>1. SyncInv => GraphFollowsVault
  <2>. SUFFICES ASSUME SyncInv, Quiescent, NEW p \in Files, staleGraph[p] = {}
                PROVE  GraphRight(p)
    BY DEF GraphFollowsVault
  <2>1. CASE p \in Hidden
    BY <2>1 DEF SyncInv, ExcludedStaysOut, GraphRight, Expected
  <2>2. CASE p \notin Hidden
    <3>1. p \in Notes
      BY <2>2 DEF Files
    <3>2. ~Waiting(p) /\ ~Compiling
      BY NoneTouched DEF Quiescent, Waiting, Compiling
    <3>3. cache[p].content = vault[p]
      BY <3>1, <3>2 DEF SyncInv, NoteInv, RestInv, Extracted, Quiescent
    <3>4. snapshot[p] = cache[p].content
      BY <3>1, <3>2 DEF SyncInv, NoteInv, SnapInv, Quiescent
    <3>. QED BY <2>2, <3>3, <3>4 DEF GraphRight, Expected
  <2>. QED BY <2>1, <2>2
<1>. QED BY <1>1, SyncInvariant, PTL

\* Once nothing is on its way vault_index.db has a row for exactly the vault's
\* files, with their mtimes, except for paths the history variable names:
\* the edits under sync_batch's transaction lose nothing, and one rolled back,
\* whether sync_batch raised or the process ended, costs only its own paths.
THEOREM IndexIsCurrent == Spec => []IndexFollowsVault
<1>1. SyncInv => IndexFollowsVault
  <2>. SUFFICES ASSUME SyncInv, Quiescent, NEW p \in Files \ staleIndex
                PROVE  IndexRight(p)
    BY DEF IndexFollowsVault
  <2>1. CASE p \in Hidden
    BY <2>1 DEF SyncInv, ExcludedStaysOut, IndexRight, Expected
  <2>2. CASE p \notin Hidden
    <3>1. p \in Notes
      BY <2>2 DEF Files
    <3>2. ~Waiting(p) /\ stage = "idle"
      BY NoneTouched DEF Quiescent, Waiting
    <3>3. RowRight(index[p], vault[p])
      BY <3>1, <3>2 DEF SyncInv, NoteInv, RowsInv
    <3>. QED BY <2>2, <3>3 DEF IndexRight, RowRight, Expected
  <2>. QED BY <2>1, <2>2
<1>. QED BY <1>1, SyncInvariant, PTL

=============================================================================
