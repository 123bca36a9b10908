------------------------------ MODULE VaultSync ------------------------------
(***************************************************************************)
(* What the daemon's copies of the vault hold, and when: the extraction    *)
(* cache, vault_index.db, the published snapshot and graph_cache.json,     *)
(* through live batches (extract_batch, sync_batch, publish), exceptions   *)
(* that abandon a batch, the process ending at any point, and cold start   *)
(* (load, mtime-diffed scan, publish).                                     *)
(*                                                                         *)
(* A file is the number of the write that produced it, 0 where there is    *)
(* none.  The number stands for its content and for its mtime: a write     *)
(* gives a new one of both, a move carries both along.  The watcher is     *)
(* what ChangeBatcher promises: changes are taken in order, in batches;    *)
(* but a batch taken by a flush thread waits for the coordinator's lock,   *)
(* and the lock is not first come, first served.                           *)
(***************************************************************************)
EXTENDS Naturals, Sequences, FiniteSets, SequencesExt

CONSTANTS
  Notes,        \* paths in the observed scope
  Hidden,       \* excluded paths
  None,
  MaxEdits,     \* bound: changes made to the vault
  MaxStarts,    \* bound: times the daemon is started
  MaxFlights    \* bound: flush threads waiting for the lock

ASSUME VaultSyncAssumption ==
  /\ Notes \cap Hidden = {}
  /\ None \notin Notes \cup Hidden \cup [path : Notes, mtime : Nat]
  /\ IsFiniteSet(Notes \cup Hidden)
  /\ MaxEdits \in Nat /\ MaxStarts \in Nat /\ MaxFlights \in Nat \ {0}

Files == Notes \cup Hidden

VARIABLES
  vault,       \* the file at each path
  edits,       \* number of the last change; a write gives it to its file
  proc,        \* "down", "refused", "cold", "published" or "running"
  starts,      \* times started
  pending,     \* changes queued in the watcher
  flights,     \* batches taken and waiting for the lock, oldest first
  batch,       \* the batch that is compiled
  pos,         \* its change that is extracted or synced
  stage,       \* what the holder of the lock does
  readFile,    \* content the extractor has read, before stat
  cache,       \* ExtractionCache: content and mtime of each entry, 0 for none
  index,       \* vault_index.db: mtime in each row, None for no row
  rows,        \* the same as the open transaction sees it
  snapshot,    \* content of each file in the published graph
  cacheFile,   \* graph_cache.json: "absent", "torn" or "good", and its entries
  listed,      \* cold start: paths the directory listing gave
  toScan,      \* cold start: those not looked at yet
  scanning,    \* cold start: path and mtime of the file between stat and extraction
  staleGraph,  \* history: why the graph may be wrong about a path
  staleIndex   \* history: paths whose row may be wrong

vaultVars == <<vault, edits>>
batchVars == <<pending, flights, batch, pos, stage, readFile>>
scanVars == <<listed, toScan, scanning>>
historyVars == <<staleGraph, staleIndex>>
vars == <<vaultVars, proc, starts, batchVars, cache, index, rows, snapshot, cacheFile,
          scanVars, historyVars>>

-----------------------------------------------------------------------------
Change(kind, p, previous) == [kind |-> kind, path |-> p, previous |-> previous]

Touched(c) == {c.path, c.previous} \cap Files
TouchedBy(changes) == UNION {Touched(changes[i]) : i \in DOMAIN changes}

NoEntry == [content |-> 0, mtime |-> 0]
EmptyCache == [p \in Files |-> NoEntry]

\* ExtractionCache.delete for each of the paths
Drop(entries, paths) == [p \in Files |-> IF p \in paths THEN NoEntry ELSE entries[p]]

\* ExtractionCache.set: an mtime of None (here 0) keeps the one recorded before.
SetEntry(entries, p, content, mtime) ==
  [entries EXCEPT ![p] =
     [content |-> content, mtime |-> IF mtime = 0 THEN @.mtime ELSE mtime]]

\* build_graph over the cache's entries
Graph(entries) == [p \in Files |-> entries[p].content]

-----------------------------------------------------------------------------
Initial == Cardinality(Files)

\* Files of earlier days, no two of them alike
InitialVaults ==
  {f \in [Files -> 0..Initial] :
     /\ \A p, q \in Files : f[p] = f[q] /\ f[p] # 0 => p = q
     /\ \A p \in Files : \A n \in 1..f[p] : \E q \in Files : f[q] = n}

\* The daemon has never run.
Init ==
  /\ vault \in InitialVaults /\ edits = Initial
  /\ proc = "down" /\ starts = 0
  /\ pending = <<>> /\ flights = <<>> /\ batch = <<>> /\ pos = 1
  /\ stage = "idle" /\ readFile = 0
  /\ cache = EmptyCache /\ snapshot = Graph(EmptyCache)
  /\ index = [p \in Files |-> None] /\ rows = index
  /\ cacheFile = [status |-> "absent", entries |-> EmptyCache]
  /\ listed = {} /\ toScan = {} /\ scanning = None
  /\ staleGraph = [p \in Files |-> {}]
  /\ staleIndex = {p \in Notes : vault[p] # 0}

-----------------------------------------------------------------------------
(* The vault changes; watchdog reports it once the watcher has started *)

\* on_any_event's filter: only a move may name an excluded path.
Reported(c) == c.kind = "RENAMED" \/ c.path \notin Hidden

\* A change the watcher does not see and the scan will not: the graph is stale
\* about it (a file being rewritten under the scan is read after the change).
UnseenBy(c) ==
  IF proc \in {"cold", "published"}
    THEN {p \in Touched(c) : /\ p \notin toScan
                             /\ scanning # None /\ scanning.path = p => vault'[p] = 0}
    ELSE {}

VaultChange(c) ==
  /\ edits < Initial + MaxEdits
  /\ edits' = edits + 1
  /\ pending' = IF proc = "running" /\ Reported(c) THEN Append(pending, c) ELSE pending
  /\ staleGraph' = [p \in Files |->
       IF p \in UnseenBy(c) THEN staleGraph[p] \cup {"unseen"} ELSE staleGraph[p]]
  /\ staleIndex' = IF proc = "running" THEN staleIndex ELSE staleIndex \cup Touched(c)
  /\ UNCHANGED <<proc, starts, flights, batch, pos, stage, readFile, cache, index, rows,
                 snapshot, cacheFile, scanVars>>

Write(p) ==
  /\ vault' = [vault EXCEPT ![p] = edits + 1]
  /\ VaultChange(Change(IF vault[p] = 0 THEN "CREATED" ELSE "MODIFIED", p, None))

Delete(p) ==
  /\ vault[p] # 0
  /\ vault' = [vault EXCEPT ![p] = 0]
  /\ VaultChange(Change("DELETED", p, None))

Move(p, q) ==
  /\ p # q
  /\ vault[p] # 0
  /\ vault' = [vault EXCEPT ![p] = 0, ![q] = vault[p]]
  /\ VaultChange(Change("RENAMED", q, p))

-----------------------------------------------------------------------------
(* Batches *)

\* _flush takes what is pending and waits for the coordinator's lock
TakeBatch ==
  /\ proc = "running"
  /\ pending # <<>>
  /\ Len(flights) < MaxFlights
  /\ flights' = Append(flights, [changes |-> pending, overtaken |-> {}, failed |-> {}])
  /\ pending' = <<>>
  /\ UNCHANGED <<vaultVars, proc, starts, batch, pos, stage, readFile, cache, index, rows,
                 snapshot, cacheFile, scanVars, historyVars>>

\* A waiting flush thread gets the lock, not always the one that waits longest;
\* the batches it passes remember which of their files it compiled before them.
StartCompile(i) ==
  /\ proc = "running"
  /\ stage = "idle"
  /\ batch' = flights[i]
  /\ flights' = RemoveAt([j \in DOMAIN flights |->
                            IF j < i
                              THEN [flights[j] EXCEPT !.overtaken = @ \cup
                                      (TouchedBy(flights[i].changes)
                                         \cap TouchedBy(flights[j].changes))]
                              ELSE flights[j]], i)
  /\ pos' = 1
  /\ stage' = "extract"
  /\ UNCHANGED <<vaultVars, proc, starts, pending, readFile, cache, index, rows, snapshot,
                 cacheFile, scanVars, historyVars>>

\* Mutated form of NextChange: one change too many.
NextChangeTooFar(after) ==
  IF pos <= Len(batch.changes)
    THEN pos' = pos + 1 /\ UNCHANGED stage
    ELSE pos' = 1 /\ stage' = after

\* The loop over batch.changes goes on to the next change, or is over.
NextChange(after) ==
  IF pos < Len(batch.changes)
    THEN pos' = pos + 1 /\ stage' = IF stage = "stat" THEN "extract" ELSE stage
    ELSE pos' = 1 /\ stage' = after

\* Mutated form of Removed: the source of a move stays in the cache.
RemovedNoSource(c) == IF c.kind = "DELETED" THEN {c.path} ELSE {}

\* What a change removes from the cache before anything is extracted
Removed(c) ==
  CASE c.kind = "DELETED" -> {c.path}
    [] c.kind = "RENAMED" -> {c.previous}
    [] OTHER -> {}

\* Mutated form of Extractable: a move into an excluded path is extracted.
ExtractableAnywhere(c) == c.kind # "DELETED" /\ vault[c.path] # 0

\* Something has to be extracted for the change, and the file is there to read.
Extractable(c) ==
  /\ c.kind # "DELETED"
  /\ ~(c.kind = "RENAMED" /\ c.path \in Hidden)
  /\ vault[c.path] # 0

\* A change that needs no extraction, or whose file is not there any more: the
\* prior entry, if any, is left unchanged.
SkipChange ==
  /\ stage = "extract"
  /\ LET c == batch.changes[pos] IN
       /\ ~Extractable(c)
       /\ cache' = Drop(cache, Removed(c))
       /\ batch' = [batch EXCEPT !.failed = @ \ Removed(c)]
  /\ NextChange("sync")
  /\ UNCHANGED <<vaultVars, proc, starts, pending, flights, readFile, index, rows, snapshot,
                 cacheFile, scanVars, historyVars>>

\* The extractor fails on a file that is there; the batch goes on without it.
FailChange ==
  /\ stage = "extract"
  /\ LET c == batch.changes[pos] IN
       /\ Extractable(c)
       /\ cache' = Drop(cache, Removed(c))
       /\ batch' = [batch EXCEPT !.failed = (@ \ Removed(c)) \cup {c.path}]
  /\ NextChange("sync")
  /\ UNCHANGED <<vaultVars, proc, starts, pending, flights, readFile, index, rows, snapshot,
                 cacheFile, scanVars, historyVars>>

\* The extractor reads the file ...
ReadChange ==
  /\ stage = "extract"
  /\ LET c == batch.changes[pos] IN
       /\ Extractable(c)
       /\ cache' = Drop(cache, Removed(c))
       /\ batch' = [batch EXCEPT !.failed = @ \ (Removed(c) \cup {c.path})]
       /\ readFile' = vault[c.path]
  /\ stage' = "stat"
  /\ UNCHANGED <<vaultVars, proc, starts, pending, flights, pos, index, rows, snapshot,
                 cacheFile, scanVars, historyVars>>

\* ... and its mtime is asked for afterwards.
StatChange ==
  /\ stage = "stat"
  /\ LET p == batch.changes[pos].path IN cache' = SetEntry(cache, p, readFile, vault[p])
  /\ readFile' = 0
  /\ NextChange("sync")
  /\ UNCHANGED <<vaultVars, proc, starts, pending, flights, batch, index, rows, snapshot,
                 cacheFile, scanVars, historyVars>>

\* Mutated form of Synced: the source of a move keeps its row.
SyncedKeepSource(c) ==
  CASE c.kind = "DELETED" -> [rows EXCEPT ![c.path] = None]
    [] c.kind = "RENAMED" /\ c.path \in Hidden -> rows
    [] OTHER -> [rows EXCEPT ![c.path] = vault[c.path]]

\* One change in sync_batch's loop; a missing file gets a row with mtime 0.
Synced(c) ==
  CASE c.kind = "DELETED" -> [rows EXCEPT ![c.path] = None]
    [] c.kind = "RENAMED" /\ c.path \in Hidden -> [rows EXCEPT ![c.previous] = None]
    [] c.kind = "RENAMED" /\ c.path \notin Hidden ->
         [rows EXCEPT ![c.previous] = None, ![c.path] = vault[c.path]]
    [] OTHER -> [rows EXCEPT ![c.path] = vault[c.path]]

\* sync_batch: a statement or two for each change, inside one transaction ...
SyncChange ==
  /\ stage = "sync"
  /\ rows' = Synced(batch.changes[pos])
  /\ NextChange("commit")
  /\ UNCHANGED <<vaultVars, proc, starts, pending, flights, batch, readFile, cache, index,
                 snapshot, cacheFile, scanVars, historyVars>>

\* ... that is committed after the last.
Commit ==
  /\ stage = "commit"
  /\ index' = rows
  /\ stage' = "publish"
  /\ staleIndex' = (staleIndex \ TouchedBy(batch.changes)) \cup batch.overtaken
  /\ UNCHANGED <<vaultVars, proc, starts, pending, flights, batch, pos, readFile, cache,
                 rows, snapshot, cacheFile, scanVars, staleGraph>>

Causes(p) == {cause \in {"overtaken", "failed"} : p \in batch[cause]}

\* The graph is built from the whole cache, so it also has what a batch that
\* raised had extracted.
Publish ==
  /\ stage = "publish"
  /\ snapshot' = Graph(cache)
  /\ batch' = <<>> /\ pos' = 1 /\ stage' = "idle"
  /\ staleGraph' = [p \in Files |->
       IF p \in TouchedBy(batch.changes) THEN Causes(p) ELSE staleGraph[p] \ {"unpublished"}]
  /\ UNCHANGED <<vaultVars, proc, starts, pending, flights, readFile, cache, index, rows,
                 cacheFile, scanVars, staleIndex>>

\* The paths of the changes extract_batch's loop has not come through
Unextracted ==
  IF stage = "stat"
    THEN UNION {Touched(batch.changes[i]) : i \in pos..Len(batch.changes)}
    ELSE {}

\* An exception abandons the batch and ends its thread, and the process goes on:
\* stat fails on a file that is there (in extract_batch or sync_batch), SQLite
\* refuses a statement or the commit, or build_graph raises.  `with conn` rolls
\* the rows back, the cache keeps what was extracted, nothing is published.
BatchRaises ==
  /\ stage \in {"stat", "sync", "commit", "publish"}
  /\ rows' = index
  /\ batch' = <<>> /\ pos' = 1 /\ stage' = "idle" /\ readFile' = 0
  /\ staleGraph' = [p \in Files |->
       IF p \notin TouchedBy(batch.changes) THEN staleGraph[p]
       ELSE {"unpublished"} \cup IF p \in Unextracted THEN {"raised"} ELSE Causes(p)]
  /\ staleIndex' = IF stage = "publish" THEN staleIndex
                   ELSE staleIndex \cup TouchedBy(batch.changes)
  /\ UNCHANGED <<vaultVars, proc, starts, pending, flights, cache, index, snapshot, cacheFile,
                 scanVars>>

\* ExtractionCache.save, on the slow cadence or at shutdown: write_text empties
\* the file and then fills it.
SaveBegin ==
  /\ proc = "running"
  /\ stage = "idle"
  /\ stage' = "save"
  /\ cacheFile' = [status |-> "torn", entries |-> EmptyCache]
  /\ UNCHANGED <<vaultVars, proc, starts, pending, flights, batch, pos, readFile, cache,
                 index, rows, snapshot, scanVars, historyVars>>

SaveEnd ==
  /\ stage = "save"
  /\ stage' = "idle"
  /\ cacheFile' = [status |-> "good", entries |-> cache]
  /\ UNCHANGED <<vaultVars, proc, starts, pending, flights, batch, pos, readFile, cache,
                 index, rows, snapshot, scanVars, historyVars>>

\* The write fails after the file was emptied; the process goes on.
SaveRaises ==
  /\ stage = "save"
  /\ stage' = "idle"
  /\ UNCHANGED <<vaultVars, proc, starts, pending, flights, batch, pos, readFile, cache,
                 index, rows, snapshot, cacheFile, scanVars, historyVars>>

-----------------------------------------------------------------------------
(* The process ends and starts again *)

\* Memory is gone; files and committed rows stay.  Batches not yet committed
\* never reach the index.
Ends ==
  /\ pending' = <<>> /\ flights' = <<>> /\ batch' = <<>> /\ pos' = 1
  /\ stage' = "idle" /\ readFile' = 0
  /\ cache' = EmptyCache /\ snapshot' = Graph(EmptyCache)
  /\ rows' = index
  /\ listed' = {} /\ toScan' = {} /\ scanning' = None
  /\ staleGraph' = [p \in Files |-> {}]
  /\ staleIndex' = staleIndex
       \cup TouchedBy(pending)
       \cup (UNION {TouchedBy(flights[i].changes) : i \in DOMAIN flights})
       \cup (IF stage \in {"extract", "stat", "sync", "commit"} THEN TouchedBy(batch.changes) ELSE {})
  /\ UNCHANGED <<vaultVars, starts, index, cacheFile>>

\* A crash, a kill, or the end of a shutdown.
ProcessEnds ==
  /\ proc \in {"cold", "published", "running"}
  /\ proc' = "down"
  /\ Ends

\* Daemon.cold_start loads graph_cache.json if it is there; json.loads raises
\* on a torn one, and the daemon does not come up.
LoadFails ==
  /\ proc = "down"
  /\ starts < MaxStarts
  /\ cacheFile.status = "torn"
  /\ starts' = starts + 1
  /\ proc' = "refused"
  /\ UNCHANGED <<vaultVars, batchVars, cache, index, rows, snapshot, cacheFile, scanVars, historyVars>>

\* cold_start begins: the cache as saved, and the files rglob lists
StartScan ==
  /\ proc = "down"
  /\ starts < MaxStarts
  /\ cacheFile.status # "torn"
  /\ starts' = starts + 1
  /\ proc' = "cold"
  /\ cache' = cacheFile.entries
  /\ listed' = {p \in Notes : vault[p] # 0}
  /\ toScan' = listed'
  /\ UNCHANGED <<vaultVars, batchVars, index, rows, snapshot, cacheFile, scanning, historyVars>>

\* stat says the cached entry is up to date.  Where it is not (its mtime was
\* read after a later write than its content), the graph will be stale.
ScanSkip(p) ==
  /\ scanning = None
  /\ p \in toScan
  /\ vault[p] # 0
  /\ cache[p].mtime = vault[p]
  /\ toScan' = toScan \ {p}
  /\ staleGraph' = [staleGraph EXCEPT ![p] =
                      IF cache[p].content = vault[p] THEN @ ELSE @ \cup {"mtime"}]
  /\ UNCHANGED <<vaultVars, proc, starts, batchVars, cache, index, rows, snapshot, cacheFile,
                 listed, scanning, staleIndex>>

ScanStat(p) ==
  /\ scanning = None
  /\ p \in toScan
  /\ vault[p] # 0
  /\ cache[p].mtime # vault[p]
  /\ scanning' = [path |-> p, mtime |-> vault[p]]
  /\ toScan' = toScan \ {p}
  /\ UNCHANGED <<vaultVars, proc, starts, batchVars, cache, index, rows, snapshot, cacheFile,
                 listed, historyVars>>

\* A listed file is gone: stat raises FileNotFoundError out of cold_start.
ScanRaises(p) ==
  /\ scanning = None
  /\ p \in toScan
  /\ vault[p] = 0
  /\ proc' = "down"
  /\ Ends

\* Extraction after stat; where the file is gone the entry is left as it was.
ScanExtract ==
  /\ scanning # None
  /\ cache' = IF vault[scanning.path] = 0
                THEN cache
                ELSE SetEntry(cache, scanning.path, vault[scanning.path], scanning.mtime)
  /\ scanning' = None
  /\ UNCHANGED <<vaultVars, proc, starts, batchVars, index, rows, snapshot, cacheFile, listed,
                 toScan, historyVars>>

\* The extractor fails on a file that is there.
ScanFails ==
  /\ scanning # None
  /\ vault[scanning.path] # 0
  /\ staleGraph' = [staleGraph EXCEPT ![scanning.path] = @ \cup {"failed"}]
  /\ scanning' = None
  /\ UNCHANGED <<vaultVars, proc, starts, batchVars, cache, index, rows, snapshot, cacheFile,
                 listed, toScan, staleIndex>>

\* cold_start drops the entries of files it did not observe
Forget(entries) == Drop(entries, Files \ listed)

PublishInitial ==
  /\ proc = "cold"
  /\ toScan = {}
  /\ scanning = None
  /\ cache' = Forget(cache)
  /\ snapshot' = Graph(cache')
  /\ proc' = "published"
  /\ UNCHANGED <<vaultVars, starts, batchVars, index, rows, cacheFile, scanVars, historyVars>>

StartWatcher ==
  /\ proc = "published"
  /\ proc' = "running"
  /\ UNCHANGED <<vaultVars, starts, batchVars, cache, index, rows, snapshot, cacheFile, scanVars,
                 historyVars>>

-----------------------------------------------------------------------------
Next ==
  \/ \E p \in Files : Write(p) \/ Delete(p)
  \/ \E p, q \in Files : Move(p, q)
  \/ TakeBatch
  \/ \E i \in DOMAIN flights : StartCompile(i)
  \/ SkipChange \/ FailChange \/ ReadChange \/ StatChange
  \/ SyncChange \/ Commit \/ Publish \/ BatchRaises
  \/ SaveBegin \/ SaveEnd \/ SaveRaises
  \/ ProcessEnds
  \/ LoadFails \/ StartScan
  \/ \E p \in Notes : ScanSkip(p) \/ ScanStat(p) \/ ScanRaises(p)
  \/ ScanExtract \/ ScanFails
  \/ PublishInitial \/ StartWatcher

Spec == Init /\ [][Next]_vars

-----------------------------------------------------------------------------
(* Properties *)

Versions == 0..(Initial + MaxEdits)
\* FileChange.__post_init__, and what the event filter lets through
Changes ==
  [kind : {"CREATED", "MODIFIED", "DELETED"}, path : Notes, previous : {None}]
    \cup {c \in [kind : {"RENAMED"}, path : Files, previous : Files] : c.path # c.previous}
Batches == [changes : Seq(Changes) \ {<<>>}, overtaken : SUBSET Files, failed : SUBSET Files]
Entries == [Files -> [content : Versions, mtime : Versions]]

TypeOK ==
  /\ vault \in [Files -> Versions] /\ edits \in Versions
  /\ proc \in {"down", "refused", "cold", "published", "running"}
  /\ starts \in 0..MaxStarts
  /\ pending \in Seq(Changes)
  /\ flights \in Seq(Batches) /\ pos \in Nat
  /\ stage \in {"idle", "extract", "stat", "sync", "commit", "publish", "save"}
  /\ IF stage \in {"idle", "save"} THEN batch = <<>> ELSE batch \in Batches
  /\ stage \in {"extract", "stat", "sync"} => pos \in DOMAIN batch.changes
  /\ readFile \in Versions
  /\ cache \in Entries /\ snapshot \in [Files -> Versions]
  /\ index \in [Files -> Versions \cup {None}] /\ rows \in [Files -> Versions \cup {None}]
  /\ cacheFile \in [status : {"absent", "torn", "good"}, entries : Entries]
  /\ toScan \subseteq listed /\ listed \subseteq Notes
  /\ scanning \in [path : Notes, mtime : Versions] \cup {None}
  /\ staleGraph \in [Files -> SUBSET {"unseen", "overtaken", "mtime", "failed", "raised", "unpublished"}]
  /\ staleIndex \subseteq Files

\* Nothing is on its way from the vault to the graph.
Quiescent == proc = "running" /\ pending = <<>> /\ flights = <<>> /\ stage = "idle"

\* What the graph and the index should hold for a path.
Expected(p) == IF p \in Hidden THEN 0 ELSE vault[p]

GraphRight(p) == snapshot[p] = Expected(p)

IndexRight(p) == index[p] = IF Expected(p) = 0 THEN None ELSE Expected(p)

\* Once nothing is on its way, the graph holds exactly the files of the vault,
\* with their last content, whatever was edited while batches were extracted,
\* saved, abandoned or lost and while the daemon was down, except for a path
\* that changed behind the cold-start scan, whose batches were compiled out of
\* order, whose last extraction failed, whose batch raised before it was
\* extracted, or raised after that with nothing published since, or whose saved
\* mtime is later than its saved content.  The next batch about the path cures
\* each of these (what is only not published yet, the next batch at all), and a
\* restart all but the last.
GraphFollowsVault ==
  Quiescent => \A p \in Files : staleGraph[p] = {} => GraphRight(p)

\* Once nothing is on its way, vault_index.db has a row for exactly the files
\* of the vault, with their mtimes, for every path that changed only while the
\* watcher ran and whose last batch was committed, and in order: a batch that
\* raises leaves all other rows as they were.
IndexFollowsVault ==
  Quiescent => \A p \in Files \ staleIndex : IndexRight(p)

\* No file reaches any copy of the vault, in memory or on disk, under an excluded
\* path: not by a move into one, a move on from it in the same batch, a save and
\* a restart, or a transaction that is still open.
ExcludedStaysOut ==
  \A h \in Hidden : /\ cache[h] = NoEntry /\ cacheFile.entries[h] = NoEntry
                    /\ snapshot[h] = 0
                    /\ index[h] = None /\ rows[h] = None

\* CONTEXT.md: "State flows from the vault to the graph".  Edits made while the
\* watcher runs reach the graph whichever flush thread compiles first (no
\* extraction or batch having failed).
LiveEditsReachGraph ==
  Quiescent => \A p \in Files :
    staleGraph[p] \subseteq {"overtaken"} => GraphRight(p)

\* README.md: "recovery always means rebuilding from the vault": what a crash
\* leaves of graph_cache.json never keeps the daemon from starting.
CacheNeverBlocksStart == proc # "refused"

=============================================================================
