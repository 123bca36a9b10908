---------------------------- MODULE QueryServing ----------------------------
(***************************************************************************)
(* Snapshots and the tools that read them: SnapshotHolder, what a batch    *)
(* and a clustering cycle publish, the dispatch of a tool call, and the    *)
(* version-scoped LRU cache of query_graph results.  One writer publishes  *)
(* (batches and cycles share the coordinator's lock); tool calls run       *)
(* beside it and take no lock but the cache's own.                         *)
(*                                                                         *)
(* A graph is the set of its nodes, a community map the set of the nodes   *)
(* it names.  What a tool answers is a function of its arguments and of    *)
(* the graph, kept as the pair of both.                                    *)
(***************************************************************************)
EXTENDS Integers, Sequences, FiniteSets, SequencesExt

CONSTANTS
  Nodes,
  Questions,      \* distinct argument sets of query_graph
  Calls,          \* tool calls
  None,
  CacheSize,      \* lru_size
  MaxVersion      \* bound: snapshots published

\* GRAPHIFY_DAEMON_LRU_SIZE may be any integer
ASSUME SizeAssumption == CacheSize \in Int /\ MaxVersion \in Nat

Snapshots == [graph : SUBSET Nodes, communities : SUBSET Nodes, version : 1..MaxVersion]

Error(why) == [error |-> why]

Refusals == {Error("unknown tool"), Error("not ready"), Error("invalid arguments")}

ASSUME NoneAssumption == None \notin Snapshots \cup Refusals

VARIABLES
  current,       \* SnapshotHolder._current
  nextVersion,   \* SnapshotHolder._next_version
  clustering,    \* the snapshot run_clustering_cycle captured, or None
  entries,       \* QueryCache._entries, least recently used first
  call           \* each tool call: where it is, arguments, snapshot, answer

vars == <<current, nextVersion, clustering, entries, call>>

-----------------------------------------------------------------------------
Tools == {"query_graph", "get_community", "graph_stats"}

NoCall == [pc |-> "new", tool |-> None, question |-> None, snapshot |-> None, answer |-> None]

\* execute_tool on a snapshot.  get_community looks up every node the map names,
\* a node that is not in the graph being a KeyError; graph_stats counts both; the
\* other tools are, like query_graph, functions of the arguments and the graph.
Result(tool, question, s) ==
  CASE tool = "query_graph" -> [text |-> <<tool, question, s.graph>>]
    [] tool = "graph_stats" -> [text |-> <<tool, s.graph, s.communities>>]
    [] tool = "get_community" ->
         IF s.communities \subseteq s.graph
           THEN [text |-> <<tool, s.communities>>]
           ELSE Error("failed")

\* Mutated form of Key: results are not scoped to a version.
KeyNoVersion(version, question) == <<1, question>>

\* QueryCache._key
Key(version, question) == <<version, question>>

Cached(key) == {i \in DOMAIN entries : entries[i].key = key}

\* move_to_end
Touch(i) == Append(RemoveAt(entries, i), entries[i])

\* seq without the entry under key, if it has one
Discard(seq, key) ==
  IF \E i \in DOMAIN seq : seq[i].key = key
    THEN RemoveAt(seq, CHOOSE i \in DOMAIN seq : seq[i].key = key)
    ELSE seq

\* Mutated form of Insert: one entry too many stays.
InsertOneOver(seq, e) ==
  LET filled == Append(Discard(seq, e.key), e)
  IN IF Len(filled) > CacheSize + 1 THEN Tail(filled) ELSE filled

\* QueryCache.set: the key moves to the end, the oldest goes beyond maxsize.
Insert(seq, e) ==
  LET filled == Append(Discard(seq, e.key), e)
  IN IF Len(filled) > CacheSize THEN Tail(filled) ELSE filled

-----------------------------------------------------------------------------
Init ==
  /\ current = None
  /\ nextVersion = 1
  /\ clustering = None
  /\ entries = <<>>
  /\ call = [c \in Calls |-> NoCall]

(* The writer *)

\* Mutated form of PublishSnapshot: the version counter stays.
PublishSameVersion(graph, communities) ==
  /\ nextVersion <= MaxVersion
  /\ current' = [graph |-> graph, communities |-> communities, version |-> nextVersion]
  /\ UNCHANGED nextVersion

\* SnapshotHolder.publish
PublishSnapshot(graph, communities) ==
  /\ nextVersion <= MaxVersion
  /\ current' = [graph |-> graph, communities |-> communities, version |-> nextVersion]
  /\ nextVersion' = nextVersion + 1

\* cold_start publishes the first snapshot with no communities
PublishInitial ==
  /\ current = None
  /\ \E g \in SUBSET Nodes : PublishSnapshot(g, {})
  /\ UNCHANGED <<clustering, entries, call>>

\* Mutated form of PublishBatch: the batch does not wait for the cycle's lock.
PublishBatchUnlocked ==
  /\ current # None
  /\ \E g \in SUBSET Nodes : PublishSnapshot(g, current.communities)
  /\ UNCHANGED <<clustering, entries, call>>

\* _compile_batch publishes the new graph with the communities there were
PublishBatch ==
  /\ current # None
  /\ clustering = None
  /\ \E g \in SUBSET Nodes : PublishSnapshot(g, current.communities)
  /\ UNCHANGED <<clustering, entries, call>>

\* run_clustering_cycle captures the snapshot and waits for the subprocess
BeginClustering ==
  /\ current # None
  /\ clustering = None
  /\ clustering' = current
  /\ UNCHANGED <<current, nextVersion, entries, call>>

\* A result: every node of the captured graph is in some community.
ClusteringDone ==
  /\ clustering # None
  /\ PublishSnapshot(clustering.graph, clustering.graph)
  /\ clustering' = None
  /\ UNCHANGED <<entries, call>>

\* A timeout or a failure in the subprocess leaves everything as it was.
ClusteringFails ==
  /\ clustering # None
  /\ clustering' = None
  /\ UNCHANGED <<current, nextVersion, entries, call>>

-----------------------------------------------------------------------------
(* A tool call *)

Answer(c, a) == call' = [call EXCEPT ![c].pc = "done", ![c].answer = a]

\* What _dispatch refuses before it runs a tool: a name it does not know, a
\* call before the first snapshot, arguments the tool's schema rejects.
Refusal(tool, question) ==
  CASE tool \notin Tools -> Error("unknown tool")
    [] tool \in Tools /\ current = None -> Error("not ready")
    [] tool \in Tools /\ current # None /\ question \notin Questions ->
         Error("invalid arguments")
    [] OTHER -> None

Refuse(c, tool, question) ==
  /\ call[c].pc = "new"
  /\ Refusal(tool, question) # None
  /\ Answer(c, Refusal(tool, question))
  /\ UNCHANGED <<current, nextVersion, clustering, entries>>

\* on_call_tool takes the reference once
BeginCall(c, tool, question) ==
  /\ call[c].pc = "new"
  /\ Refusal(tool, question) = None
  /\ call' = [call EXCEPT ![c] =
       [pc |-> IF tool = "query_graph" THEN "lookup" ELSE "execute",
        tool |-> tool, question |-> question, snapshot |-> current, answer |-> None]]
  /\ UNCHANGED <<current, nextVersion, clustering, entries>>

Hit(c) ==
  /\ call[c].pc = "lookup"
  /\ \E i \in Cached(Key(call[c].snapshot.version, call[c].question)) :
       /\ Answer(c, entries[i].value)
       /\ entries' = Touch(i)
  /\ UNCHANGED <<current, nextVersion, clustering>>

Miss(c) ==
  /\ call[c].pc = "lookup"
  /\ Cached(Key(call[c].snapshot.version, call[c].question)) = {}
  /\ call' = [call EXCEPT ![c].pc = "execute"]
  /\ UNCHANGED <<current, nextVersion, clustering, entries>>

\* execute_tool in a worker thread; only query_graph's result goes to the cache
Execute(c) ==
  /\ call[c].pc = "execute"
  /\ LET r == Result(call[c].tool, call[c].question, call[c].snapshot) IN
       call' = [call EXCEPT ![c].pc = IF call[c].tool = "query_graph" THEN "store" ELSE "done",
                            ![c].answer = r]
  /\ UNCHANGED <<current, nextVersion, clustering, entries>>

\* graphify's search raises: the caller gets an error, the cache nothing.
ExecuteRaises(c) ==
  /\ call[c].pc = "execute"
  /\ Answer(c, Error("failed"))
  /\ UNCHANGED <<current, nextVersion, clustering, entries>>

\* Back on the event loop: other calls may have stored the same key meanwhile.
Store(c) ==
  /\ call[c].pc = "store"
  /\ entries' = Insert(entries, [key |-> Key(call[c].snapshot.version, call[c].question),
                                 value |-> call[c].answer])
  /\ call' = [call EXCEPT ![c].pc = "done"]
  /\ UNCHANGED <<current, nextVersion, clustering>>

\* The caller goes away while the tool runs in its thread: the coroutine is
\* cancelled at its await and stores nothing.
CallCancelled(c) ==
  /\ call[c].pc \in {"execute", "store"}
  /\ call' = [call EXCEPT ![c] = NoCall]
  /\ UNCHANGED <<current, nextVersion, clustering, entries>>

\* The answer has been sent; the caller may call again.
EndCall(c) ==
  /\ call[c].pc = "done"
  /\ call' = [call EXCEPT ![c] = NoCall]
  /\ UNCHANGED <<current, nextVersion, clustering, entries>>

-----------------------------------------------------------------------------
Next ==
  \/ PublishInitial \/ PublishBatch
  \/ BeginClustering \/ ClusteringDone \/ ClusteringFails
  \/ \E c \in Calls, tool \in Tools \cup {"unknown"}, q \in Questions \cup {"invalid"} :
        BeginCall(c, tool, q) \/ Refuse(c, tool, q)
  \/ \E c \in Calls : \/ Hit(c) \/ Miss(c) \/ Execute(c) \/ ExecuteRaises(c)
                      \/ Store(c) \/ CallCancelled(c) \/ EndCall(c)

Spec == Init /\ [][Next]_vars

-----------------------------------------------------------------------------
(* Properties *)

Texts ==
  [text : {"query_graph"} \X Questions \X (SUBSET Nodes)]

Answers ==
  Texts \cup [text : {"graph_stats"} \X (SUBSET Nodes) \X (SUBSET Nodes)]
        \cup [text : {"get_community"} \X (SUBSET Nodes)]
        \cup Refusals \cup {Error("failed")}

CallStates ==
  [pc : {"new", "lookup", "execute", "store", "done"}, tool : Tools \cup {None},
   question : Questions \cup {None}, snapshot : Snapshots \cup {None},
   answer : Answers \cup {None}]

TypeOK ==
  /\ current \in Snapshots \cup {None} /\ clustering \in Snapshots \cup {None}
  /\ nextVersion \in 1..(MaxVersion + 1)
  /\ current # None => current.version < nextVersion
  /\ entries \in Seq([key : (1..MaxVersion) \X Questions, value : Texts])
  /\ \A i \in DOMAIN entries : entries[i].key[1] < nextVersion
  /\ call \in [Calls -> CallStates]
  /\ \A c \in Calls : call[c].pc \notin {"new", "done"} => call[c].snapshot # None

\* Whatever the writer publishes meanwhile and however other calls fill and
\* evict the cache, a call is answered as an uncached execution on the one
\* snapshot it took at its start would answer it.  A failure is told to the
\* caller it happened to and never remembered.
AnswersFromOwnSnapshot ==
  /\ \A c \in Calls : call[c].pc = "done" /\ call[c].snapshot # None =>
       call[c].answer \in {Result(call[c].tool, call[c].question, call[c].snapshot),
                           Error("failed")}
  /\ \A i \in DOMAIN entries : entries[i].value # Error("failed")

\* Two calls that compute the same result at the same time leave one entry, and
\* the cache never holds more than its size, or nothing if that is negative.
CacheBounded ==
  /\ Len(entries) <= CacheSize \/ entries = <<>>
  /\ \A i, j \in DOMAIN entries : entries[i].key = entries[j].key => i = j

\* A clustering cycle never brings back an older graph: what it republishes is
\* the graph that is current when its result arrives.
ClusteringKeepsGraph == clustering # None => clustering = current

\* README.md: graph and community map are published together, so that "every
\* concurrent query sees a consistent view": the map names nodes of the graph,
\* and get_community finds them.
CommunitiesInGraph == current # None => current.communities \subseteq current.graph

=============================================================================
