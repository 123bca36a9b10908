------------------------- MODULE QueryServingProofs -------------------------
(***************************************************************************)
(* Proofs about QueryServing for every set of nodes, questions and calls,  *)
(* every cache size and every number of publications.                      *)
(***************************************************************************)
EXTENDS QueryServing, SequenceLemmas, SequenceTheorems, TLAPS

Entries == [key : (1..MaxVersion) \X Questions, value : Texts]

\* Everyone agrees on the history G of published graphs: current, the snapshot
\* of every call and the text of every cache entry are those of their version.
FollowsHistory(G) ==
  /\ current # None => current.graph = G[current.version]
  /\ \A c \in Calls : call[c].snapshot # None =>
       call[c].snapshot.graph = G[call[c].snapshot.version]
  /\ \A i \in DOMAIN entries :
       entries[i].value = [text |-> <<"query_graph", entries[i].key[2], G[entries[i].key[1]]>>]

\* Where a call is says what it carries.
CallInOrder(r) ==
  /\ r.snapshot # None =>
       r.snapshot.version < nextVersion /\ r.tool \in Tools /\ r.question \in Questions
  /\ r.pc \in {"lookup", "store"} => r.tool = "query_graph"
  /\ r.pc = "new" => r = NoCall
  /\ r.pc = "store" => r.answer = Result("query_graph", r.question, r.snapshot)

CallsInOrder == \A c \in Calls : CallInOrder(call[c])

\* The inductive invariant.  A version names one graph for ever: this is why an
\* entry found under the version of a call's snapshot holds the call's answer.
ServingInv ==
  /\ TypeOK
  /\ AnswersFromOwnSnapshot
  /\ CacheBounded
  /\ ClusteringKeepsGraph
  /\ CallsInOrder
  /\ \E G \in [1..MaxVersion -> SUBSET Nodes] : FollowsHistory(G)

-----------------------------------------------------------------------------
(* The cache's operations *)

\* At most one entry for a key, as in an OrderedDict.
UniqueKeys(s) == \A i, j \in DOMAIN s : s[i].key = s[j].key => i = j

\* What is left in a cache without its i-th entry, and what is appended to it,
\* keeps the keys apart.
LEMMA RemoveKeepsUnique ==
  ASSUME NEW s \in Seq(Entries), UniqueKeys(s), NEW i \in 1..Len(s)
  PROVE  /\ UniqueKeys(RemoveAt(s, i))
         /\ \A j \in DOMAIN RemoveAt(s, i) :
              \E k \in DOMAIN s : k # i /\ RemoveAt(s, i)[j] = s[k]
<1>. DEFINE r == RemoveAt(s, i)
<1>1. /\ r \in Seq(Entries) /\ Len(r) = Len(s) - 1
      /\ \A j \in 1..(Len(s) - 1) : r[j] = IF j < i THEN s[j] ELSE s[j + 1]
  BY RemoveAtProperties
<1>. HIDE DEF r
<1>2. Len(s) \in Nat /\ DOMAIN s = 1..Len(s) /\ DOMAIN r = 1..(Len(s) - 1)
  BY <1>1
<1>3. \A j \in DOMAIN r : \E k \in DOMAIN s : k # i /\ r[j] = s[k]
  <2>. SUFFICES ASSUME NEW j \in DOMAIN r
                PROVE  \E k \in DOMAIN s : k # i /\ r[j] = s[k]
    OBVIOUS
  <2>1. CASE j < i
    <3>1. j \in DOMAIN s /\ j # i /\ r[j] = s[j]
      BY <1>1, <1>2, <2>1
    <3>. QED BY <3>1
  <2>2. CASE ~(j < i)
    <3>1. j + 1 \in DOMAIN s /\ j + 1 # i /\ r[j] = s[j + 1]
      BY <1>1, <1>2, <2>2
    <3>. QED BY <3>1
  <2>. QED BY <2>1, <2>2
<1>4. UniqueKeys(r)
  <2>. SUFFICES ASSUME NEW j \in DOMAIN r, NEW k \in DOMAIN r, r[j].key = r[k].key
                PROVE  j = k
    BY DEF UniqueKeys
  <2>. DEFINE old(n) == IF n < i THEN n ELSE n + 1
  <2>1. /\ old(j) \in DOMAIN s /\ r[j] = s[old(j)]
        /\ old(k) \in DOMAIN s /\ r[k] = s[old(k)]
    BY <1>1, <1>2
  <2>2. old(j) = old(k)
    <3>. HIDE DEF old
    <3>. QED BY <2>1 DEF UniqueKeys
  <2>. QED BY <1>2, <2>2
<1>. QED BY <1>3, <1>4 DEF r

\* An appended entry whose key the cache does not hold keeps the keys apart.
LEMMA AppendKeepsUnique ==
  ASSUME NEW s \in Seq(Entries), UniqueKeys(s), NEW e \in Entries,
         \A j \in DOMAIN s : s[j].key # e.key
  PROVE  /\ UniqueKeys(Append(s, e))
         /\ \A j \in DOMAIN Append(s, e) :
              Append(s, e)[j] = e \/ \E k \in DOMAIN s : Append(s, e)[j] = s[k]
<1>. DEFINE a == Append(s, e)
<1>1. /\ a \in Seq(Entries) /\ Len(a) = Len(s) + 1
      /\ \A j \in 1..Len(s) : a[j] = s[j]
      /\ a[Len(s) + 1] = e
  BY AppendProperties
<1>. HIDE DEF a
<1>2. Len(s) \in Nat /\ DOMAIN s = 1..Len(s) /\ DOMAIN a = 1..(Len(s) + 1)
  BY <1>1
<1>3. \A j \in DOMAIN a : a[j] = e \/ \E k \in DOMAIN s : a[j] = s[k]
  BY <1>1, <1>2
<1>4. UniqueKeys(a)
  BY <1>1, <1>2 DEF UniqueKeys
<1>. QED BY <1>3, <1>4 DEF a

\* A hit reorders the cache and changes no entry.
LEMMA TouchProperties ==
  ASSUME entries \in Seq(Entries), UniqueKeys(entries), NEW i \in DOMAIN entries
  PROVE  /\ Touch(i) \in Seq(Entries) /\ Len(Touch(i)) = Len(entries)
         /\ UniqueKeys(Touch(i))
         /\ \A j \in DOMAIN Touch(i) : \E k \in DOMAIN entries : Touch(i)[j] = entries[k]
<1>. DEFINE r == RemoveAt(entries, i)
<1>1. i \in 1..Len(entries) /\ entries[i] \in Entries /\ Len(entries) \in Nat
  OBVIOUS
<1>2. /\ r \in Seq(Entries) /\ Len(r) = Len(entries) - 1 /\ UniqueKeys(r)
      /\ \A j \in DOMAIN r : \E k \in DOMAIN entries : k # i /\ r[j] = entries[k]
  BY <1>1, RemoveAtProperties, RemoveKeepsUnique
<1>. HIDE DEF r
<1>3. \A j \in DOMAIN r : r[j].key # entries[i].key
  BY <1>2 DEF UniqueKeys
<1>4. /\ UniqueKeys(Append(r, entries[i]))
      /\ \A j \in DOMAIN Append(r, entries[i]) :
           \/ Append(r, entries[i])[j] = entries[i]
           \/ \E k \in DOMAIN r : Append(r, entries[i])[j] = r[k]
  BY <1>1, <1>2, <1>3, AppendKeepsUnique
<1>5. /\ Append(r, entries[i]) \in Seq(Entries)
      /\ Len(Append(r, entries[i])) = Len(entries)
  BY <1>1, <1>2, AppendProperties
<1>6. Touch(i) = Append(r, entries[i])
  BY DEF Touch, r
<1>. QED BY <1>2, <1>4, <1>5, <1>6

\* A store keeps the keys apart and the size within the bound, whatever integer
\* it is; it brings in no entry but its own.
LEMMA InsertProperties ==
  ASSUME NEW s \in Seq(Entries), UniqueKeys(s), NEW e \in Entries,
         Len(s) <= CacheSize \/ s = <<>>
  PROVE  /\ Insert(s, e) \in Seq(Entries) /\ UniqueKeys(Insert(s, e))
         /\ Len(Insert(s, e)) <= CacheSize \/ Insert(s, e) = <<>>
         /\ \A j \in DOMAIN Insert(s, e) :
              Insert(s, e)[j] = e \/ \E k \in DOMAIN s : Insert(s, e)[j] = s[k]
<1>. DEFINE d == Discard(s, e.key)
            f == Append(d, e)
<1>1. /\ d \in Seq(Entries) /\ Len(d) <= Len(s) /\ UniqueKeys(d)
      /\ \A j \in DOMAIN d : \E k \in DOMAIN s : d[j] = s[k]
      /\ \A j \in DOMAIN d : d[j].key # e.key
  <2>1. CASE \E i \in DOMAIN s : s[i].key = e.key
    <3>. DEFINE x == CHOOSE i \in DOMAIN s : s[i].key = e.key
    <3>1. x \in DOMAIN s /\ s[x].key = e.key
      BY <2>1
    <3>2. d = RemoveAt(s, x)
      BY <2>1 DEF Discard
    <3>. HIDE DEF x, d
    <3>3. x \in 1..Len(s) /\ Len(s) \in Nat
      BY <3>1
    <3>4. /\ d \in Seq(Entries) /\ Len(d) = Len(s) - 1 /\ UniqueKeys(d)
          /\ \A j \in DOMAIN d : \E k \in DOMAIN s : k # x /\ d[j] = s[k]
      BY <3>2, <3>3, RemoveAtProperties, RemoveKeepsUnique
    <3>5. \A j \in DOMAIN d : d[j].key # e.key
      BY <3>1, <3>4 DEF UniqueKeys
    <3>. QED BY <3>3, <3>4, <3>5
  <2>2. CASE ~\E i \in DOMAIN s : s[i].key = e.key
    <3>1. d = s
      BY <2>2 DEF Discard
    <3>. QED BY <2>2, <3>1
  <2>. QED BY <2>1, <2>2
<1>. HIDE DEF d
<1>2. /\ f \in Seq(Entries) /\ f # <<>> /\ Len(f) = Len(d) + 1
  BY <1>1, AppendProperties
<1>3. /\ UniqueKeys(f)
      /\ \A j \in DOMAIN f : f[j] = e \/ \E k \in DOMAIN s : f[j] = s[k]
  BY <1>1, AppendKeepsUnique
<1>4. Insert(s, e) = IF Len(f) > CacheSize THEN Tail(f) ELSE f
  BY DEF Insert, d
<1>. HIDE DEF f
<1>5. CASE Len(f) > CacheSize
  <2>1. /\ Tail(f) \in Seq(Entries) /\ Len(Tail(f)) = Len(f) - 1
        /\ \A j \in 1..Len(Tail(f)) : Tail(f)[j] = f[j + 1]
    BY <1>2, HeadTailProperties
  <2>2. /\ Len(f) \in Nat /\ DOMAIN Tail(f) = 1..(Len(f) - 1) /\ DOMAIN f = 1..Len(f)
        /\ Len(s) \in Nat /\ Len(d) \in Nat
    BY <1>1, <1>2, <2>1
  <2>3. \A j \in DOMAIN Tail(f) : j + 1 \in DOMAIN f /\ Tail(f)[j] = f[j + 1]
    BY <2>1, <2>2
  <2>4. UniqueKeys(Tail(f))
    <3>. SUFFICES ASSUME NEW j \in DOMAIN Tail(f), NEW k \in DOMAIN Tail(f),
                         Tail(f)[j].key = Tail(f)[k].key
                  PROVE  j = k
      BY DEF UniqueKeys
    <3>1. j + 1 = k + 1
      BY <1>3, <2>3 DEF UniqueKeys
    <3>. QED BY <2>2, <3>1
  <2>5. Len(Tail(f)) <= CacheSize \/ Tail(f) = <<>>
    <3>1. CASE Len(s) <= CacheSize
      BY <1>1, <1>2, <2>1, <2>2, <3>1, SizeAssumption
    <3>2. CASE s = <<>>
      <4>1. Len(s) = 0
        BY <3>2
      <4>2. Len(Tail(f)) = 0
        BY <1>1, <1>2, <2>1, <2>2, <4>1
      <4>. QED BY <2>1, <4>2, EmptySeq
    <3>. QED BY <3>1, <3>2
  <2>6. \A j \in DOMAIN Tail(f) : Tail(f)[j] = e \/ \E k \in DOMAIN s : Tail(f)[j] = s[k]
    BY <1>3, <2>3
  <2>. QED BY <1>4, <1>5, <2>1, <2>4, <2>5, <2>6
<1>6. CASE ~(Len(f) > CacheSize)
  <2>1. Len(f) <= CacheSize
    BY <1>2, <1>6, SizeAssumption
  <2>. QED BY <1>2, <1>3, <1>4, <1>6, <2>1
<1>. QED BY <1>5, <1>6

-----------------------------------------------------------------------------
(* The invariant is inductive *)

\* What execute_tool returns is an answer, and never a failure for query_graph.
LEMMA ResultType ==
  ASSUME NEW q \in Questions, NEW s \in Snapshots
  PROVE  /\ Result("query_graph", q, s) = [text |-> <<"query_graph", q, s.graph>>]
         /\ Result("query_graph", q, s) \in Texts
         /\ \A tool \in Tools : Result(tool, q, s) \in Answers
<1>1. /\ Result("query_graph", q, s) = [text |-> <<"query_graph", q, s.graph>>]
      /\ Result("graph_stats", q, s) = [text |-> <<"graph_stats", s.graph, s.communities>>]
      /\ Result("get_community", q, s) \in
           {[text |-> <<"get_community", s.communities>>], Error("failed")}
  BY DEF Result
<1>2. s.graph \in SUBSET Nodes /\ s.communities \in SUBSET Nodes
  BY DEF Snapshots
<1>3. Result("query_graph", q, s) \in Texts
  BY <1>1, <1>2 DEF Texts
<1>4. Result("graph_stats", q, s) \in Answers
  BY <1>1, <1>2 DEF Answers
<1>5. Result("get_community", q, s) \in Answers
  BY <1>1, <1>2 DEF Answers
<1>. QED BY <1>1, <1>3, <1>4, <1>5 DEF Tools, Answers

\* A text is not a failure.
LEMMA TextsNotFailures == \A x \in Texts : x # Error("failed")
  BY DEF Texts, Error

\* Before the first snapshot nothing is cached and no call has begun.
LEMMA ServingInit == Init => ServingInv
<1>. SUFFICES ASSUME Init PROVE ServingInv
  OBVIOUS
<1>1. entries \in Seq(Entries) /\ DOMAIN entries = {} /\ Len(entries) = 0
  BY DEF Init
<1>2. \A c \in Calls : call[c] = NoCall
  BY DEF Init
<1>3. NoCall \in CallStates
  BY DEF NoCall, CallStates
<1>4. TypeOK
  BY <1>1, <1>2, <1>3, SizeAssumption DEF Init, TypeOK, Entries, NoCall
<1>5. AnswersFromOwnSnapshot /\ CacheBounded /\ ClusteringKeepsGraph
  BY <1>1, <1>2 DEF Init, AnswersFromOwnSnapshot, CacheBounded, ClusteringKeepsGraph, NoCall
<1>6. CallsInOrder
  BY <1>2 DEF CallsInOrder, CallInOrder, NoCall
<1>7. FollowsHistory([v \in 1..MaxVersion |-> {}])
  BY <1>1, <1>2 DEF FollowsHistory, Init, NoCall
<1>8. \E G \in [1..MaxVersion -> SUBSET Nodes] : FollowsHistory(G)
  BY <1>7
<1>. QED BY <1>4, <1>5, <1>6, <1>8 DEF ServingInv

\* A publication by the writer, whatever it publishes: the new version is one
\* that no snapshot and no entry carries, so it extends the history.
LEMMA PublishInv ==
  ASSUME ServingInv, NEW g \in SUBSET Nodes, NEW m \in SUBSET Nodes,
         PublishSnapshot(g, m), clustering' = None, UNCHANGED <<entries, call>>
  PROVE  ServingInv'
<1>1. /\ nextVersion \in 1..MaxVersion /\ nextVersion' = nextVersion + 1
      /\ current' = [graph |-> g, communities |-> m, version |-> nextVersion]
      /\ entries' = entries /\ call' = call
  BY SizeAssumption DEF PublishSnapshot, ServingInv, TypeOK
<1>2. /\ entries \in Seq(Entries) /\ call \in [Calls -> CallStates]
      /\ \A i \in DOMAIN entries : entries[i].key[1] < nextVersion
      /\ \A c \in Calls : call[c].pc \notin {"new", "done"} => call[c].snapshot # None
  BY DEF ServingInv, TypeOK, Entries
<1>3. /\ current' \in Snapshots /\ current'.version = nextVersion /\ current'.graph = g
  BY <1>1 DEF Snapshots
<1>4. TypeOK'
  <2>1. \A i \in DOMAIN entries : entries[i].key[1] < nextVersion + 1
    <3>. SUFFICES ASSUME NEW i \in DOMAIN entries PROVE entries[i].key[1] < nextVersion + 1
      OBVIOUS
    <3>1. entries[i] \in Entries
      BY <1>2
    <3>2. entries[i].key[1] \in 1..MaxVersion
      BY <3>1 DEF Entries
    <3>. QED BY <1>1, <1>2, <3>2
  <2>. QED BY <2>1, <1>1, <1>2, <1>3, SizeAssumption DEF TypeOK, Entries
<1>5. AnswersFromOwnSnapshot' /\ CacheBounded' /\ ClusteringKeepsGraph'
  BY <1>1 DEF ServingInv, AnswersFromOwnSnapshot, CacheBounded, ClusteringKeepsGraph
<1>6. CallsInOrder'
  <2>. SUFFICES ASSUME NEW c \in Calls PROVE CallInOrder(call[c])'
    BY DEF CallsInOrder
  <2>1. CallInOrder(call[c])
    BY DEF ServingInv, CallsInOrder
  <2>2. call[c].snapshot # None => call[c].snapshot.version \in Nat
    BY <1>2 DEF CallStates, Snapshots
  <2>. QED BY <1>1, <2>1, <2>2 DEF CallInOrder
<1>7. PICK G \in [1..MaxVersion -> SUBSET Nodes] : FollowsHistory(G)
  BY DEF ServingInv
<1>8. PICK H \in [1..MaxVersion -> SUBSET Nodes] :
        /\ H[nextVersion] = g
        /\ \A v \in 1..MaxVersion : v # nextVersion => H[v] = G[v]
  <2>1. [G EXCEPT ![nextVersion] = g] \in [1..MaxVersion -> SUBSET Nodes]
    BY <1>1
  <2>. QED BY <1>1, <2>1
<1>9. FollowsHistory(H)'
  <2>1. current'.graph = H[current'.version]
    BY <1>3, <1>8
  <2>2. ASSUME NEW c \in Calls, call[c].snapshot # None
        PROVE  call[c].snapshot.graph = H[call[c].snapshot.version]
    <3>1. call[c].snapshot.version \in 1..MaxVersion
      BY <1>2, <2>2 DEF CallStates, Snapshots
    <3>2. call[c].snapshot.version < nextVersion
      BY <2>2 DEF ServingInv, CallsInOrder, CallInOrder
    <3>3. call[c].snapshot.version # nextVersion
      BY <1>1, <3>1, <3>2
    <3>. QED BY <1>7, <1>8, <2>2, <3>1, <3>3 DEF FollowsHistory
  <2>3. ASSUME NEW i \in DOMAIN entries
        PROVE  entries[i].value
                 = [text |-> <<"query_graph", entries[i].key[2], H[entries[i].key[1]]>>]
    <3>1. entries[i] \in Entries
      BY <1>2
    <3>2. entries[i].key[1] \in 1..MaxVersion /\ entries[i].key[1] < nextVersion
      BY <1>2, <3>1 DEF Entries
    <3>3. H[entries[i].key[1]] = G[entries[i].key[1]]
      BY <1>1, <1>8, <3>2
    <3>. QED BY <1>7, <3>3 DEF FollowsHistory
  <2>. QED BY <1>1, <2>1, <2>2, <2>3 DEF FollowsHistory
<1>. QED BY <1>4, <1>5, <1>6, <1>8, <1>9 DEF ServingInv

\* One step of a call: it becomes r, whose snapshot is the one it had, the
\* current one or none, and the cache gains at most the call's own result.
LEMMA CallStepInv ==
  ASSUME ServingInv, NEW c \in Calls, NEW r \in CallStates,
         call' = [call EXCEPT ![c] = r],
         UNCHANGED <<current, nextVersion, clustering>>,
         CallInOrder(r),
         r.pc \notin {"new", "done"} => r.snapshot # None,
         r.pc = "done" /\ r.snapshot # None =>
           r.answer \in {Result(r.tool, r.question, r.snapshot), Error("failed")},
         r.snapshot \in {call[c].snapshot, current, None},
         entries' \in Seq(Entries), UniqueKeys(entries'),
         Len(entries') <= CacheSize \/ entries' = <<>>,
         \A j \in DOMAIN entries' :
           \/ \E k \in DOMAIN entries : entries'[j] = entries[k]
           \/ /\ call[c].snapshot # None
              /\ entries'[j].key = <<call[c].snapshot.version, call[c].question>>
              /\ entries'[j].value = Result("query_graph", call[c].question, call[c].snapshot)
  PROVE  ServingInv'
<1>1. /\ current' = current /\ nextVersion' = nextVersion /\ clustering' = clustering
      /\ call'[c] = r /\ \A d \in Calls : d # c => call'[d] = call[d]
      /\ call' \in [Calls -> CallStates] /\ call \in [Calls -> CallStates]
  BY DEF ServingInv, TypeOK
<1>2. /\ current \in Snapshots \cup {None} /\ entries \in Seq(Entries)
      /\ \A i \in DOMAIN entries : entries[i].key[1] < nextVersion
      /\ \A d \in Calls : call[d].pc \notin {"new", "done"} => call[d].snapshot # None
      /\ \A d \in Calls : CallInOrder(call[d])
  BY DEF ServingInv, TypeOK, CallsInOrder, Entries
<1>3. call[c].snapshot # None =>
        /\ call[c].snapshot \in Snapshots /\ call[c].question \in Questions
        /\ call[c].snapshot.version < nextVersion
  BY <1>1, <1>2 DEF CallInOrder, CallStates
<1>4. TypeOK'
  <2>1. \A j \in DOMAIN entries' : entries'[j].key[1] < nextVersion
    BY <1>2, <1>3
  <2>. QED BY <1>1, <1>2, <2>1 DEF ServingInv, TypeOK, Entries
<1>5. AnswersFromOwnSnapshot'
  <2>1. ASSUME NEW j \in DOMAIN entries' PROVE entries'[j].value # Error("failed")
    <3>1. entries'[j] \in Entries
      OBVIOUS
    <3>. QED BY <3>1, TextsNotFailures DEF Entries
  <2>2. \A d \in Calls : call'[d].pc = "done" /\ call'[d].snapshot # None =>
          call'[d].answer \in {Result(call'[d].tool, call'[d].question, call'[d].snapshot),
                               Error("failed")}
    BY <1>1 DEF ServingInv, AnswersFromOwnSnapshot
  <2>. QED BY <2>1, <2>2 DEF AnswersFromOwnSnapshot, Result, Error
<1>6. CacheBounded' /\ ClusteringKeepsGraph'
  BY <1>1 DEF ServingInv, CacheBounded, ClusteringKeepsGraph, UniqueKeys
<1>7. CallsInOrder'
  <2>. SUFFICES ASSUME NEW d \in Calls PROVE CallInOrder(call[d])'
    BY DEF CallsInOrder
  <2>1. CallInOrder(call'[d])
    BY <1>1, <1>2
  <2>. QED BY <1>1, <2>1 DEF CallInOrder, Result, Error, NoCall
<1>8. PICK G \in [1..MaxVersion -> SUBSET Nodes] : FollowsHistory(G)
  BY DEF ServingInv
<1>9. FollowsHistory(G)'
  <2>1. \A d \in Calls : call'[d].snapshot # None =>
          call'[d].snapshot.graph = G[call'[d].snapshot.version]
    BY <1>1, <1>8 DEF FollowsHistory
  <2>2. ASSUME NEW j \in DOMAIN entries'
        PROVE  entries'[j].value
                 = [text |-> <<"query_graph", entries'[j].key[2], G[entries'[j].key[1]]>>]
    <3>1. CASE \E k \in DOMAIN entries : entries'[j] = entries[k]
      BY <1>8, <3>1 DEF FollowsHistory
    <3>2. CASE /\ call[c].snapshot # None
               /\ entries'[j].key = <<call[c].snapshot.version, call[c].question>>
               /\ entries'[j].value = Result("query_graph", call[c].question, call[c].snapshot)
      <4>1. call[c].snapshot.graph = G[call[c].snapshot.version]
        BY <1>8, <3>2 DEF FollowsHistory
      <4>. QED BY <1>3, <3>2, <4>1, ResultType
    <3>. QED BY <3>1, <3>2
  <2>. QED BY <1>1, <1>8, <2>1, <2>2 DEF FollowsHistory
<1>. QED BY <1>4, <1>5, <1>6, <1>7, <1>9 DEF ServingInv

\* The same for a step that leaves the cache alone.
LEMMA CallStepNoCache ==
  ASSUME ServingInv, NEW c \in Calls, NEW r \in CallStates,
         call' = [call EXCEPT ![c] = r],
         UNCHANGED <<current, nextVersion, clustering, entries>>,
         CallInOrder(r),
         r.pc \notin {"new", "done"} => r.snapshot # None,
         r.pc = "done" /\ r.snapshot # None =>
           r.answer \in {Result(r.tool, r.question, r.snapshot), Error("failed")},
         r.snapshot \in {call[c].snapshot, current, None}
  PROVE  ServingInv'
<1>1. /\ entries' = entries /\ entries \in Seq(Entries) /\ UniqueKeys(entries)
      /\ Len(entries) <= CacheSize \/ entries = <<>>
      /\ UNCHANGED <<current, nextVersion, clustering>>
  BY DEF ServingInv, TypeOK, CacheBounded, UniqueKeys, Entries
<1>2. \A j \in DOMAIN entries' : \E k \in DOMAIN entries : entries'[j] = entries[k]
  BY <1>1
<1>. QED BY <1>1, <1>2, CallStepInv

\* The writer's steps keep the invariant; a batch cannot publish while a cycle
\* holds the lock, and what the cycle publishes is the graph it captured.
LEMMA WriterInv ==
  ASSUME ServingInv,
         PublishInitial \/ PublishBatch \/ BeginClustering \/ ClusteringDone \/ ClusteringFails
  PROVE  ServingInv'
<1>1. /\ current \in Snapshots \cup {None} /\ clustering \in Snapshots \cup {None}
      /\ clustering # None => clustering = current
  BY DEF ServingInv, TypeOK, ClusteringKeepsGraph
<1>2. CASE PublishInitial
  <2>1. PICK g \in SUBSET Nodes : PublishSnapshot(g, {})
    BY <1>2 DEF PublishInitial
  <2>2. clustering' = None /\ UNCHANGED <<entries, call>>
    BY <1>1, <1>2 DEF PublishInitial
  <2>. QED BY <2>1, <2>2, PublishInv
<1>3. CASE PublishBatch
  <2>1. PICK g \in SUBSET Nodes : PublishSnapshot(g, current.communities)
    BY <1>3 DEF PublishBatch
  <2>2. clustering' = None /\ UNCHANGED <<entries, call>> /\ current.communities \in SUBSET Nodes
    BY <1>1, <1>3 DEF PublishBatch, Snapshots
  <2>. QED BY <2>1, <2>2, PublishInv
<1>4. CASE ClusteringDone
  <2>1. clustering' = None /\ UNCHANGED <<entries, call>> /\ clustering.graph \in SUBSET Nodes
    BY <1>1, <1>4 DEF ClusteringDone, Snapshots
  <2>. QED BY <1>4, <2>1, PublishInv DEF ClusteringDone
<1>5. CASE BeginClustering \/ ClusteringFails
  <2>1. /\ current' = current /\ nextVersion' = nextVersion /\ entries' = entries /\ call' = call
        /\ clustering' \in {None, current}
    BY <1>5 DEF BeginClustering, ClusteringFails
  <2>2. TypeOK'
    BY <1>1, <2>1 DEF ServingInv, TypeOK
  <2>3. AnswersFromOwnSnapshot' /\ CacheBounded' /\ ClusteringKeepsGraph'
    BY <2>1 DEF ServingInv, AnswersFromOwnSnapshot, CacheBounded, ClusteringKeepsGraph
  <2>4. CallsInOrder'
    BY <2>1 DEF ServingInv, CallsInOrder, CallInOrder
  <2>5. (\E G \in [1..MaxVersion -> SUBSET Nodes] : FollowsHistory(G))'
    BY <2>1 DEF ServingInv, FollowsHistory
  <2>. QED BY <2>2, <2>3, <2>4, <2>5 DEF ServingInv
<1>. QED BY <1>2, <1>3, <1>4, <1>5

\* So does the start of a call, refused or not.
LEMMA BeginCallInv ==
  ASSUME ServingInv, NEW c \in Calls, NEW tool \in Tools \cup {"unknown"},
         NEW q \in Questions \cup {"invalid"}, BeginCall(c, tool, q) \/ Refuse(c, tool, q)
  PROVE  ServingInv'
<1>1. /\ current \in Snapshots \cup {None} /\ call[c] \in CallStates
      /\ call \in [Calls -> CallStates] /\ CallInOrder(call[c])
      /\ current # None => current.version < nextVersion
  BY DEF ServingInv, TypeOK, CallsInOrder
<1>2. CASE BeginCall(c, tool, q)
  <2>1. current # None /\ tool \in Tools /\ q \in Questions
    BY <1>2, NoneAssumption DEF BeginCall, Refusal, Refusals
  <2>. DEFINE r == [pc |-> IF tool = "query_graph" THEN "lookup" ELSE "execute",
                    tool |-> tool, question |-> q, snapshot |-> current, answer |-> None]
  <2>2. r \in CallStates /\ r.snapshot = current /\ CallInOrder(r)
    BY <1>1, <2>1 DEF CallStates, CallInOrder
  <2>3. r.pc \in {"lookup", "execute"}
    OBVIOUS
  <2>4. call' = [call EXCEPT ![c] = r] /\ UNCHANGED <<current, nextVersion, clustering, entries>>
    BY <1>2 DEF BeginCall
  <2>. HIDE DEF r
  <2>. QED BY <2>1, <2>2, <2>3, <2>4, CallStepNoCache
<1>3. CASE Refuse(c, tool, q)
  <2>. DEFINE r == [call[c] EXCEPT !.pc = "done", !.answer = Refusal(tool, q)]
  <2>1. Refusal(tool, q) \in Refusals
    BY <1>3 DEF Refuse, Refusal, Refusals
  <2>2. call[c] = NoCall
    BY <1>1, <1>3 DEF Refuse, CallInOrder
  <2>3. r \in CallStates /\ r.pc = "done" /\ r.snapshot = None
    <3>1. Refusal(tool, q) \in Answers
      BY <2>1 DEF Answers
    <3>2. call[c].snapshot = None
      BY <2>2 DEF NoCall
    <3>. QED BY <1>1, <3>1, <3>2 DEF CallStates
  <2>4. call' = [call EXCEPT ![c] = r] /\ UNCHANGED <<current, nextVersion, clustering, entries>>
    BY <1>1, <1>3 DEF Refuse, Answer
  <2>5. CallInOrder(r)
    BY <2>3 DEF CallInOrder
  <2>. HIDE DEF r
  <2>. QED BY <2>3, <2>4, <2>5, CallStepNoCache
<1>. QED BY <1>2, <1>3

\* So does a lookup: an entry found is, by the history, the call's own answer.
LEMMA HitInv ==
  ASSUME ServingInv, NEW c \in Calls, Hit(c)
  PROVE  ServingInv'
<1>1. /\ call[c] \in CallStates /\ call \in [Calls -> CallStates] /\ CallInOrder(call[c])
      /\ call[c].snapshot # None /\ call[c].tool = "query_graph"
      /\ entries \in Seq(Entries) /\ UniqueKeys(entries)
      /\ Len(entries) <= CacheSize \/ entries = <<>>
  BY DEF ServingInv, TypeOK, CallsInOrder, CallInOrder, Hit, CacheBounded, UniqueKeys, Entries
<1>2. call[c].snapshot \in Snapshots /\ call[c].question \in Questions
  BY <1>1 DEF CallStates, CallInOrder
<1>3. PICK i \in DOMAIN entries :
        /\ entries[i].key = <<call[c].snapshot.version, call[c].question>>
        /\ call' = [call EXCEPT ![c].pc = "done", ![c].answer = entries[i].value]
        /\ entries' = Touch(i)
  BY DEF Hit, Cached, Key, Answer
<1>4. PICK G \in [1..MaxVersion -> SUBSET Nodes] : FollowsHistory(G)
  BY DEF ServingInv
<1>5. entries[i].value = Result("query_graph", call[c].question, call[c].snapshot)
  <2>1. call[c].snapshot.graph = G[call[c].snapshot.version]
    BY <1>1, <1>4 DEF FollowsHistory
  <2>2. entries[i].key[1] = call[c].snapshot.version /\ entries[i].key[2] = call[c].question
    BY <1>3
  <2>3. entries[i].value = [text |-> <<"query_graph", entries[i].key[2], G[entries[i].key[1]]>>]
    BY <1>4 DEF FollowsHistory
  <2>. QED BY <1>2, <2>1, <2>2, <2>3, ResultType
<1>. DEFINE r == [call[c] EXCEPT !.pc = "done", !.answer = entries[i].value]
<1>6. entries[i].value \in Answers
  <2>1. entries[i] \in Entries
    BY <1>1
  <2>2. entries[i].value \in Texts
    BY <2>1 DEF Entries
  <2>. QED BY <2>2 DEF Answers
<1>7. /\ r \in CallStates /\ r.pc = "done" /\ r.tool = call[c].tool
      /\ r.question = call[c].question /\ r.snapshot = call[c].snapshot
      /\ r.answer = entries[i].value
  BY <1>1, <1>6 DEF CallStates
<1>8. call' = [call EXCEPT ![c] = r] /\ UNCHANGED <<current, nextVersion, clustering>>
  BY <1>1, <1>3 DEF Hit
<1>. HIDE DEF r
<1>9. CallInOrder(r)
  BY <1>1, <1>7 DEF CallInOrder
<1>10. r.answer = Result(r.tool, r.question, r.snapshot)
  BY <1>1, <1>5, <1>7
<1>11. /\ entries' \in Seq(Entries) /\ Len(entries') = Len(entries) /\ UniqueKeys(entries')
       /\ \A j \in DOMAIN entries' : \E k \in DOMAIN entries : entries'[j] = entries[k]
  BY <1>1, <1>3, TouchProperties
<1>12. Len(entries') <= CacheSize \/ entries' = <<>>
  BY <1>1, <1>11, EmptySeq
<1>. QED BY <1>7, <1>8, <1>9, <1>10, <1>11, <1>12, CallStepInv

\* So does a store: two calls may store the same key, each its own result.
LEMMA StoreInv ==
  ASSUME ServingInv, NEW c \in Calls, Store(c)
  PROVE  ServingInv'
<1>1. /\ call[c] \in CallStates /\ call \in [Calls -> CallStates] /\ CallInOrder(call[c])
      /\ call[c].snapshot # None /\ call[c].tool = "query_graph" /\ call[c].pc = "store"
      /\ entries \in Seq(Entries) /\ UniqueKeys(entries)
      /\ Len(entries) <= CacheSize \/ entries = <<>>
  BY DEF ServingInv, TypeOK, CallsInOrder, CallInOrder, Store, CacheBounded, UniqueKeys, Entries
<1>2. /\ call[c].snapshot \in Snapshots /\ call[c].question \in Questions
      /\ call[c].answer = Result("query_graph", call[c].question, call[c].snapshot)
  BY <1>1 DEF CallStates, CallInOrder
<1>. DEFINE e == [key |-> <<call[c].snapshot.version, call[c].question>>,
                  value |-> call[c].answer]
            r == [call[c] EXCEPT !.pc = "done"]
<1>3. e \in Entries
  <2>1. call[c].answer \in Texts
    BY <1>2, ResultType
  <2>2. call[c].snapshot.version \in 1..MaxVersion
    BY <1>2 DEF Snapshots
  <2>. QED BY <1>2, <2>1, <2>2 DEF Entries
<1>4. /\ entries' = Insert(entries, e) /\ call' = [call EXCEPT ![c] = r]
      /\ UNCHANGED <<current, nextVersion, clustering>>
  BY <1>1 DEF Store, Key
<1>5. /\ r \in CallStates /\ r.pc = "done" /\ r.tool = call[c].tool
      /\ r.question = call[c].question /\ r.snapshot = call[c].snapshot
      /\ r.answer = call[c].answer
  BY <1>1 DEF CallStates
<1>6. e.key = <<call[c].snapshot.version, call[c].question>> /\ e.value = call[c].answer
  OBVIOUS
<1>. HIDE DEF r, e
<1>7. /\ entries' \in Seq(Entries) /\ UniqueKeys(entries')
      /\ Len(entries') <= CacheSize \/ entries' = <<>>
      /\ \A j \in DOMAIN entries' :
           entries'[j] = e \/ \E k \in DOMAIN entries : entries'[j] = entries[k]
  BY <1>1, <1>3, <1>4, InsertProperties
<1>8. CallInOrder(r)
  BY <1>1, <1>5 DEF CallInOrder
<1>9. r.answer = Result(r.tool, r.question, r.snapshot)
  BY <1>1, <1>2, <1>5
<1>. QED BY <1>1, <1>2, <1>4, <1>5, <1>6, <1>7, <1>8, <1>9, CallStepInv

\* And so do the steps that touch nothing but the call itself.
LEMMA OwnStepInv ==
  ASSUME ServingInv, NEW c \in Calls,
         Miss(c) \/ Execute(c) \/ ExecuteRaises(c) \/ CallCancelled(c) \/ EndCall(c)
  PROVE  ServingInv'
<1>1. /\ call[c] \in CallStates /\ call \in [Calls -> CallStates] /\ CallInOrder(call[c])
      /\ call[c].pc \notin {"new", "done"} => call[c].snapshot # None
  BY DEF ServingInv, TypeOK, CallsInOrder
<1>2. UNCHANGED <<current, nextVersion, clustering, entries>>
  BY DEF Miss, Execute, ExecuteRaises, CallCancelled, EndCall
<1>3. CASE Miss(c)
  <2>. DEFINE r == [call[c] EXCEPT !.pc = "execute"]
  <2>1. /\ r \in CallStates /\ r.pc = "execute" /\ r.tool = call[c].tool
        /\ r.question = call[c].question /\ r.snapshot = call[c].snapshot
    BY <1>1 DEF CallStates
  <2>2. call' = [call EXCEPT ![c] = r] /\ call[c].pc = "lookup"
    BY <1>1, <1>3 DEF Miss
  <2>. HIDE DEF r
  <2>3. CallInOrder(r)
    BY <1>1, <2>1 DEF CallInOrder
  <2>. QED BY <1>1, <1>2, <2>1, <2>2, <2>3, CallStepNoCache
<1>4. CASE Execute(c)
  <2>. DEFINE a == Result(call[c].tool, call[c].question, call[c].snapshot)
              p == IF call[c].tool = "query_graph" THEN "store" ELSE "done"
              r == [call[c] EXCEPT !.pc = p, !.answer = a]
  <2>1. /\ call[c].pc = "execute" /\ call[c].snapshot # None
        /\ call[c].snapshot \in Snapshots /\ call[c].tool \in Tools /\ call[c].question \in Questions
    BY <1>1, <1>4 DEF Execute, CallInOrder, CallStates
  <2>2. a \in Answers
    BY <2>1, ResultType
  <2>3. p \in {"store", "done"} /\ (p = "store" => call[c].tool = "query_graph")
    OBVIOUS
  <2>4. call' = [call EXCEPT ![c] = r]
    BY <1>1, <1>4 DEF Execute
  <2>. HIDE DEF a, p
  <2>5. /\ r \in CallStates /\ r.pc = p /\ r.tool = call[c].tool
        /\ r.question = call[c].question /\ r.snapshot = call[c].snapshot /\ r.answer = a
    BY <1>1, <2>2, <2>3 DEF CallStates
  <2>. HIDE DEF r
  <2>6. r.answer = Result(r.tool, r.question, r.snapshot)
    BY <2>5 DEF a
  <2>7. CallInOrder(r)
    BY <1>1, <2>1, <2>3, <2>5, <2>6 DEF CallInOrder
  <2>. QED BY <1>2, <2>1, <2>3, <2>4, <2>5, <2>6, <2>7, CallStepNoCache
<1>5. CASE ExecuteRaises(c)
  <2>. DEFINE r == [call[c] EXCEPT !.pc = "done", !.answer = Error("failed")]
  <2>1. /\ r \in CallStates /\ r.pc = "done" /\ r.tool = call[c].tool
        /\ r.question = call[c].question /\ r.snapshot = call[c].snapshot
        /\ r.answer = Error("failed")
    <3>1. Error("failed") \in Answers
      BY DEF Answers
    <3>. QED BY <1>1, <3>1 DEF CallStates
  <2>2. call' = [call EXCEPT ![c] = r]
    BY <1>1, <1>5 DEF ExecuteRaises, Answer
  <2>. HIDE DEF r
  <2>3. CallInOrder(r)
    BY <1>1, <2>1 DEF CallInOrder
  <2>. QED BY <1>2, <2>1, <2>2, <2>3, CallStepNoCache
<1>6. CASE CallCancelled(c) \/ EndCall(c)
  <2>1. NoCall \in CallStates /\ CallInOrder(NoCall) /\ NoCall.pc = "new" /\ NoCall.snapshot = None
    BY DEF NoCall, CallStates, CallInOrder
  <2>2. call' = [call EXCEPT ![c] = NoCall]
    BY <1>6 DEF CallCancelled, EndCall
  <2>. QED BY <1>2, <2>1, <2>2, CallStepNoCache
<1>. QED BY <1>3, <1>4, <1>5, <1>6

\* Every step keeps the invariant.
LEMMA ServingNext == ServingInv /\ [Next]_vars => ServingInv'
<1>. SUFFICES ASSUME ServingInv, [Next]_vars PROVE ServingInv'
  OBVIOUS
<1>1. CASE UNCHANGED vars
  <2>1. /\ current' = current /\ nextVersion' = nextVersion /\ clustering' = clustering
        /\ entries' = entries /\ call' = call
    BY <1>1 DEF vars
  <2>. QED BY <2>1 DEF ServingInv, TypeOK, AnswersFromOwnSnapshot, CacheBounded,
        ClusteringKeepsGraph, CallsInOrder, CallInOrder, FollowsHistory
<1>2. CASE Next
  BY <1>2, WriterInv, BeginCallInv, HitInv, StoreInv, OwnStepInv DEF Next
<1>. QED BY <1>1, <1>2

-----------------------------------------------------------------------------
(* What follows of it *)

\* The inductive invariant holds in every reachable state.
THEOREM ServingInductive == Spec => []ServingInv
  BY ServingInit, ServingNext, PTL DEF Spec

\* The holder, the cache and the calls keep their types, and no version in use
\* is one that SnapshotHolder.publish has yet to give.
THEOREM TypeCorrect == Spec => []TypeOK
<1>1. ServingInv => TypeOK
  BY DEF ServingInv
<1>. QED BY <1>1, ServingInductive, PTL

\* A cached answer is the one the call would have computed on the snapshot it
\* took, whatever was published since: _dispatch with QueryCache.get and set.
THEOREM AnswersAreOwn == Spec => []AnswersFromOwnSnapshot
<1>1. ServingInv => AnswersFromOwnSnapshot
  BY DEF ServingInv
<1>. QED BY <1>1, ServingInductive, PTL

\* QueryCache stays within its size and holds a key once, for every lru_size.
THEOREM CacheStaysBounded == Spec => []CacheBounded
<1>1. ServingInv => CacheBounded
  BY DEF ServingInv
<1>. QED BY <1>1, ServingInductive, PTL

\* run_clustering_cycle republishes the graph that is current.
THEOREM ClusteringNeverReverts == Spec => []ClusteringKeepsGraph
<1>1. ServingInv => ClusteringKeepsGraph
  BY DEF ServingInv
<1>. QED BY <1>1, ServingInductive, PTL

=============================================================================
