--------------------------- MODULE ToolCallsProofs ---------------------------
(***************************************************************************)
(* Proofs about ToolCalls for every set of budgets, every number and       *)
(* length of lines, every window size and every number of calls.           *)
(***************************************************************************)
EXTENDS ToolCalls, FiniteSetTheorems, FunctionTheorems, SequenceTheorems, TLAPS

\* Every line ends behind the one before it, and there is none without text.
Rising(es) ==
  /\ \A n \in 1..Len(es) : es[n] \in Nat \ {0}
  /\ \A m, n \in 1..Len(es) : m < n => es[m] < es[n]

LEMMA BoundsAreNat ==
  /\ MaxLines \in Nat /\ LatencyWindow \in Nat \ {0}
  /\ \A tokens \in Budgets : tokens \in Nat \ {0}
  BY ToolCallsAssumption

-----------------------------------------------------------------------------
(* Where an answer is cut *)

\* Numbers from 1 on without a gap are as many as the last of them.
LEMMA NoGap ==
  ASSUME NEW m \in Nat, NEW N \in SUBSET (1..m), \A i \in N : \A j \in 1..i : j \in N
  PROVE  \E k \in 0..m : N = 1..k
<1>1. /\ IsFiniteSet(1..m) /\ Cardinality(1..m) = m
  BY FS_Interval
<1>2. IsFiniteSet(N) /\ Cardinality(N) <= m /\ Cardinality(N) \in Nat
  BY <1>1, FS_Subset, FS_CardinalityType
<1>3. PICK k \in 0..m : k = Cardinality(N)
  BY <1>2
<1>4. N \subseteq 1..k
  <2>1. SUFFICES ASSUME NEW i \in N PROVE i <= k
    BY <1>3
  <2>2. i \in Nat /\ i >= 1 /\ 1..i \in SUBSET N
    OBVIOUS
  <2>3. Cardinality(1..i) = i
    BY <2>2, FS_Interval
  <2>4. Cardinality(1..i) <= Cardinality(N)
    BY <1>2, <2>2, FS_Subset
  <2>. QED BY <1>3, <2>3, <2>4
<1>5. IsFiniteSet(1..k) /\ Cardinality(1..k) = k
  BY FS_Interval
<1>6. N = 1..k
  BY <1>3, <1>4, <1>5, FS_Subset
<1>. QED BY <1>6

\* The newlines before a position are those after the first k lines.
LEMMA NewlinesBefore ==
  ASSUME NEW es \in Seq(Nat), Rising(es), es # <<>>, NEW end \in Nat
  PROVE  \E k \in 0..(Len(es) - 1) :
           /\ { i \in Newlines(es) : i < end } = { es[n] : n \in 1..k }
           /\ Cardinality({ i \in Newlines(es) : i < end }) = k
           /\ \A n \in 1..k : es[n] < end
           /\ \A n \in 1..(Len(es) - 1) : n > k => es[n] >= end
<1>1. Len(es) \in Nat /\ Len(es) - 1 \in Nat
  OBVIOUS
<1>. DEFINE N == { n \in 1..(Len(es) - 1) : es[n] < end }
<1>2. PICK k \in 0..(Len(es) - 1) : N = 1..k
  <2>1. N \in SUBSET (1..(Len(es) - 1))
    OBVIOUS
  <2>2. ASSUME NEW i \in N, NEW j \in 1..i PROVE j \in N
    <3>1. j \in 1..(Len(es) - 1) /\ i \in 1..(Len(es) - 1) /\ es[i] < end
      BY <1>1
    <3>2. es[j] <= es[i] /\ es[j] \in Nat /\ es[i] \in Nat
      BY <1>1, <3>1 DEF Rising
    <3>. QED BY <3>1, <3>2
  <2>. HIDE DEF N
  <2>. QED BY <1>1, <2>1, <2>2, NoGap
<1>3. /\ \A n \in 1..k : n \in 1..(Len(es) - 1) /\ es[n] < end
      /\ \A n \in 1..(Len(es) - 1) : n > k => es[n] >= end
  <2>1. ASSUME NEW n \in 1..k PROVE n \in 1..(Len(es) - 1) /\ es[n] < end
    BY <1>2
  <2>2. ASSUME NEW n \in 1..(Len(es) - 1), n > k PROVE es[n] >= end
    <3>1. n \notin N
      <4>. HIDE DEF N
      <4>. QED BY <1>1, <1>2, <2>2
    <3>2. es[n] \in Nat
      BY <1>1
    <3>. QED BY <3>1, <3>2
  <2>. QED BY <2>1, <2>2
<1>. DEFINE B == { i \in Newlines(es) : i < end }
<1>4. B = { es[n] : n \in 1..k }
  <2>1. ASSUME NEW b \in B PROVE b \in { es[n] : n \in 1..k }
    <3>1. PICK n \in 1..(Len(es) - 1) : b = es[n] /\ es[n] < end
      BY <2>1 DEF Newlines
    <3>2. n \in N
      BY <3>1
    <3>. QED BY <1>2, <3>1, <3>2
  <2>2. ASSUME NEW n \in 1..k PROVE es[n] \in B
    BY <1>3 DEF Newlines
  <2>. QED BY <2>1, <2>2
<1>5. Cardinality(B) = k
  <2>. DEFINE f == [n \in 1..k |-> es[n]]
  <2>1. f \in [1..k -> B]
    BY <1>4
  <2>2. \A x, y \in 1..k : f[x] = f[y] => x = y
    <3>1. SUFFICES ASSUME NEW x \in 1..k, NEW y \in 1..k, x # y PROVE es[x] # es[y]
      OBVIOUS
    <3>2. x \in 1..Len(es) /\ y \in 1..Len(es) /\ es[x] \in Nat /\ es[y] \in Nat
      BY <1>1
    <3>. QED BY <3>1, <3>2 DEF Rising
  <2>3. \A b \in B : \E n \in 1..k : f[n] = b
    BY <1>4
  <2>. HIDE DEF f, B
  <2>4. f \in Bijection(1..k, B)
    BY <2>1, <2>2, <2>3, Fun_IsBij
  <2>5. ExistsBijection(1..k, B)
    BY <2>4 DEF ExistsBijection
  <2>. QED BY <2>5, FS_CountingElements
<1>. QED BY <1>3, <1>4, <1>5

LEMMA MaxIs ==
  ASSUME NEW S \in SUBSET Int, NEW x \in S, \A y \in S : x >= y
  PROVE  Max(S) = x
<1>1. Max(S) \in S /\ \A y \in S : Max(S) >= y
  BY DEF Max
<1>. HIDE DEF Max
<1>2. Max(S) \in Int /\ x \in Int /\ Max(S) >= x /\ x >= Max(S)
  BY <1>1
<1>. QED BY <1>2

\* The cut falls on the last newline inside the budget, and what is before it
\* is whole lines; without one it falls inside, or at the end of, the first line.
LEMMA CutShape ==
  ASSUME NEW es \in Seq(Nat), Rising(es), es # <<>>, NEW tokens \in Nat \ {0},
         ~Fits(es, tokens)
  PROVE  /\ CutAt(es, tokens) \in Nat /\ CutAt(es, tokens) <= tokens * 3
         /\ Shown(es, tokens) \in 1..Len(es)
         /\ \/ CutAt(es, tokens) = es[Shown(es, tokens)] /\ Shown(es, tokens) < Len(es)
            \/ /\ CutAt(es, tokens) = tokens * 3 /\ Shown(es, tokens) = 1
               /\ es[1] >= tokens * 3
         /\ Shown(es, tokens) < Len(es) => es[Shown(es, tokens) + 1] >= tokens * 3
<1>1. /\ Len(es) \in Nat /\ Len(es) >= 1 /\ \A n \in 1..Len(es) : es[n] \in Nat \ {0}
      /\ tokens * 3 \in Nat /\ tokens * 3 > 0
  BY DEF Rising
<1>2. es[Len(es)] > tokens * 3
  BY <1>1 DEF Fits
<1>. DEFINE end == tokens * 3
<1>. HIDE DEF end
<1>3. end \in Nat /\ end > 0
  BY <1>1 DEF end
<1>4. PICK k \in 0..(Len(es) - 1) :
        /\ { i \in Newlines(es) : i < end } = { es[n] : n \in 1..k }
        /\ Cardinality({ i \in Newlines(es) : i < end }) = k
        /\ \A n \in 1..k : es[n] < end
        /\ \A n \in 1..(Len(es) - 1) : n > k => es[n] >= end
  BY <1>3, NewlinesBefore
<1>5. es[k + 1] >= end /\ k + 1 \in 1..Len(es)
  <2>1. CASE k = Len(es) - 1
    BY <1>1, <1>2, <2>1 DEF end
  <2>2. CASE k # Len(es) - 1
    <3>1. k + 1 \in 1..(Len(es) - 1)
      BY <1>1, <2>2
    <3>. QED BY <1>1, <1>4, <3>1
  <2>. QED BY <2>1, <2>2
<1>6. CASE k = 0
  <2>1. { i \in Newlines(es) : i < end } = {}
    BY <1>4, <1>6
  <2>2. RFind(es, end) = -1
    <3>1. {-1} \cup { i \in Newlines(es) : i < end } = {-1}
      BY <2>1
    <3>2. Max({-1}) = -1
      <4>. DEFINE S == {-1}
      <4>1. S \in SUBSET Int /\ -1 \in S /\ \A y \in S : -1 >= y
        OBVIOUS
      <4>. HIDE DEF S
      <4>2. Max(S) = -1
        BY <4>1, MaxIs
      <4>. QED BY <4>2 DEF S
    <3>. QED BY <3>1, <3>2 DEF RFind
  <2>3. CutAt(es, tokens) = end
    BY <2>2 DEF CutAt, end
  <2>4. Shown(es, tokens) = 1
    BY <1>4, <1>6, <2>3 DEF Shown
  <2>5. es[1] >= end
    BY <1>5, <1>6
  <2>6. Shown(es, tokens) < Len(es) => es[Shown(es, tokens) + 1] >= end
    <3>1. SUFFICES ASSUME 1 < Len(es) PROVE es[2] >= end
      BY <2>4
    <3>2. es[1] < es[2] /\ es[1] \in Nat /\ es[2] \in Nat
      BY <1>1, <3>1 DEF Rising
    <3>. QED BY <1>3, <2>5, <3>2
  <2>. QED BY <1>1, <1>3, <2>3, <2>4, <2>5, <2>6 DEF end
<1>7. CASE k > 0
  <2>1. k \in 1..Len(es) /\ k \in 1..(Len(es) - 1) /\ k \in 1..k
    BY <1>1, <1>7
  <2>2. es[k] \in Nat \ {0} /\ es[k] < end
    BY <1>1, <1>4, <2>1
  <2>3. RFind(es, end) = es[k]
    <3>. DEFINE S == {-1} \cup { es[n] : n \in 1..k }
    <3>1. S \in SUBSET Int
      BY <1>1, <2>1
    <3>2. es[k] \in S
      BY <2>1
    <3>3. \A y \in S : es[k] >= y
      BY <1>1, <2>1, <2>2 DEF Rising
    <3>4. RFind(es, end) = Max(S)
      BY <1>4 DEF RFind
    <3>. HIDE DEF S
    <3>. QED BY <3>1, <3>2, <3>3, <3>4, MaxIs
  <2>4. CutAt(es, tokens) = es[k]
    BY <2>2, <2>3 DEF CutAt, end
  <2>5. PICK m \in 0..(Len(es) - 1) :
        /\ Cardinality({ i \in Newlines(es) : i < es[k] }) = m
        /\ \A n \in 1..m : es[n] < es[k]
        /\ \A n \in 1..(Len(es) - 1) : n > m => es[n] >= es[k]
    BY <2>2, NewlinesBefore
  <2>6. m = k - 1
    <3>1. k \notin 1..m
      BY <2>2, <2>5
    <3>2. k - 1 > m => FALSE
      <4>. SUFFICES ASSUME k - 1 > m PROVE FALSE
        OBVIOUS
      <4>1. k - 1 \in 1..(Len(es) - 1) /\ k - 1 \in 1..Len(es)
        BY <1>1, <2>1, <2>5
      <4>2. es[k - 1] >= es[k] /\ es[k - 1] \in Nat
        BY <1>1, <2>5, <4>1
      <4>. QED BY <1>1, <2>1, <4>1, <4>2 DEF Rising
    <3>. QED BY <1>1, <2>1, <2>5, <3>1, <3>2
  <2>7. Shown(es, tokens) = k
    BY <2>1, <2>4, <2>5, <2>6 DEF Shown
  <2>. QED BY <1>1, <1>3, <1>5, <2>1, <2>2, <2>4, <2>7 DEF end
<1>. QED BY <1>6, <1>7

\* What _cut_lines_to_budget returns says what it did.
LEMMA CutHonest ==
  ASSUME NEW es \in Seq(Nat), Rising(es), es # <<>>, NEW tokens \in Nat \ {0}
  PROVE  LET a == CutLinesToBudget(es, tokens) IN
         /\ a \in [notice : {"none", "line", "lines"}, kept : Nat, shown : Nat, cut : Nat]
         /\ es[Len(es)] <= 3 * tokens => a.notice = "none" /\ a.kept = es[Len(es)]
         /\ es[Len(es)] > 3 * tokens =>
              /\ a.notice # "none" /\ a.kept <= 3 * tokens
              /\ a.shown \in 1..Len(es)
              /\ es[1] <= 3 * tokens => a.kept = es[a.shown]
              /\ a.shown < Len(es) => es[a.shown + 1] >= 3 * tokens
              /\ a.shown + a.cut = Len(es)
              /\ (a.notice = "lines") <=> (a.cut > 0)
<1>1. /\ Len(es) \in Nat /\ Len(es) >= 1 /\ es[Len(es)] \in Nat /\ es[1] \in Nat
      /\ tokens * 3 \in Nat /\ 3 * tokens = tokens * 3
  OBVIOUS
<1>2. CASE Fits(es, tokens)
  <2>1. CutLinesToBudget(es, tokens) = Whole(es)
    BY <1>2 DEF CutLinesToBudget
  <2>2. es[Len(es)] <= 3 * tokens
    BY <1>1, <1>2 DEF Fits
  <2>. QED BY <1>1, <2>1, <2>2 DEF Whole
<1>3. CASE ~Fits(es, tokens)
  <2>1. PICK at \in Nat, n \in 1..Len(es) :
          /\ at = CutAt(es, tokens) /\ n = Shown(es, tokens) /\ at <= tokens * 3
          /\ \/ at = es[n] /\ n < Len(es)
             \/ at = tokens * 3 /\ n = 1 /\ es[1] >= tokens * 3
          /\ n < Len(es) => es[n + 1] >= tokens * 3
    BY <1>3, CutShape
  <2>2. PICK note \in {"line", "lines"} :
          /\ CutLinesToBudget(es, tokens) =
               [notice |-> note, kept |-> at, shown |-> n, cut |-> Len(es) - n]
          /\ note = "line" <=> n = Len(es) /\ at # es[n]
    BY <1>3, <2>1 DEF CutLinesToBudget, Truncated, MidLine
  <2>3. es[Len(es)] > tokens * 3
    BY <1>1, <1>3 DEF Fits
  <2>4. Len(es) - n \in Nat /\ (n = Len(es) => at # es[n]) /\ (n = Len(es) <=> ~(Len(es) - n > 0))
    BY <1>1, <2>1, <2>3
  <2>5. PICK a : a = CutLinesToBudget(es, tokens)
    OBVIOUS
  <2>6. /\ a \in [notice : {"none", "line", "lines"}, kept : Nat, shown : Nat, cut : Nat]
        /\ a.notice = note /\ a.kept = at /\ a.shown = n /\ a.cut = Len(es) - n
    BY <1>1, <2>1, <2>2, <2>4, <2>5
  <2>7. es[1] <= 3 * tokens => at = es[n]
    BY <1>1, <2>1
  <2>8. (note = "lines") <=> (Len(es) - n > 0)
    BY <2>2, <2>4
  <2>9. /\ note # "none" /\ at <= 3 * tokens /\ n \in 1..Len(es)
        /\ n < Len(es) => es[n + 1] >= 3 * tokens
        /\ n + (Len(es) - n) = Len(es)
        /\ ~(es[Len(es)] <= 3 * tokens)
    BY <1>1, <2>1, <2>3
  <2>. QED BY <2>5, <2>6, <2>7, <2>8, <2>9
<1>. QED BY <1>2, <1>3

-----------------------------------------------------------------------------
(* The window of latencies *)

\* Where the last LatencyWindow of n calls begin.
LEMMA WindowStart ==
  ASSUME NEW n \in Nat
  PROVE  Max({1, n - LatencyWindow + 1}) = IF n <= LatencyWindow THEN 1 ELSE n - LatencyWindow + 1
<1>. DEFINE x == IF n <= LatencyWindow THEN 1 ELSE n - LatencyWindow + 1
            S == {1, n - LatencyWindow + 1}
<1>1. S \in SUBSET Int /\ x \in S /\ \A y \in S : x >= y
  BY ToolCallsAssumption
<1>. HIDE DEF S, x
<1>2. Max(S) = x
  BY <1>1, MaxIs
<1>. QED BY <1>2 DEF S, x

\* A window that is full drops its oldest sample.
LEMMA FullWindow ==
  ASSUME NEW S, NEW r \in Seq(S), NEW x \in S, NEW L \in Nat \ {0}, Len(r) >= L
  PROVE  /\ Len(SubSeq(r, Len(r) - L + 1, Len(r))) = L
         /\ SubSeq(r, Len(r) - L + 1, Len(r)) \in Seq(S)
         /\ Tail(Append(SubSeq(r, Len(r) - L + 1, Len(r)), x))
              = SubSeq(Append(r, x), Len(r) - L + 2, Len(r) + 1)
<1>. DEFINE a == Len(r) - L + 1
            w == SubSeq(r, a, Len(r))
            q == Append(r, x)
            t == Tail(Append(w, x))
            s == SubSeq(q, a + 1, Len(r) + 1)
<1>1. /\ Len(r) \in Nat /\ a \in 1..Len(r)
      /\ q \in Seq(S) /\ Len(q) = Len(r) + 1 /\ q[Len(r) + 1] = x
      /\ \A i \in 1..Len(r) : q[i] = r[i] /\ r[i] \in S
  BY AppendProperties
<1>2. w \in Seq(S) /\ Len(w) = L /\ \A i \in 1..L : w[i] = r[a + i - 1]
  BY <1>1, SubSeqProperties
<1>3. /\ Append(w, x) \in Seq(S) /\ Len(Append(w, x)) = L + 1 /\ Append(w, x)[L + 1] = x
      /\ \A i \in 1..L : Append(w, x)[i] = w[i]
  <2>. HIDE DEF w
  <2>. QED BY <1>2, AppendProperties
<1>4. t \in Seq(S) /\ Len(t) = L /\ \A i \in 1..L : t[i] = Append(w, x)[i + 1]
  <2>. HIDE DEF w
  <2>1. Append(w, x) # <<>>
    BY <1>3
  <2>. QED BY <1>3, <2>1, HeadTailProperties
<1>5. s \in Seq(S) /\ Len(s) = L /\ \A i \in 1..L : s[i] = q[a + i]
  <2>. HIDE DEF q
  <2>1. \A i \in (a + 1)..(Len(r) + 1) : q[i] \in S
    BY <1>1
  <2>2. /\ s \in Seq(S) /\ Len(s) = Len(r) + 1 - (a + 1) + 1
        /\ \A i \in 1..(Len(r) + 1 - (a + 1) + 1) : s[i] = q[a + 1 + i - 1]
    BY <1>1, <2>1, SubSeqProperties
  <2>3. Len(r) + 1 - (a + 1) + 1 = L
    BY <1>1
  <2>4. \A i \in 1..L : a + 1 + i - 1 = a + i
    BY <1>1
  <2>. HIDE DEF s
  <2>. QED BY <2>2, <2>3, <2>4
<1>6. \A i \in 1..L : t[i] = s[i]
  <2>. HIDE DEF t, s, w, q
  <2>1. TAKE i \in 1..L
  <2>2. CASE i = L
    <3>1. t[i] = x /\ s[i] = q[a + L]
      BY <1>3, <1>4, <1>5, <2>2
    <3>2. a + L = Len(r) + 1
      BY <1>1
    <3>. QED BY <1>1, <3>1, <3>2
  <2>3. CASE i < L
    <3>1. i + 1 \in 1..L /\ a + i \in 1..Len(r) /\ a + (i + 1) - 1 = a + i
      BY <1>1, <2>3
    <3>2. t[i] = r[a + i]
      BY <1>2, <1>3, <1>4, <3>1
    <3>. QED BY <1>1, <1>5, <3>1, <3>2
  <2>. QED BY <2>2, <2>3
<1>7. t = s
  <2>. HIDE DEF t, s
  <2>. QED BY <1>4, <1>5, <1>6, SeqEqual
<1>8. a + 1 = Len(r) - L + 2
  BY <1>1
<1>. QED BY <1>2, <1>7, <1>8

LEMMA LastOfIs ==
  ASSUME NEW S, NEW r \in Seq(S)
  PROVE  LastOf(r) = SubSeq(r, IF Len(r) <= LatencyWindow THEN 1 ELSE Len(r) - LatencyWindow + 1,
                            Len(r))
<1>1. Len(r) \in Nat
  OBVIOUS
<1>2. PICK a : a = Max({1, Len(r) - LatencyWindow + 1})
  OBVIOUS
<1>3. a = IF Len(r) <= LatencyWindow THEN 1 ELSE Len(r) - LatencyWindow + 1
  BY <1>1, <1>2, WindowStart
<1>4. LastOf(r) = SubSeq(r, a, Len(r))
  BY <1>2 DEF LastOf
<1>. QED BY <1>3, <1>4

\* record_latency's deque always has the last LatencyWindow calls.
LEMMA WindowStep ==
  ASSUME NEW S, NEW r \in Seq(S), NEW x \in S
  PROVE  RecordLatency(LastOf(r), x) = LastOf(Append(r, x))
<1>0. PICK w : w = LastOf(r)
  OBVIOUS
<1>1. PICK q \in Seq(S) : q = Append(r, x) /\ Len(q) = Len(r) + 1
  BY AppendProperties
<1>2. Len(r) \in Nat /\ LatencyWindow \in Nat \ {0}
  <2>1. Len(r) \in Nat
    BY LenProperties
  <2>. QED BY <2>1, BoundsAreNat
<1>3. CASE Len(r) < LatencyWindow
  <2>1. w = SubSeq(r, 1, Len(r)) /\ LastOf(q) = SubSeq(q, 1, Len(q))
    <3>1. Len(r) <= LatencyWindow /\ Len(q) <= LatencyWindow
      BY <1>1, <1>2, <1>3
    <3>. QED BY <1>0, <3>1, LastOfIs
  <2>2. w = r /\ LastOf(q) = q
    BY <2>1, SubSeqFull
  <2>3. RecordLatency(w, x) = q
    BY <1>1, <1>2, <1>3, <2>2 DEF RecordLatency
  <2>. QED BY <1>0, <1>1, <2>2, <2>3
<1>4. CASE Len(r) >= LatencyWindow
  <2>1. /\ w = SubSeq(r, Len(r) - LatencyWindow + 1, Len(r))
        /\ LastOf(q) = SubSeq(q, Len(r) - LatencyWindow + 2, Len(r) + 1)
    <3>1. Len(q) - LatencyWindow + 1 = Len(r) - LatencyWindow + 2 /\ ~(Len(q) <= LatencyWindow)
      BY <1>1, <1>2, <1>4
    <3>2. LastOf(q) = SubSeq(q, Len(r) - LatencyWindow + 2, Len(r) + 1)
      BY <1>1, <3>1, LastOfIs
    <3>3. Len(r) <= LatencyWindow => Len(r) - LatencyWindow + 1 = 1
      BY <1>2, <1>4
    <3>. QED BY <1>0, <3>2, <3>3, LastOfIs
  <2>2. Len(w) = LatencyWindow /\ w \in Seq(S) /\ Tail(Append(w, x)) = LastOf(q)
    <3>1. /\ Len(SubSeq(r, Len(r) - LatencyWindow + 1, Len(r))) = LatencyWindow
          /\ SubSeq(r, Len(r) - LatencyWindow + 1, Len(r)) \in Seq(S)
          /\ Tail(Append(SubSeq(r, Len(r) - LatencyWindow + 1, Len(r)), x))
               = SubSeq(Append(r, x), Len(r) - LatencyWindow + 2, Len(r) + 1)
      BY <1>2, <1>4, FullWindow
    <3>. QED BY <1>1, <2>1, <3>1
  <2>3. RecordLatency(w, x) = Tail(Append(w, x))
    BY <1>2, <2>2 DEF RecordLatency
  <2>. QED BY <1>0, <1>1, <2>2, <2>3
<1>. QED BY <1>2, <1>3, <1>4

-----------------------------------------------------------------------------
(* The invariant of calls *)

\* An answer is about lines that rise, under a budget of at least one token.
CallInv ==
  /\ TypeOK
  /\ Rising(ends)
  /\ ends # <<>> => budget \in Budgets
  /\ CutIsHonest

LEMMA CallInit == Init => CallInv
<1>. SUFFICES ASSUME Init PROVE CallInv
  OBVIOUS
<1>1. /\ ends = <<>> /\ budget = 0 /\ answer = NoAnswer /\ window = <<>> /\ recorded = <<>>
  BY DEF Init
<1>2. LastOf(<<>>) = <<>>
  <2>0. <<>> \in Seq({Fast, Slow}) /\ Len(<<>>) = 0
    OBVIOUS
  <2>1. PICK e \in Seq({Fast, Slow}) : e = <<>> /\ Len(e) = 0
    BY <2>0, Zenon
  <2>2. Len(e) <= LatencyWindow
    BY <2>1, BoundsAreNat
  <2>3. LastOf(e) = SubSeq(e, 1, Len(e))
    BY <2>2, LastOfIs
  <2>. QED BY <2>1, <2>3, SubSeqFull
<1>3. /\ ends \in Seq(Nat) /\ Len(ends) <= MaxLines /\ recorded \in Seq({Fast, Slow})
  BY <1>1, ToolCallsAssumption
<1>4. answer \in [notice : {"none", "line", "lines"}, kept : Nat, shown : Nat, cut : Nat]
  BY <1>1 DEF NoAnswer
<1>5. TypeOK
  BY <1>1, <1>2, <1>3, <1>4 DEF TypeOK
<1>6. Rising(ends)
  BY <1>1 DEF Rising
<1>7. CutIsHonest
  BY <1>1 DEF CutIsHonest
<1>. QED BY <1>1, <1>5, <1>6, <1>7 DEF CallInv

LEMMA RecordType ==
  ASSUME TypeOK, NEW seconds \in {Fast, Slow}, Record(seconds)
  PROVE  recorded' \in Seq({Fast, Slow}) /\ window' = LastOf(recorded')
<1>1. recorded \in Seq({Fast, Slow}) /\ window = LastOf(recorded)
  BY DEF TypeOK
<1>2. recorded' = Append(recorded, seconds) /\ window' = RecordLatency(window, seconds)
  BY DEF Record
<1>3. recorded' \in Seq({Fast, Slow})
  BY <1>1, <1>2, AppendProperties
<1>. QED BY <1>1, <1>2, <1>3, WindowStep

\* One more line keeps the ends rising.
LEMMA MoreRising ==
  ASSUME NEW es \in Seq(Nat), Rising(es), es # <<>>, NEW length \in Nat \ {0}
  PROVE  LET more == Append(es, es[Len(es)] + 1 + length) IN
         more \in Seq(Nat) /\ Rising(more) /\ Len(more) = Len(es) + 1
<1>1. /\ Len(es) \in Nat /\ Len(es) \in 1..Len(es) /\ es[Len(es)] \in Nat
      /\ \A n \in 1..Len(es) : es[n] \in Nat \ {0}
  BY DEF Rising
<1>2. PICK e \in Nat \ {0} : e = es[Len(es)] + 1 + length /\ e > es[Len(es)]
  BY <1>1
<1>3. PICK more \in Seq(Nat) :
        /\ more = Append(es, e) /\ Len(more) = Len(es) + 1
        /\ more[Len(es) + 1] = e /\ \A n \in 1..Len(es) : more[n] = es[n]
  <2>1. e \in Nat
    BY <1>2
  <2>2. /\ Append(es, e) \in Seq(Nat) /\ Len(Append(es, e)) = Len(es) + 1
        /\ Append(es, e)[Len(es) + 1] = e /\ \A n \in 1..Len(es) : Append(es, e)[n] = es[n]
    BY <2>1, AppendProperties
  <2>. QED BY <2>2
<1>4. Rising(more)
  <2>1. \A n \in 1..Len(more) : more[n] \in Nat \ {0}
    BY <1>1, <1>3
  <2>2. ASSUME NEW m \in 1..Len(more), NEW n \in 1..Len(more), m < n
        PROVE  more[m] < more[n]
    <3>1. m \in 1..Len(es) /\ more[m] = es[m]
      BY <1>1, <1>3, <2>2
    <3>2. CASE n = Len(es) + 1
      <4>1. es[m] <= es[Len(es)]
        BY <1>1, <3>1 DEF Rising
      <4>. QED BY <1>1, <1>2, <1>3, <3>1, <3>2, <4>1
    <3>3. CASE n # Len(es) + 1
      <4>1. n \in 1..Len(es)
        BY <1>1, <1>3, <3>3
      <4>. QED BY <1>3, <2>2, <3>1, <4>1 DEF Rising
    <3>. QED BY <3>2, <3>3
  <2>. QED BY <2>1, <2>2 DEF Rising
<1>. QED BY <1>2, <1>3, <1>4

LEMMA CallStep == CallInv /\ [Next]_vars => CallInv'
<1>. SUFFICES ASSUME CallInv, [Next]_vars PROVE CallInv'
  OBVIOUS
<1>0. /\ ends \in Seq(Nat) /\ Len(ends) <= MaxLines /\ budget \in Budgets \cup {0}
      /\ answer \in [notice : {"none", "line", "lines"}, kept : Nat, shown : Nat, cut : Nat]
      /\ recorded \in Seq({Fast, Slow}) /\ window = LastOf(recorded)
      /\ Rising(ends) /\ (ends # <<>> => budget \in Budgets) /\ CutIsHonest
  BY DEF CallInv, TypeOK
<1>1. NoAnswer \in [notice : {"none", "line", "lines"}, kept : Nat, shown : Nat, cut : Nat]
  BY DEF NoAnswer
<1>2. ASSUME NEW tokens \in Budgets, NEW length \in 1..MaxLength, BeginCall(tokens, length)
      PROVE  CallInv'
  <2>1. /\ ends' = <<length>> /\ budget' = tokens /\ answer' = NoAnswer
        /\ window' = window /\ recorded' = recorded
    BY <1>2 DEF BeginCall
  <2>2. length \in Nat \ {0}
    BY ToolCallsAssumption
  <2>3. ends' \in Seq(Nat) /\ Len(ends') = 1 /\ Rising(ends')
    BY <2>1, <2>2 DEF Rising
  <2>4. Len(ends') <= MaxLines
    BY <2>3, ToolCallsAssumption
  <2>. QED BY <1>0, <1>1, <2>1, <2>3, <2>4 DEF CallInv, TypeOK, CutIsHonest
<1>3. ASSUME NEW length \in 1..MaxLength, AddLine(length)
      PROVE  CallInv'
  <2>1. /\ ends # <<>> /\ answer = NoAnswer /\ Len(ends) < MaxLines
        /\ ends' = Append(ends, ends[Len(ends)] + 1 + length)
        /\ budget' = budget /\ answer' = answer /\ window' = window /\ recorded' = recorded
    BY <1>3 DEF AddLine, InProgress
  <2>2. length \in Nat \ {0}
    BY ToolCallsAssumption
  <2>3. ends' \in Seq(Nat) /\ Len(ends') = Len(ends) + 1 /\ Rising(ends')
    BY <1>0, <2>1, <2>2, MoreRising
  <2>4. Len(ends') <= MaxLines /\ budget \in Budgets
    <3>1. Len(ends) \in Nat /\ MaxLines \in Nat
      BY <1>0, LenProperties, BoundsAreNat
    <3>. QED BY <1>0, <2>1, <2>3, <3>1
  <2>. QED BY <1>0, <1>1, <2>1, <2>3, <2>4 DEF CallInv, TypeOK, CutIsHonest
<1>4. ASSUME NEW seconds \in {Fast, Slow}, FinishCall(seconds)
      PROVE  CallInv'
  <2>1. /\ ends # <<>> /\ answer' = CutLinesToBudget(ends, budget) /\ Record(seconds)
        /\ ends' = ends /\ budget' = budget
    BY <1>4 DEF FinishCall, InProgress
  <2>2. recorded' \in Seq({Fast, Slow}) /\ window' = LastOf(recorded')
    BY <2>1, RecordType DEF CallInv
  <2>3. budget \in Nat \ {0}
    BY <1>0, <2>1, BoundsAreNat
  <2>4. /\ answer' \in [notice : {"none", "line", "lines"}, kept : Nat, shown : Nat, cut : Nat]
        /\ ends[Len(ends)] <= 3 * budget => answer'.notice = "none" /\ answer'.kept = ends[Len(ends)]
        /\ ends[Len(ends)] > 3 * budget =>
              /\ answer'.notice # "none" /\ answer'.kept <= 3 * budget
              /\ answer'.shown \in 1..Len(ends)
              /\ ends[1] <= 3 * budget => answer'.kept = ends[answer'.shown]
              /\ answer'.shown < Len(ends) => ends[answer'.shown + 1] >= 3 * budget
              /\ answer'.shown + answer'.cut = Len(ends)
              /\ (answer'.notice = "lines") <=> (answer'.cut > 0)
    BY <1>0, <2>1, <2>3, CutHonest
  <2>5. ends[Len(ends)] \in Nat /\ 3 * budget \in Nat
    BY <1>0, <2>1, <2>3
  <2>6. ~(ends[Len(ends)] <= 3 * budget) => ends[Len(ends)] > 3 * budget
    BY <2>5
  <2>7. CutIsHonest'
    BY <2>1, <2>4, <2>6 DEF CutIsHonest
  <2>. QED BY <1>0, <2>1, <2>2, <2>4, <2>7 DEF CallInv, TypeOK
<1>5. ASSUME NEW seconds \in {Fast, Slow}, OtherCall(seconds)
      PROVE  CallInv'
  <2>1. /\ Record(seconds) /\ ends' = <<>> /\ budget' = 0 /\ answer' = NoAnswer
    BY <1>5 DEF OtherCall
  <2>2. recorded' \in Seq({Fast, Slow}) /\ window' = LastOf(recorded')
    BY <2>1, RecordType DEF CallInv
  <2>3. ends' \in Seq(Nat) /\ Len(ends') <= MaxLines /\ Rising(ends')
    BY <2>1, ToolCallsAssumption DEF Rising
  <2>. QED BY <1>1, <2>1, <2>2, <2>3 DEF CallInv, TypeOK, CutIsHonest
<1>6. CASE UNCHANGED vars
  BY <1>0, <1>6 DEF vars, CallInv, TypeOK, CutIsHonest
<1>. QED BY <1>2, <1>3, <1>4, <1>5, <1>6 DEF Next

\* In every state between on_call_tool's steps the window is the end of the
\* record, the lines in progress have growing ends, and an answer given is the
\* honest cut of them.
THEOREM CallInvariant == Spec => []CallInv
  BY CallInit, CallStep, PTL DEF Spec

\* The types, and that record_latency's deque has exactly the last
\* LatencyWindow latencies, in order, for every window size.
THEOREM TypeCorrect == Spec => []TypeOK
<1>1. CallInv => TypeOK
  BY DEF CallInv
<1>. QED BY <1>1, CallInvariant, PTL

\* _cut_lines_to_budget keeps to its budget, cuts at a line boundary where it
\* can, drops no line that fits and reports what it cut, for answers of any
\* number of lines of any length and for every budget.
THEOREM AnswersAreCutHonestly == Spec => []CutIsHonest
<1>1. CallInv => CutIsHonest
  BY DEF CallInv
<1>. QED BY <1>1, CallInvariant, PTL

-----------------------------------------------------------------------------
(* Percentiles *)

LEMMA MinIs ==
  ASSUME NEW S \in SUBSET Int, NEW x \in S, \A y \in S : x <= y
  PROVE  Min(S) = x
<1>1. Min(S) \in S /\ \A y \in S : Min(S) <= y
  BY DEF Min
<1>. HIDE DEF Min
<1>2. Min(S) \in Int /\ x \in Int /\ Min(S) <= x /\ x <= Min(S)
  BY <1>1
<1>. QED BY <1>2

\* The index is inside the window, and is the last that leaves no more than
\* the given percentage of the samples before it.
IndexFits(k, n, percent) ==
  k \in 0..(n - 1) /\ k * 100 <= percent * n /\ (k + 1) * 100 > percent * n

LEMMA IndexIs ==
  ASSUME NEW n \in Nat \ {0}, NEW percent, percent \in {50, 95, 99}
  PROVE  IndexFits(PercentileIndex(n, percent), n, percent)
<1>. DEFINE d == (n * percent) \div 100
            i == IF n - 1 <= d THEN n - 1 ELSE d
            S == {n - 1, d}
<1>1. /\ d \in Nat /\ d * 100 <= percent * n /\ (d + 1) * 100 > percent * n
  <2>1. CASE percent = 50
    BY <2>1
  <2>2. CASE percent = 95
    BY <2>2
  <2>3. CASE percent = 99
    BY <2>3
  <2>. QED BY <2>1, <2>2, <2>3
<1>2. n * 100 > percent * n /\ percent * n \in Nat
  <2>1. CASE percent = 50
    BY <2>1
  <2>2. CASE percent = 95
    BY <2>2
  <2>3. CASE percent = 99
    BY <2>3
  <2>. QED BY <2>1, <2>2, <2>3
<1>. HIDE DEF d
<1>3. IndexFits(i, n, percent)
  BY <1>1, <1>2 DEF IndexFits
<1>4. PercentileIndex(n, percent) = i
  <2>1. S \in SUBSET Int /\ i \in S /\ \A y \in S : i <= y
    BY <1>1
  <2>2. PercentileIndex(n, percent) = Min(S)
    BY DEF PercentileIndex, d
  <2>. HIDE DEF S, i
  <2>. QED BY <2>1, <2>2, MinIs
<1>. HIDE DEF i
<1>. QED BY <1>3, <1>4

\* Counts of samples, of which there are two kinds.
LEMMA Counts ==
  ASSUME NEW w \in Seq({1, 2})
  PROVE  /\ UpTo(w, 1) \in Nat /\ UpTo(w, 2) = Len(w)
         /\ Below(w, 2) = UpTo(w, 1) /\ Below(w, 1) = 0
         /\ 1 \notin Range(w) => UpTo(w, 1) = 0
         /\ 2 \notin Range(w) => UpTo(w, 1) = Len(w)
         /\ Range(w) \in SUBSET {1, 2}
<1>1. /\ Len(w) \in Nat /\ DOMAIN w = 1..Len(w) /\ \A i \in DOMAIN w : w[i] \in {1, 2}
  OBVIOUS
<1>2. IsFiniteSet(DOMAIN w) /\ Cardinality(DOMAIN w) = Len(w)
  <2>1. PICK n \in Nat : n = Len(w)
    BY <1>1
  <2>2. IsFiniteSet(1..n) /\ Cardinality(1..n) = n
    BY FS_Interval
  <2>. QED BY <1>1, <2>1, <2>2
<1>3. PICK U : U = { i \in DOMAIN w : w[i] <= 1 }
  OBVIOUS
<1>4. Cardinality(U) \in Nat
  <2>1. U \in SUBSET (DOMAIN w)
    BY <1>3
  <2>. QED BY <1>2, <2>1, FS_Subset, FS_CardinalityType
<1>5. /\ { i \in DOMAIN w : w[i] <= 2 } = DOMAIN w
      /\ { i \in DOMAIN w : w[i] < 2 } = U
      /\ { i \in DOMAIN w : w[i] < 1 } = {}
  BY <1>1, <1>3
<1>6. Range(w) = { w[i] : i \in DOMAIN w }
  BY DEF Range
<1>7. 1 \notin Range(w) => U = {}
  BY <1>1, <1>3, <1>6
<1>8. 2 \notin Range(w) => U = DOMAIN w
  BY <1>1, <1>3, <1>6
<1>9. UpTo(w, 1) = Cardinality(U) /\ Below(w, 2) = Cardinality(U) /\ Below(w, 1) = Cardinality({})
      /\ UpTo(w, 2) = Cardinality(DOMAIN w)
  BY <1>3, <1>5 DEF UpTo, Below
<1>10. Range(w) \in SUBSET {1, 2}
  BY <1>1, <1>6
<1>11. Cardinality({}) = 0
  BY FS_EmptySet
<1>. QED BY <1>2, <1>4, <1>7, <1>8, <1>9, <1>10, <1>11

\* The m-th sample in order: fewer than m are below it, m are not above it.
LEMMA SortedAtIs ==
  ASSUME NEW w \in Seq({1, 2}), NEW m \in 1..Len(w)
  PROVE  /\ Below(w, SortedAt(w, m)) \in 0..(m - 1)
         /\ UpTo(w, SortedAt(w, m)) \in Nat
         /\ UpTo(w, SortedAt(w, m)) >= m
<1>1. Len(w) \in Nat /\ m \in Nat /\ m >= 1 /\ m <= Len(w)
  OBVIOUS
<1>2. PICK V : V = { v \in Range(w) : UpTo(w, v) >= m }
  OBVIOUS
<1>3. SortedAt(w, m) = Min(V)
  BY <1>2 DEF SortedAt
<1>4. V \in SUBSET {1, 2} /\ V \in SUBSET Int
  BY <1>2, Counts
<1>5. CASE 1 \in V
  <2>1. \A y \in V : 1 <= y
    BY <1>4
  <2>2. Min(V) = 1
    BY <1>4, <1>5, <2>1, MinIs
  <2>3. UpTo(w, 1) >= m
    BY <1>2, <1>5
  <2>. QED BY <1>1, <1>3, <2>2, <2>3, Counts
<1>6. CASE 1 \notin V
  <2>1. UpTo(w, 1) < m
    <3>1. CASE 1 \in Range(w)
      <4>1. ~(UpTo(w, 1) >= m)
        BY <1>2, <1>6, <3>1
      <4>. QED BY <1>1, <4>1, Counts
    <3>2. CASE 1 \notin Range(w)
      BY <1>1, <3>2, Counts
    <3>. QED BY <3>1, <3>2
  <2>2. 2 \in Range(w)
    BY <1>1, <2>1, Counts
  <2>3. 2 \in V
    BY <1>1, <1>2, <2>2, Counts
  <2>4. \A y \in V : 2 <= y
    BY <1>4, <1>6
  <2>5. Min(V) = 2
    BY <1>4, <2>3, <2>4, MinIs
  <2>. QED BY <1>1, <1>3, <2>1, <2>5, Counts
<1>. QED BY <1>5, <1>6

\* What latency_percentiles reports is a quantile of the last LatencyWindow
\* calls, however large the window and however many calls there were.
THEOREM ReportsQuantiles == Spec => []PercentilesAreQuantiles
<1>1. TypeOK => PercentilesAreQuantiles
  <2>. SUFFICES ASSUME TypeOK, window # <<>>, NEW percent \in {50, 95, 99}
                PROVE  /\ Below(window, Percentile(window, percent)) * 100 <= percent * Len(window)
                       /\ UpTo(window, Percentile(window, percent)) * 100 > percent * Len(window)
    BY DEF PercentilesAreQuantiles
  <2>1. window \in Seq({1, 2})
    <3>1. PICK r \in Seq({1, 2}) : window = LastOf(r)
      BY DEF TypeOK, Fast, Slow
    <3>2. Len(r) \in Nat
      BY LenProperties
    <3>3. PICK a \in Nat \ {0} :
            a = IF Len(r) <= LatencyWindow THEN 1 ELSE Len(r) - LatencyWindow + 1
      BY <3>2, BoundsAreNat
    <3>4. window = SubSeq(r, a, Len(r))
      BY <3>1, <3>3, LastOfIs
    <3>5. (\A i \in a..Len(r) : r[i] \in {1, 2}) /\ a \in Int /\ Len(r) \in Int
      BY <3>2
    <3>. QED BY <3>4, <3>5, SubSeqProperties
  <2>2. PICK n \in Nat \ {0} : n = Len(window)
    BY <2>1
  <2>3. IndexFits(PercentileIndex(n, percent), n, percent)
    BY IndexIs
  <2>4. PICK k \in 0..(n - 1) : /\ k = PercentileIndex(n, percent)
                               /\ k * 100 <= percent * n /\ (k + 1) * 100 > percent * n
    BY <2>3 DEF IndexFits
  <2>5. PICK v : v = Percentile(window, percent) /\ v = SortedAt(window, k + 1)
    BY <2>2, <2>4 DEF Percentile
  <2>6. k + 1 \in 1..Len(window) /\ (k + 1) - 1 = k
    BY <2>2, <2>4
  <2>7. Below(window, v) \in 0..k /\ UpTo(window, v) \in Nat /\ UpTo(window, v) >= k + 1
    <3>1. PICK m \in 1..Len(window) : m = k + 1
      BY <2>6
    <3>2. Below(window, v) \in 0..(m - 1) /\ UpTo(window, v) \in Nat /\ UpTo(window, v) >= m
      BY <2>1, <2>5, <3>1, SortedAtIs
    <3>. QED BY <2>6, <3>1, <3>2
  <2>8. PICK pn \in Nat : pn = percent * n
    BY <2>2
  <2>9. Below(window, v) * 100 <= pn /\ UpTo(window, v) * 100 > pn
    BY <2>4, <2>7, <2>8
  <2>. QED BY <2>2, <2>5, <2>8, <2>9
<1>. QED BY <1>1, TypeCorrect, PTL

=============================================================================
