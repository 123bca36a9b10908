------------------------------ MODULE ToolCalls ------------------------------
(***************************************************************************)
(* graph_query_api/tools.py: how get_neighbors and get_community build an  *)
(* answer line by line and cut it to the token budget, and the latency     *)
(* every call leaves in artifact_lifecycle/metrics.py, whose percentiles   *)
(* the metrics endpoint reports.  The lines of an answer are where each of *)
(* them ends once they are joined (sanitize_label leaves no newline in     *)
(* one), a latency is a small number.                                      *)
(***************************************************************************)
EXTENDS Integers, Sequences, FiniteSets, FiniteSetsExt, Functions

CONSTANTS
  Budgets,          \* token_budget values of calls (the schema: 1 to 20000)
  MaxLines,         \* bound: lines of an answer
  MaxLength,        \* bound: characters of a line
  BudgetedCalls,    \* bound: only this many first calls have a budget
  LatencyWindow,    \* DEFAULT_LATENCY_WINDOW
  MaxCalls,         \* bound: calls in one behaviour
  MaxSlow           \* bound: slow calls in one behaviour

ASSUME ToolCallsAssumption ==
  /\ Budgets \subseteq Nat \ {0}
  /\ MaxLines \in Nat \ {0} /\ MaxLength \in Nat
  /\ BudgetedCalls \in Nat /\ MaxCalls \in Nat /\ MaxSlow \in Nat
  /\ LatencyWindow \in Nat \ {0}

VARIABLES
  ends,      \* the lines of the call in progress or last answered, joined:
             \* the length up to and with each of them
  budget,    \* its token_budget, 0 for a tool without one
  answer,    \* what it returned
  window,    \* the deque of "query" latencies
  recorded   \* history: every latency, in order

vars == <<ends, budget, answer, window, recorded>>

Fast == 1
Slow == 2

NoAnswer == [notice |-> "none", kept |-> 0, shown |-> 0, cut |-> 0]

Init ==
  /\ ends = <<>> /\ budget = 0 /\ answer = NoAnswer
  /\ window = <<>> /\ recorded = <<>>

-----------------------------------------------------------------------------
(* The token budget *)

\* The newlines "\n".join(lines) put between the lines
Newlines(es) == { es[n] : n \in 1..(Len(es) - 1) }

\* output[:end].rfind("\n")
RFind(es, end) == Max({-1} \cup { i \in Newlines(es) : i < end })

\* Where the output is cut, and how many of its lines are shown, the last
\* perhaps in part: kept.count("\n") + 1
CutAt(es, tokens) ==
  LET newline == RFind(es, tokens * 3) IN IF newline > 0 THEN newline ELSE tokens * 3

Shown(es, tokens) == Cardinality({ i \in Newlines(es) : i < CutAt(es, tokens) }) + 1

Fits(es, tokens) == es[Len(es)] <= tokens * 3

Whole(es) == [notice |-> "none", kept |-> es[Len(es)], shown |-> Len(es), cut |-> 0]

Truncated(notice, es, tokens) ==
  [notice |-> notice, kept |-> CutAt(es, tokens), shown |-> Shown(es, tokens),
   cut |-> Len(es) - Shown(es, tokens)]

\* Mutated form of CutLinesToBudget: no notice of its own for a single line.
CutLinesNoMidLine(es, tokens) ==
  IF Fits(es, tokens) THEN Whole(es) ELSE Truncated("lines", es, tokens)

\* The last line shown is the last there is, and not all of it is kept.
MidLine(es, tokens) ==
  Shown(es, tokens) = Len(es) /\ CutAt(es, tokens) # es[Shown(es, tokens)]

\* _cut_lines_to_budget, which is never called without a line: the notice says
\* either how many lines were cut or that the one line was cut off.
CutLinesToBudget(es, tokens) ==
  IF Fits(es, tokens) THEN Whole(es)
  ELSE Truncated(IF MidLine(es, tokens) THEN "line" ELSE "lines", es, tokens)

-----------------------------------------------------------------------------
(* Latencies *)

\* Mutated form of RecordLatency: a list instead of a deque(maxlen=...).
RecordForever(w, seconds) == Append(w, seconds)

\* record_latency
RecordLatency(w, seconds) ==
  LET longer == Append(w, seconds)
  IN IF Len(longer) > LatencyWindow THEN Tail(longer) ELSE longer

\* Mutated form of PercentileIndex: one too far.
PercentileIndexOver(n, percent) == Min({n - 1, (n * percent) \div 100 + 1})

\* min(len(samples) - 1, int(len(samples) * p)); the product is exact enough
\* that int() gives the integer quotient for every n up to the window.
PercentileIndex(n, percent) == Min({n - 1, (n * percent) \div 100})

\* How many samples are at most v
UpTo(w, v) == Cardinality({ i \in DOMAIN w : w[i] <= v })

\* sorted(samples)[n - 1]: the least sample that is not below n of them
SortedAt(w, n) == Min({ v \in Range(w) : UpTo(w, v) >= n })

\* latency_percentiles, 0 without samples
Percentile(w, percent) ==
  IF w = <<>> THEN 0 ELSE SortedAt(w, PercentileIndex(Len(w), percent) + 1)

-----------------------------------------------------------------------------
(* Calls *)

SlowCalls == Cardinality({ i \in DOMAIN recorded : recorded[i] = Slow })

\* on_call_tool's finally: whether the call answered, failed or was cancelled
Record(seconds) ==
  /\ Len(recorded) < MaxCalls
  /\ seconds = Slow => SlowCalls < MaxSlow
  /\ window' = RecordLatency(window, seconds)
  /\ recorded' = Append(recorded, seconds)

InProgress == ends # <<>> /\ answer = NoAnswer

\* get_neighbors or get_community found something: the header line
BeginCall(tokens, length) ==
  /\ ~InProgress /\ Len(recorded) < BudgetedCalls
  /\ ends' = <<length>> /\ budget' = tokens /\ answer' = NoAnswer
  /\ UNCHANGED <<window, recorded>>

\* one more neighbour or member
AddLine(length) ==
  /\ InProgress /\ Len(ends) < MaxLines
  /\ ends' = Append(ends, ends[Len(ends)] + 1 + length)
  /\ UNCHANGED <<budget, answer, window, recorded>>

FinishCall(seconds) ==
  /\ InProgress
  /\ answer' = CutLinesToBudget(ends, budget)
  /\ Record(seconds)
  /\ UNCHANGED <<ends, budget>>

\* Any call without a budgeted answer: another tool, nothing found, an error
\* result, a cancelled call.
OtherCall(seconds) ==
  /\ ~InProgress
  /\ Record(seconds)
  /\ ends' = <<>> /\ budget' = 0 /\ answer' = NoAnswer

Next ==
  \/ \E tokens \in Budgets, length \in 1..MaxLength : BeginCall(tokens, length)
  \/ \E length \in 1..MaxLength : AddLine(length)
  \/ \E seconds \in {Fast, Slow} : FinishCall(seconds) \/ OtherCall(seconds)
  \/ Len(recorded) = MaxCalls /\ UNCHANGED vars

Spec == Init /\ [][Next]_vars

-----------------------------------------------------------------------------
(* Properties *)

LastOf(r) == SubSeq(r, Max({1, Len(r) - LatencyWindow + 1}), Len(r))

TypeOK ==
  /\ ends \in Seq(Nat) /\ Len(ends) <= MaxLines
  /\ budget \in Budgets \cup {0}
  /\ answer \in [notice : {"none", "line", "lines"}, kept : Nat, shown : Nat, cut : Nat]
  /\ recorded \in Seq({Fast, Slow})
  /\ window = LastOf(recorded)

\* An answer is returned untouched if it fits its budget.  If not, what is kept
\* fits, ends with a whole line unless the first alone is too long, could not
\* hold one line more, and the notice tells the truth: shown and cut lines add
\* up, and it never reports "0 more lines cut".
CutIsHonest ==
  answer # NoAnswer =>
    LET chars == 3 * budget
        all == ends[Len(ends)]
    IN IF all <= chars
         THEN answer.notice = "none" /\ answer.kept = all
         ELSE /\ answer.notice # "none" /\ answer.kept <= chars
              /\ answer.shown \in 1..Len(ends)
              /\ ends[1] <= chars => answer.kept = ends[answer.shown]
              /\ answer.shown < Len(ends) => ends[answer.shown + 1] >= chars
              /\ answer.shown + answer.cut = Len(ends)
              /\ (answer.notice = "lines") <=> (answer.cut > 0)

Below(w, v) == Cardinality({ i \in DOMAIN w : w[i] < v })

\* What the metrics endpoint reports as p50, p95 and p99 is a quantile of the
\* last LatencyWindow calls, at one sample, at the sizes where the index moves
\* off the slowest call, and after old samples dropped out: no more than p
\* percent of the calls were faster, and more than p percent no slower.
PercentilesAreQuantiles ==
  window # <<>> =>
    \A percent \in {50, 95, 99} :
      LET v == Percentile(window, percent) IN
      /\ Below(window, v) * 100 <= percent * Len(window)
      /\ UpTo(window, v) * 100 > percent * Len(window)

=============================================================================
