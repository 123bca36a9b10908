----------------------- MODULE ClusterSubprocessProofs -----------------------
(***************************************************************************)
(* Proofs about ClusterSubprocess for every pipe capacity, result size and *)
(* number of cycles.                                                       *)
(***************************************************************************)
EXTENDS ClusterSubprocess, TLAPS

\* No child outlives its call, and a message starts empty.
PhaseInv ==
  /\ parent = "idle" => child \in {"none", "gone"}
  /\ parent = "idle" /\ child = "none" => cycles = 0
  /\ child = "clustering" => sent = 0 /\ received = 0

\* The inductive invariant: ReturnedCleanly speaks of the idle parent only, and
\* needs PhaseInv for a child that must not act behind its back.
ClusterInv == TypeOK /\ PhaseInv /\ ReturnedCleanly

\* Before the first cycle there is no child and no message.
LEMMA ClusterInit == Init => ClusterInv
<1>. SUFFICES ASSUME Init PROVE ClusterInv
  OBVIOUS
<1>1. signalled \in BOOLEAN
  BY DEF Init
<1>2. TypeOK
  BY <1>1, CapacityAssumption DEF Init, TypeOK
<1>. QED BY <1>2 DEF Init, ClusterInv, PhaseInv, ReturnedCleanly

\* The child's steps keep the invariant.
LEMMA ChildInv ==
  ASSUME ClusterInv, ChildStep
  PROVE  ClusterInv'
<1>. USE CapacityAssumption DEF ClusterInv, TypeOK, PhaseInv, ReturnedCleanly, msgVars
<1>1. CASE ChildClusters
  BY <1>1 DEF ChildClusters
<1>2. CASE ChildSends
  BY <1>2 DEF ChildSends
<1>3. CASE ChildEnds
  BY <1>3 DEF ChildEnds
<1>4. CASE ChildDies
  BY <1>4 DEF ChildDies
<1>. QED BY <1>1, <1>2, <1>3, <1>4 DEF ChildStep

\* So do the parent's, timeouts and returns included.
LEMMA ParentInv ==
  ASSUME ClusterInv, Start \/ ParentStep
  PROVE  ClusterInv'
<1>. USE CapacityAssumption DEF ClusterInv, TypeOK, PhaseInv, ReturnedCleanly, msgVars
<1>1. CASE Start
  <2>1. signalled' \in BOOLEAN
    BY <1>1 DEF Start
  <2>. QED BY <1>1, <2>1 DEF Start
<1>2. CASE BeginRead
  BY <1>2 DEF BeginRead
<1>3. CASE ReadSome
  BY <1>3 DEF ReadSome
<1>4. CASE GetTimesOut \/ JoinTimesOut \/ Terminate
  <2>1. signalled' \in BOOLEAN
    BY <1>4 DEF GetTimesOut, JoinTimesOut, Terminate
  <2>. QED BY <1>4, <2>1 DEF GetTimesOut, JoinTimesOut, Terminate
<1>5. CASE Joined \/ Reaped
  BY <1>5 DEF Joined, Reaped, Return
<1>. QED BY <1>1, <1>2, <1>3, <1>4, <1>5 DEF ParentStep

\* The invariant is inductive.
LEMMA ClusterStep == ClusterInv /\ [Next]_vars => ClusterInv'
<1>. SUFFICES ASSUME ClusterInv, [Next]_vars PROVE ClusterInv'
  OBVIOUS
<1>1. CASE UNCHANGED vars
  BY <1>1 DEF vars, msgVars, ClusterInv, TypeOK, PhaseInv, ReturnedCleanly
<1>2. CASE Stopped
  BY <1>1, <1>2 DEF Stopped
<1>. QED BY <1>1, <1>2, ChildInv, ParentInv DEF Next

\* The inductive invariant holds in every reachable state.
THEOREM ClusterInvariant == Spec => []ClusterInv
BY ClusterInit, ClusterStep, PTL DEF Spec

\* The pipe never holds more than its capacity, nor the parent more of the
\* message than the child has sent.
THEOREM ClusterTypeCorrect == Spec => []TypeOK
BY ClusterInvariant, PTL DEF ClusterInv

\* A call that has returned left no process behind and returned a community map
\* exactly if it read the whole of one.
THEOREM CleanReturn == Spec => []ReturnedCleanly
BY ClusterInvariant, PTL DEF ClusterInv

=============================================================================
