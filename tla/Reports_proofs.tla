--------------------------- MODULE Reports_proofs ---------------------------
(***************************************************************************)
(* Proofs about what is reported of a run and found in the memory.          *)
(*                                                                         *)
(* First, a finalization commits the work of a ready run, for any number of *)
(* tasks, findings, approvals and finalizers, unless the run fell back      *)
(* after it began.  The readiness report is read part by part, so no moment *)
(* need exist at which it was read.  The inductive invariant says that what *)
(* was read good is still good (Fresh), and that who is past validation     *)
(* read everything good and an empty ledger (Validated).                   *)
(*                                                                         *)
(* Then what holds for every input of the listings (Listings), the reports  *)
(* of a run that stands still (RunReports), the search and the evidence of  *)
(* a change (Retrieval), what a benchmark says of a search (Benchmark), the  *)
(* graph of the code with the changes linked to it (CodeIndex), and the      *)
(* accounts of what the sessions used with the budget (Usage).              *)
(***************************************************************************)
EXTENDS RunFinalization, Inputs, FunctionTheorems, FiniteSetTheorems, SequenceTheorems,
        NaturalsInduction, WellFoundedInduction, TLAPS

\* What has been read and found good still is, until the run falls back.
Fresh ==
    \A f \in Finalizers \ disturbed : seen[f] =>
        /\ pc[f] \in {"evidence", "findings", "approvals", "ledger"} \cup Running => AllTasksDone
        /\ pc[f] \in {"findings", "approvals", "ledger"} \cup Running => evidence
        /\ pc[f] \in {"approvals", "ledger"} \cup Running => NoBlockingFinding
        /\ pc[f] \in {"ledger"} \cup Running => NoPendingApproval

\* Who is about to commit, or about to run Git and then commit, passed the
\* validation, and the ledger was empty.
Validated ==
    \A f \in Finalizers :
        (pc[f] = "status" /\ wants[f] # "checkpoint") \/ pc[f] = "commit" =>
            seen[f] /\ (f \notin disturbed => ~ledger)

IInv == TypeOK /\ Fresh /\ Validated

USE DEF Reading, Running, Orders, world, git

-----------------------------------------------------------------------------

\* Before anything happens there is nothing to have read.
LEMMA InitIInv == Init => IInv
<1> SUFFICES ASSUME Init PROVE IInv
  OBVIOUS
<1>1. TypeOK
  BY DEF Init, TypeOK
<1>2. Fresh /\ Validated
  BY DEF Init, Fresh, Validated
<1> QED
  BY <1>1, <1>2 DEF IInv

\* A step back leaves only idle finalizers undisturbed.
LEMMA BackKeeps ==
    ASSUME Fresh, Validated, Back
    PROVE  Fresh' /\ Validated'
  BY DEF Back, Fresh, Validated

\* Steps by which the run falls back.
LEMMA BackSteps ==
    ASSUME IInv,
           \/ \E t \in Tasks : CreateTask(t) \/ ReopenTask(t)
           \/ \E x \in Findings : RecordFinding(x)
           \/ \E a \in Approvals : RequestApproval(a)
           \/ LedgerFills
    PROVE  IInv'
<1>1. Back
  BY DEF CreateTask, ReopenTask, RecordFinding, RequestApproval, LedgerFills
<1>2. Fresh' /\ Validated'
  BY <1>1, BackKeeps DEF IInv
<1>3. TypeOK'
  BY <1>1 DEF IInv, TypeOK, Back, CreateTask, ReopenTask, RecordFinding, RequestApproval, LedgerFills
<1> QED
  BY <1>2, <1>3 DEF IInv

\* Steps by which the run goes forward spoil nothing that was read.
LEMMA ForwardSteps ==
    ASSUME IInv,
           \/ \E t \in Tasks : FinishTask(t)
           \/ \E x \in Findings : ResolveFinding(x)
           \/ \E a \in Approvals : ResolveApproval(a)
           \/ RecordEvidence
           \/ LedgerClears
    PROVE  IInv'
<1>1. Forward
  BY DEF FinishTask, ResolveFinding, ResolveApproval, RecordEvidence, LedgerClears
<1>2. TypeOK'
  BY <1>1 DEF IInv, TypeOK, Forward, FinishTask, ResolveFinding, ResolveApproval, RecordEvidence, LedgerClears
<1>3. (AllTasksDone => AllTasksDone') /\ (NoBlockingFinding => NoBlockingFinding')
      /\ (NoPendingApproval => NoPendingApproval') /\ (evidence => evidence') /\ (~ledger => ~ledger')
  BY DEF IInv, TypeOK, AllTasksDone, NoBlockingFinding, NoPendingApproval,
         FinishTask, ResolveFinding, ResolveApproval, RecordEvidence, LedgerClears
<1>4. Fresh' /\ Validated'
  BY <1>1, <1>3, Zenon DEF IInv, Fresh, Validated, Forward
<1> QED
  BY <1>2, <1>4 DEF IInv

\* Starting and reading: each SELECT adds what it found to what holds.
LEMMA ReadSteps ==
    ASSUME IInv, NEW f \in Finalizers,
           Start(f) \/ ReadTasks(f) \/ ReadEvidence(f) \/ ReadFindings(f) \/ ReadApprovals(f) \/ Validate(f)
    PROVE  IInv'
<1> USE DEF IInv, Goto
<1>1. UNCHANGED << task, finding, approval, evidence, ledger, dirty, ahead >>
  BY DEF Start, ReadTasks, ReadEvidence, ReadFindings, ReadApprovals, Validate, Select
<1>2. /\ AllTasksDone' = AllTasksDone /\ NoBlockingFinding' = NoBlockingFinding
      /\ NoPendingApproval' = NoPendingApproval
  BY <1>1 DEF AllTasksDone, NoBlockingFinding, NoPendingApproval
<1>3. AllTasksDone \in BOOLEAN /\ NoBlockingFinding \in BOOLEAN /\ NoPendingApproval \in BOOLEAN
  BY DEF AllTasksDone, NoBlockingFinding, NoPendingApproval
<1>4. CASE Start(f)
  BY <1>1, <1>2, <1>4 DEF Start, TypeOK, Fresh, Validated
<1>5. CASE ReadTasks(f)
  BY <1>1, <1>2, <1>3, <1>5 DEF ReadTasks, Select, TypeOK, Fresh, Validated
<1>6. CASE ReadEvidence(f)
  BY <1>1, <1>2, <1>6 DEF ReadEvidence, Select, TypeOK, Fresh, Validated
<1>7. CASE ReadFindings(f)
  BY <1>1, <1>2, <1>3, <1>7 DEF ReadFindings, Select, TypeOK, Fresh, Validated
<1>8. CASE ReadApprovals(f)
  BY <1>1, <1>2, <1>3, <1>8 DEF ReadApprovals, Select, TypeOK, Fresh, Validated
<1>9. CASE Validate(f)
  BY <1>1, <1>2, <1>9 DEF Validate, TypeOK, Fresh, Validated
<1> QED
  BY <1>4, <1>5, <1>6, <1>7, <1>8, <1>9

\* The commands of the plan only add evidence.
LEMMA GitSteps ==
    ASSUME IInv, NEW f \in Finalizers,
           GitStatus(f) \/ GitCommit(f) \/ GitPush(f) \/ GitFails(f) \/ Decide(f)
    PROVE  IInv'
<1> USE DEF IInv, Goto, Ran
<1>1. UNCHANGED << task, finding, approval, ledger, wants, seen, disturbed >> /\ (evidence => evidence')
  BY DEF GitStatus, GitCommit, GitPush, GitFails, Decide
<1>2. /\ AllTasksDone' = AllTasksDone /\ NoBlockingFinding' = NoBlockingFinding
      /\ NoPendingApproval' = NoPendingApproval
  BY <1>1 DEF AllTasksDone, NoBlockingFinding, NoPendingApproval
<1>3. CASE GitStatus(f)
  BY <1>1, <1>2, <1>3 DEF GitStatus, TypeOK, Fresh, Validated
<1>4. CASE GitCommit(f)
  <2>1. TypeOK'
    BY <1>1, <1>4 DEF GitCommit, TypeOK
  <2>2. /\ pc[f] = "commit"
        /\ \A g \in Finalizers : pc'[g] = pc[g] \/ (g = f /\ pc'[g] \in {"push", "decide"})
    BY <1>4 DEF GitCommit, TypeOK
  <2>3. Fresh'
    BY <1>1, <1>2, <2>2 DEF Fresh
  <2>4. Validated'
    BY <1>1, <2>2 DEF Validated
  <2> QED
    BY <2>1, <2>3, <2>4
<1>5. CASE GitPush(f)
  BY <1>1, <1>2, <1>5 DEF GitPush, TypeOK, Fresh, Validated
<1>6. CASE GitFails(f)
  BY <1>1, <1>2, <1>6 DEF GitFails, TypeOK, Fresh, Validated
<1>7. CASE Decide(f)
  BY <1>1, <1>2, <1>7 DEF Decide, TypeOK, Fresh, Validated
<1> QED
  BY <1>3, <1>4, <1>5, <1>6, <1>7

\* The inductive invariant holds throughout.
LEMMA Invariant == Spec => []IInv
<1>1. Init => IInv
  BY InitIInv
<1>2. IInv /\ [Next]_vars => IInv'
  <2>1. CASE UNCHANGED vars
    BY <2>1 DEF IInv, vars, TypeOK, Fresh, Validated, AllTasksDone, NoBlockingFinding, NoPendingApproval
  <2> QED
    BY <2>1, BackSteps, ForwardSteps, ReadSteps, GitSteps DEF Next, Finalize
<1> QED
  BY <1>1, <1>2, PTL DEF Spec

-----------------------------------------------------------------------------

\* Tasks, findings, approvals and finalizers keep to their states.
THEOREM TypeCorrect == Spec => []TypeOK
<1>1. IInv => TypeOK
  BY DEF IInv
<1> QED
  BY <1>1, Invariant, PTL

\* A finalization commits a ready run with an empty ledger unless the run fell
\* back since it began, although the report is not one snapshot.
THEOREM CommitsWhatIsReady == Spec => CommitsReadyRun
<1>1. IInv /\ [Next]_vars =>
        [\A f \in Finalizers \ disturbed :
            pc[f] = "commit" /\ pc'[f] \in {"push", "decide"} => RunReady /\ ~ledger]_vars
  BY DEF IInv, Fresh, Validated, RunReady
<1> QED
  BY <1>1, Invariant, PTL DEF Spec, CommitsReadyRun

\* Only its own commit puts a finalizer ahead, and one that is to push decides
\* only after its push or another's, with no commit of its own in between.
LEMMA PushStep == TypeOK /\ DecidesWhenPushed /\ [Next]_vars => DecidesWhenPushed'
<1> SUFFICES ASSUME TypeOK, DecidesWhenPushed, [Next]_vars PROVE DecidesWhenPushed'
  OBVIOUS
<1> USE DEF DecidesWhenPushed, Goto
<1>1. ASSUME UNCHANGED << pc, wants, ahead >> PROVE DecidesWhenPushed'
  BY <1>1
<1>2. ASSUME NEW f \in Finalizers, Start(f) \/ Validate(f) \/ Decide(f) PROVE DecidesWhenPushed'
  BY <1>2 DEF Start, Validate, Decide, TypeOK
<1>3. ASSUME NEW f \in Finalizers,
             ReadTasks(f) \/ ReadEvidence(f) \/ ReadFindings(f) \/ ReadApprovals(f)
      PROVE  DecidesWhenPushed'
  BY <1>3 DEF ReadTasks, ReadEvidence, ReadFindings, ReadApprovals, Select, TypeOK
<1>4. ASSUME NEW f \in Finalizers, GitStatus(f) \/ GitFails(f) PROVE DecidesWhenPushed'
  BY <1>4 DEF GitStatus, GitFails, Ran, TypeOK
<1>5. ASSUME NEW f \in Finalizers, GitCommit(f) PROVE DecidesWhenPushed'
  BY <1>5 DEF GitCommit, Ran, TypeOK
<1>6. ASSUME NEW f \in Finalizers, GitPush(f) PROVE DecidesWhenPushed'
  BY <1>6 DEF GitPush
<1>7. CASE UNCHANGED vars
  BY <1>1, <1>7 DEF vars
<1>8. ASSUME \/ \E t \in Tasks : CreateTask(t) \/ FinishTask(t) \/ ReopenTask(t)
             \/ \E x \in Findings : RecordFinding(x) \/ ResolveFinding(x)
             \/ \E a \in Approvals : RequestApproval(a) \/ ResolveApproval(a)
             \/ RecordEvidence \/ LedgerFills \/ LedgerClears
      PROVE  DecidesWhenPushed'
  BY <1>1, <1>8 DEF CreateTask, FinishTask, ReopenTask, RecordFinding, ResolveFinding, RequestApproval,
         ResolveApproval, RecordEvidence, LedgerFills, LedgerClears, Back, Forward
<1> QED
  BY <1>2, <1>3, <1>4, <1>5, <1>6, <1>7, <1>8 DEF Next, Finalize

\* However finalizers interleave, fail and start over, a decision that was to
\* push is recorded with nothing of the finalizer's own left to push.
THEOREM DecidesAfterPush == Spec => []DecidesWhenPushed
<1>1. Init => DecidesWhenPushed
  BY DEF Init, DecidesWhenPushed
<1> QED
  BY <1>1, TypeCorrect, PushStep, PTL DEF Spec

-----------------------------------------------------------------------------
(* Listings. *)

\* A strict and total order of the elements of a set, as a set of pairs.
Sorts(before, set) ==
    /\ \A x \in set : << x, x >> \notin before
    /\ \A x, y, z \in set : << x, y >> \in before /\ << y, z >> \in before => << x, z >> \in before
    /\ \A x, y \in set : x = y \/ << x, y >> \in before \/ << y, x >> \in before

\* A finite set in an order: every element once, each before those behind it.
LEMMA InOrderSorts ==
    ASSUME NEW S, IsFiniteSet(S), NEW before, Sorts(before, S)
    PROVE  /\ InOrder(S, before) \in [1..Cardinality(S) -> S]
           /\ \A x \in S : \E k \in 1..Cardinality(S) : InOrder(S, before)[k] = x
           /\ \A j, k \in 1..Cardinality(S) :
                j < k => << InOrder(S, before)[j], InOrder(S, before)[k] >> \in before
<1> DEFINE Behind(x) == { y \in S : << y, x >> \in before }
           rank == [x \in S |-> Cardinality(Behind(x))]
           o == InOrder(S, before)
           N == Cardinality(S)
<1>0. N \in Nat
  BY FS_CardinalityType
<1>1. \A x \in S : IsFiniteSet(Behind(x)) /\ Cardinality(Behind(x)) \in Nat
  BY FS_Subset, FS_CardinalityType
<1>2. ASSUME NEW x \in S, NEW y \in S, << x, y >> \in before
      PROVE  rank[x] < rank[y]
  <2>1. Behind(x) \in SUBSET Behind(y) /\ x \in Behind(y) /\ x \notin Behind(x)
    BY <1>2 DEF Sorts
  <2>2. Cardinality(Behind(x)) <= Cardinality(Behind(y)) /\ Cardinality(Behind(x)) # Cardinality(Behind(y))
    BY <1>1, <2>1, FS_Subset
  <2> QED BY <1>1, <2>2
<1>3. \A x \in S : rank[x] \in 0..(N - 1)
  <2> TAKE x \in S
  <2>1. Behind(x) \in SUBSET S /\ x \notin Behind(x)
    BY DEF Sorts
  <2>2. Cardinality(Behind(x)) <= N /\ Cardinality(Behind(x)) # N
    BY <2>1, FS_Subset
  <2> QED BY <1>0, <1>1, <2>2
<1>4. rank \in Injection(S, 0..(N - 1))
  <2>0. \A x \in S : rank[x] \in Nat
    BY <1>1
  <2> HIDE DEF rank
  <2>1. \A x, y \in S : rank[x] = rank[y] => x = y
    <3> SUFFICES ASSUME NEW x \in S, NEW y \in S, rank[x] = rank[y], x # y PROVE FALSE
      OBVIOUS
    <3>1. ~(rank[x] < rank[y]) /\ ~(rank[y] < rank[x])
      BY <2>0
    <3>2. << x, y >> \in before \/ << y, x >> \in before
      BY DEF Sorts
    <3> QED BY <1>2, <3>1, <3>2
  <2>2. rank \in [S -> 0..(N - 1)]
    BY <1>3 DEF rank
  <2>3. IsInjective(rank)
    BY <2>1, <2>2 DEF IsInjective
  <2> QED BY <2>2, <2>3 DEF Injection
<1>5. rank \in Surjection(S, 0..(N - 1))
  <2>1. IsFiniteSet(0..(N - 1)) /\ Cardinality(0..(N - 1)) = N
    BY <1>0, FS_Interval
  <2> QED BY <1>4, <2>1, FS_Injection
<1>6. \A k \in 1..N : \E x \in S : rank[x] = k - 1
  <2>1. \A k \in 1..N : k - 1 \in 0..(N - 1)
    BY <1>0
  <2> HIDE DEF rank
  <2> QED BY <1>5, <2>1 DEF Surjection
<1>7. \A k \in 1..N : o[k] \in S /\ rank[o[k]] = k - 1
  BY <1>6 DEF InOrder
<1>8. o \in [1..N -> S]
  BY <1>7 DEF InOrder
<1> HIDE DEF o, rank
<1>9. \A x \in S : \E k \in 1..N : o[k] = x
  <2> TAKE x \in S
  <2>1. rank[x] + 1 \in 1..N /\ rank[x] = (rank[x] + 1) - 1
    BY <1>0, <1>3
  <2>2. rank[o[rank[x] + 1]] = rank[x] /\ o[rank[x] + 1] \in S
    BY <1>7, <2>1
  <2>3. o[rank[x] + 1] = x
    BY <1>4, <2>2 DEF Injection, IsInjective
  <2> QED BY <2>1, <2>3
<1>10. ASSUME NEW j \in 1..N, NEW k \in 1..N, j < k PROVE << o[j], o[k] >> \in before
  <2>1. o[j] # o[k] /\ ~(rank[o[k]] < rank[o[j]])
    BY <1>0, <1>7, <1>10
  <2> QED BY <1>2, <1>7, <2>1 DEF Sorts
<1> QED BY <1>8, <1>9, <1>10 DEF o

\* The least of some numbers.
LEMMA MinOf ==
    ASSUME NEW S \in SUBSET Nat, S # {}
    PROVE  Min(S) \in S /\ \A x \in S : Min(S) <= x
<1> DEFINE below(x) == { y \in S : y < x }
<1>1. \E x \in S : \A y \in S : x <= y
  <2>1. IsWellFoundedOn(OpToRel(<, Nat), Nat)
    BY NatLessThanWellFounded
  <2>2. \E x \in S : \A y \in S : ~(<< y, x >> \in OpToRel(<, Nat))
    BY <2>1, WFMin
  <2>3. PICK x \in S : \A y \in S : ~(<< y, x >> \in OpToRel(<, Nat))
    BY <2>2
  <2>4. ASSUME NEW y \in S PROVE x <= y
    <3>1. CASE y < x
      <4>1. << y, x >> \in OpToRel(<, Nat)
        BY <3>1 DEF OpToRel
      <4> QED BY <2>3, <4>1
    <3> QED BY <3>1
  <2> QED BY <2>4
<1> QED BY <1>1 DEF Min

\* What a limit leaves: the first rows, as many as there are or as it allows.
LEMMA TakeOf ==
    ASSUME NEW S, NEW s \in Seq(S), NEW limit \in Nat
    PROVE  LET n == Min({limit, Len(s)})
           IN  /\ n \in {limit, Len(s)} /\ n \in Nat /\ n <= limit /\ n <= Len(s)
               /\ Take(s, limit) \in [1..n -> S] /\ Take(s, limit) \in Seq(S)
               /\ Len(Take(s, limit)) = n
               /\ \A k \in 1..n : k \in DOMAIN s /\ Take(s, limit)[k] = s[k]
<1> DEFINE n == Min({limit, Len(s)})
<1>1. n \in {limit, Len(s)} /\ n \in Nat /\ n <= limit /\ n <= Len(s)
  BY MinOf
<1> HIDE DEF n
<1>0. Len(s) \in Nat
  OBVIOUS
<1>2. DOMAIN s = 1..Len(s) /\ \A k \in 1..n : k \in 1..Len(s) /\ s[k] \in S
  BY <1>0, <1>1
<1>3. Take(s, limit) = SubSeq(s, 1, n)
  BY DEF Take, n
<1>4. /\ SubSeq(s, 1, n) \in Seq(S) /\ Len(SubSeq(s, 1, n)) = n
      /\ \A k \in 1..n : SubSeq(s, 1, n)[k] = s[k]
  <2>1. 1 \in Int /\ n \in Int /\ n - 1 + 1 = n /\ (IF 1 <= n THEN n - 1 + 1 ELSE 0) = n
    BY <1>1
  <2>2. /\ SubSeq(s, 1, n) \in Seq(S)
        /\ Len(SubSeq(s, 1, n)) = IF 1 <= n THEN n - 1 + 1 ELSE 0
        /\ \A k \in 1..(n - 1 + 1) : SubSeq(s, 1, n)[k] = s[1 + k - 1]
    BY <1>2, <2>1, SubSeqProperties
  <2>3. \A k \in 1..n : 1 + k - 1 = k
    BY <1>1
  <2> QED BY <2>1, <2>2, <2>3
<1>5. SubSeq(s, 1, n) \in [1..n -> S]
  <2> DEFINE t == SubSeq(s, 1, n)
  <2> HIDE DEF t
  <2>1. t \in Seq(S) /\ Len(t) = n
    BY <1>4 DEF t
  <2> QED BY <1>1, <2>1, LenProperties DEF t
<1> QED BY <1>1, <1>2, <1>3, <1>4, <1>5 DEF n

\* The first numbers are as many as the last of them says.
LEMMA UpTo ==
    ASSUME NEW n \in Nat
    PROVE  IsFiniteSet(1..n) /\ Cardinality(1..n) = n
<1>1. IsFiniteSet(1..n) /\ Cardinality(1..n) = IF 1 > n THEN 0 ELSE n - 1 + 1
  BY FS_Interval
<1>2. (IF 1 > n THEN 0 ELSE n - 1 + 1) = n
  OBVIOUS
<1> QED BY <1>1, <1>2

\* What a sequence consists of.
LEMMA ElementsOf ==
    ASSUME NEW S, NEW s \in Seq(S)
    PROVE  Len(s) \in Nat /\ DOMAIN s = 1..Len(s) /\ \A k \in DOMAIN s : s[k] \in S
  OBVIOUS

\* A function on the first numbers is a sequence.
LEMMA IsSequence ==
    ASSUME NEW S, NEW n \in Nat, NEW f \in [1..n -> S]
    PROVE  f \in Seq(S) /\ Len(f) = n
  OBVIOUS

\* An order that the numbers are in already moves none of them.
LEMMA KeepsOrder ==
    ASSUME NEW n \in Nat, NEW before, Sorts(before, 1..n),
           \A j, k \in 1..n : j < k => << j, k >> \in before
    PROVE  \A k \in 1..n : InOrder(1..n, before)[k] = k
<1>1. ASSUME NEW x \in 1..n PROVE Cardinality({ y \in 1..n : << y, x >> \in before }) = x - 1
  <2>1. \A y \in 1..n : << y, x >> \in before <=> y < x
    <3> TAKE y \in 1..n
    <3>1. CASE y < x
      BY <3>1
    <3>2. CASE y = x
      BY <3>2 DEF Sorts
    <3>3. CASE x < y
      <4>1. << x, y >> \in before /\ << x, x >> \notin before
        BY <3>3 DEF Sorts
      <4>2. << y, x >> \notin before
        BY <4>1 DEF Sorts
      <4> QED BY <3>3, <4>2
    <3> QED BY <3>1, <3>2, <3>3
  <2>2. { y \in 1..n : << y, x >> \in before } = 1..(x - 1)
    BY <2>1
  <2>3. x - 1 \in Nat
    OBVIOUS
  <2> QED BY <2>2, <2>3, UpTo
<1>2. IsFiniteSet(1..n) /\ Cardinality(1..n) = n
  BY UpTo
<1> TAKE k \in 1..n
<1>3. InOrder(1..n, before)[k] =
        CHOOSE x \in 1..n : Cardinality({ y \in 1..n : << y, x >> \in before }) = k - 1
  BY <1>2 DEF InOrder
<1> DEFINE behind == [x \in 1..n |-> Cardinality({ y \in 1..n : << y, x >> \in before })]
<1>4. InOrder(1..n, before)[k] = CHOOSE x \in 1..n : behind[x] = k - 1
  BY <1>3
<1>5. \A x \in 1..n : behind[x] = x - 1
  BY <1>1
<1> HIDE DEF behind
<1> QED BY <1>4, <1>5

\* What is listed first is what there is.
LEMMA FirstRows ==
    ASSUME NEW S, NEW s \in Seq(S), NEW limit \in Nat
    PROVE  \A n \in DOMAIN Take(s, limit) : n \in DOMAIN s /\ Take(s, limit)[n] = s[n]
<1> DEFINE n == Min({limit, Len(s)})
<1>1. Take(s, limit) \in [1..n -> S] /\ \A k \in 1..n : k \in DOMAIN s /\ Take(s, limit)[k] = s[k]
  BY TakeOf
<1> HIDE DEF n
<1> QED BY <1>1

\* Counting from nought: what holds of 0, and of n + 1 if it holds of n, holds of
\* every number.
LEMMA Counting ==
    ASSUME NEW S \in SUBSET Nat, 0 \in S, \A n \in S : n + 1 \in S
    PROVE  S = Nat
<1> SUFFICES ASSUME Nat \ S # {} PROVE FALSE
  OBVIOUS
<1> DEFINE T == Nat \ S
<1>1. \E n \in T : \A m \in T : ~(<< m, n >> \in OpToRel(<, Nat))
  <2>1. IsWellFoundedOn(OpToRel(<, Nat), Nat)
    BY NatLessThanWellFounded
  <2>2. T \in SUBSET Nat /\ T # {}
    OBVIOUS
  <2> HIDE DEF T
  <2> QED BY <2>1, <2>2, WFMin
<1>2. PICK n \in T : \A m \in T : ~(<< m, n >> \in OpToRel(<, Nat))
  BY <1>1
<1>3. n - 1 \in Nat /\ n - 1 < n /\ (n - 1) + 1 = n
  OBVIOUS
<1>4. << n - 1, n >> \in OpToRel(<, Nat)
  BY <1>2, <1>3 DEF OpToRel
<1>5. n \in T /\ n - 1 \notin T
  BY <1>2, <1>4, Zenon
<1> QED BY <1>3, <1>5

\* Rows put together one after another have the elements of each, and a row alone
\* stays what it is.
LEMMA Flattened ==
    ASSUME NEW S, NEW rows \in Seq(Seq(S))
    PROVE  /\ FlattenSeq(rows) \in Seq(S)
           /\ Len(rows) = 1 => FlattenSeq(rows) = rows[1]
           /\ \A n \in DOMAIN rows : Range(rows[n]) \in SUBSET Range(FlattenSeq(rows))
<1> DEFINE N == Len(rows)
           Longer(f, i) == IF i = 1 THEN rows[i] ELSE f[i - 1] \o rows[i]
           Flat(f, n) == f = [i \in 1..n |-> Longer(f, i)]
<1>0. N \in Nat /\ DOMAIN rows = 1..N /\ \A n \in 1..N : rows[n] \in Seq(S)
  OBVIOUS
<1>1. CASE N = 0
  BY <1>0, <1>1 DEF FlattenSeq
<1>2. CASE N # 0
  <2>1. \A n \in Nat : \E f : Flat(f, n)
    <3> DEFINE P == { n \in Nat : \E f : Flat(f, n) }
    <3>1. 0 \in P
      <4>1. Flat(<< >>, 0)
        OBVIOUS
      <4> QED BY <4>1
    <3>2. ASSUME NEW n \in P PROVE n + 1 \in P
      <4>1. PICK f : Flat(f, n)
        OBVIOUS
      <4> DEFINE g == [i \in 1..(n + 1) |-> IF i = n + 1 THEN Longer(f, i) ELSE f[i]]
      <4>2. ASSUME NEW i \in 1..(n + 1) PROVE g[i] = Longer(g, i)
        <5>1. n \in Nat /\ i \in Nat /\ i >= 1
          OBVIOUS
        <5>2. i # 1 => i - 1 \in 1..(n + 1) /\ i - 1 # n + 1
          BY <5>1
        <5>3. Longer(g, i) = Longer(f, i)
          BY <5>2
        <5>4. i # n + 1 => i \in 1..n
          BY <5>1
        <5>5. i # n + 1 => f[i] = Longer(f, i)
          BY <4>1, <5>4
        <5> QED BY <5>3, <5>5
      <4>3. Flat(g, n + 1)
        BY <4>2
      <4> HIDE DEF g
      <4>4. \E h : Flat(h, n + 1)
        BY <4>3
      <4> HIDE DEF Flat
      <4> QED BY <4>4
    <3> HIDE DEF P
    <3>3. P = Nat
      <4>1. P \in SUBSET Nat
        BY DEF P
      <4> QED BY <3>1, <3>2, <4>1, Counting
    <3> QED BY <3>3 DEF P
  <2> DEFINE f == CHOOSE f : Flat(f, N)
  <2>2. FlattenSeq(rows) = f[N]
    BY <1>2 DEF FlattenSeq
  <2>3. Flat(f, N)
    BY <1>0, <2>1
  <2> HIDE DEF f
  <2>4. \A i \in 1..N : f[i] = Longer(f, i)
    BY <2>3
  <2> DEFINE Good(i) == f[i] \in Seq(S) /\ \A n \in 1..i : Range(rows[n]) \in SUBSET Range(f[i])
             Q == { i \in Nat : i \in 1..N => Good(i) }
  <2>5. 0 \in Q
    OBVIOUS
  <2>6. ASSUME NEW i \in Q PROVE i + 1 \in Q
    <3> SUFFICES ASSUME i + 1 \in 1..N PROVE Good(i + 1)
      OBVIOUS
    <3>1. CASE i = 0
      BY <1>0, <2>4, <3>1
    <3>2. CASE i # 0
      <4>1. i \in 1..N /\ i + 1 # 1 /\ (i + 1) - 1 = i
        BY <1>0, <3>2
      <4>2. f[i + 1] = f[i] \o rows[i + 1]
        BY <2>4, <4>1
      <4>3. f[i] \in Seq(S) /\ rows[i + 1] \in Seq(S)
        BY <1>0, <4>1
      <4>4. f[i + 1] \in Seq(S) /\ Range(f[i + 1]) = Range(f[i]) \cup Range(rows[i + 1])
        BY <4>2, <4>3, RangeConcatenation
      <4>5. \A n \in 1..i : Range(rows[n]) \in SUBSET Range(f[i])
        BY <4>1
      <4>6. \A n \in 1..(i + 1) : n \in 1..i \/ n = i + 1
        BY <4>1
      <4>7. \A n \in 1..(i + 1) : Range(rows[n]) \in SUBSET Range(f[i + 1])
        BY <4>4, <4>5, <4>6
      <4> QED BY <4>4, <4>7
    <3> QED BY <3>1, <3>2
  <2>7. Q = Nat
    <3>1. Q \in SUBSET Nat
      OBVIOUS
    <3> HIDE DEF Q
    <3> QED BY <2>5, <2>6, <3>1, Counting
  <2>8. Good(N)
    <3>1. N \in 1..N
      BY <1>0, <1>2
    <3> HIDE DEF N, Good
    <3> QED BY <1>0, <2>7, <3>1
  <2>9. N = 1 => f[N] = rows[1]
    BY <2>4
  <2> QED BY <1>0, <2>2, <2>8, <2>9
<1> QED BY <1>1, <1>2

\* The rows at some places are those rows, each as often as a place has it.
LEMMA ThoseAre ==
    ASSUME NEW S, NEW s \in Seq(S), NEW at \in SUBSET DOMAIN s
    PROVE  /\ IsFiniteSet(at) /\ Cardinality(at) \in Nat
           /\ Those(s, at) \in Seq(S) /\ Len(Those(s, at)) = Cardinality(at)
           /\ \A k \in DOMAIN Those(s, at) : \E n \in at : Those(s, at)[k] = s[n]
           /\ \A n \in at : \E k \in DOMAIN Those(s, at) : Those(s, at)[k] = s[n]
           /\ at = DOMAIN s => Those(s, at) = s
<1> DEFINE before == { p \in at \X at : p[1] < p[2] }
           o == InOrder(at, before)
           N == Cardinality(at)
<1>1. DOMAIN s = 1..Len(s) /\ Len(s) \in Nat /\ \A n \in 1..Len(s) : s[n] \in S
  OBVIOUS
<1>2. IsFiniteSet(at) /\ N \in Nat
  <2>1. IsFiniteSet(1..Len(s))
    BY <1>1, UpTo
  <2> QED BY <1>1, <2>1, FS_Subset, FS_CardinalityType
<1>3. \A x \in at : x \in Int
  BY <1>1
<1>4. Sorts(before, at)
  <2>1. \A x, y : << x, y >> \in before <=> x \in at /\ y \in at /\ x < y
    OBVIOUS
  <2> HIDE DEF before
  <2> QED BY <1>3, <2>1 DEF Sorts
<1>5. /\ o \in [1..N -> at]
      /\ \A x \in at : \E k \in 1..N : o[k] = x
  <2> HIDE DEF before
  <2> QED BY <1>2, <1>4, InOrderSorts
<1>6. ASSUME at = DOMAIN s PROVE N = Len(s) /\ \A k \in 1..N : o[k] = k
  <2>1. at = 1..Len(s) /\ N = Len(s)
    BY <1>1, <1>6, UpTo
  <2>2. \A j, k \in 1..Len(s) : j < k => << j, k >> \in before
    BY <2>1
  <2> HIDE DEF before
  <2>3. \A k \in 1..Len(s) : InOrder(1..Len(s), before)[k] = k
    BY <1>1, <1>4, <2>1, <2>2, KeepsOrder
  <2> QED BY <2>1, <2>3
<1>7. Those(s, at) = [k \in 1..N |-> s[o[k]]]
  BY <1>5 DEF Those, Places
<1> HIDE DEF o, N
<1>8. Those(s, at) \in [1..N -> S] /\ \A k \in 1..N : Those(s, at)[k] = s[o[k]]
  BY <1>1, <1>5, <1>7
<1>9. Those(s, at) \in Seq(S) /\ Len(Those(s, at)) = N /\ DOMAIN Those(s, at) = 1..N
  BY <1>2, <1>8, IsSequence
<1>10. at = DOMAIN s => Those(s, at) = s
  <2> SUFFICES ASSUME at = DOMAIN s PROVE Those(s, at) = s
    OBVIOUS
  <2> DEFINE t == Those(s, at)
  <2>1. \A k \in 1..N : t[k] = s[k]
    BY <1>6, <1>8
  <2>2. t \in Seq(S) /\ Len(t) = Len(s)
    BY <1>6, <1>9
  <2> HIDE DEF t
  <2>3. t = s
    BY <1>6, <2>1, <2>2, SeqEqual
  <2> QED BY <2>3 DEF t
<1> QED BY <1>2, <1>5, <1>8, <1>9, <1>10 DEF N

\* A set put in a sequence is all there, each element once.
LEMMA SetToSeqIs ==
    ASSUME NEW S, IsFiniteSet(S)
    PROVE  SetToSeq(S) \in Seq(S) /\ Len(SetToSeq(S)) = Cardinality(S) /\ Range(SetToSeq(S)) = S
<1>1. Cardinality(S) \in Nat
  BY FS_CardinalityType
<1>2. \E f : f \in Bijection(1..Cardinality(S), S)
  <2>1. IsFiniteSet(1..Cardinality(S)) /\ Cardinality(1..Cardinality(S)) = Cardinality(S)
    BY <1>1, UpTo
  <2>2. ExistsBijection(1..Cardinality(S), S)
    BY <2>1, FS_SameCardinalityBij
  <2> QED BY <2>2 DEF ExistsBijection
<1>3. \E f \in [1..Cardinality(S) -> S] : IsInjective(f)
  BY <1>2 DEF Bijection, Injection
<1> DEFINE f == SetToSeq(S)
<1>4. f \in [1..Cardinality(S) -> S] /\ IsInjective(f)
  BY <1>3 DEF SetToSeq
<1> HIDE DEF f
<1>5. f \in Injection(1..Cardinality(S), S)
  BY <1>4 DEF Injection
<1>6. f \in Surjection(1..Cardinality(S), S)
  <2>1. Cardinality(1..Cardinality(S)) = Cardinality(S)
    BY <1>1, UpTo
  <2> QED BY <1>5, <2>1, FS_Injection
<1>7. Range(f) = S
  BY <1>4, <1>6 DEF Surjection, Range
<1>8. f \in Seq(S) /\ Len(f) = Cardinality(S)
  BY <1>1, <1>4, IsSequence
<1> QED BY <1>7, <1>8 DEF f

\* A pile for each argument, as high as the value: the sum is how many there are
\* in all piles.
Piles(amount, set) == UNION { {x} \X (1..amount[x]) : x \in set }

IsAmount(amount) == IsFiniteSet(DOMAIN amount) /\ \A x \in DOMAIN amount : amount[x] \in Nat

\* A pile more.
LEMMA OnePile ==
    ASSUME NEW amount, IsAmount(amount), NEW s \in SUBSET DOMAIN amount, NEW x \in s,
           IsFiniteSet(Piles(amount, s \ {x}))
    PROVE  /\ IsFiniteSet(Piles(amount, s))
           /\ Cardinality(Piles(amount, s)) = amount[x] + Cardinality(Piles(amount, s \ {x}))
<1> DEFINE one == {x} \X (1..amount[x])
           others == Piles(amount, s \ {x})
<1>1. amount[x] \in Nat
  BY DEF IsAmount
<1>2. IsFiniteSet(1..amount[x]) /\ Cardinality(1..amount[x]) = amount[x]
  BY <1>1, FS_Interval
<1>3. IsFiniteSet(one) /\ Cardinality(one) = amount[x]
  <2> DEFINE f == [n \in 1..amount[x] |-> << x, n >>]
  <2>1. f \in Bijection(1..amount[x], one)
    BY DEF Bijection, Injection, Surjection, IsInjective
  <2>2. ExistsBijection(1..amount[x], one)
    BY <2>1 DEF ExistsBijection
  <2> HIDE DEF one
  <2> QED BY <1>2, <2>2, FS_Bijection
<1>4. one \cap others = {}
  BY DEF Piles
<1>5. Piles(amount, s) = one \cup others
  BY DEF Piles
<1> HIDE DEF one, others
<1>6. IsFiniteSet(one \cup others)
  BY <1>3, FS_Union DEF others
<1>7. Cardinality(one \cup others) = Cardinality(one) + Cardinality(others) - Cardinality(one \cap others)
  BY <1>3, FS_Union DEF others
<1>8. Cardinality(others) \in Nat /\ Cardinality({}) = 0
  BY FS_CardinalityType, FS_EmptySet DEF others
<1>9. Cardinality(one \cap others) = 0
  BY <1>4, <1>8
<1>10. Cardinality(one \cup others) = amount[x] + Cardinality(others)
  BY <1>1, <1>3, <1>7, <1>8, <1>9
<1> QED BY <1>5, <1>6, <1>10 DEF others

\* Some piles.
LEMMA PilesAre ==
    ASSUME NEW amount, IsAmount(amount)
    PROVE  \A s \in SUBSET DOMAIN amount :
             IsFiniteSet(s) /\ IsFiniteSet(Piles(amount, s)) /\ Cardinality(s) \in Nat
<1> DEFINE S == SUBSET DOMAIN amount
           P(n) == \A s \in S : Cardinality(s) = n => IsFiniteSet(Piles(amount, s))
           Q == { n \in Nat : P(n) }
<1>1. \A s \in S : IsFiniteSet(s) /\ Cardinality(s) \in Nat
  BY FS_Subset, FS_CardinalityType DEF IsAmount
<1>2. 0 \in Q
  <2>1. ASSUME NEW s \in S, Cardinality(s) = 0 PROVE IsFiniteSet(Piles(amount, s))
    <3>1. s = {}
      BY <1>1, <2>1, FS_EmptySet
    <3>2. Piles(amount, s) = {}
      BY <3>1 DEF Piles
    <3> QED BY <3>2, FS_EmptySet
  <2> QED BY <2>1
<1>3. ASSUME NEW n \in Q PROVE n + 1 \in Q
  <2>1. ASSUME NEW s \in S, Cardinality(s) = n + 1 PROVE IsFiniteSet(Piles(amount, s))
    <3>1. s # {}
      BY <2>1, FS_EmptySet
    <3>2. PICK x \in s : TRUE
      BY <3>1
    <3>3. Cardinality(s \ {x}) = n
      <4>1. Cardinality(s \ {x}) = Cardinality(s) - 1
        BY <1>1, <3>2, FS_RemoveElement
      <4> QED BY <2>1, <4>1
    <3>4. IsFiniteSet(Piles(amount, s \ {x}))
      BY <3>3
    <3> QED BY <3>2, <3>4, OnePile
  <2> QED BY <2>1
<1>4. Q = Nat
  <2>1. Q \in SUBSET Nat
    OBVIOUS
  <2> HIDE DEF Q
  <2> QED BY <1>2, <1>3, <2>1, Counting
<1> QED BY <1>1, <1>4

\* What a sum is.
LEMMA SumIs ==
    ASSUME NEW amount, IsAmount(amount)
    PROVE  /\ IsFiniteSet(Piles(amount, DOMAIN amount))
           /\ SumOf(amount) = Cardinality(Piles(amount, DOMAIN amount)) /\ SumOf(amount) \in Nat
<1> DEFINE S == DOMAIN amount
           Some(s) == CHOOSE x \in s : TRUE
           Next1(f, s) == IF s = {} THEN 0 ELSE amount[Some(s)] + f[s \ {Some(s)}]
           Goes(f) == f = [s \in SUBSET S |-> Next1(f, s)]
           Count(s) == Cardinality(Piles(amount, s))
           g == [s \in SUBSET S |-> Count(s)]
           f == CHOOSE f : Goes(f)
<1>1. Count({}) = 0
  <2>1. Piles(amount, {}) = {}
    BY DEF Piles
  <2> QED BY <2>1, FS_EmptySet
<1>2. ASSUME NEW s \in SUBSET S, s # {} PROVE Some(s) \in s /\ Count(s) = amount[Some(s)] + Count(s \ {Some(s)})
  <2>1. Some(s) \in s
    BY <1>2
  <2>2. IsFiniteSet(Piles(amount, s \ {Some(s)}))
    BY PilesAre
  <2> HIDE DEF Some
  <2>3. Cardinality(Piles(amount, s)) = amount[Some(s)] + Cardinality(Piles(amount, s \ {Some(s)}))
    BY <2>1, <2>2, OnePile
  <2> QED BY <2>1, <2>3
<1>3. Goes(g)
  <2>1. \A s \in SUBSET S : s \ {Some(s)} \in SUBSET S
    OBVIOUS
  <2>2. \A s \in SUBSET S : Count(s) = Next1(g, s)
    BY <1>1, <1>2, <2>1
  <2> QED BY <2>2
<1>4. Goes(f)
  BY <1>3
<1>5. SumOf(amount) = f[S]
  BY DEF SumOf, MapThenSumSet, MapThenFoldSet
<1> DEFINE Q == { n \in Nat : \A s \in SUBSET S : Cardinality(s) = n => f[s] = Count(s) }
<1>6. \A s \in SUBSET S : IsFiniteSet(s) /\ Cardinality(s) \in Nat
  BY PilesAre
<1>7. \A s \in SUBSET S : f[s] = Next1(f, s)
  BY <1>4
<1> HIDE DEF f, Count
<1>8. 0 \in Q
  <2>1. ASSUME NEW s \in SUBSET S, Cardinality(s) = 0 PROVE f[s] = Count(s)
    <3>1. s = {}
      BY <1>6, <2>1, FS_EmptySet
    <3> QED BY <1>1, <1>7, <3>1
  <2> QED BY <2>1
<1>9. ASSUME NEW n \in Q PROVE n + 1 \in Q
  <2>1. ASSUME NEW s \in SUBSET S, Cardinality(s) = n + 1 PROVE f[s] = Count(s)
    <3>1. s # {}
      BY <2>1, FS_EmptySet
    <3>2. Some(s) \in s
      BY <3>1
    <3> HIDE DEF Some
    <3>3. Cardinality(s \ {Some(s)}) = Cardinality(s) - 1
      BY <1>6, <3>2, FS_RemoveElement
    <3>4. f[s \ {Some(s)}] = Count(s \ {Some(s)})
      BY <2>1, <3>3
    <3>5. f[s] = amount[Some(s)] + f[s \ {Some(s)}]
      BY <1>7, <3>1
    <3> QED BY <1>2, <3>1, <3>4, <3>5
  <2> QED BY <2>1
<1>10. Q = Nat
  <2>1. Q \in SUBSET Nat
    OBVIOUS
  <2> HIDE DEF Q
  <2> QED BY <1>8, <1>9, <2>1, Counting
<1>11. f[S] = Count(S)
  <2>1. S \in SUBSET S /\ Cardinality(S) \in Nat
    BY <1>6
  <2> HIDE DEF S
  <2> QED BY <1>10, <2>1
<1>12. IsFiniteSet(Piles(amount, S))
  BY PilesAre
<1> QED BY <1>5, <1>11, <1>12, FS_CardinalityType DEF Count

\* A sum is no greater than one that has as much or more for each argument.
LEMMA SumUnder ==
    ASSUME NEW f, IsAmount(f), NEW g, IsAmount(g), NEW m \in Injection(DOMAIN f, DOMAIN g),
           \A x \in DOMAIN f : f[x] <= g[m[x]]
    PROVE  SumOf(f) <= SumOf(g)
<1> DEFINE P == Piles(f, DOMAIN f)
           Q == Piles(g, DOMAIN g)
           into == [p \in P |-> << m[p[1]], p[2] >>]
<1>1. \A p \in P : /\ p = << p[1], p[2] >> /\ p[1] \in DOMAIN f /\ p[2] \in 1..f[p[1]]
                   /\ m[p[1]] \in DOMAIN g /\ p[2] \in 1..g[m[p[1]]]
  <2>1. \A x \in DOMAIN f : m[x] \in DOMAIN g /\ f[x] \in Nat /\ g[m[x]] \in Nat
    BY DEF Injection, IsAmount
  <2> SUFFICES ASSUME NEW x \in DOMAIN f, NEW n \in 1..f[x]
               PROVE  n \in 1..g[m[x]]
    BY <2>1 DEF Piles
  <2> QED BY <2>1
<1>2. \A p \in P : << m[p[1]], p[2] >> \in Q
  BY <1>1 DEF Piles
<1>3. \A p, q \in P : << m[p[1]], p[2] >> = << m[q[1]], q[2] >> => p = q
  <2> SUFFICES ASSUME NEW p \in P, NEW q \in P, m[p[1]] = m[q[1]], p[2] = q[2] PROVE p = q
    OBVIOUS
  <2>1. p[1] = q[1]
    BY <1>1 DEF Injection, IsInjective
  <2> QED BY <1>1, <2>1
<1> HIDE DEF P, Q
<1>4. into \in Injection(P, Q)
  BY <1>2, <1>3 DEF Injection, IsInjective
<1>5. IsFiniteSet(Q) /\ SumOf(f) = Cardinality(P) /\ SumOf(g) = Cardinality(Q)
  BY SumIs DEF P, Q
<1> QED BY <1>4, <1>5, FS_Injection

\* The sum of one value, and of two.
LEMMA SumOfOne ==
    ASSUME NEW f, IsAmount(f), NEW x, DOMAIN f = {x}
    PROVE  SumOf(f) = f[x]
<1>1. Piles(f, {}) = {} /\ Cardinality({}) = 0 /\ IsFiniteSet({})
  BY FS_EmptySet DEF Piles
<1>2. {x} \in SUBSET DOMAIN f /\ x \in {x} /\ {x} \ {x} = {}
  OBVIOUS
<1>3. Cardinality(Piles(f, {x})) = f[x] + Cardinality(Piles(f, {}))
  BY <1>1, <1>2, OnePile
<1>4. f[x] \in Nat
  BY DEF IsAmount
<1> QED BY <1>1, <1>3, <1>4, SumIs

LEMMA SumOfTwo ==
    ASSUME NEW f, IsAmount(f), DOMAIN f = {1, 2}
    PROVE  SumOf(f) = f[1] + f[2]
<1>1. Piles(f, {}) = {} /\ Cardinality({}) = 0 /\ IsFiniteSet({})
  BY FS_EmptySet DEF Piles
<1>2. {1} \in SUBSET DOMAIN f /\ {1} \ {1} = {} /\ {1, 2} \in SUBSET DOMAIN f /\ {1, 2} \ {2} = {1}
  OBVIOUS
<1>3. /\ IsFiniteSet(Piles(f, {1}))
      /\ Cardinality(Piles(f, {1})) = f[1] + Cardinality(Piles(f, {}))
  BY <1>1, <1>2, OnePile
<1>4. Cardinality(Piles(f, {1, 2})) = f[2] + Cardinality(Piles(f, {1}))
  <2>1. 2 \in {1, 2}
    OBVIOUS
  <2> QED BY <1>2, <1>3, <2>1, OnePile
<1>5. f[1] \in Nat /\ f[2] \in Nat
  BY DEF IsAmount
<1>6. SumOf(f) = Cardinality(Piles(f, {1, 2}))
  BY SumIs
<1>7. Cardinality(Piles(f, {})) = 0
  BY <1>1
<1> QED BY <1>3, <1>4, <1>5, <1>6, <1>7

\* A sum of values none of which exceeds a bound.
LEMMA SumBounded ==
    ASSUME NEW f, IsAmount(f), NEW bound \in Nat, \A x \in DOMAIN f : f[x] <= bound
    PROVE  SumOf(f) <= bound * Cardinality(DOMAIN f)
<1> DEFINE All == (DOMAIN f) \X (1..bound)
<1>1. Piles(f, DOMAIN f) \in SUBSET All
  <2>1. \A x \in DOMAIN f : f[x] \in Nat
    BY DEF IsAmount
  <2>2. ASSUME NEW x \in DOMAIN f, NEW n \in 1..f[x] PROVE n \in 1..bound
    BY <2>1
  <2> QED BY <2>2 DEF Piles
<1>2. IsFiniteSet(1..bound) /\ Cardinality(1..bound) = bound
  BY FS_Interval
<1>3. IsFiniteSet(DOMAIN f) /\ Cardinality(DOMAIN f) \in Nat
  BY FS_CardinalityType DEF IsAmount
<1>4. IsFiniteSet(All) /\ Cardinality(All) = Cardinality(DOMAIN f) * bound
  BY <1>2, <1>3, FS_Product
<1> HIDE DEF All
<1>5. Cardinality(Piles(f, DOMAIN f)) <= Cardinality(All)
  BY <1>1, <1>4, FS_Subset
<1> QED BY <1>3, <1>4, <1>5, SumIs

\* Division by the same number keeps an order, and is in full only of all.
LEMMA Shares ==
    ASSUME NEW a \in Nat, NEW b \in Nat, NEW c \in Nat \ {0}, a <= b
    PROVE  /\ a \div c <= b \div c
           /\ b <= c => ((60 * b) \div c = 60 <=> b = c)
<1> DEFINE p == a \div c
           q == b \div c
<1>0. /\ p \in Int /\ c * p <= a /\ a < c * p + c
      /\ q \in Int /\ c * q <= b /\ b < c * q + c
  OBVIOUS
<1> HIDE DEF p, q
<1>1. p <= q
  <2> SUFFICES ASSUME q + 1 <= p PROVE FALSE
    BY <1>0
  <2>1. c * (q + 1) <= c * p
    BY <1>0
  <2>2. c * (q + 1) = c * q + c
    BY <1>0
  <2> QED BY <1>0, <2>1, <2>2
<1>2. ASSUME b <= c PROVE ((60 * b) \div c = 60 <=> b = c)
  <2> DEFINE r == (60 * b) \div c
  <2>1. r \in Int /\ c * r <= 60 * b /\ 60 * b < c * r + c
    OBVIOUS
  <2> HIDE DEF r
  <2>2. ASSUME r = 60 PROVE b = c
    BY <1>2, <2>1, <2>2
  <2>3. ASSUME b = c PROVE r = 60
    <3>1. c * r <= c * 60 /\ c * 60 < c * (r + 1)
      BY <2>1, <2>3
    <3>2. c * (r - 60) <= 0 /\ 0 < c * (r - 59)
      BY <2>1, <3>1
    <3>3. r - 60 \in Int /\ r - 59 \in Int
      BY <2>1
    <3>4. ~(r - 60 > 0) /\ r - 59 > 0
      BY <3>2, <3>3
    <3> QED BY <2>1, <3>4
  <2> QED BY <2>2, <2>3 DEF r
<1> QED BY <1>1, <1>2 DEF p, q

-----------------------------------------------------------------------------
(* RunReports. *)

\* The parts of a run that its readiness is made of.
IsRun(run) ==
    /\ run.tasks \in Seq([status : STRING, leased : BOOLEAN])
    /\ run.findings \in Seq([severity : STRING, open : BOOLEAN])
    /\ run.approvals \in Seq(BOOLEAN)
    /\ run.highRisk \in BOOLEAN

\* The listings without their filter operator.
LEMMA Selections ==
    ASSUME NEW run
    PROVE  /\ Ready(run) = { n \in DOMAIN run.tasks : run.tasks[n].status = "ready" }
           /\ Done(run) = { n \in DOMAIN run.tasks : run.tasks[n].status = "done" }
           /\ BlockingFindings(run) = { n \in DOMAIN run.findings : Blocking(run.findings[n]) }
           /\ PendingApprovals(run) = { n \in DOMAIN run.approvals : run.approvals[n] }
  BY DEF Ready, Done, BlockingFindings, PendingApprovals, Where

\* A ready task is claimable, leased or reported to wait, and never both the first
\* and the last (get_claimable_tasks, list_task_graph).
THEOREM ReadyTasksAreTold ==
    ASSUME NEW run
    PROVE  LET waiting == DOMAIN ListTaskGraph(run).blocked
           IN  /\ Ready(run) = ClaimableTasks(run) \cup waiting \cup { m \in Ready(run) : run.tasks[m].leased }
               /\ ClaimableTasks(run) \cap waiting = {}
<1>1. DOMAIN ListTaskGraph(run).blocked =
        { m \in Ready(run) : \E n \in DOMAIN run.tasks \ Done(run) : << n, m >> \in run.edges }
  BY DEF ListTaskGraph, BlockedTaskReasons
<1>2. ClaimableTasks(run) =
        { m \in Ready(run) : /\ ~run.tasks[m].leased
                             /\ \A n \in DOMAIN run.tasks : << n, m >> \in run.edges => n \in Done(run) }
  BY DEF ClaimableTasks
<1> QED BY <1>1, <1>2

\* A blocking finding keeps a run from being ready also where the summary is too
\* short to list it (get_readiness_report counts them all).
THEOREM BlockersCountUnlisted ==
    ASSUME NEW run, NEW n \in DOMAIN run.findings, Blocking(run.findings[n])
    PROVE  RunSummary(HandoffPackage(run)).readiness = "open_findings"
<1>1. BlockingFindings(run) # {}
  BY Selections
<1> QED BY <1>1 DEF RunSummary, HandoffPackage, ReadinessReport

\* A run that its summary calls ready has in that summary nothing to claim, to wait
\* for, to do or to resolve, nor, with a high risk, to approve.
THEOREM ReadyMeansReady ==
    ASSUME NEW run, IsRun(run), PackageLimit \in Nat,
           RunSummary(HandoffPackage(run)).readiness = "ready"
    PROVE  LET summary == RunSummary(HandoffPackage(run))
           IN  /\ ClaimableTasks(run) = {} /\ DOMAIN ListTaskGraph(run).blocked = {}
               /\ Cardinality(summary.completed) = summary.tasks
               /\ \A n \in summary.findings : run.findings[n].severity \notin {"P0", "P1"}
               /\ run.highRisk => summary.pending = {}
<1>1. /\ BlockingFindings(run) = {}
      /\ run.highRisk => PendingApprovals(run) = {}
      /\ Done(run) = DOMAIN run.tasks
  BY DEF RunSummary, HandoffPackage, ReadinessReport, IsRun
<1> DEFINE summary == RunSummary(HandoffPackage(run))
<1>2. /\ summary.completed = Done(run) /\ summary.tasks = Len(run.tasks)
      /\ summary.findings = { n \in DOMAIN Take(run.findings, PackageLimit) :
                                Take(run.findings, PackageLimit)[n].open }
      /\ summary.pending = { n \in DOMAIN Take(run.approvals, PackageLimit) :
                               Take(run.approvals, PackageLimit)[n] }
  BY DEF RunSummary, HandoffPackage, Done, Where
<1> HIDE DEF summary
<1>3. Ready(run) = {}
  BY <1>1, Selections
<1>4. ClaimableTasks(run) = {} /\ DOMAIN ListTaskGraph(run).blocked = {}
  BY <1>3, ReadyTasksAreTold
<1>5. Cardinality(summary.completed) = summary.tasks
  <2>1. DOMAIN run.tasks = 1..Len(run.tasks) /\ Len(run.tasks) \in Nat
    BY DEF IsRun
  <2>2. Cardinality(1..Len(run.tasks)) = Len(run.tasks)
    BY <2>1, FS_Interval
  <2> QED BY <1>1, <1>2, <2>1, <2>2
<1>6. \A n \in summary.findings : run.findings[n].severity \notin {"P0", "P1"}
  BY <1>1, <1>2, FirstRows, Selections DEF IsRun, Blocking
<1>7. run.highRisk => summary.pending = {}
  BY <1>1, <1>2, FirstRows, Selections DEF IsRun
<1> QED BY <1>4, <1>5, <1>6, <1>7 DEF summary

\* A handoff as finishing, recording and closing leave it, with whatever texts; a run
\* of any length.
Statuses == {"open", "blocked", "closed", "done"}

Handoffs(T) ==
    { h \in [next : SUBSET T, steps : Seq(T), status : Statuses, closed : BOOLEAN] :
        /\ IsFiniteSet(h.next)
        /\ h.status = "open" <=> ~h.closed /\ h.status # "blocked" }

Runs(T) ==
    [status : STRING, highRisk : BOOLEAN, tasks : Seq([status : STRING, leased : BOOLEAN]),
     edges : SUBSET (Nat \X Nat), findings : Seq([severity : STRING, open : BOOLEAN]),
     approvals : Seq(BOOLEAN), commands : Nat, handoffs : Seq(Handoffs(T))]

\* A brief of one run counts what that run has.
LEMMA BriefOfOne ==
    ASSUME NEW T, NEW run \in Runs(T)
    PROVE  LET brief == OrchestratorBrief(<< run >>, 100)
               open == Where(run.findings, LAMBDA f : f.open)
           IN  /\ brief.claimable = Min({100, Cardinality(ClaimableTasks(run))})
               /\ brief.pending = Cardinality(PendingApprovals(run))
               /\ IsFiniteSet(open) /\ brief.findings = Cardinality(open)
<1> DEFINE open == Where(run.findings, LAMBDA f : f.open)
           claimable == ClaimableTasks(run)
           pending == PendingApprovals(run)
           brief == OrchestratorBrief(<< run >>, 100)
<1>1. /\ run.tasks \in Seq([status : STRING, leased : BOOLEAN])
      /\ run.findings \in Seq([severity : STRING, open : BOOLEAN])
      /\ run.approvals \in Seq(BOOLEAN)
  BY DEF Runs
<1>2. IsFiniteSet(DOMAIN run.tasks) /\ IsFiniteSet(DOMAIN run.findings) /\ IsFiniteSet(DOMAIN run.approvals)
  <2>1. \A n \in Nat : IsFiniteSet(1..n)
    BY UpTo
  <2> QED BY <1>1, <2>1
<1>3. claimable \in SUBSET DOMAIN run.tasks /\ open \in SUBSET DOMAIN run.findings
      /\ pending \in SUBSET DOMAIN run.approvals
  BY DEF ClaimableTasks, PendingApprovals, Ready, Where
<1>4. IsFiniteSet(claimable) /\ IsFiniteSet(open) /\ IsFiniteSet(pending)
  BY <1>2, <1>3, FS_Subset
<1>5. ASSUME NEW set, IsFiniteSet(set) PROVE Cardinality({1} \X set) = Cardinality(set)
  <2>1. IsFiniteSet({1}) /\ Cardinality({1}) = 1
    BY FS_Singleton
  <2>2. Cardinality({1} \X set) = 1 * Cardinality(set) /\ Cardinality(set) \in Nat
    BY <1>5, <2>1, FS_Product, FS_CardinalityType
  <2> QED BY <2>2
<1>6. DOMAIN << run >> = {1} /\ << run >>[1] = run
  OBVIOUS
<1>7. /\ UNION { {n} \X ClaimableTasks(<< run >>[n]) : n \in DOMAIN << run >> } = {1} \X claimable
      /\ UNION { {n} \X PendingApprovals(<< run >>[n]) : n \in DOMAIN << run >> } = {1} \X pending
      /\ UNION { {n} \X Where(<< run >>[n].findings, LAMBDA f : f.open) : n \in DOMAIN << run >> } = {1} \X open
  <2> DEFINE only == << run >>
  <2> HIDE DEF only
  <2>1. DOMAIN only = {1} /\ only[1] = run
    BY <1>6 DEF only
  <2>2. /\ UNION { {n} \X ClaimableTasks(only[n]) : n \in DOMAIN only } = {1} \X claimable
        /\ UNION { {n} \X PendingApprovals(only[n]) : n \in DOMAIN only } = {1} \X pending
        /\ UNION { {n} \X Where(only[n].findings, LAMBDA f : f.open) : n \in DOMAIN only } = {1} \X open
    BY <2>1, Zenon
  <2> QED BY <2>2 DEF only
<1>8. /\ brief.claimable = Min({100, Cardinality({1} \X claimable)})
      /\ brief.pending = Cardinality({1} \X pending)
      /\ brief.findings = Cardinality({1} \X open)
  BY <1>7, Zenon DEF OrchestratorBrief
<1> HIDE DEF brief, open, claimable, pending
<1> QED BY <1>4, <1>5, <1>8 DEF brief, open, claimable, pending

\* The newest handoff is told of in full, and alone it is all that is told of.
LEMMA NewestIsTold ==
    ASSUME NEW T, NEW handoffs \in Seq(Handoffs(T)), handoffs # << >>, PackageLimit \in Nat \ {0}
    PROVE  LET told == ExtractNextActions(Take(handoffs, PackageLimit))
           IN  /\ Range(handoffs[1].steps) \cup handoffs[1].next \in SUBSET Range(told)
               /\ Len(handoffs) = 1 /\ handoffs[1].next = {} => told = handoffs[1].steps
<1> DEFINE cut == Take(handoffs, PackageLimit)
           N == Min({PackageLimit, Len(handoffs)})
           rows == [n \in DOMAIN cut |-> SetToSeq(cut[n].next) \o cut[n].steps]
<1>1. Len(handoffs) \in Nat \ {0} /\ handoffs[1] \in Handoffs(T)
  BY ElementsOf
<1>2. /\ N \in {PackageLimit, Len(handoffs)} /\ N <= Len(handoffs)
      /\ cut \in Seq(Handoffs(T)) /\ Len(cut) = N /\ \A k \in 1..N : cut[k] = handoffs[k]
  BY TakeOf
<1> HIDE DEF cut, N
<1>3. N \in Nat \ {0} /\ 1 \in 1..N /\ cut[1] = handoffs[1] /\ DOMAIN cut = 1..N
  BY <1>1, <1>2
<1>4. ASSUME NEW n \in 1..N
      PROVE  /\ rows[n] \in Seq(T)
             /\ Range(rows[n]) = cut[n].next \cup Range(cut[n].steps)
             /\ cut[n].next = {} => rows[n] = cut[n].steps
  <2> DEFINE first == SetToSeq(cut[n].next)  steps == cut[n].steps  next == cut[n].next
  <2>1. cut[n] \in Handoffs(T)
    BY <1>2, <1>3, ElementsOf
  <2>2. next \in SUBSET T /\ IsFiniteSet(next) /\ steps \in Seq(T)
    BY <2>1 DEF Handoffs
  <2>3. rows[n] = first \o steps
    BY <1>3
  <2> HIDE DEF rows, steps, next
  <2>4. first \in Seq(next) /\ Len(first) = Cardinality(next) /\ Range(first) = next
    BY <2>2, SetToSeqIs DEF next
  <2> HIDE DEF first
  <2>5. first \in Seq(T)
    <3>1. Len(first) \in Nat /\ first \in [1..Len(first) -> next]
      BY <2>4, LenProperties
    <3>2. first \in [1..Len(first) -> T]
      BY <2>2, <3>1
    <3> QED BY <3>1, <3>2, IsSequence
  <2>6. rows[n] \in Seq(T) /\ Range(rows[n]) = Range(first) \cup Range(steps)
    BY <2>2, <2>3, <2>5, RangeConcatenation
  <2>7. next = {} => first = << >>
    BY <2>4, FS_EmptySet
  <2>8. next = {} => rows[n] = steps
    BY <2>2, <2>3, <2>7
  <2> QED BY <2>4, <2>6, <2>8 DEF steps, next
<1>5. rows \in Seq(Seq(T)) /\ Len(rows) = N /\ DOMAIN rows = 1..N
  <2>1. rows \in [1..N -> Seq(T)]
    BY <1>3, <1>4
  <2> HIDE DEF rows
  <2> QED BY <1>3, <2>1, IsSequence
<1>6. ExtractNextActions(cut) = FlattenSeq(rows)
  BY DEF ExtractNextActions
<1> HIDE DEF rows
<1>7. /\ Range(rows[1]) \in SUBSET Range(FlattenSeq(rows))
      /\ N = 1 => FlattenSeq(rows) = rows[1]
  BY <1>3, <1>5, Flattened
<1>8. Len(handoffs) = 1 => N = 1
  BY <1>2, <1>3
<1> QED BY <1>3, <1>4, <1>6, <1>7, <1>8 DEF cut

\* The steps of a handoff with its action are all there, and once if they were.
LEMMA NextStepsAre ==
    ASSUME NEW T, NEW steps \in Seq(T), NEW action \in T
    PROVE  LET given == Passing(steps, LAMBDA s : s # Blank)
               wanted == { s \in Range(steps) \cup {action} : s # Blank }
           IN  /\ NextSteps(steps, action) \in Seq(T)
               /\ Range(NextSteps(steps, action)) = wanted
               /\ IsInjective(given) => Len(NextSteps(steps, action)) = Cardinality(wanted)
<1> DEFINE given == Passing(steps, LAMBDA s : s # Blank)
           told == NextSteps(steps, action)
           wanted == { s \in Range(steps) \cup {action} : s # Blank }
           at == { n \in DOMAIN steps : steps[n] # Blank }
<1>1. given = Those(steps, at)
  BY DEF Passing, Where
<1>2. /\ given \in Seq(T)
      /\ \A k \in DOMAIN given : \E n \in at : given[k] = steps[n]
      /\ \A n \in at : \E k \in DOMAIN given : given[k] = steps[n]
  <2>1. at \in SUBSET DOMAIN steps
    OBVIOUS
  <2> HIDE DEF given, at
  <2> QED BY <1>1, <2>1, ThoseAre
<1> HIDE DEF given
<1>3. Range(given) = { s \in Range(steps) : s # Blank }
  BY <1>2 DEF Range
<1>4. told = IF action = Blank \/ action \in Range(given) THEN given ELSE Append(given, action)
  BY DEF NextSteps, given
<1> HIDE DEF told
<1>5. IsInjective(given) => IsFiniteSet(Range(given)) /\ Cardinality(Range(given)) = Len(given)
  <2> SUFFICES ASSUME IsInjective(given) PROVE IsFiniteSet(Range(given)) /\ Cardinality(Range(given)) = Len(given)
    OBVIOUS
  <2>1. Len(given) \in Nat /\ DOMAIN given = 1..Len(given)
    BY <1>2
  <2>2. given \in [1..Len(given) -> Range(given)]
    BY <1>2, <2>1 DEF Range
  <2>3. given \in Bijection(1..Len(given), Range(given))
    BY <2>1, <2>2 DEF Bijection, Injection, Surjection, Range
  <2>4. IsFiniteSet(1..Len(given)) /\ Cardinality(1..Len(given)) = Len(given)
    BY <2>1, UpTo
  <2> QED BY <2>3, <2>4, FS_Bijection DEF ExistsBijection
<1>6. CASE action = Blank \/ action \in Range(given)
  <2>1. told = given
    BY <1>4, <1>6
  <2>2. wanted = Range(given)
    BY <1>3, <1>6
  <2> QED BY <1>2, <1>5, <2>1, <2>2 DEF told, given
<1>7. CASE ~(action = Blank \/ action \in Range(given))
  <2>1. told = Append(given, action)
    BY <1>4, <1>7
  <2>2. wanted = Range(given) \cup {action}
    BY <1>3, <1>7
  <2>3. told \in Seq(T) /\ Len(told) = Len(given) + 1
    BY <1>2, <2>1
  <2>4. Range(told) = Range(given) \cup {action}
    <3> DEFINE last == Len(given) + 1
    <3>1. Len(given) \in Nat /\ DOMAIN given = 1..Len(given)
      BY <1>2
    <3>2. DOMAIN told = DOMAIN given \cup {last} /\ told[last] = action
      BY <1>2, <2>1, <3>1
    <3>3. \A k \in DOMAIN given : told[k] = given[k]
      BY <1>2, <2>1, <3>1
    <3> HIDE DEF last
    <3> QED BY <3>2, <3>3 DEF Range
  <2>5. ASSUME IsFiniteSet(Range(given)) PROVE Cardinality(Range(given) \cup {action}) = Cardinality(Range(given)) + 1
    BY <1>7, <2>5, FS_AddElement
  <2>6. IsInjective(given) => Cardinality(wanted) = Len(told)
    BY <1>5, <2>2, <2>3, <2>5
  <2> QED BY <2>2, <2>3, <2>4, <2>6 DEF told, given
<1> QED BY <1>6, <1>7

\* What is said of a run with other handoffs.
LEMMA ToldOf ==
    ASSUME NEW T, NEW run \in Runs(T), NEW handoffs \in Seq(Handoffs(T)), PackageLimit \in Nat
    PROVE  RunSummary(HandoffPackage([run EXCEPT !.handoffs = handoffs])).next
             = ExtractNextActions(Take(handoffs, PackageLimit))
<1>1. [run EXCEPT !.handoffs = handoffs].handoffs = handoffs
  BY DEF Runs
<1>2. Where(handoffs, LAMBDA h : "any" \in {"any", h.status}) = DOMAIN handoffs
  BY DEF Where
<1>3. Those(handoffs, DOMAIN handoffs) = handoffs
  BY ThoseAre
<1>4. ListHandoffs(handoffs, "any", PackageLimit) = Take(handoffs, PackageLimit)
  BY <1>2, <1>3 DEF ListHandoffs, Passing
<1> QED BY <1>1, <1>4 DEF RunSummary, HandoffPackage

\* A handoff is closed once, and what is listed as open is what nothing closed or
\* blocked.
LEMMA ClosedOnce ==
    ASSUME NEW T, NEW handoffs \in Seq(Handoffs(T)), NEW n \in DOMAIN handoffs
    PROVE  LET once == CloseHandoff(handoffs, n, "closed")
           IN  /\ CloseHandoff(once, n, "done") = once
               /\ Len(ListHandoffs(once, "open", 100)) =
                    Min({100, Cardinality(Where(once, LAMBDA h : ~h.closed /\ h.status # "blocked"))})
<1> DEFINE once == CloseHandoff(handoffs, n, "closed")
           closed == [handoffs[n] EXCEPT !.status = "closed", !.closed = TRUE]
<1>1. handoffs[n] \in Handoffs(T)
  BY ElementsOf
<1>2. closed \in Handoffs(T) /\ closed.closed
  <2> DEFINE h == handoffs[n]
  <2> HIDE DEF h
  <2>1. /\ h \in [next : SUBSET T, steps : Seq(T), status : Statuses, closed : BOOLEAN]
        /\ IsFiniteSet(h.next)
    BY <1>1 DEF Handoffs, h
  <2> DEFINE c == [h EXCEPT !.status = "closed", !.closed = TRUE]
  <2>2. c \in [next : SUBSET T, steps : Seq(T), status : Statuses, closed : BOOLEAN]
    BY <2>1 DEF Statuses
  <2>3. c.next = h.next /\ c.status = "closed" /\ c.closed = TRUE
    BY <2>1
  <2> HIDE DEF c
  <2>4. c \in Handoffs(T)
    BY <2>1, <2>2, <2>3 DEF Handoffs, Statuses
  <2> QED BY <2>3, <2>4 DEF c, h
<1>3. once = IF handoffs[n].closed THEN handoffs ELSE [handoffs EXCEPT ![n] = closed]
  BY <1>1 DEF CloseHandoff, Handoffs
<1> HIDE DEF once, closed
<1>4. once \in Seq(Handoffs(T)) /\ DOMAIN once = DOMAIN handoffs
  BY <1>2, <1>3
<1>5. once[n].closed
  BY <1>1, <1>2, <1>3
<1>6. CloseHandoff(once, n, "done") = once
  BY <1>5 DEF CloseHandoff
<1> DEFINE open == { k \in DOMAIN once : once[k].status = "open" }
<1>7. Where(once, LAMBDA h : ~h.closed /\ h.status # "blocked") = open
  <2>1. \A k \in DOMAIN once : once[k] \in Handoffs(T)
    BY <1>4, ElementsOf
  <2> QED BY <2>1 DEF Where, Handoffs
<1>8. Where(once, LAMBDA h : "open" \in {"any", h.status}) = open
  BY DEF Where
<1>9. Those(once, open) \in Seq(Handoffs(T)) /\ Len(Those(once, open)) = Cardinality(open)
  BY <1>4, ThoseAre
<1>10. ListHandoffs(once, "open", 100) = Take(Those(once, open), 100)
  BY <1>8 DEF ListHandoffs, Passing
<1> HIDE DEF open
<1>11. Len(Take(Those(once, open), 100)) = Min({100, Cardinality(open)})
  <2> DEFINE rows == Those(once, open)
  <2> HIDE DEF rows
  <2>1. rows \in Seq(Handoffs(T)) /\ Len(rows) = Cardinality(open) /\ 100 \in Nat
    BY <1>9 DEF rows
  <2>2. Len(Take(rows, 100)) = Min({100, Len(rows)})
    BY <2>1, TakeOf
  <2> QED BY <2>1, <2>2 DEF rows
<1> QED BY <1>6, <1>7, <1>10, <1>11 DEF once

\* Any run, and a handoff of any steps, is reported alike.
LEMMA RunIsSaidAlike ==
    ASSUME NEW T, NEW run \in Runs(T), NEW steps \in Seq(T), NEW action \in T, PackageLimit \in Nat \ {0}
    PROVE  SaidAlike(run, steps, action)
<1> DEFINE summary == RunSummary(HandoffPackage(run))
           brief == OrchestratorBrief(<< run >>, 100)
           recorded == RecordHandoff(run.handoffs, steps, action)
           done == FinishHandoff(run.handoffs, action, "done")
           told == RunSummary(HandoffPackage([run EXCEPT !.handoffs = recorded])).next
           finished == RunSummary(HandoffPackage([run EXCEPT !.handoffs = done])).next
           wanted == { s \in Range(steps) \cup {action} : s # Blank }
           given == Passing(steps, LAMBDA s : s # Blank)
<1>1. IsRun(run) /\ run.handoffs \in Seq(Handoffs(T))
  BY DEF IsRun, Runs
<1>2. /\ brief.claimable = Min({100, Cardinality(ClaimableTasks(run))})
      /\ brief.pending = Cardinality(PendingApprovals(run))
      /\ IsFiniteSet(Where(run.findings, LAMBDA f : f.open))
      /\ brief.findings = Cardinality(Where(run.findings, LAMBDA f : f.open))
  BY BriefOfOne
<1>3. summary.readiness = "ready" =>
        /\ ClaimableTasks(run) = {} /\ DOMAIN ListTaskGraph(run).blocked = {}
        /\ Cardinality(summary.completed) = summary.tasks
        /\ \A n \in summary.findings : run.findings[n].severity \notin {"P0", "P1"}
        /\ run.highRisk => summary.pending = {}
  BY <1>1, ReadyMeansReady
<1>4. summary.readiness = "ready" /\ run.highRisk => brief.pending = 0
  <2> SUFFICES ASSUME summary.readiness = "ready", run.highRisk PROVE PendingApprovals(run) = {}
    BY <1>2, FS_EmptySet
  <2> QED BY DEF RunSummary, HandoffPackage, ReadinessReport
<1>5. ASSUME NEW n \in DOMAIN run.findings, Blocking(run.findings[n])
      PROVE  summary.readiness = "open_findings" /\ brief.findings > 0
  <2>1. summary.readiness = "open_findings"
    BY <1>5, BlockersCountUnlisted
  <2> DEFINE open == Where(run.findings, LAMBDA f : f.open)
  <2>2. n \in open
    BY <1>5 DEF Where, Blocking
  <2>3. IsFiniteSet(open) /\ brief.findings = Cardinality(open)
    BY <1>2
  <2> HIDE DEF open, brief, summary
  <2>4. Cardinality(open) \in Nat /\ Cardinality(open) # 0
    BY <2>2, <2>3, FS_CardinalityType, FS_EmptySet
  <2> QED BY <2>1, <2>3, <2>4
<1>6. recorded \in Seq(Handoffs(T)) /\ recorded # << >> /\ recorded[1].steps = NextSteps(steps, action)
      /\ recorded[1].next = {} /\ (run.handoffs = << >> => Len(recorded) = 1)
  <2> DEFINE new == [next |-> {}, steps |-> NextSteps(steps, action), status |-> "open", closed |-> FALSE]
  <2>1. new \in Handoffs(T)
    <3>1. NextSteps(steps, action) \in Seq(T) /\ IsFiniteSet({})
      BY NextStepsAre, FS_EmptySet
    <3> QED BY <3>1 DEF Handoffs, Statuses
  <2>2. recorded = << new >> \o run.handoffs
    BY DEF RecordHandoff
  <2>3. new.steps = NextSteps(steps, action) /\ new.next = {}
    OBVIOUS
  <2> HIDE DEF new, recorded
  <2> QED BY <1>1, <2>1, <2>2, <2>3
<1>7. done \in Seq(Handoffs(T)) /\ done # << >> /\ done[1].next = {action} \ {Blank}
  <2> DEFINE new == [next |-> {action} \ {Blank}, steps |-> Passing(<< action >>, LAMBDA s : s # Blank),
                     status |-> "open", closed |-> FALSE]
  <2>1. Passing(<< action >>, LAMBDA s : s # Blank) \in Seq(T)
    <3> DEFINE at == Where(<< action >>, LAMBDA s : s # Blank)
    <3>1. at \in SUBSET DOMAIN << action >>
      BY Zenon DEF Where
    <3> DEFINE only == << action >>
    <3>2. only \in Seq(T)
      OBVIOUS
    <3> HIDE DEF at, only
    <3>3. Those(only, at) \in Seq(T)
      BY <3>1, <3>2, ThoseAre DEF only
    <3>4. Those(<< action >>, at) \in Seq(T)
      BY <3>3 DEF only
    <3> QED BY <3>4 DEF Passing, at
  <2>2. {action} \ {Blank} \in SUBSET T /\ IsFiniteSet({action} \ {Blank})
    BY FS_Singleton, FS_Subset
  <2>3. new \in Handoffs(T)
    <3> DEFINE passing == Passing(<< action >>, LAMBDA s : s # Blank)
    <3>1. passing \in Seq(T)
      BY <2>1
    <3> HIDE DEF passing
    <3>2. [next |-> {action} \ {Blank}, steps |-> passing, status |-> "open", closed |-> FALSE] \in Handoffs(T)
      BY <2>2, <3>1 DEF Handoffs, Statuses
    <3> QED BY <3>2 DEF passing
  <2>4. done = << new >> \o run.handoffs
    BY DEF FinishHandoff
  <2>5. new.next = {action} \ {Blank}
    OBVIOUS
  <2> HIDE DEF new, done
  <2>6. done \in Seq(Handoffs(T)) /\ done # << >> /\ done[1] = new
    BY <1>1, <2>3, <2>4
  <2> QED BY <2>5, <2>6
<1>8. told = ExtractNextActions(Take(recorded, PackageLimit))
      /\ finished = ExtractNextActions(Take(done, PackageLimit))
  <2> HIDE DEF recorded, done
  <2> QED BY <1>6, <1>7, ToldOf
<1> HIDE DEF recorded, done
<1>9. /\ Range(NextSteps(steps, action)) \in SUBSET Range(told)
      /\ run.handoffs = << >> => told = NextSteps(steps, action)
      /\ {action} \ {Blank} \in SUBSET Range(finished)
  <2> HIDE DEF told, finished
  <2>1. /\ Range(recorded[1].steps) \cup recorded[1].next \in SUBSET Range(told)
        /\ Len(recorded) = 1 /\ recorded[1].next = {} => told = recorded[1].steps
    BY <1>6, <1>8, NewestIsTold
  <2>2. Range(done[1].steps) \cup done[1].next \in SUBSET Range(finished)
    BY <1>7, <1>8, NewestIsTold
  <2> QED BY <1>6, <1>7, <2>1, <2>2
<1>10. /\ Range(NextSteps(steps, action)) = wanted
       /\ IsInjective(given) => Len(NextSteps(steps, action)) = Cardinality(wanted)
  BY NextStepsAre
<1>11. \A n \in DOMAIN run.handoffs :
         LET once == CloseHandoff(run.handoffs, n, "closed")
         IN  /\ CloseHandoff(once, n, "done") = once
             /\ Len(ListHandoffs(once, "open", 100)) =
                  Min({100, Cardinality(Where(once, LAMBDA h : ~h.closed /\ h.status # "blocked"))})
  BY <1>1, ClosedOnce
<1>12. told = RunSummary(HandoffPackage([run EXCEPT !.handoffs = RecordHandoff(@, steps, action)])).next
       /\ finished = RunSummary(HandoffPackage([run EXCEPT !.handoffs = FinishHandoff(@, action, "done")])).next
  BY DEF recorded, done
<1> HIDE DEF summary, brief, told, finished, wanted, given
<1>13. wanted \subseteq Range(told) /\ {action} \ {Blank} \subseteq Range(finished)
  BY <1>9, <1>10
<1>14. run.handoffs = << >> /\ IsInjective(given) => Len(told) = Cardinality(wanted)
  BY <1>9, <1>10
<1>15. (\E n \in DOMAIN run.findings : Blocking(run.findings[n])) =>
         summary.readiness = "open_findings" /\ brief.findings > 0
  BY <1>5
<1> QED BY <1>2, <1>3, <1>4, <1>11, <1>12, <1>13, <1>14, <1>15, ReadyTasksAreTold, Zenon
        DEF SaidAlike, summary, brief, wanted, given

\* A run as it is reported, with the steps and the action of a handoff.
IsReportInput(T) ==
    input.about = "run" => input.run \in Runs(T) /\ input.steps \in Seq(T) /\ input.action \in T

\* Whatever its length, the reports of a run agree: who waits, who may be claimed and
\* what blocks are the same in its graph, its summary and its brief, and the newest
\* handoff is told of whole in the next summary (get_readiness_report, build_run_summary,
\* get_orchestrator_brief, extract_next_actions).
THEOREM ReportsSayTheSame ==
    ASSUME NEW T, IsReportInput(T), PackageLimit \in Nat \ {0}
    PROVE  ReportsAgree
  BY RunIsSaidAlike DEF IsReportInput, ReportsAgree

-----------------------------------------------------------------------------
(* Retrieval. *)

\* The greater of two numbers.
LEMMA GreaterOfTwo ==
    ASSUME NEW a \in Int, NEW b \in Int
    PROVE  Max({a, b}) \in {a, b} /\ Max({a, b}) \in Int /\ a <= Max({a, b}) /\ b <= Max({a, b})
<1>1. \E m \in {a, b} : \A x \in {a, b} : m >= x
  <2>1. CASE a <= b
    BY <2>1
  <2>2. CASE ~(a <= b)
    BY <2>2
  <2> QED BY <2>1, <2>2
<1>2. Max({a, b}) \in {a, b} /\ \A x \in {a, b} : Max({a, b}) >= x
  BY <1>1 DEF Max
<1> QED BY <1>2

\* The files of a change, and changes, the newest first.
Files(P, E) == Seq([path : Seq(P), entities : SUBSET E])

Changes(D, P, E) == Seq([id : Int, commit : Seq(D), files : Files(P, E)])

Symbols(L) == Seq([name : Seq(L), qualified : Seq(L), line : Int])

\* What changes consist of.
LEMMA ChangesAre ==
    ASSUME NEW D, NEW P, NEW E, NEW changes \in Changes(D, P, E)
    PROVE  /\ Len(changes) \in Nat /\ DOMAIN changes = 1..Len(changes)
           /\ \A c \in DOMAIN changes :
                /\ changes[c].id \in Int
                /\ changes[c].commit \in Seq(D) /\ changes[c].files \in Files(P, E)
                /\ \A f \in DOMAIN changes[c].files :
                     changes[c].files[f].path \in Seq(P) /\ changes[c].files[f].entities \in SUBSET E
<1>1. Len(changes) \in Nat /\ DOMAIN changes = 1..Len(changes)
  BY ElementsOf DEF Changes
<1>2. \A c \in DOMAIN changes : changes[c] \in [id : Int, commit : Seq(D), files : Files(P, E)]
  BY ElementsOf DEF Changes
<1>3. ASSUME NEW c \in DOMAIN changes, NEW f \in DOMAIN changes[c].files
      PROVE  changes[c].files[f].path \in Seq(P) /\ changes[c].files[f].entities \in SUBSET E
  <2>1. changes[c].files \in Files(P, E)
    BY <1>2
  <2> DEFINE files == changes[c].files
  <2> HIDE DEF files
  <2>2. files \in Files(P, E) /\ f \in DOMAIN files
    BY <2>1 DEF files
  <2>3. files[f] \in [path : Seq(P), entities : SUBSET E]
    BY <2>2, ElementsOf DEF Files
  <2> QED BY <2>3 DEF files
<1> QED BY <1>1, <1>2, <1>3

\* What is explained as touched is linked.
LEMMA TouchedAreLinked ==
    ASSUME NEW entities, NEW changes, NEW calls, NEW path, NEW limit,
           NEW t \in ExplainChange(entities, changes, calls, path, limit).touched
    PROVE  /\ t[2] \in DOMAIN changes
           /\ \E f \in DOMAIN changes[t[2]].files : t[1] \in changes[t[2]].files[f].entities
<1>1. PICK k \in Links(changes, FilesOf(changes)) : t = << k[1], k[2][1] >>
  BY DEF ExplainChange, Shown, Links, FilesMet
<1>2. PICK f \in FilesOf(changes) : k[2] = f /\ k[1] \in changes[f[1]].files[f[2]].entities
  BY <1>1 DEF Links
<1>3. f[1] \in DOMAIN changes /\ f[2] \in DOMAIN changes[f[1]].files
  BY <1>2 DEF FilesOf
<1> QED BY <1>1, <1>2, <1>3

\* What is explained as touched has the change in its context.
LEMMA ContextTouches ==
    ASSUME NEW entities, NEW changes, NEW calls, NEW path, NEW symbol, NEW limit,
           NEW t \in ExplainChange(entities, changes, calls, path, limit).touched,
           t[1] \in DOMAIN SymbolContext(entities, changes, calls, symbol, limit)
    PROVE  t[2] \in SymbolContext(entities, changes, calls, symbol, limit)[t[1]].changes
  BY TouchedAreLinked DEF SymbolContext

\* Nothing is in another's way that is no more than a list has room for.
LEMMA NoneIsCut ==
    ASSUME NEW S, IsFiniteSet(S), NEW before, NEW x \in S, << x, x >> \notin before,
           NEW limit \in Int, Cardinality(S) <= limit
    PROVE  Cardinality({ y \in S : << y, x >> \in before }) < limit
<1> DEFINE behind == { y \in S : << y, x >> \in before }
<1>1. behind \in SUBSET (S \ {x})
  OBVIOUS
<1>2. IsFiniteSet(S \ {x}) /\ Cardinality(S \ {x}) = Cardinality(S) - 1 /\ Cardinality(S) \in Nat
  BY FS_RemoveElement, FS_CardinalityType
<1>3. Cardinality(behind) <= Cardinality(S \ {x}) /\ Cardinality(behind) \in Nat
  <2> HIDE DEF behind
  <2> QED BY <1>1, <1>2, FS_Subset, FS_CardinalityType
<1> HIDE DEF behind
<1>4. Cardinality(behind) < limit
  BY <1>2, <1>3
<1> QED BY <1>4 DEF behind

\* There are so many links of changes, and none is listed before itself.
LEMMA LinksAre ==
    ASSUME NEW D, NEW P, NEW L, NEW entities \in Symbols(L),
           NEW changes \in Changes(D, P, DOMAIN entities)
    PROVE  /\ IsFiniteSet(Links(changes, FilesOf(changes)))
           /\ \A k \in Links(changes, FilesOf(changes)) :
                << k, k >> \notin LinkOrder(entities, changes, Links(changes, FilesOf(changes)))
<1> DEFINE files == FilesOf(changes)
           links == Links(changes, files)
           Of(c) == {c} \X DOMAIN changes[c].files
           each == [c \in DOMAIN changes |-> Of(c)]
<1>1. DOMAIN entities = 1..Len(entities) /\ Len(entities) \in Nat
      /\ \A e \in DOMAIN entities : entities[e].line \in Int
  <2>1. /\ DOMAIN entities = 1..Len(entities) /\ Len(entities) \in Nat
        /\ \A e \in DOMAIN entities : entities[e] \in [name : Seq(L), qualified : Seq(L), line : Int]
    BY ElementsOf DEF Symbols
  <2> QED BY <2>1
<1>2. \A c \in DOMAIN changes : DOMAIN changes[c].files \in SUBSET Nat /\ IsFiniteSet(DOMAIN changes[c].files)
  <2> TAKE c \in DOMAIN changes
  <2> DEFINE at == changes[c].files
  <2>1. at \in Files(P, DOMAIN entities)
    BY ChangesAre
  <2> HIDE DEF at
  <2>2. DOMAIN at = 1..Len(at) /\ Len(at) \in Nat
    BY <2>1, ElementsOf DEF Files
  <2>3. DOMAIN at \in SUBSET Nat /\ IsFiniteSet(DOMAIN at)
    BY <2>2, FS_Interval
  <2> QED BY <2>3 DEF at
<1>3. IsFiniteSet(files)
  <2>1. \A c \in DOMAIN changes : IsFiniteSet(Of(c))
    <3> TAKE c \in DOMAIN changes
    <3>1. IsFiniteSet({c}) /\ IsFiniteSet(DOMAIN changes[c].files)
      BY <1>2, FS_Singleton
    <3> QED BY <3>1, FS_Product
  <2>2. IsFiniteSet(DOMAIN changes)
    BY ChangesAre, FS_Interval
  <2> HIDE DEF Of
  <2>3. IsFiniteSet({ each[c] : c \in DOMAIN changes })
    <3>1. each \in Surjection(DOMAIN changes, { each[c] : c \in DOMAIN changes })
      <4>1. DOMAIN each = DOMAIN changes
        OBVIOUS
      <4> HIDE DEF each
      <4>2. each \in [DOMAIN changes -> { each[c] : c \in DOMAIN changes }]
        <5>1. each = [c \in DOMAIN changes |-> each[c]]
          BY DEF each
        <5> QED BY <5>1
      <4> QED BY <4>1, <4>2 DEF Surjection
    <3> HIDE DEF each
    <3> QED BY <2>2, <3>1, FS_Surjection
  <2>4. { each[c] : c \in DOMAIN changes } = { Of(c) : c \in DOMAIN changes }
    OBVIOUS
  <2>5. IsFiniteSet(UNION { Of(c) : c \in DOMAIN changes })
    BY <2>1, <2>3, <2>4, FS_UNION
  <2>6. files = UNION { Of(c) : c \in DOMAIN changes }
    BY DEF FilesOf, Of
  <2> QED BY <2>5, <2>6
<1>4. \A k \in links : /\ k \in (DOMAIN entities) \X files
                       /\ k[2][1] \in DOMAIN changes /\ k[2][2] \in Nat
  <2> TAKE k \in links
  <2>1. PICK f \in files : k \in changes[f[1]].files[f[2]].entities \X {f}
    BY DEF Links
  <2>2. f[1] \in DOMAIN changes /\ f[2] \in DOMAIN changes[f[1]].files
    BY <2>1 DEF FilesOf
  <2>3. changes[f[1]].files[f[2]].entities \in SUBSET DOMAIN entities
    BY <2>2, ChangesAre
  <2>4. f[2] \in Nat
    BY <1>2, <2>2
  <2> HIDE DEF files
  <2> QED BY <2>1, <2>2, <2>3, <2>4
<1>5. IsFiniteSet(links)
  <2>1. IsFiniteSet((DOMAIN entities) \X files)
    <3>1. IsFiniteSet(DOMAIN entities)
      BY <1>1, FS_Interval
    <3> HIDE DEF files
    <3> QED BY <1>3, <3>1, FS_Product
  <2>2. links \in SUBSET ((DOMAIN entities) \X files)
    BY <1>4
  <2> HIDE DEF links, files
  <2> QED BY <2>1, <2>2, FS_Subset
<1>6. ASSUME NEW k \in links, << k, k >> \in LinkOrder(entities, changes, links)
      PROVE  FALSE
  <2> DEFINE key == << changes[k[2][1]].id, entities[k[1]].line, k[1], k[2][2] >>
  <2>1. /\ changes[k[2][1]].id \in Int /\ entities[k[1]].line \in Int
        /\ k[1] \in Int /\ k[2][2] \in Int
    <3>1. k \in (DOMAIN entities) \X files /\ k[2][1] \in DOMAIN changes /\ k[2][2] \in Nat
      BY <1>4
    <3>2. k[1] \in DOMAIN entities
      BY <3>1
    <3> QED BY <1>1, <3>1, <3>2, ChangesAre
  <2>2. \A n \in 1..4 : key[n] \in Int
    <3> HIDE DEF links
    <3> QED BY <2>1
  <2>3. \E n \in 1..4 : key[n] < key[n]
    <3> HIDE DEF links
    <3> QED BY <1>6 DEF LinkOrder
  <2> HIDE DEF key
  <2> QED BY <2>2, <2>3
<1> HIDE DEF links
<1> QED BY <1>5, <1>6 DEF links

\* The empty path is within any.
LEMMA AnyPathMeets ==
    ASSUME NEW D, NEW P, NEW E, NEW changes \in Changes(D, P, E), NEW f \in FilesOf(changes)
    PROVE  Within(<< >>, changes[f[1]].files[f[2]].path)
<1> DEFINE at == changes[f[1]].files[f[2]].path
<1>1. at \in Seq(P)
  <2>1. f[1] \in DOMAIN changes /\ f[2] \in DOMAIN changes[f[1]].files
    BY DEF FilesOf
  <2> QED BY <2>1, ChangesAre
<1> HIDE DEF at
<1>2. Len(at) \in Nat /\ SubSeq(at, 1, Len(at)) = at /\ Len(<< >>) = 0
  BY <1>1
<1>3. 0 \in 0..(Len(at) - Len(<< >>)) /\ 0 + 1 = 1
  BY <1>2
<1>4. IsPrefix(<< >>, at)
  BY <1>2 DEF IsPrefix
<1>5. IsPrefix(<< >>, SubSeq(at, 0 + 1, Len(at)))
  BY <1>2, <1>3, <1>4
<1>6. Within(<< >>, at)
  BY <1>3, <1>5 DEF Within
<1> QED BY <1>6 DEF at

\* An explanation of any path touches all that any change is linked to, if there
\* is room for all the links.
LEMMA AnyPathTouches ==
    ASSUME NEW D, NEW P, NEW L, NEW entities \in Symbols(L),
           NEW changes \in Changes(D, P, DOMAIN entities), NEW calls, NEW symbol, NEW limit \in Int,
           Cardinality(Links(changes, FilesOf(changes))) <= TouchLimit(limit),
           NEW e \in DOMAIN SymbolContext(entities, changes, calls, symbol, limit),
           NEW c \in SymbolContext(entities, changes, calls, symbol, limit)[e].changes
    PROVE  << e, c >> \in ExplainChange(entities, changes, calls, << >>, limit).touched
<1> DEFINE links == Links(changes, FilesOf(changes))
           shown == { k \in links : Cardinality({ j \in links : << j, k >> \in LinkOrder(entities, changes, links) })
                                      < TouchLimit(limit) }
<1>1. /\ c \in DOMAIN changes
      /\ \E f \in DOMAIN changes[c].files : e \in changes[c].files[f].entities
  BY DEF SymbolContext
<1>2. PICK f \in DOMAIN changes[c].files : e \in changes[c].files[f].entities
  BY <1>1
<1>3. << c, f >> \in FilesOf(changes)
  BY <1>1, <1>2 DEF FilesOf
<1>4. << e, << c, f >> >> \in links
  <2>1. << e, << c, f >> >> \in changes[<< c, f >>[1]].files[<< c, f >>[2]].entities \X {<< c, f >>}
    BY <1>2
  <2> QED BY <1>3, <2>1 DEF Links
<1>5. TouchLimit(limit) \in Int
  <2>1. limit * 5 \in Int
    OBVIOUS
  <2> QED BY Zenon, <2>1, GreaterOfTwo DEF TouchLimit
<1>6. << e, << c, f >> >> \in shown
  <2> DEFINE k == << e, << c, f >> >>
  <2>1. IsFiniteSet(links) /\ << k, k >> \notin LinkOrder(entities, changes, links) /\ k \in links
    BY <1>4, LinksAre
  <2> HIDE DEF k
  <2>2. Cardinality(links) <= TouchLimit(limit)
    OBVIOUS
  <2> HIDE DEF links
  <2>3. Cardinality({ j \in links : << j, k >> \in LinkOrder(entities, changes, links) }) < TouchLimit(limit)
    BY <1>5, <2>1, <2>2, NoneIsCut
  <2> QED BY <2>1, <2>3 DEF k
<1>7. FilesMet(changes, << >>) = FilesOf(changes)
  BY AnyPathMeets DEF FilesMet
<1>8. shown = Shown(entities, changes, << >>, limit)
  BY <1>7 DEF Shown
<1>9. ExplainChange(entities, changes, calls, << >>, limit).touched = { << k[1], k[2][1] >> : k \in shown }
  BY <1>8 DEF ExplainChange
<1> HIDE DEF shown
<1> QED BY <1>6, <1>9

\* A caller that is explained is one in both contexts.
LEMMA CallersCall ==
    ASSUME NEW entities, NEW changes, NEW calls, NEW path, NEW symbol, NEW limit,
           NEW x \in ExplainChange(entities, changes, calls, path, limit).impact.callers
    PROVE  LET context == SymbolContext(entities, changes, calls, symbol, limit)
           IN  /\ x[2] \in DOMAIN context => x[1] \in context[x[2]].callers
               /\ x[1] \in DOMAIN context => x[2] \in context[x[1]].callees
<1>1. x \in CallImpact(calls, { k[1] : k \in Shown(entities, changes, path, limit) }, CallLimit(limit)).callers
  BY DEF ExplainChange
<1>2. x \in Range(calls)
  BY <1>1 DEF CallImpact, Newest, Range
<1> QED BY <1>2 DEF SymbolContext

\* Where the calls fit, every caller is explained.
LEMMA AllCallersFit ==
    ASSUME NEW S, NEW calls \in Seq(S), NEW entities, NEW limit \in Nat, Len(calls) <= limit,
           NEW e \in entities
    PROVE  \A x : x[2] = e => (x \in Range(calls) <=> x \in CallImpact(calls, entities, limit).callers)
<1> DEFINE met == { n \in DOMAIN calls : calls[n][1] \in entities \/ calls[n][2] \in entities }
<1>1. \A n \in met : Cardinality({ m \in met : m < n }) < limit
  <2> TAKE n \in met
  <2>1. n \in 1..Len(calls) /\ Len(calls) \in Nat
    OBVIOUS
  <2>2. { m \in met : m < n } \in SUBSET (1..(n - 1))
    BY <2>1
  <2>3. n - 1 \in Nat /\ IsFiniteSet(1..(n - 1)) /\ Cardinality(1..(n - 1)) = n - 1
    BY <2>1, UpTo
  <2>4. /\ Cardinality({ m \in met : m < n }) <= n - 1
        /\ Cardinality({ m \in met : m < n }) \in Nat
    BY <2>2, <2>3, FS_Subset, FS_CardinalityType
  <2> QED BY <2>1, <2>4
<1>2. CallImpact(calls, entities, limit).callers = { row \in { calls[n] : n \in met } : row[2] \in entities }
  <2>1. Newest(met, limit) = met
    BY <1>1 DEF Newest
  <2> QED BY <2>1 DEF CallImpact
<1> QED BY <1>2 DEF Range

\* A reference finds the change it names whole, or the only one it begins.
LEMMA ReferencesAreSure ==
    ASSUME NEW D, NEW P, NEW E, NEW changes \in Changes(D, P, E), NEW ref \in Seq(D)
    PROVE  LET detail == ChangesetDetail(changes, ref)
           IN  /\ \A c \in detail.found : IsPrefix(ref, changes[c].commit)
                    /\ \A d \in DOMAIN changes : IsPrefix(ref, changes[d].commit)
                          => d = c \/ changes[c].commit = ref
               /\ detail.ambiguous => detail.found = {}
<1> DEFINE whole == { c \in DOMAIN changes : changes[c].commit = ref }
           begun == { c \in DOMAIN changes : IsPrefix(ref, changes[c].commit) }
<1>1. whole \in SUBSET Nat /\ IsFiniteSet(begun) /\ Cardinality(begun) \in Nat
  <2>1. DOMAIN changes = 1..Len(changes) /\ Len(changes) \in Nat
    BY ChangesAre
  <2>2. IsFiniteSet(1..Len(changes))
    BY <2>1, FS_Interval
  <2> QED BY <2>1, <2>2, FS_Subset, FS_CardinalityType
<1>2. IsPrefix(ref, ref)
  BY DEF IsPrefix
<1>3. CASE whole # {}
  <2>1. Min(whole) \in whole
    BY <1>1, <1>3, MinOf
  <2> QED BY <1>2, <1>3, <2>1 DEF ChangesetDetail
<1>4. CASE whole = {} /\ Cardinality(begun) = 1
  <2>1. \E x : begun = {x}
    BY <1>1, <1>4, FS_Singleton
  <2>2. /\ ChangesetDetail(changes, ref).found = begun
        /\ ChangesetDetail(changes, ref).ambiguous = (Cardinality(begun) > 1)
    BY <1>4 DEF ChangesetDetail
  <2> HIDE DEF begun
  <2>3. (Cardinality(begun) > 1) = FALSE
    BY <1>4
  <2>4. \A c, d \in begun : c = d
    BY <2>1
  <2> QED BY <2>2, <2>3, <2>4 DEF begun
<1>5. CASE whole = {} /\ Cardinality(begun) # 1
  BY <1>5 DEF ChangesetDetail
<1> QED BY <1>3, <1>4, <1>5

\* Any changes and calls are explained as they are found.
LEMMA EvidenceIsSame ==
    ASSUME NEW D, NEW P, NEW L, NEW entities \in Symbols(L),
           NEW changes \in Changes(D, P, DOMAIN entities), NEW C, NEW calls \in Seq(C),
           NEW path, NEW symbol, NEW limit \in Int, NEW ref \in Seq(D), NEW messages
    PROVE  SameEvidence(entities, changes, calls, path, symbol, limit, ref, messages)
<1> DEFINE explained == ExplainChange(entities, changes, calls, path, limit)
           context == SymbolContext(entities, changes, calls, symbol, limit)
<1>1. CallLimit(limit) \in Nat
  <2>1. limit * 3 \in Int /\ 10 \in Int
    OBVIOUS
  <2>2. Max({limit * 3, 10}) \in Int /\ 10 <= Max({limit * 3, 10})
    BY Zenon, <2>1, GreaterOfTwo
  <2> QED BY <2>2 DEF CallLimit
<1>2. Len(calls) <= CallLimit(limit) =>
        \A t \in explained.touched : t[1] \in DOMAIN context =>
          context[t[1]].callers = { x[1] : x \in { x \in explained.impact.callers : x[2] = t[1] } }
  <2> SUFFICES ASSUME Len(calls) <= CallLimit(limit), NEW t \in explained.touched, t[1] \in DOMAIN context
               PROVE  context[t[1]].callers =
                        { x[1] : x \in { x \in explained.impact.callers : x[2] = t[1] } }
    OBVIOUS
  <2> DEFINE touching == { k[1] : k \in Shown(entities, changes, path, limit) }
  <2>1. t[1] \in touching /\ explained.impact = CallImpact(calls, touching, CallLimit(limit))
    BY DEF ExplainChange
  <2>2. context[t[1]].callers = { c[1] : c \in { c \in Range(calls) : c[2] = t[1] } }
    BY DEF SymbolContext
  <2> HIDE DEF explained, context, touching
  <2>3. \A x : x[2] = t[1] =>
                  (x \in Range(calls) <=> x \in CallImpact(calls, touching, CallLimit(limit)).callers)
    BY <1>1, <2>1, AllCallersFit
  <2> QED BY <2>1, <2>2, <2>3
<1>3. Narrative(explained, messages, TRUE).chat = << >>
  BY DEF Narrative
<1>4. path = << >> /\ Cardinality(Links(changes, FilesOf(changes))) <= TouchLimit(limit) =>
        \A e \in DOMAIN context : \A c \in context[e].changes : << e, c >> \in explained.touched
  <2> SUFFICES ASSUME path = << >>, Cardinality(Links(changes, FilesOf(changes))) <= TouchLimit(limit),
                      NEW e \in DOMAIN context, NEW c \in context[e].changes
               PROVE  << e, c >> \in explained.touched
    BY Zenon
  <2>1. << e, c >> \in ExplainChange(entities, changes, calls, << >>, limit).touched
    BY Zenon, AnyPathTouches
  <2> QED BY <2>1
<1>5. \A t \in explained.touched : t[1] \in DOMAIN context => t[2] \in context[t[1]].changes
  BY ContextTouches
<1>6. \A x \in explained.impact.callers : /\ x[2] \in DOMAIN context => x[1] \in context[x[2]].callers
                                          /\ x[1] \in DOMAIN context => x[2] \in context[x[1]].callees
  BY CallersCall
<1> HIDE DEF explained, context
<1> QED BY <1>2, <1>3, <1>4, <1>5, <1>6, ReferencesAreSure DEF SameEvidence, explained, context

\* A question about a change.
IsExplainInput(D, P, L, C) ==
    input.about = "explain" =>
        /\ input.entities \in Symbols(L) /\ input.changes \in Changes(D, P, DOMAIN input.entities)
        /\ input.calls \in Seq(C) /\ input.ref \in Seq(D) /\ input.limit \in Int

\* For any changes, calls, paths, symbols, limits and references, an explanation and
\* the contexts of its entities tell the same as far as their limits show both, and a reference never picks one of several changes
\* (explain_change, get_symbol_context, get_changeset_detail, summarize_explain_change).
THEOREM ExplanationsAgree ==
    ASSUME NEW D, NEW P, NEW L, NEW C, IsExplainInput(D, P, L, C)
    PROVE  EvidenceAgrees
  BY EvidenceIsSame DEF IsExplainInput, EvidenceAgrees

-----------------------------------------------------------------------------

\* Results that list some of the hits, none of them twice.
Lists(results, hits) ==
    /\ results \in Seq([at : hits, score : Int])
    /\ \A j, k \in DOMAIN results : results[j].at = results[k].at => j = k

\* The best score first.
Descends(results) ==
    \A j, k \in DOMAIN results : j < k => results[k].score <= results[j].score

\* The messages that results are of.
Ats(results) == { results[k].at : k \in DOMAIN results }

\* Hits in an order of them, each with its score.
LEMMA ScoredLists ==
    ASSUME NEW hits, IsFiniteSet(hits), NEW before, Sorts(before, hits), NEW score \in [hits -> Int]
    PROVE  LET results == Scored(InOrder(hits, before), score)
           IN  /\ Lists(results, hits) /\ Len(results) = Cardinality(hits)
               /\ \A j, k \in DOMAIN results : j < k => << results[j].at, results[k].at >> \in before
               /\ \A k \in DOMAIN results : results[k].score = score[results[k].at]
               /\ \A n \in hits : \E k \in DOMAIN results : results[k].at = n
<1> DEFINE o == InOrder(hits, before)
           N == Cardinality(hits)
           results == Scored(o, score)
<1>0. N \in Nat
  BY FS_CardinalityType
<1>1. /\ o \in [1..N -> hits] /\ \A n \in hits : \E k \in 1..N : o[k] = n
      /\ \A j, k \in 1..N : j < k => << o[j], o[k] >> \in before
  BY InOrderSorts
<1> HIDE DEF o, N
<1>2. results \in [1..N -> [at : hits, score : Int]]
  BY <1>1 DEF Scored
<1>3. \A k \in 1..N : results[k].at = o[k] /\ results[k].score = score[o[k]]
  BY <1>1 DEF Scored
<1> HIDE DEF results
<1>4. results \in Seq([at : hits, score : Int])
  BY <1>0, <1>2, IsSequence
<1>5. Len(results) = N /\ DOMAIN results = 1..N
  BY <1>0, <1>2, IsSequence
<1>6. ASSUME NEW j \in 1..N, NEW k \in 1..N, results[j].at = results[k].at PROVE j = k
  <2>1. << o[j], o[j] >> \notin before /\ o[j] = o[k]
    BY <1>1, <1>3, <1>6 DEF Sorts
  <2>2. ~(j < k) /\ ~(k < j)
    BY <1>1, <2>1
  <2> QED BY <1>0, <2>2
<1>7. Lists(results, hits) /\ Len(results) = N
  BY <1>4, <1>5, <1>6 DEF Lists
<1>8. /\ \A j, k \in DOMAIN results : j < k => << results[j].at, results[k].at >> \in before
      /\ \A k \in DOMAIN results : results[k].score = score[results[k].at]
      /\ \A n \in hits : \E k \in DOMAIN results : results[k].at = n
  BY <1>1, <1>3, <1>5
<1> QED BY <1>7, <1>8 DEF results, o, N

\* A limit leaves a list of hits.
LEMMA TakeLists ==
    ASSUME NEW hits, NEW results, Lists(results, hits), NEW limit \in Nat
    PROVE  LET cut == Take(results, limit)
           IN  /\ Lists(cut, hits) /\ Len(cut) = Min({limit, Len(results)})
               /\ \A k \in DOMAIN cut : k \in DOMAIN results /\ cut[k] = results[k]
               /\ Descends(results) => Descends(cut)
<1> DEFINE cut == Take(results, limit)
           n == Min({limit, Len(results)})
<1>1. /\ cut \in Seq([at : hits, score : Int]) /\ Len(cut) = n /\ cut \in [1..n -> [at : hits, score : Int]]
      /\ \A k \in 1..n : k \in DOMAIN results /\ cut[k] = results[k]
  BY TakeOf DEF Lists
<1> HIDE DEF cut, n
<1>2. DOMAIN cut = 1..n
  BY <1>1
<1> QED BY <1>1, <1>2 DEF Lists, Descends, cut, n

\* A list has no more results than there are hits, and all of them if as many.
LEMMA HowMany ==
    ASSUME NEW hits, IsFiniteSet(hits), NEW results, Lists(results, hits)
    PROVE  /\ Len(results) \in Nat /\ Len(results) <= Cardinality(hits) /\ Cardinality(hits) \in Nat
           /\ Len(results) = Cardinality(hits) =>
                hits \subseteq Ats(results)
           /\ IsFiniteSet(Ats(results)) /\ Cardinality(Ats(results)) = Len(results)
<1> DEFINE f == [k \in 1..Len(results) |-> results[k].at]
           found == Ats(results)
<1>1. Len(results) \in Nat /\ DOMAIN results = 1..Len(results)
      /\ \A k \in DOMAIN results : results[k] \in [at : hits, score : Int]
  BY ElementsOf DEF Lists
<1>2. f \in [1..Len(results) -> hits] /\ f \in [1..Len(results) -> found]
  BY <1>1 DEF Ats
<1>3. IsInjective(f)
  BY <1>1 DEF IsInjective, Lists
<1>4. \A k \in 1..Len(results) : f[k] = results[k].at
  OBVIOUS
<1> HIDE DEF f
<1>5. f \in Injection(1..Len(results), hits) /\ f \in Injection(1..Len(results), found)
  BY <1>2, <1>3 DEF Injection
<1>6. Len(results) <= Cardinality(hits)
      /\ (Len(results) = Cardinality(hits) => f \in Surjection(1..Len(results), hits))
  BY <1>1, <1>5, FS_Injection, UpTo
<1>7. f \in Surjection(1..Len(results), found)
  BY <1>1, <1>2, <1>4 DEF Surjection, Ats
<1>8. /\ IsFiniteSet(found)
      /\ Cardinality(found) = Cardinality(1..Len(results)) <=> f \in Injection(1..Len(results), found)
  BY <1>1, <1>7, FS_Surjection, UpTo
<1>9. Cardinality(found) = Len(results)
  BY <1>1, <1>5, <1>8, UpTo
<1>10. f \in Surjection(1..Len(results), hits) => hits \subseteq found
  BY <1>1, <1>4 DEF Surjection, Ats
<1> QED BY <1>1, <1>6, <1>8, <1>9, <1>10, FS_CardinalityType

\* Messages of any workspaces and agents, however they score.
Messages(W, A) ==
    Seq([workspace : W, source : A, rank : Int, trigram : Int, distance : Int, words : Int])

\* What either kind of search may find.
KeywordHits(messages, scope) == { n \in InScope(messages, scope) : messages[n].rank # None }
VectorHits(messages, scope) == { n \in InScope(messages, scope) : messages[n].distance # None }

\* What messages consist of.
LEMMA MessagesAre ==
    ASSUME NEW W, NEW A, NEW messages \in Messages(W, A)
    PROVE  /\ Len(messages) \in Nat /\ DOMAIN messages = 1..Len(messages)
           /\ \A n \in DOMAIN messages : /\ messages[n].rank \in Int /\ messages[n].trigram \in Int
                                         /\ messages[n].distance \in Int /\ messages[n].words \in Int
           /\ \A set \in SUBSET DOMAIN messages : IsFiniteSet(set) /\ set \in SUBSET Nat
<1>1. /\ Len(messages) \in Nat /\ DOMAIN messages = 1..Len(messages)
      /\ \A n \in DOMAIN messages : messages[n] \in
           [workspace : W, source : A, rank : Int, trigram : Int, distance : Int, words : Int]
  BY ElementsOf DEF Messages
<1>2. \A set \in SUBSET (1..Len(messages)) : IsFiniteSet(set) /\ set \in SUBSET Nat
  <2> TAKE set \in SUBSET (1..Len(messages))
  <2>1. IsFiniteSet(1..Len(messages))
    BY <1>1, UpTo
  <2>2. IsFiniteSet(set)
    BY <2>1, FS_Subset
  <2> QED BY <1>1, <2>2
<1> QED BY <1>1, <1>2

\* A keyword search lists hits, as many as it may.
LEMMA KeywordLists ==
    ASSUME NEW W, NEW A, NEW messages \in Messages(W, A), NEW scope, NEW limit \in Nat
    PROVE  LET results == Keyword(messages, scope, limit)
               hits == KeywordHits(messages, scope)
           IN  Lists(results, hits) /\ Len(results) = Min({limit, Cardinality(hits)})
<1> DEFINE hits == KeywordHits(messages, scope)
           before == { p \in hits \X hits :
                         LET a == messages[p[1]]  b == messages[p[2]]
                         IN  \/ a.rank > b.rank
                             \/ a.rank = b.rank /\ a.trigram > b.trigram
                             \/ a.rank = b.rank /\ a.trigram = b.trigram /\ p[1] < p[2] }
           score == [n \in hits |-> messages[n].rank + messages[n].trigram]
<1>1. hits \in SUBSET DOMAIN messages
  BY DEF KeywordHits, InScope
<1>2. /\ IsFiniteSet(hits)
      /\ \A n \in hits : n \in Nat /\ messages[n].rank \in Int /\ messages[n].trigram \in Int
  BY <1>1, MessagesAre
<1>3. Sorts(before, hits) /\ score \in [hits -> Int]
  BY <1>2 DEF Sorts
<1>4. Keyword(messages, scope, limit) = Take(Scored(InOrder(hits, before), score), limit)
  BY DEF Keyword, KeywordHits
<1> HIDE DEF hits, before, score
<1>5. /\ Lists(Scored(InOrder(hits, before), score), hits)
      /\ Len(Scored(InOrder(hits, before), score)) = Cardinality(hits)
  BY <1>2, <1>3, ScoredLists
<1> QED BY <1>4, <1>5, TakeLists DEF hits

\* A vector search lists hits, as many as it may and the nearest first.
LEMMA VectorLists ==
    ASSUME NEW W, NEW A, NEW messages \in Messages(W, A), NEW scope, NEW limit \in Nat
    PROVE  LET results == Vector(messages, scope, limit)
               hits == VectorHits(messages, scope)
           IN  /\ Lists(results, hits) /\ Len(results) = Min({limit, Cardinality(hits)})
               /\ Descends(results)
<1> DEFINE hits == VectorHits(messages, scope)
           before == { p \in hits \X hits :
                         \/ messages[p[1]].distance < messages[p[2]].distance
                         \/ messages[p[1]].distance = messages[p[2]].distance /\ p[1] < p[2] }
           score == [n \in hits |-> Unit - messages[n].distance]
           whole == Scored(InOrder(hits, before), score)
<1>1. hits \in SUBSET DOMAIN messages
  BY DEF VectorHits, InScope
<1>2. IsFiniteSet(hits) /\ \A n \in hits : n \in Nat /\ messages[n].distance \in Int
  BY <1>1, MessagesAre
<1>3. Sorts(before, hits) /\ score \in [hits -> Int]
  BY <1>2 DEF Sorts, Unit
<1>4. \A m, n \in hits : << m, n >> \in before => score[n] <= score[m]
  BY <1>2 DEF Unit
<1>5. Vector(messages, scope, limit) = Take(whole, limit)
  BY DEF Vector, VectorHits
<1> HIDE DEF hits, before, score
<1>6. /\ Lists(whole, hits) /\ Len(whole) = Cardinality(hits)
      /\ \A j, k \in DOMAIN whole : j < k => << whole[j].at, whole[k].at >> \in before
      /\ \A k \in DOMAIN whole : whole[k].score = score[whole[k].at]
  BY <1>2, <1>3, ScoredLists
<1> HIDE DEF whole
<1>7. \A k \in DOMAIN whole : whole[k].at \in hits
  <2>1. \A k \in DOMAIN whole : whole[k] \in [at : hits, score : Int]
    BY <1>6, ElementsOf DEF Lists
  <2> QED BY <2>1
<1>8. Descends(whole)
  BY <1>4, <1>6, <1>7 DEF Descends
<1> QED BY <1>5, <1>6, <1>8, TakeLists DEF hits

\* The lesser of two numbers.
LEMMA LeastOfTwo ==
    ASSUME NEW a \in Nat, NEW b \in Nat
    PROVE  Min({a, b}) \in {a, b} /\ Min({a, b}) \in Nat /\ Min({a, b}) <= a /\ Min({a, b}) <= b
  BY MinOf

\* The place of a message in a list, which is 0 exactly where it has none.
LEMMA PlaceOfIs ==
    ASSUME NEW hits, NEW results, Lists(results, hits), NEW n
    PROVE  /\ PlaceOf(n, results) \in 0..Len(results)
           /\ PlaceOf(n, results) # 0 => results[PlaceOf(n, results)].at = n
           /\ \A k \in DOMAIN results : results[k].at = n => PlaceOf(n, results) # 0
<1> DEFINE at == { k \in DOMAIN results : results[k].at = n }
<1>1. Len(results) \in Nat /\ DOMAIN results = 1..Len(results)
  BY ElementsOf DEF Lists
<1>2. CASE at = {}
  BY <1>1, <1>2 DEF PlaceOf
<1>3. CASE at # {}
  <2>1. PlaceOf(n, results) \in at
    BY <1>3 DEF PlaceOf
  <2> QED BY <1>1, <2>1
<1> QED BY <1>2, <1>3

\* A reciprocal is a score.
LEMMA ReciprocalIs == ASSUME NEW place \in Nat PROVE Reciprocal(place) \in Int
<1>1. CASE place = 0
  BY <1>1 DEF Reciprocal
<1>2. CASE place # 0
  <2>1. 60 \div place \in Int
    BY <1>2
  <2> QED BY <1>2, <2>1 DEF Reciprocal, Unit
<1> QED BY <1>1, <1>2

\* A list of some hits is one of more of them.
LEMMA WiderLists ==
    ASSUME NEW S, NEW T, S \subseteq T, NEW results, Lists(results, S)
    PROVE  Lists(results, T)
<1>1. /\ Len(results) \in Nat /\ DOMAIN results = 1..Len(results)
      /\ \A k \in DOMAIN results : results[k] \in [at : S, score : Int]
  BY ElementsOf DEF Lists
<1>2. \A k \in DOMAIN results : results[k] \in [at : T, score : Int]
  BY <1>1
<1>3. results \in [1..Len(results) -> [at : T, score : Int]]
  <2>1. results = [k \in DOMAIN results |-> results[k]]
    BY ElementsOf DEF Lists
  <2> QED BY <1>1, <1>2, <2>1
<1>4. results \in Seq([at : T, score : Int])
  BY <1>1, <1>3, IsSequence
<1> QED BY <1>4 DEF Lists

\* Two lists fused: every message of either once, the best score first.
LEMMA FusedLists ==
    ASSUME NEW here, NEW there, NEW hits, IsFiniteSet(hits), hits = here \cup there,
           NEW keyword, Lists(keyword, here), NEW vector, Lists(vector, there),
           NEW fused, fused = Fused(keyword, vector)
    PROVE  Lists(fused, hits) /\ Descends(fused) /\ Ats(fused) = Ats(keyword) \cup Ats(vector)
<1> DEFINE found == { r.at : r \in Range(keyword) \cup Range(vector) }
           first == [n \in found |-> PlaceOf(n, keyword)]
           second == [n \in found |-> PlaceOf(n, vector)]
           score == [n \in found |-> Reciprocal(first[n]) + Reciprocal(second[n])]
           met == [n \in found |-> IF first[n] # 0 THEN first[n] ELSE Len(keyword) + second[n]]
           before == { p \in found \X found :
                         \/ score[p[1]] > score[p[2]]
                         \/ score[p[1]] = score[p[2]] /\ met[p[1]] < met[p[2]] }
           results == Scored(InOrder(found, before), score)
<1>1. found = Ats(keyword) \cup Ats(vector)
  BY DEF Range, Ats
<1>2. /\ Len(keyword) \in Nat /\ Len(vector) \in Nat
      /\ \A k \in DOMAIN keyword : keyword[k] \in [at : here, score : Int]
      /\ \A k \in DOMAIN vector : vector[k] \in [at : there, score : Int]
  BY ElementsOf DEF Lists
<1>3. found \in SUBSET hits
  BY <1>1, <1>2 DEF Ats
<1>4. IsFiniteSet(found)
  BY <1>3, FS_Subset
<1>5. \A n \in found : /\ first[n] \in 0..Len(keyword) /\ second[n] \in 0..Len(vector)
                       /\ first[n] # 0 => keyword[first[n]].at = n
                       /\ second[n] # 0 => vector[second[n]].at = n
                       /\ first[n] # 0 \/ second[n] # 0
  BY <1>1, PlaceOfIs DEF Ats
<1>7. fused = results
  BY DEF Fused
<1> HIDE DEF found, first, second
<1>6. score \in [found -> Int]
  BY <1>2, <1>5, ReciprocalIs
<1> HIDE DEF score
<1>8. \A m, n \in found : met[m] \in Nat /\ (met[m] = met[n] => m = n)
  BY <1>2, <1>5
<1> HIDE DEF met
<1>9. Sorts(before, found)
  BY <1>6, <1>8 DEF Sorts
<1>10. \A m, n \in found : << m, n >> \in before => score[n] <= score[m]
  BY <1>6
<1> HIDE DEF before
<1>11. /\ Lists(results, found) /\ Len(results) = Cardinality(found)
       /\ \A j, k \in DOMAIN results : j < k => << results[j].at, results[k].at >> \in before
       /\ \A k \in DOMAIN results : results[k].score = score[results[k].at]
       /\ \A n \in found : \E k \in DOMAIN results : results[k].at = n
  BY <1>4, <1>6, <1>9, ScoredLists
<1> HIDE DEF results
<1>12. \A k \in DOMAIN results : results[k].at \in found
  <2>1. \A k \in DOMAIN results : results[k] \in [at : found, score : Int]
    BY <1>11, ElementsOf DEF Lists
  <2> QED BY <2>1
<1>13. Descends(results)
  BY <1>10, <1>11, <1>12 DEF Descends
<1>14. Lists(results, hits)
  <2>1. found \subseteq hits
    BY <1>3
  <2> QED BY <1>11, <2>1, WiderLists
<1>15. Ats(results) = found
  BY <1>11, <1>12 DEF Ats
<1> QED BY <1>1, <1>7, <1>13, <1>14, <1>15

\* Two lists that were cut at a limit still have as many messages together as the
\* limit allows of all hits.
LEMMA FusedEnough ==
    ASSUME NEW here, IsFiniteSet(here), NEW there, IsFiniteSet(there),
           NEW hits, IsFiniteSet(hits), hits = here \cup there, NEW limit \in Nat,
           NEW keyword, Lists(keyword, here), Len(keyword) = Min({limit, Cardinality(here)}),
           NEW vector, Lists(vector, there), Len(vector) = Min({limit, Cardinality(there)}),
           NEW results, Lists(results, hits), Ats(results) = Ats(keyword) \cup Ats(vector)
    PROVE  Min({limit, Cardinality(hits)}) <= Len(results)
<1>1. /\ Len(results) \in Nat /\ Cardinality(hits) \in Nat
      /\ IsFiniteSet(Ats(results)) /\ Cardinality(Ats(results)) = Len(results)
  BY HowMany
<1>2. /\ Len(keyword) \in Nat /\ Cardinality(here) \in Nat
      /\ Cardinality(Ats(keyword)) = Len(keyword)
      /\ Len(keyword) = Cardinality(here) => here \subseteq Ats(keyword)
  BY HowMany
<1>3. /\ Len(vector) \in Nat /\ Cardinality(there) \in Nat
      /\ Cardinality(Ats(vector)) = Len(vector)
      /\ Len(vector) = Cardinality(there) => there \subseteq Ats(vector)
  BY HowMany
<1>4. Ats(keyword) \in SUBSET Ats(results) /\ Ats(vector) \in SUBSET Ats(results)
  OBVIOUS
<1>5. Len(keyword) <= Len(results) /\ Len(vector) <= Len(results)
  BY <1>1, <1>2, <1>3, <1>4, FS_Subset
<1> DEFINE least == Min({limit, Cardinality(hits)})
<1>6. least <= limit /\ least <= Cardinality(hits) /\ least \in Nat
  BY <1>1, LeastOfTwo
<1> HIDE DEF least
<1>7. ASSUME Len(keyword) = limit \/ Len(vector) = limit PROVE least <= Len(results)
  BY <1>1, <1>5, <1>6, <1>7
<1>8. ASSUME Len(keyword) = Cardinality(here) /\ Len(vector) = Cardinality(there)
      PROVE  least <= Len(results)
  <2>1. hits \in SUBSET Ats(results)
    BY <1>2, <1>3, <1>4, <1>8
  <2>2. Cardinality(hits) <= Len(results)
    BY <1>1, <2>1, FS_Subset
  <2> QED BY <1>1, <1>6, <2>2
<1>9. Len(keyword) \in {limit, Cardinality(here)} /\ Len(vector) \in {limit, Cardinality(there)}
  BY <1>2, <1>3, LeastOfTwo
<1> QED BY <1>7, <1>8, <1>9 DEF least

\* A hybrid search lists hits, at least as many as it may, the best first.
LEMMA HybridLists ==
    ASSUME NEW W, NEW A, NEW messages \in Messages(W, A), NEW scope, NEW limit \in Nat
    PROVE  LET results == Hybrid(messages, scope, limit)
               hits == KeywordHits(messages, scope) \cup VectorHits(messages, scope)
           IN  /\ Lists(results, hits) /\ Descends(results)
               /\ Min({limit, Cardinality(hits)}) <= Len(results)
<1>1. PICK here, there, hits : /\ here = KeywordHits(messages, scope) /\ there = VectorHits(messages, scope)
                               /\ hits = here \cup there
  OBVIOUS
<1>2. PICK keyword, vector : /\ keyword = Keyword(messages, scope, limit)
                             /\ vector = Vector(messages, scope, limit)
  OBVIOUS
<1>3. IsFiniteSet(here) /\ IsFiniteSet(there) /\ IsFiniteSet(hits)
  <2>1. here \in SUBSET DOMAIN messages /\ there \in SUBSET DOMAIN messages
        /\ hits \in SUBSET DOMAIN messages
    BY <1>1 DEF KeywordHits, VectorHits, InScope
  <2> QED BY <2>1, MessagesAre
<1>4. /\ Lists(keyword, here) /\ Len(keyword) = Min({limit, Cardinality(here)})
      /\ Lists(vector, there) /\ Len(vector) = Min({limit, Cardinality(there)})
  BY <1>1, <1>2, KeywordLists, VectorLists
<1>5. PICK results : results = Fused(keyword, vector)
  OBVIOUS
<1>6. Lists(results, hits) /\ Descends(results) /\ Ats(results) = Ats(keyword) \cup Ats(vector)
  <2>1. hits = here \cup there
    BY <1>1
  <2>2. Lists(keyword, here) /\ Lists(vector, there)
    BY <1>4
  <2>3. IsFiniteSet(hits)
    BY <1>3
  <2>4. Descends(results)
    BY <1>5, <2>1, <2>2, <2>3, FusedLists
  <2>5. Lists(results, hits)
    BY <1>5, <2>1, <2>2, <2>3, FusedLists
  <2>6. Ats(results) = Ats(keyword) \cup Ats(vector)
    BY <1>5, <2>1, <2>2, <2>3, FusedLists
  <2> QED BY <2>4, <2>5, <2>6
<1>7. Min({limit, Cardinality(hits)}) <= Len(results)
  <2>1. hits = here \cup there
    BY <1>1
  <2> QED BY <1>3, <1>4, <1>6, <2>1, FusedEnough
<1>8. results = Hybrid(messages, scope, limit)
  BY <1>2, <1>5 DEF Hybrid
<1> QED BY <1>1, <1>6, <1>7, <1>8

-----------------------------------------------------------------------------
\* Whether an order of the places is the one they are in.
InTurn(before, results) == \A j, k \in DOMAIN results : j < k => << j, k >> \in before

\* Whether rows are the first of the results.
Begins(rows, results) == \A k \in DOMAIN rows : rows[k] = results[k]

\* Rows are the results at the places of an order.
Reorders(rows, results, order, before) ==
    /\ \A k \in DOMAIN rows : order[k] \in DOMAIN results /\ rows[k] = results[order[k]]
    /\ \A j, k \in DOMAIN rows : j < k => << order[j], order[k] >> \in before

\* Results in another order and cut lose no hit but by the limit, and an order that
\* is the present one moves none.
LEMMA PlacesLists ==
    ASSUME NEW hits, NEW results, Lists(results, hits), NEW before, Sorts(before, DOMAIN results),
           NEW limit \in Nat, NEW order, order = InOrder(DOMAIN results, before),
           NEW rows, rows = Take(Places(results, order), limit)
    PROVE  /\ Lists(rows, hits) /\ Len(rows) = Min({limit, Len(results)})
           /\ Reorders(rows, results, order, before)
           /\ InTurn(before, results) => Begins(rows, results)
<1> DEFINE N == Len(results)
           whole == Places(results, order)
<1>1. N \in Nat /\ DOMAIN results = 1..N /\ \A k \in 1..N : results[k] \in [at : hits, score : Int]
  BY ElementsOf DEF Lists
<1>2. IsFiniteSet(1..N) /\ Cardinality(1..N) = N
  BY <1>1, UpTo
<1> HIDE DEF N
<1>3. /\ order \in [1..N -> 1..N]
      /\ \A j, k \in 1..N : j < k => << order[j], order[k] >> \in before
  BY <1>1, <1>2, InOrderSorts
<1>4. whole \in [1..N -> [at : hits, score : Int]] /\ \A k \in 1..N : whole[k] = results[order[k]]
  BY <1>1, <1>3 DEF Places
<1> HIDE DEF whole
<1>5. whole \in Seq([at : hits, score : Int]) /\ Len(whole) = N /\ DOMAIN whole = 1..N
  BY <1>1, <1>4, IsSequence
<1>6. ASSUME NEW j \in 1..N, NEW k \in 1..N, whole[j].at = whole[k].at PROVE j = k
  <2>0. \A m, n \in 1..N : results[m].at = results[n].at => m = n
    BY <1>1 DEF Lists
  <2>1. order[j] = order[k]
    <3>1. order[j] \in 1..N /\ order[k] \in 1..N /\ whole[j] = results[order[j]] /\ whole[k] = results[order[k]]
      BY <1>3, <1>4
    <3>2. results[order[j]].at = results[order[k]].at
      BY <1>6, <3>1
    <3> QED BY <2>0, <3>1, <3>2
  <2>2. ~(j < k) /\ ~(k < j)
    BY <1>1, <1>3, <2>1 DEF Sorts
  <2> QED BY <1>1, <2>2
<1>7. Lists(whole, hits)
  BY <1>5, <1>6 DEF Lists
<1>8. /\ Lists(rows, hits) /\ Len(rows) = Min({limit, N})
      /\ \A k \in DOMAIN rows : k \in 1..N /\ rows[k] = whole[k]
  BY <1>5, <1>7, TakeLists DEF whole
<1>9. ASSUME InTurn(before, results) PROVE \A k \in 1..N : order[k] = k
  BY <1>1, <1>9, KeepsOrder DEF InTurn
<1>10. \A k \in DOMAIN rows : order[k] \in DOMAIN results /\ rows[k] = results[order[k]]
  BY <1>1, <1>3, <1>4, <1>8
<1>11. Reorders(rows, results, order, before)
  BY <1>3, <1>8, <1>10 DEF Reorders
<1>12. InTurn(before, results) => Begins(rows, results)
  BY <1>8, <1>9, <1>10 DEF Begins
<1> QED BY <1>8, <1>11, <1>12 DEF N

\* A score that is not let below 0.
LEMMA AboveNought ==
    ASSUME NEW a \in Int
    PROVE  Max({a, 0}) = IF a >= 0 THEN a ELSE 0
<1>1. Max({a, 0}) \in {a, 0} /\ a <= Max({a, 0}) /\ 0 <= Max({a, 0})
  <2>1. a \in Int /\ 0 \in Int
    OBVIOUS
  <2> QED BY <2>1, GreaterOfTwo, Zenon
<1> QED BY <1>1

\* The base score of a candidate falls with its place where its score does.
LEMMA BaseIs ==
    ASSUME NEW hits, NEW results, Lists(results, hits)
    PROVE  /\ \A k \in DOMAIN results : Base(results[k], k) \in Int
           /\ Descends(results) =>
                \A j, k \in DOMAIN results : j < k => Base(results[k], k) <= Base(results[j], j)
<1>1. DOMAIN results \subseteq Nat /\ \A k \in DOMAIN results : results[k] \in [at : hits, score : Int]
  <2>1. Len(results) \in Nat /\ DOMAIN results = 1..Len(results)
    BY ElementsOf DEF Lists
  <2>2. \A k \in DOMAIN results : results[k] \in [at : hits, score : Int]
    BY ElementsOf DEF Lists
  <2> QED BY <2>1, <2>2
<1>2. ASSUME NEW k \in DOMAIN results
      PROVE  /\ k \in Nat /\ results[k].score \in Int /\ 60 \div (k + 1) \in Int
             /\ Base(results[k], k) = (IF results[k].score >= 0 THEN results[k].score ELSE 0) + 60 \div (k + 1)
  <2>1. k \in Nat /\ results[k].score \in Int
    BY <1>1
  <2>2. k + 1 \in Nat \ {0}
    BY <2>1
  <2>3. 60 \div (k + 1) \in Int
    BY <2>2
  <2>4. Max({results[k].score, 0}) = IF results[k].score >= 0 THEN results[k].score ELSE 0
    BY <2>1, AboveNought
  <2> QED BY <2>1, <2>3, <2>4 DEF Base, Unit
<1>3. ASSUME Descends(results), NEW j \in DOMAIN results, NEW k \in DOMAIN results, j < k
      PROVE  Base(results[k], k) <= Base(results[j], j)
  <2>1. results[k].score <= results[j].score
    BY <1>3 DEF Descends
  <2>2. 60 \div (k + 1) <= 60 \div (j + 1)
    <3>1. \A a, b \in Nat \ {0} : a <= b => 60 \div b <= 60 \div a
      OBVIOUS
    <3>2. j + 1 \in Nat \ {0} /\ k + 1 \in Nat \ {0} /\ j + 1 <= k + 1
      BY <1>2, <1>3
    <3> QED BY <3>1, <3>2
  <2> DEFINE p == 60 \div (k + 1)
             q == 60 \div (j + 1)
  <2>3. p \in Int /\ q \in Int
    BY <1>2
  <2> HIDE DEF p, q
  <2>4. /\ Base(results[k], k) = (IF results[k].score >= 0 THEN results[k].score ELSE 0) + p
        /\ Base(results[j], j) = (IF results[j].score >= 0 THEN results[j].score ELSE 0) + q
        /\ results[k].score \in Int /\ results[j].score \in Int /\ p <= q
    BY <1>2, <2>2 DEF p, q
  <2> QED BY <2>1, <2>3, <2>4
<1>4. \A k \in DOMAIN results : Base(results[k], k) \in Int
  <2> TAKE k \in DOMAIN results
  <2> DEFINE p == 60 \div (k + 1)
  <2>1. p \in Int /\ results[k].score \in Int
        /\ Base(results[k], k) = (IF results[k].score >= 0 THEN results[k].score ELSE 0) + p
    BY <1>2
  <2> HIDE DEF p
  <2> QED BY <2>1
<1> QED BY <1>3, <1>4

\* None of the messages has a word in common with the query.
Wordless(messages, hits) == \A n \in hits : messages[n].words = 0

\* A local reranking keeps to the hits, and has its say only through shared words.
LEMMA LocalRerankLists ==
    ASSUME NEW W, NEW A, NEW messages \in Messages(W, A), NEW hits \in SUBSET DOMAIN messages,
           NEW results, Lists(results, hits), NEW limit \in Nat,
           NEW rows, rows = LocalRerank(messages, results, limit)
    PROVE  /\ Lists(rows, hits) /\ Len(rows) = Min({limit, Len(results)})
           /\ Descends(results) /\ Wordless(messages, hits) => Begins(rows, results)
<1> DEFINE total == [k \in DOMAIN results |-> Base(results[k], k) + messages[results[k].at].words]
           before == { p \in (DOMAIN results) \X (DOMAIN results) :
                         \/ total[p[1]] > total[p[2]]
                         \/ total[p[1]] = total[p[2]] /\ p[1] < p[2] }
           order == InOrder(DOMAIN results, before)
<1>1. DOMAIN results \subseteq Nat
  <2>1. Len(results) \in Nat /\ DOMAIN results = 1..Len(results)
    BY ElementsOf DEF Lists
  <2> QED BY <2>1
<1>2. \A k \in DOMAIN results : results[k].at \in hits
  <2>1. \A k \in DOMAIN results : results[k] \in [at : hits, score : Int]
    BY ElementsOf DEF Lists
  <2> QED BY <2>1
<1>3. \A k \in DOMAIN results : Base(results[k], k) \in Int /\ messages[results[k].at].words \in Int
  BY <1>2, BaseIs, MessagesAre
<1>4. \A k \in DOMAIN results : total[k] \in Int
  BY <1>3
<1>5. rows = Take(Places(results, order), limit)
  BY DEF LocalRerank
<1>6. ASSUME Descends(results), Wordless(messages, hits),
             NEW j \in DOMAIN results, NEW k \in DOMAIN results, j < k
      PROVE  total[k] <= total[j]
  <2>1. Base(results[k], k) <= Base(results[j], j)
    BY <1>6, BaseIs
  <2>2. messages[results[k].at].words = 0 /\ messages[results[j].at].words = 0
    BY <1>2, <1>6 DEF Wordless
  <2> QED BY <1>3, <2>1, <2>2
<1> HIDE DEF total
<1>7. Sorts(before, DOMAIN results)
  BY <1>1, <1>4 DEF Sorts
<1>8. ASSUME Descends(results), Wordless(messages, hits)
      PROVE  InTurn(before, results)
  BY <1>4, <1>6, <1>8 DEF InTurn
<1>9. order = InOrder(DOMAIN results, before)
  OBVIOUS
<1> HIDE DEF before, order
<1>10. /\ Lists(rows, hits) /\ Len(rows) = Min({limit, Len(results)})
       /\ InTurn(before, results) => Begins(rows, results)
  BY <1>5, <1>7, <1>9, PlacesLists
<1> QED BY <1>8, <1>10

\* A reranking service keeps to the hits, and what it scored comes first.
LEMMA ApiRerankLists ==
    ASSUME NEW hits, NEW results, Lists(results, hits), NEW limit \in Nat,
           NEW api, \A n \in DOMAIN api : api[n] \in Int,
           NEW rows, rows = ApiRerank(results, limit, api)
    PROVE  /\ Lists(rows, hits) /\ Len(rows) = Min({limit, Len(results)})
           /\ Descends(results) /\ DOMAIN api = {} => Begins(rows, results)
           /\ \A j, k \in DOMAIN rows : rows[j].at \in DOMAIN api /\ rows[k].at \notin DOMAIN api => j < k
<1> DEFINE scored == { k \in DOMAIN results : results[k].at \in DOMAIN api }
           total == [k \in DOMAIN results |->
                       IF k \in scored THEN api[results[k].at] ELSE Base(results[k], k)]
           before == { p \in (DOMAIN results) \X (DOMAIN results) :
                         \/ p[1] \in scored /\ p[2] \notin scored
                         \/ /\ (p[1] \in scored) = (p[2] \in scored)
                            /\ \/ total[p[1]] > total[p[2]]
                               \/ total[p[1]] = total[p[2]] /\ p[1] < p[2] }
           order == InOrder(DOMAIN results, before)
<1>1. DOMAIN results \subseteq Nat
  <2>1. Len(results) \in Nat /\ DOMAIN results = 1..Len(results)
    BY ElementsOf DEF Lists
  <2> QED BY <2>1
<1>2. \A k \in DOMAIN results : total[k] \in Int
  BY BaseIs
<1>3. rows = Take(Places(results, order), limit)
  BY DEF ApiRerank
<1>4. ASSUME Descends(results), DOMAIN api = {}
      PROVE  scored = {} /\ \A j, k \in DOMAIN results : j < k => total[k] <= total[j]
  <2>1. scored = {}
    BY <1>4
  <2>2. \A k \in DOMAIN results : total[k] = Base(results[k], k)
    BY <2>1
  <2> QED BY <1>4, <2>1, <2>2, BaseIs
<1>5. \A k \in DOMAIN results : k \in scored <=> results[k].at \in DOMAIN api
  OBVIOUS
<1> HIDE DEF total, scored
<1>6. Sorts(before, DOMAIN results)
  BY <1>1, <1>2 DEF Sorts
<1>7. ASSUME Descends(results), DOMAIN api = {}
      PROVE  InTurn(before, results)
  BY <1>2, <1>4, <1>7 DEF InTurn
<1>8. \A m, n \in DOMAIN results : m \notin scored /\ n \in scored => << m, n >> \notin before
  OBVIOUS
<1>9. order = InOrder(DOMAIN results, before)
  OBVIOUS
<1> HIDE DEF before, order
<1>10. /\ Lists(rows, hits) /\ Len(rows) = Min({limit, Len(results)})
       /\ Reorders(rows, results, order, before)
       /\ InTurn(before, results) => Begins(rows, results)
  BY <1>3, <1>6, <1>9, PlacesLists
<1>11. /\ \A k \in DOMAIN rows : order[k] \in DOMAIN results /\ rows[k] = results[order[k]]
       /\ \A j, k \in DOMAIN rows : j < k => << order[j], order[k] >> \in before
  BY <1>10 DEF Reorders
<1>12. ASSUME NEW j \in DOMAIN rows, NEW k \in DOMAIN rows,
              rows[j].at \in DOMAIN api, rows[k].at \notin DOMAIN api
       PROVE  j < k
  <2>1. order[j] \in scored /\ order[k] \notin scored
    BY <1>5, <1>11, <1>12
  <2>2. ~(k < j)
    BY <1>8, <1>11, <2>1
  <2>3. j \in Nat /\ k \in Nat /\ j # k
    <3>1. Len(rows) \in Nat /\ DOMAIN rows = 1..Len(rows)
      BY <1>10, ElementsOf DEF Lists
    <3> QED BY <1>12, <3>1
  <2> QED BY <2>2, <2>3
<1> QED BY <1>7, <1>10, <1>12

\* The messages that a search may find.
Matching(messages, s) ==
    { n \in InScope(messages, s.scope) : \/ s.way # "vector" /\ messages[n].rank # None
                                         \/ s.way # "keyword" /\ messages[n].distance # None }

\* A search as the command line and the server ask for it.
IsSearch(s) ==
    /\ s.way \in {"keyword", "vector", "hybrid"} /\ s.limit \in Nat /\ s.candidates \in Int
    /\ \A n \in DOMAIN s.api : s.api[n] \in Int

\* The candidates are hits, and enough of them for the limit.
LEMMA CandidatesLists ==
    ASSUME NEW W, NEW A, NEW messages \in Messages(W, A), NEW s, IsSearch(s),
           NEW hits, hits = Matching(messages, s), NEW results, results = Candidates(messages, s)
    PROVE  /\ IsFiniteSet(hits) /\ hits \subseteq DOMAIN messages
           /\ Lists(results, hits) /\ (s.way # "keyword" => Descends(results))
           /\ Min({s.limit, Len(results)}) = Min({s.limit, Cardinality(hits)})
<1> DEFINE wide == CandidateLimit(s.limit, s.candidates, s.mode)
<1>1. wide \in Nat /\ s.limit <= wide
  <2>1. s.limit \in Nat /\ s.candidates \in Int /\ 3 * s.limit \in Int
    BY DEF IsSearch
  <2> DEFINE asked == IF s.candidates = None THEN 3 * s.limit ELSE s.candidates
  <2>2. asked \in Int
    BY <2>1
  <2> HIDE DEF asked
  <2>3. wide = IF s.mode = "none" THEN s.limit ELSE Max({s.limit, asked})
    BY DEF CandidateLimit, asked
  <2>4. Max({s.limit, asked}) \in Int /\ s.limit <= Max({s.limit, asked})
    <3>1. s.limit \in Int
      BY <2>1
    <3> QED BY <2>2, <3>1, GreaterOfTwo, Zenon
  <2> HIDE DEF wide
  <2> QED BY <2>1, <2>3, <2>4
<1> HIDE DEF wide
<1>2. results = Search(s.way, messages, s.scope, wide)
  BY DEF Candidates, wide
<1>3. hits \in SUBSET DOMAIN messages
  BY DEF Matching, InScope
<1>4. IsFiniteSet(hits)
  BY <1>3, MessagesAre
<1> DEFINE least == Min({wide, Cardinality(hits)})
<1>5. Lists(results, hits) /\ (s.way # "keyword" => Descends(results)) /\ least <= Len(results)
  <2>1. CASE s.way = "keyword"
    <3>1. results = Keyword(messages, s.scope, wide) /\ hits = KeywordHits(messages, s.scope)
      BY <1>2, <2>1 DEF Search, Matching, KeywordHits
    <3>2. Lists(results, hits) /\ Len(results) = least
      BY <1>1, <3>1, KeywordLists
    <3>3. Len(results) \in Nat
      BY <3>2, ElementsOf DEF Lists
    <3> HIDE DEF least
    <3> QED BY <2>1, <3>2, <3>3
  <2>2. CASE s.way = "vector"
    <3>1. results = Vector(messages, s.scope, wide) /\ hits = VectorHits(messages, s.scope)
      BY <1>2, <2>2 DEF Search, Matching, VectorHits
    <3>2. Lists(results, hits) /\ Len(results) = least /\ Descends(results)
      BY <1>1, <3>1, VectorLists
    <3>3. Len(results) \in Nat
      BY <3>2, ElementsOf DEF Lists
    <3> HIDE DEF least
    <3> QED BY <3>2, <3>3
  <2>3. CASE s.way = "hybrid"
    <3>1. /\ results = Hybrid(messages, s.scope, wide)
          /\ hits = KeywordHits(messages, s.scope) \cup VectorHits(messages, s.scope)
      BY <1>2, <2>3 DEF Search, Matching, KeywordHits, VectorHits
    <3> QED BY <1>1, <3>1, HybridLists
  <2> QED BY <2>1, <2>2, <2>3 DEF IsSearch
<1>6. /\ Len(results) \in Nat /\ Cardinality(hits) \in Nat /\ Len(results) <= Cardinality(hits)
  BY <1>4, <1>5, HowMany
<1>7. least \in {wide, Cardinality(hits)}
  BY <1>1, <1>6, LeastOfTwo
<1> HIDE DEF least
<1> DEFINE p == Min({s.limit, Len(results)})
           q == Min({s.limit, Cardinality(hits)})
<1>8. s.limit \in Nat
  BY DEF IsSearch
<1>9. p \in {s.limit, Len(results)} /\ p <= s.limit /\ p <= Len(results)
  BY <1>6, <1>8, LeastOfTwo
<1>10. q \in {s.limit, Cardinality(hits)} /\ q <= s.limit /\ q <= Cardinality(hits)
  BY <1>6, <1>8, LeastOfTwo
<1> HIDE DEF p, q
<1>11. p = q
  BY <1>1, <1>5, <1>6, <1>7, <1>8, <1>9, <1>10
<1> QED BY <1>3, <1>4, <1>5, <1>11 DEF p, q

\* Any search of any messages finds what it should.
LEMMA AnySearchIsSound ==
    ASSUME NEW W, NEW A, NEW messages \in Messages(W, A), NEW s, IsSearch(s)
    PROVE  SearchIsSound(messages, s)
<1>1. PICK hits, candidates, rows : /\ hits = Matching(messages, s) /\ candidates = Candidates(messages, s)
                                    /\ rows = Results(messages, s)
  OBVIOUS
<1>2. /\ IsFiniteSet(hits) /\ hits \subseteq DOMAIN messages
      /\ Lists(candidates, hits) /\ (s.way # "keyword" => Descends(candidates))
      /\ Min({s.limit, Len(candidates)}) = Min({s.limit, Cardinality(hits)})
  BY <1>1, CandidatesLists
<1>3. s.limit \in Nat /\ \A n \in DOMAIN s.api : s.api[n] \in Int
  BY DEF IsSearch
<1> DEFINE silent == \/ s.mode = "local" /\ Wordless(messages, hits)
                     \/ s.mode = "api" /\ DOMAIN s.api = {}
<1>4. rows = Rerank(messages, candidates, s.limit, s.mode, s.api)
  BY <1>1 DEF Results
<1>5. /\ Lists(rows, hits) /\ Len(rows) = Min({s.limit, Len(candidates)})
      /\ s.way # "keyword" /\ silent => Begins(rows, candidates)
      /\ s.mode = "api" => \A j, k \in DOMAIN rows :
           rows[j].at \in DOMAIN s.api /\ rows[k].at \notin DOMAIN s.api => j < k
  <2>1. CASE s.mode = "local"
    <3>1. rows = LocalRerank(messages, candidates, s.limit)
      BY <1>4, <2>1 DEF Rerank
    <3>2. /\ Lists(rows, hits) /\ Len(rows) = Min({s.limit, Len(candidates)})
          /\ Descends(candidates) /\ Wordless(messages, hits) => Begins(rows, candidates)
      <4>1. hits \in SUBSET DOMAIN messages
        BY <1>2
      <4> QED BY <1>2, <1>3, <3>1, <4>1, LocalRerankLists
    <3> QED BY <1>2, <2>1, <3>2
  <2>2. CASE s.mode = "api"
    <3>1. rows = ApiRerank(candidates, s.limit, s.api)
      BY <1>4, <2>2 DEF Rerank
    <3>2. /\ Lists(rows, hits) /\ Len(rows) = Min({s.limit, Len(candidates)})
          /\ Descends(candidates) /\ DOMAIN s.api = {} => Begins(rows, candidates)
          /\ \A j, k \in DOMAIN rows :
               rows[j].at \in DOMAIN s.api /\ rows[k].at \notin DOMAIN s.api => j < k
      BY <1>2, <1>3, <3>1, ApiRerankLists
    <3> QED BY <1>2, <2>2, <3>2
  <2>3. CASE s.mode \notin {"local", "api"}
    <3>1. rows = Take(candidates, s.limit)
      BY <1>4, <2>3 DEF Rerank
    <3>2. Lists(rows, hits) /\ Len(rows) = Min({s.limit, Len(candidates)})
      BY <1>2, <1>3, <3>1, TakeLists
    <3> QED BY <2>3, <3>2
  <2> QED BY <2>1, <2>2, <2>3
<1> DEFINE found == [k \in DOMAIN rows |-> rows[k].at]
<1>6. /\ Len(rows) \in Nat /\ DOMAIN rows = 1..Len(rows)
      /\ \A k \in DOMAIN rows : rows[k] \in [at : hits, score : Int]
  BY <1>5, ElementsOf DEF Lists
<1>7. IsInjective(found)
  BY <1>5 DEF Lists, IsInjective
<1>8. found \in [1..Len(rows) -> hits]
  BY <1>6
<1>9. Len(found) = Len(rows) /\ Range(found) \subseteq hits
  <2> HIDE DEF found
  <2>1. Len(found) = Len(rows)
    BY <1>6, <1>8, IsSequence
  <2> QED BY <1>8, <2>1 DEF Range
<1>10. s.way # "keyword" /\ silent => \A k \in DOMAIN found : found[k] = candidates[k].at
  BY <1>5 DEF Begins
<1>11. s.mode = "api" => \A j, k \in DOMAIN found :
         found[j] \in DOMAIN s.api /\ found[k] \notin DOMAIN s.api => j < k
  BY <1>5
<1>12. Len(found) = Min({s.limit, Cardinality(hits)})
  BY <1>2, <1>5, <1>9
<1>13. DOMAIN found = DOMAIN rows
  OBVIOUS
<1> QED BY <1>1, <1>7, <1>9, <1>10, <1>11, <1>12 DEF SearchIsSound, Matching, Wordless

\* Messages and a search.
IsSearchInput(W, A) ==
    input.about = "search" => input.messages \in Messages(W, A) /\ IsSearch(input.search)

\* For any messages, of whatever scores, and any search and reranking, what is found
\* is in scope, found once, as much as the limit allows of all that matches, and in
\* the order the candidates had unless the reranking has something to say
\* (search_dev_memory, vector_search_dev_memory, hybrid_search_dev_memory,
\* maybe_rerank_results).
THEOREM SearchesFindWhatMatches ==
    ASSUME NEW W, NEW A, IsSearchInput(W, A)
    PROVE  SearchesAreSound
  BY AnySearchIsSound DEF IsSearchInput, SearchesAreSound

-----------------------------------------------------------------------------
(* The session of a benchmark's run. *)

\* The last of some places is one of them.
LEMMA MaxOf ==
    ASSUME NEW n \in Nat, NEW S \in SUBSET (1..n), S # {}
    PROVE  Max(S) \in S /\ \A x \in S : x <= Max(S)
<1> DEFINE down == { n - x : x \in S }
<1>1. down \in SUBSET Nat /\ down # {}
  <2>1. \A x \in S : n - x \in Nat
    OBVIOUS
  <2>2. \E x \in S : TRUE
    OBVIOUS
  <2> QED BY <2>1, <2>2, Zenon
<1>2. Min(down) \in down /\ \A y \in down : Min(down) <= y
  BY <1>1, MinOf
<1>3. PICK x \in S : Min(down) = n - x
  BY <1>2
<1>4. \A y \in S : y <= x
  <2> TAKE y \in S
  <2>1. n - x <= n - y
    BY <1>2, <1>3
  <2> QED BY <2>1
<1>5. \E y \in S : \A z \in S : z <= y
  BY <1>4
<1> QED BY <1>5 DEF Max

\* What a transcript holds: of each record at most one identifier.
TranscriptsOf(T) ==
    [stem : T, jsonl : BOOLEAN, folder : SUBSET T,
     records : Seq([id : { {} } \cup { {e} : e \in T }, takes : BOOLEAN])]

\* The records that have an identifier.
LEMMA NamedAre ==
    ASSUME NEW T, NEW t \in TranscriptsOf(T), NEW from \in Nat
    PROVE  /\ NamedIn(t, from) = { n \in DOMAIN t.records : n <= from /\ t.records[n].id # {} }
           /\ \A n \in DOMAIN t.records : t.records[n].id = {} \/ \E e \in T : t.records[n].id = {e}
           /\ DOMAIN t.records = 1..Len(t.records) /\ Len(t.records) \in Nat
<1>1. t.records \in Seq([id : { {} } \cup { {e} : e \in T }, takes : BOOLEAN])
  BY DEF TranscriptsOf
<1>2. /\ DOMAIN t.records = 1..Len(t.records) /\ Len(t.records) \in Nat
      /\ \A n \in DOMAIN t.records : t.records[n] \in [id : { {} } \cup { {e} : e \in T }, takes : BOOLEAN]
  BY <1>1, ElementsOf
<1>3. Min({from, Len(t.records)}) = IF from <= Len(t.records) THEN from ELSE Len(t.records)
  <2>1. {from, Len(t.records)} \in SUBSET Nat
    BY <1>2
  <2>2. Min({from, Len(t.records)}) \in {from, Len(t.records)}
        /\ \A x \in {from, Len(t.records)} : Min({from, Len(t.records)}) <= x
    BY <2>1, MinOf
  <2> QED BY <1>2, <2>2
<1>4. NamedIn(t, from) = { n \in DOMAIN t.records : n <= from /\ t.records[n].id # {} }
  BY <1>2, <1>3 DEF NamedIn
<1> QED BY <1>2, <1>4

\* A transcript of one session that its first record names, and that an importer takes
\* for the session's, is imported under that name and found under it.
LEMMA FirstNames ==
    ASSUME NEW T, NEW t \in TranscriptsOf(T), MaxPeek \in Nat \ {0},
           NEW source \in {"codex", "claude-code"}, t.jsonl,
           LET ids == UNION { IdAt(t, n) : n \in DOMAIN t.records }
           IN  ids # {} => t.records[1].takes /\ t.records[1].id = ids
    PROVE  InferredId(source, t) = ImportedId(source, t)
<1> DEFINE ids == UNION { IdAt(t, n) : n \in DOMAIN t.records }
           taken == { n \in DOMAIN t.records : t.records[n].takes }
           named == NamedIn(t, Len(t.records))
           both == taken \cap named
           peeked == NamedIn(t, MaxPeek)
<1>1. /\ DOMAIN t.records = 1..Len(t.records) /\ Len(t.records) \in Nat
      /\ \A n \in DOMAIN t.records : t.records[n].id = {} \/ \E e \in T : t.records[n].id = {e}
      /\ named = { n \in DOMAIN t.records : t.records[n].id # {} }
      /\ peeked = { n \in DOMAIN t.records : n <= MaxPeek /\ t.records[n].id # {} }
  <2>1. Len(t.records) \in Nat /\ DOMAIN t.records = 1..Len(t.records)
    BY NamedAre, MaxPeek \in Nat
  <2> QED BY <2>1, NamedAre
<1>2. \A n \in DOMAIN t.records : t.records[n].id \subseteq ids
  BY DEF IdAt
<1>3. CASE ids = {}
  <2>1. named = {} /\ peeked = {}
    BY <1>1, <1>2, <1>3
  <2>2. InferredId(source, t) = {t.stem}
    BY <2>1 DEF InferredId
  <2>3. taken # {} => Min(taken) \notin named
    BY <2>1
  <2>4. ImportedId(source, t) = {t.stem}
    BY <2>1 DEF ImportedId
  <2> QED BY <2>2, <2>4
<1>4. CASE ids # {}
  <2>1. t.records[1].takes /\ t.records[1].id = ids
    BY <1>4
  <2>2. DOMAIN t.records # {}
    BY <1>4
  <2>3. 1 \in DOMAIN t.records /\ 1 \in taken /\ 1 \in named /\ 1 \in peeked
    BY <1>1, <1>4, <2>1, <2>2
  <2>4. \A n \in named : IdAt(t, n) = ids
    <3> TAKE n \in named
    <3>1. PICK e \in T : t.records[1].id = {e}
      BY <1>1, <1>4, <2>1, <2>3
    <3>2. t.records[n].id \subseteq {e} /\ t.records[n].id # {}
      BY <1>1, <1>2, <2>1, <3>1
    <3> QED BY <2>1, <3>1, <3>2 DEF IdAt
  <2>5. Min(peeked) \in peeked /\ Min(taken) \in taken /\ (\A n \in taken : Min(taken) <= n)
    <3>1. peeked \in SUBSET Nat /\ taken \in SUBSET Nat /\ peeked # {} /\ taken # {}
      BY <1>1, <2>3
    <3> HIDE DEF peeked, taken
    <3> QED BY <3>1, MinOf
  <2>6. Max(both) \in both
    <3>1. both \in SUBSET (1..Len(t.records)) /\ both # {}
      BY <1>1, <2>3
    <3> HIDE DEF both
    <3> QED BY <1>1, <3>1, MaxOf
  <2>7. Min(taken) = 1
    <3>1. taken \in SUBSET (1..Len(t.records)) /\ 1 \in taken
      BY <1>1, <2>3
    <3> HIDE DEF taken
    <3>2. Min(taken) \in 1..Len(t.records) /\ Min(taken) <= 1
      BY <2>5, <3>1 DEF taken
    <3> QED BY <1>1, <3>2
  <2>8. peeked # {} /\ both # {} /\ taken # {} /\ peeked \subseteq named
    BY <1>1, <2>3
  <2>9. InferredId(source, t) = IdAt(t, Min(peeked)) /\ IdAt(t, Min(peeked)) = ids
    <3>1. IdAt(t, Min(peeked)) = ids
      BY <2>4, <2>5, <2>8
    <3> QED BY <2>8, <3>1 DEF InferredId
  <2>10. IdAt(t, Max(both)) = ids /\ IdAt(t, Min(taken)) = ids /\ Min(taken) \in named
    BY <2>3, <2>4, <2>6, <2>7
  <2>11. ImportedId(source, t) = ids
    <3>1. CASE source = "codex"
      BY <2>8, <2>10, <3>1 DEF ImportedId
    <3>2. CASE source = "claude-code"
      <4>1. taken # {} /\ Min(taken) \in taken \cap named /\ IdAt(t, Min(taken)) = ids
        BY <2>5, <2>8, <2>10
      <4>2. source # "codex" /\ source # "antigravity"
        BY <3>2
      <4> HIDE DEF ids
      <4> QED BY <3>2, <4>1, <4>2 DEF ImportedId
    <3> QED BY <3>1, <3>2
  <2> QED BY <2>9, <2>11
<1> QED BY <1>3, <1>4

\* A saved run cites sessions of its own workspace and agent only, and the one its
\* transcript was imported as wherever importer and run look at the same place for its
\* name (infer_agent_session_external_id, resolve_agent_session_reference).
THEOREM RunsCiteTheirSession ==
    ASSUME NEW T, NEW t \in TranscriptsOf(T), NEW sessions, NEW workspace,
           NEW source \in {"codex", "claude-code", "antigravity", "vscode-copilot", "manus"}, MaxPeek \in Nat \ {0}
    PROVE  EvidenceIsCited(sessions, workspace, source, t)
<1> DEFINE imported == {workspace} \X {source} \X ImportedId(source, t)
           stored == sessions \cup imported
           inferred == {workspace} \X {source} \X InferredId(source, t)
           run == AgentRun(stored, workspace, source, t)
           ids == UNION { IdAt(t, n) : n \in DOMAIN t.records }
           same == \/ source = "antigravity" /\ t.folder # {}
                   \/ source = "vscode-copilot" /\ t.jsonl
                   \/ /\ source \in {"codex", "claude-code"} /\ t.jsonl
                      /\ Cardinality(ids) <= 1
                      /\ ids # {} => t.records[1].takes /\ t.records[1].id = ids
<1>1. run.session = stored \cap inferred
  BY DEF AgentRun, ResolveSession
<1>2. \A x \in run.session : x[1] = workspace /\ x[2] = source
  BY <1>1
<1>3. ASSUME same PROVE InferredId(source, t) = ImportedId(source, t)
  <2>1. CASE source = "antigravity" /\ t.folder # {}
    BY <2>1 DEF InferredId, ImportedId
  <2>2. CASE source = "vscode-copilot" /\ t.jsonl
    BY <2>2 DEF InferredId, ImportedId
  <2>3. CASE source \in {"codex", "claude-code"} /\ t.jsonl
             /\ (ids # {} => t.records[1].takes /\ t.records[1].id = ids)
    BY <2>3, FirstNames
  <2> QED BY <1>3, <2>1, <2>2, <2>3
<1>4. ASSUME same PROVE run.session = imported
  <2>1. inferred = imported
    BY <1>3, <1>4
  <2> QED BY <1>1, <2>1
<1> QED BY <1>2, <1>4 DEF EvidenceIsCited

-----------------------------------------------------------------------------
(* The measures of a search. *)

\* A judgment, whose targets are whatever they are.
IsJudgment(T, judgment) ==
    IF judgment.explicit THEN judgment.expected \in Seq(T) ELSE judgment.fields \in Seq(T)

\* For each target the ranks it has.
LEMMA MetAre ==
    ASSUME NEW T, NEW judgment, IsJudgment(T, judgment), NEW messages, NEW results
    PROVE  LET met == Met(messages, results, judgment)
               targets == ExpectedTargets(judgment)
           IN  /\ Len(met) \in Nat /\ DOMAIN met = 1..Len(met) /\ DOMAIN met = DOMAIN targets
               /\ \A n \in DOMAIN met : met[n] = Ranks(messages, results, targets[n])
<1> DEFINE met == Met(messages, results, judgment)
           targets == ExpectedTargets(judgment)
<1>1. \E n \in Nat : DOMAIN targets = 1..n
  <2>1. CASE judgment.explicit
    BY <2>1 DEF IsJudgment, ExpectedTargets
  <2>2. CASE ~judgment.explicit
    BY <2>2 DEF IsJudgment, ExpectedTargets
  <2> QED BY <2>1, <2>2
<1>2. PICK n \in Nat : DOMAIN targets = 1..n
  BY <1>1
<1>3. met = [k \in DOMAIN targets |-> Ranks(messages, results, targets[k])]
  BY DEF Met
<1> HIDE DEF met, targets
<1>4. DOMAIN met = 1..n /\ \A k \in DOMAIN met : met[k] = Ranks(messages, results, targets[k])
  BY <1>2, <1>3
<1>5. Len(met) = n
  <2>1. met \in [1..n -> {met[k] : k \in 1..n}]
    BY <1>3, <1>4
  <2> QED BY <2>1, IsSequence
<1> QED BY <1>2, <1>4, <1>5 DEF met, targets

\* Ranks for each of some targets.
IsMet(met, ranks) ==
    /\ Len(met) \in Nat /\ DOMAIN met = 1..Len(met)
    /\ \A n \in DOMAIN met : met[n] \in SUBSET (1..ranks)

\* The hits that a benchmark counts, the targets that have any, and their ranks.
Hits(met) == { << n, Min(met[n]) >> : n \in { n \in DOMAIN met : met[n] # {} } }

LEMMA HitsAre ==
    ASSUME NEW met, NEW ranks \in Nat, IsMet(met, ranks)
    PROVE  /\ IsFiniteSet(Hits(met)) /\ Cardinality(Hits(met)) \in Nat
           /\ Cardinality(Hits(met)) <= Len(met)
           /\ Cardinality(Hits(met)) = Cardinality({ n \in DOMAIN met : met[n] # {} })
           /\ Cardinality(Hits(met)) = Len(met) <=> \A n \in DOMAIN met : met[n] # {}
           /\ \A h \in Hits(met) : /\ h = << h[1], h[2] >> /\ h[1] \in DOMAIN met /\ h[2] \in met[h[1]]
                                   /\ h[2] \in 1..ranks /\ \A r \in met[h[1]] : h[2] <= r
           /\ \A n \in DOMAIN met : met[n] # {} => \E h \in Hits(met) : h[1] = n
<1> DEFINE N == { n \in DOMAIN met : met[n] # {} }
<1>1. ASSUME NEW n \in N PROVE Min(met[n]) \in met[n] /\ \A r \in met[n] : Min(met[n]) <= r
  <2>1. met[n] \in SUBSET Nat /\ met[n] # {}
    BY DEF IsMet
  <2> QED BY <2>1, MinOf
<1> DEFINE f == [n \in N |-> << n, Min(met[n]) >>]
<1>2. Hits(met) = { << n, Min(met[n]) >> : n \in N }
  BY DEF Hits
<1>3. IsFiniteSet(DOMAIN met) /\ Cardinality(DOMAIN met) = Len(met)
  BY UpTo DEF IsMet
<1>4. IsFiniteSet(N) /\ Cardinality(N) <= Len(met) /\ (Cardinality(N) = Len(met) => N = DOMAIN met)
  <2>1. N \in SUBSET DOMAIN met
    OBVIOUS
  <2> HIDE DEF N
  <2> QED BY <1>3, <2>1, FS_Subset
<1>5. f \in Bijection(N, Hits(met))
  <2>1. f \in [N -> Hits(met)]
    BY <1>2
  <2>2. \A m, n \in N : f[m] = f[n] => m = n
    OBVIOUS
  <2>3. \A h \in Hits(met) : \E n \in N : f[n] = h
    BY <1>2
  <2> HIDE DEF f, N
  <2> QED BY <2>1, <2>2, <2>3 DEF Bijection, Injection, Surjection, IsInjective
<1>6. IsFiniteSet(Hits(met)) /\ Cardinality(Hits(met)) = Cardinality(N)
  <2>1. ExistsBijection(N, Hits(met))
    BY <1>5 DEF ExistsBijection
  <2> HIDE DEF N
  <2> QED BY <1>4, <2>1, FS_Bijection
<1>7. \A h \in Hits(met) : \E n \in N : h = << n, Min(met[n]) >>
  BY <1>2
<1>8. \A h \in Hits(met) : /\ h = << h[1], h[2] >> /\ h[1] \in DOMAIN met /\ h[2] \in met[h[1]]
                           /\ h[2] \in 1..ranks /\ \A r \in met[h[1]] : h[2] <= r
  <2> TAKE h \in Hits(met)
  <2>1. PICK n \in N : h = << n, Min(met[n]) >>
    BY <1>7
  <2>2. h[1] = n /\ h[2] = Min(met[n]) /\ h = << h[1], h[2] >>
    BY <2>1
  <2>3. n \in DOMAIN met /\ met[n] \in SUBSET (1..ranks)
    BY DEF IsMet
  <2> HIDE DEF N
  <2> QED BY <1>1, <2>2, <2>3
<1>9. \A n \in DOMAIN met : met[n] # {} => \E h \in Hits(met) : h[1] = n
  <2> TAKE n \in DOMAIN met
  <2> HAVE met[n] # {}
  <2>1. << n, Min(met[n]) >> \in Hits(met)
    BY <1>2
  <2> QED BY <2>1
<1>10. Cardinality(Hits(met)) \in Nat
  BY <1>6, FS_CardinalityType
<1>11. Cardinality(Hits(met)) = Len(met) <=> \A n \in DOMAIN met : met[n] # {}
  <2>1. (\A n \in DOMAIN met : met[n] # {}) => N = DOMAIN met
    OBVIOUS
  <2>2. N = DOMAIN met => \A n \in DOMAIN met : met[n] # {}
    OBVIOUS
  <2> HIDE DEF N
  <2> QED BY <1>3, <1>4, <1>6, <2>1, <2>2
<1> QED BY <1>4, <1>6, <1>8, <1>9, <1>10, <1>11

\* Targets that share no rank gain what the first ranks do, or less.
LEMMA ApartGain ==
    ASSUME NEW met, NEW ranks \in Nat, IsMet(met, ranks), NEW limit \in Nat, ranks <= limit,
           1..limit \subseteq DOMAIN Gains,
           \A m, n \in DOMAIN met : m # n => met[m] \cap met[n] = {}
    PROVE  SumOf([h \in Hits(met) |-> Gains[h[2]]]) <= SumOf([k \in 1..Min({Len(met), limit}) |-> Gains[k]])
<1> DEFINE hits == Hits(met)
           Upto(h) == { i \in hits : i[2] <= h[2] }
           rank == [h \in hits |-> Cardinality(Upto(h))]
           most == Min({Len(met), limit})
           f == [h \in hits |-> Gains[h[2]]]
           g == [k \in 1..most |-> Gains[k]]
<1>1. /\ IsFiniteSet(hits) /\ Cardinality(hits) \in Nat /\ Cardinality(hits) <= Len(met)
      /\ \A h \in hits : h = << h[1], h[2] >> /\ h[1] \in DOMAIN met /\ h[2] \in met[h[1]] /\ h[2] \in 1..ranks
  BY HitsAre
<1> HIDE DEF hits
<1>2. \A h, i \in hits : h[2] = i[2] => h = i
  <2> SUFFICES ASSUME NEW h \in hits, NEW i \in hits, h[2] = i[2] PROVE h = i
    OBVIOUS
  <2>1. /\ h[1] \in DOMAIN met /\ i[1] \in DOMAIN met
        /\ h[2] \in met[h[1]] /\ h[2] \in met[i[1]]
    BY <1>1
  <2>2. h[1] = i[1]
    BY <2>1
  <2>3. h = << h[1], h[2] >> /\ i = << i[1], i[2] >>
    BY <1>1
  <2> QED BY <2>2, <2>3
<1>3. ASSUME NEW S \in SUBSET hits, NEW n \in Nat, \A h \in S : h[2] <= n
      PROVE  Cardinality(S) <= n
  <2> DEFINE at == [h \in S |-> h[2]]
  <2>1. at \in Injection(S, 1..n)
    <3>1. \A h \in S : h[2] \in 1..n
      BY <1>1, <1>3
    <3>2. at \in [S -> 1..n]
      BY <3>1
    <3>3. \A h, i \in S : at[h] = at[i] => h = i
      BY <1>2
    <3> HIDE DEF at
    <3> QED BY <3>2, <3>3 DEF Injection, IsInjective
  <2> QED BY <2>1, UpTo, FS_Injection
<1>4. most \in Nat /\ Cardinality(hits) <= most
  <2>1. Len(met) \in Nat
    BY DEF IsMet
  <2>2. most \in {Len(met), limit} /\ most \in Nat
    BY <2>1, LeastOfTwo
  <2>3. Cardinality(hits) <= ranks
    BY <1>1, <1>3
  <2> HIDE DEF most
  <2> QED BY <1>1, <2>1, <2>2, <2>3
<1>5. ASSUME NEW h \in hits
      PROVE  /\ IsFiniteSet(Upto(h)) /\ Cardinality(Upto(h)) \in Nat
             /\ Cardinality(Upto(h)) <= Cardinality(hits)
             /\ 1 <= Cardinality(Upto(h)) /\ Cardinality(Upto(h)) <= h[2]
  <2>1. Upto(h) \in SUBSET hits /\ h \in Upto(h)
    BY <1>1
  <2>2. \A i \in Upto(h) : i[2] <= h[2]
    OBVIOUS
  <2> HIDE DEF Upto
  <2>3. IsFiniteSet(Upto(h)) /\ Cardinality(Upto(h)) <= Cardinality(hits) /\ Cardinality(Upto(h)) \in Nat
    BY <1>1, <2>1, FS_Subset, FS_CardinalityType
  <2>4. Cardinality(Upto(h)) # 0
    BY <2>1, <2>3, FS_EmptySet
  <2>5. h[2] \in Nat
    BY <1>1
  <2>6. Cardinality(Upto(h)) <= h[2]
    BY <1>3, <2>1, <2>2, <2>5
  <2> QED BY <2>3, <2>4, <2>6
<1>6. ASSUME NEW h \in hits, NEW i \in hits, Cardinality(Upto(h)) = Cardinality(Upto(i)) PROVE h = i
  <2>1. ASSUME NEW a \in hits, NEW b \in hits, Cardinality(Upto(a)) = Cardinality(Upto(b)), a[2] <= b[2]
        PROVE  a = b
    <3>1. Upto(a) \in SUBSET Upto(b)
      BY <1>1, <2>1
    <3>2. b \in Upto(b)
      BY <1>1
    <3>3. Upto(a) = Upto(b)
      <4> HIDE DEF Upto
      <4> QED BY <1>5, <2>1, <3>1, FS_Subset
    <3>4. b \in Upto(a)
      BY <3>2, <3>3
    <3>5. b[2] <= a[2]
      BY <3>4
    <3> QED BY <1>1, <1>2, <2>1, <3>5
  <2>2. h[2] <= i[2] \/ i[2] <= h[2]
    BY <1>1
  <2> HIDE DEF Upto
  <2> QED BY <1>6, <2>1, <2>2
<1>7. rank \in Injection(DOMAIN f, DOMAIN g)
  <2>1. \A h \in hits : rank[h] \in 1..most
    BY <1>1, <1>4, <1>5
  <2>2. rank \in [hits -> 1..most]
    BY <2>1
  <2>3. \A h, i \in hits : rank[h] = rank[i] => h = i
    BY <1>6
  <2>4. DOMAIN f = hits /\ DOMAIN g = 1..most
    OBVIOUS
  <2> HIDE DEF rank, f, g
  <2> QED BY <2>2, <2>3, <2>4 DEF Injection, IsInjective
<1>8. \A k \in 1..limit : k \in DOMAIN Gains /\ Gains[k] \in Nat
  BY GainsFall
<1>9. \A h \in hits : h[2] \in 1..limit
  BY <1>1
<1>10. IsAmount(f)
  BY <1>1, <1>8, <1>9 DEF IsAmount
<1>11. most <= limit
  <2>1. Len(met) \in Nat
    BY DEF IsMet
  <2> QED BY <2>1, LeastOfTwo
<1>12. IsAmount(g)
  <2>1. \A k \in 1..most : k \in 1..limit
    BY <1>4, <1>11
  <2> HIDE DEF most
  <2> QED BY <1>4, <1>8, <2>1, UpTo DEF IsAmount
<1>13. \A h \in DOMAIN f : f[h] <= g[rank[h]]
  <2> SUFFICES ASSUME NEW h \in hits PROVE Gains[h[2]] <= g[rank[h]]
    OBVIOUS
  <2>1. rank[h] \in 1..most /\ rank[h] <= h[2] /\ rank[h] \in 1..limit
    BY <1>1, <1>4, <1>5, <1>11
  <2>2. g[rank[h]] = Gains[rank[h]]
    BY <2>1
  <2> HIDE DEF rank, g
  <2> QED BY <1>8, <1>9, <2>1, <2>2, GainsFall
<1> HIDE DEF f, g, rank
<1>14. SumOf(f) <= SumOf(g)
  BY <1>7, <1>10, <1>12, <1>13, SumUnder
<1> QED BY <1>14 DEF f, g, hits

\* What the measures of a judged search say of its hits.
LEMMA QualityTells ==
    ASSUME NEW met, NEW ranks \in Nat, IsMet(met, ranks), Len(met) # 0, NEW limit \in Nat, ranks <= limit,
           1..limit \subseteq DOMAIN Gains
    PROVE  LET quality == Quality(Len(met), Hits(met), limit)
           IN  /\ (quality.recall = Unit) = (\A n \in DOMAIN met : met[n] # {})
               /\ quality.hits <= quality.expected /\ quality.mrr <= quality.recall
               /\ quality.recall \in Nat /\ quality.mrr \in Nat /\ quality.expected > 0
               /\ (quality.first = 1) = (\E n \in DOMAIN met : 1 \in met[n])
               /\ (\A m, n \in DOMAIN met : m # n => met[m] \cap met[n] = {})
                    => quality.gained <= quality.ideal
<1> DEFINE hits == Hits(met)
           count == Len(met)
           found == Cardinality(hits)
           near == [h \in hits |-> Unit \div h[2]]
           quality == Quality(count, hits, limit)
<1>1. /\ IsFiniteSet(hits) /\ found \in Nat /\ found <= count
      /\ found = count <=> \A n \in DOMAIN met : met[n] # {}
      /\ \A h \in hits : /\ h[1] \in DOMAIN met /\ h[2] \in met[h[1]] /\ h[2] \in 1..ranks
                         /\ \A r \in met[h[1]] : h[2] <= r
      /\ \A n \in DOMAIN met : met[n] # {} => \E h \in hits : h[1] = n
  BY HitsAre
<1>2. /\ quality.expected = count /\ quality.hits = found
      /\ quality.recall = (Unit * found) \div count
      /\ quality.mrr = SumOf(near) \div count
      /\ quality.gained = SumOf([h \in hits |-> Gains[h[2]]])
      /\ quality.ideal = SumOf([k \in 1..Min({count, limit}) |-> Gains[k]])
      /\ quality.first = IF hits = {} THEN None ELSE Min({ h[2] : h \in hits })
  BY DEF Quality
<1>3. count \in Nat \ {0}
  BY DEF IsMet
<1> HIDE DEF hits, quality
<1>4. IsAmount(near) /\ (\A h \in DOMAIN near : near[h] <= Unit) /\ DOMAIN near = hits
  <2>1. \A h \in hits : h[2] \in Nat /\ h[2] >= 1
    BY <1>1
  <2>2. \A r \in Nat : r >= 1 => 60 \div r \in Nat /\ 60 \div r <= 60
    <3> SUFFICES ASSUME NEW r \in Nat, r >= 1 PROVE 60 \div r \in Nat /\ 60 \div r <= 60
      OBVIOUS
    <3>1. 60 \div r \in Int /\ r * (60 \div r) <= 60 /\ 60 < r * (60 \div r) + r
      OBVIOUS
    <3> DEFINE q == 60 \div r
    <3> HIDE DEF q
    <3>2. q \in Int /\ r * q <= 60 /\ 60 < r * q + r
      BY <3>1 DEF q
    <3>3. ~(q < 0)
      <4> SUFFICES ASSUME q + 1 <= 0 PROVE FALSE
        BY <3>2
      <4>1. r * (q + 1) <= 0 /\ r * (q + 1) = r * q + r
        BY <3>2
      <4> QED BY <3>2, <4>1
    <3>4. q <= r * q
      BY <3>2, <3>3
    <3> QED BY <3>2, <3>3, <3>4 DEF q
  <2> QED BY <1>1, <2>1, <2>2 DEF IsAmount, Unit
<1> HIDE DEF near
<1>5. SumOf(near) \in Nat /\ SumOf(near) <= Unit * found /\ Unit * found \in Nat
  <2>1. Unit \in Nat
    BY DEF Unit
  <2> QED BY <1>1, <1>4, <2>1, SumIs, SumBounded
<1>6. quality.mrr <= quality.recall
  BY <1>2, <1>3, <1>5, Shares
<1>7. (quality.recall = Unit) = (\A n \in DOMAIN met : met[n] # {})
  <2>1. (60 * found) \div count = 60 <=> found = count
    BY <1>1, <1>3, Shares
  <2> QED BY <1>1, <1>2, <2>1 DEF Unit
<1>8. quality.recall \in Nat /\ quality.mrr \in Nat
  <2>1. ASSUME NEW a \in Nat, NEW c \in Nat \ {0} PROVE a \div c \in Nat
    <3> DEFINE q == a \div c
    <3>1. q \in Int /\ c * q <= a /\ a < c * q + c
      OBVIOUS
    <3> HIDE DEF q
    <3>2. ~(q < 0)
      <4> SUFFICES ASSUME q + 1 <= 0 PROVE FALSE
        BY <3>1
      <4>1. c * (q + 1) <= 0 /\ c * (q + 1) = c * q + c
        BY <3>1
      <4> QED BY <3>1, <4>1
    <3> QED BY <3>1, <3>2 DEF q
  <2> QED BY <1>2, <1>3, <1>5, <2>1
<1>9. (quality.first = 1) = (\E n \in DOMAIN met : 1 \in met[n])
  <2> DEFINE ats == { h[2] : h \in hits }
  <2>1. ats \in SUBSET Nat /\ \A a \in ats : a >= 1
    BY <1>1
  <2>2. quality.first = 1 => 1 \in ats
    <3>1. None # 1
      BY DEF None
    <3>2. ats # {} => Min(ats) \in ats
      BY <2>1, MinOf
    <3> QED BY <1>2, <3>1, <3>2
  <2>3. 1 \in ats => quality.first = 1
    <3> SUFFICES ASSUME 1 \in ats PROVE quality.first = 1
      OBVIOUS
    <3>1. hits # {}
      OBVIOUS
    <3> HIDE DEF ats
    <3>2. Min(ats) \in ats /\ Min(ats) <= 1
      BY <2>1, MinOf
    <3> DEFINE least == Min(ats)
    <3>3. least \in Nat /\ least >= 1 /\ least <= 1
      BY <2>1, <3>2
    <3> HIDE DEF least
    <3>4. least = 1
      BY <3>3
    <3> QED BY <1>2, <3>1, <3>4 DEF ats, least
  <2>4. 1 \in ats => \E n \in DOMAIN met : 1 \in met[n]
    BY <1>1
  <2>5. ASSUME NEW n \in DOMAIN met, 1 \in met[n] PROVE 1 \in ats
    <3>1. PICK h \in hits : h[1] = n
      BY <1>1, <2>5
    <3>2. h[2] <= 1 /\ h[2] \in 1..ranks
      BY <1>1, <2>5, <3>1
    <3>3. h[2] = 1
      BY <3>2
    <3> QED BY <3>3
  <2> HIDE DEF ats
  <2> QED BY <2>2, <2>3, <2>4, <2>5
<1>10. (\A m, n \in DOMAIN met : m # n => met[m] \cap met[n] = {}) => quality.gained <= quality.ideal
  BY <1>2, ApartGain DEF hits
<1>11. quality.hits <= quality.expected /\ quality.expected > 0
  BY <1>1, <1>2, <1>3
<1> QED BY <1>6, <1>7, <1>8, <1>9, <1>10, <1>11, Zenon DEF quality, hits

\* Whoever is moved to a place has left another to be taken: places of which none is
\* behind its own, or, of all of them, none before it, are all their own.
LEMMA NobodyMoves ==
    ASSUME NEW m \in Nat, NEW c \in Nat, NEW base \in Injection(1..m, 1..c)
    PROVE  /\ (\A k \in 1..m : base[k] <= k) => \A k \in 1..m : base[k] = k
           /\ m = c /\ (\A k \in 1..m : base[k] >= k) => \A k \in 1..m : base[k] = k
<1>1. /\ \A k \in 1..m : base[k] \in 1..c
      /\ \A j, k \in 1..m : base[j] = base[k] => j = k
  BY DEF Injection, IsInjective
<1>2. ASSUME \A k \in 1..m : base[k] <= k PROVE \A k \in 1..m : base[k] = k
  <2> DEFINE Q == { n \in Nat : \A k \in 1..m : k <= n => base[k] = k }
  <2>1. 0 \in Q
    OBVIOUS
  <2>2. ASSUME NEW n \in Q PROVE n + 1 \in Q
    <3> SUFFICES ASSUME n + 1 \in 1..m PROVE base[n + 1] = n + 1
      OBVIOUS
    <3>1. base[n + 1] \in Nat /\ base[n + 1] >= 1 /\ base[n + 1] <= n + 1
      BY <1>1, <1>2
    <3>2. ASSUME base[n + 1] <= n PROVE FALSE
      <4> DEFINE b == base[n + 1]
      <4>1. b \in 1..m /\ b <= n
        BY <3>1, <3>2
      <4>2. base[b] = b
        BY <4>1
      <4>3. b = n + 1
        BY <1>1, <4>1, <4>2
      <4> QED BY <4>1, <4>3
    <3> QED BY <3>1, <3>2
  <2>3. Q = Nat
    <3>1. Q \in SUBSET Nat
      OBVIOUS
    <3> HIDE DEF Q
    <3> QED BY <2>1, <2>2, <3>1, Counting
  <2>4. m \in Q
    BY <2>3
  <2> QED BY <2>4
<1>3. ASSUME m = c, \A k \in 1..m : base[k] >= k PROVE \A k \in 1..m : base[k] = k
  <2> DEFINE Q == { n \in Nat : \A k \in 1..m : k > m - n => base[k] = k }
  <2>1. 0 \in Q
    OBVIOUS
  <2>2. ASSUME NEW n \in Q PROVE n + 1 \in Q
    <3> DEFINE k == m - n
    <3> SUFFICES ASSUME k \in 1..m PROVE base[k] = k
      OBVIOUS
    <3>1. base[k] \in 1..m /\ base[k] >= k
      BY <1>1, <1>3
    <3>2. ASSUME base[k] > k PROVE FALSE
      <4> DEFINE b == base[k]
      <4>1. base[b] = b
        BY <3>1, <3>2
      <4>2. b = k
        BY <1>1, <3>1, <4>1
      <4> QED BY <3>2, <4>2
    <3> QED BY <3>1, <3>2
  <2>3. Q = Nat
    <3>1. Q \in SUBSET Nat
      OBVIOUS
    <3> HIDE DEF Q
    <3> QED BY <2>1, <2>2, <3>1, Counting
  <2>4. m \in Q
    BY <2>3
  <2> QED BY <2>4
<1> QED BY <1>2, <1>3

\* What an API gives the candidates.
AreScores(api) == \A n \in DOMAIN api : api[n] \in Int

\* Whatever the reranking, it keeps to what it reranks.
LEMMA RerankLists ==
    ASSUME NEW W, NEW A, NEW messages \in Messages(W, A), NEW hits \in SUBSET DOMAIN messages,
           NEW results, Lists(results, hits), NEW limit \in Nat, NEW mode,
           NEW api, AreScores(api)
    PROVE  LET rows == Rerank(messages, results, limit, mode, api)
           IN  Lists(rows, hits) /\ Len(rows) = Min({limit, Len(results)})
<1>1. CASE mode = "local"
  <2>1. PICK rows : rows = LocalRerank(messages, results, limit)
    OBVIOUS
  <2>2. /\ Lists(rows, hits) /\ Len(rows) = Min({limit, Len(results)})
        /\ Descends(results) /\ Wordless(messages, hits) => Begins(rows, results)
    BY <2>1, LocalRerankLists
  <2> QED BY <1>1, <2>1, <2>2 DEF Rerank
<1>2. CASE mode = "api"
  <2>1. PICK rows : rows = ApiRerank(results, limit, api)
    OBVIOUS
  <2>2. Lists(rows, hits) /\ Len(rows) = Min({limit, Len(results)})
    BY <2>1, ApiRerankLists DEF AreScores
  <2> QED BY <1>2, <2>1, <2>2 DEF Rerank
<1>3. CASE mode \notin {"local", "api"}
  <2>1. Lists(Take(results, limit), hits) /\ Len(Take(results, limit)) = Min({limit, Len(results)})
    BY TakeLists
  <2> QED BY <1>3, <2>1 DEF Rerank
<1> QED BY <1>1, <1>2, <1>3

\* What is found is found among the candidates.
LEMMA RerankedAre ==
    ASSUME NEW W, NEW A, NEW messages \in Messages(W, A), NEW s, IsSearch(s),
           NEW candidates, candidates = Candidates(messages, s), NEW rows, rows = Results(messages, s)
    PROVE  /\ Lists(candidates, Ats(candidates)) /\ Lists(rows, Ats(candidates))
           /\ Ats(candidates) \in SUBSET DOMAIN messages /\ s.limit \in Nat
           /\ Len(rows) = Min({s.limit, Len(candidates)})
           /\ s.mode = "none" => rows = Take(candidates, s.limit)
<1>1. PICK hits : hits = Matching(messages, s)
  OBVIOUS
<1>2. hits \subseteq DOMAIN messages /\ Lists(candidates, hits)
  BY <1>1, CandidatesLists
<1>3. Ats(candidates) \in SUBSET DOMAIN messages /\ Lists(candidates, Ats(candidates))
  <2>1. /\ Len(candidates) \in Nat /\ DOMAIN candidates = 1..Len(candidates)
        /\ \A k \in DOMAIN candidates : candidates[k] \in [at : hits, score : Int]
    BY <1>2, ElementsOf DEF Lists
  <2>2. \A k \in DOMAIN candidates : candidates[k] \in [at : Ats(candidates), score : Int]
    BY <2>1 DEF Ats
  <2>3. candidates \in Seq([at : Ats(candidates), score : Int])
    <3>1. candidates = [k \in 1..Len(candidates) |-> candidates[k]]
      BY <1>2 DEF Lists
    <3>2. candidates \in [1..Len(candidates) -> [at : Ats(candidates), score : Int]]
      BY <2>1, <2>2, <3>1
    <3> QED BY <2>1, <3>2, IsSequence
  <2> QED BY <1>2, <2>1, <2>3 DEF Lists, Ats
<1>4. s.limit \in Nat /\ \A n \in DOMAIN s.api : s.api[n] \in Int
  BY DEF IsSearch
<1>5. rows = Rerank(messages, candidates, s.limit, s.mode, s.api)
  BY DEF Results
<1>6. Lists(rows, Ats(candidates)) /\ Len(rows) = Min({s.limit, Len(candidates)})
  <2>1. Ats(candidates) \in SUBSET DOMAIN messages /\ Lists(candidates, Ats(candidates))
    BY <1>3
  <2>2. s.limit \in Nat /\ AreScores(s.api)
    BY <1>4 DEF AreScores
  <2>3. LET found == Rerank(messages, candidates, s.limit, s.mode, s.api)
        IN  Lists(found, Ats(candidates)) /\ Len(found) = Min({s.limit, Len(candidates)})
    BY <2>1, <2>2, RerankLists
  <2> QED BY <1>5, <2>3
<1>7. s.mode = "none" => rows = Take(candidates, s.limit)
  BY <1>5 DEF Rerank
<1> QED BY <1>3, <1>4, <1>6, <1>7

\* What a report on a reranking says of where the results were before.
LEMMA MovesTell ==
    ASSUME NEW s, s.limit \in Nat, NEW candidates, NEW rows,
           Lists(candidates, Ats(candidates)), Lists(rows, Ats(candidates)),
           Len(rows) = Min({s.limit, Len(candidates)}),
           s.mode = "none" => rows = Take(candidates, s.limit)
    PROVE  LET moved == Diagnostics(s, rows, candidates)
               plain == Take(candidates, s.limit)
           IN  /\ moved.demoted > 0 => moved.promoted > 0
               /\ Len(candidates) <= s.limit =>
                    Ats(rows) = Ats(plain) /\ (moved.promoted > 0 => moved.demoted > 0)
               /\ moved.promoted = 0 =>
                    ~moved.topChanged /\ DOMAIN rows = DOMAIN plain /\ \A k \in DOMAIN rows : rows[k].at = plain[k].at
<1> DEFINE moved == Diagnostics(s, rows, candidates)
           plain == Take(candidates, s.limit)
           m == Len(rows)
           c == Len(candidates)
           base == [k \in DOMAIN rows |-> PlaceOf(rows[k].at, candidates)]
           on == s.mode # "none" /\ rows # << >>
           up == { k \in DOMAIN base : on /\ base[k] > k }
           down == { k \in DOMAIN base : on /\ base[k] < k }
<1>1. /\ m \in Nat /\ DOMAIN rows = 1..m /\ c \in Nat /\ DOMAIN candidates = 1..c
      /\ \A k \in DOMAIN rows : rows[k].at \in Ats(candidates)
  <2>1. rows \in Seq([at : Ats(candidates), score : Int]) /\ candidates \in Seq([at : Ats(candidates), score : Int])
    BY Zenon DEF Lists
  <2>2. /\ m \in Nat /\ DOMAIN rows = 1..m
        /\ \A k \in DOMAIN rows : rows[k] \in [at : Ats(candidates), score : Int]
    BY <2>1, ElementsOf, Zenon
  <2>3. c \in Nat /\ DOMAIN candidates = 1..c
    BY <2>1, ElementsOf, Zenon
  <2> QED BY <2>2, <2>3
<1>2. m \in {s.limit, c} /\ m <= s.limit /\ m <= c
  BY <1>1, LeastOfTwo
<1>3. \A k \in 1..m : base[k] \in 1..c /\ candidates[base[k]].at = rows[k].at
  <2> TAKE k \in 1..m
  <2>1. PICK j \in DOMAIN candidates : candidates[j].at = rows[k].at
    BY <1>1 DEF Ats
  <2>2. PlaceOf(rows[k].at, candidates) # 0
    BY <2>1, PlaceOfIs
  <2>3. /\ PlaceOf(rows[k].at, candidates) \in 0..c
        /\ candidates[PlaceOf(rows[k].at, candidates)].at = rows[k].at
    BY <2>2, PlaceOfIs
  <2>4. base[k] = PlaceOf(rows[k].at, candidates)
    BY <1>1
  <2> HIDE DEF base
  <2> QED BY <1>1, <2>2, <2>3, <2>4
<1>4. base \in Injection(1..m, 1..c)
  <2>1. \A j, k \in 1..m : base[j] = base[k] => rows[j].at = rows[k].at
    <3> HIDE DEF base
    <3> QED BY <1>3
  <2>2. \A j, k \in 1..m : rows[j].at = rows[k].at => j = k
    BY <1>1 DEF Lists
  <2>3. DOMAIN base = 1..m /\ base = [k \in DOMAIN base |-> base[k]]
    BY <1>1
  <2> HIDE DEF base
  <2>4. base \in [1..m -> 1..c]
    BY <1>3, <2>3
  <2> QED BY <2>1, <2>2, <2>4 DEF Injection, IsInjective
<1>5. /\ moved.promoted = Cardinality(up) /\ moved.demoted = Cardinality(down)
      /\ moved.topChanged = (on /\ base[1] # 1)
  BY DEF Diagnostics
<1>6. DOMAIN base = 1..m
  BY <1>1
<1> HIDE DEF base, moved
<1>7. /\ Cardinality(up) \in Nat /\ Cardinality(down) \in Nat
      /\ Cardinality(up) = 0 <=> up = {}
      /\ Cardinality(down) = 0 <=> down = {}
  <2>1. up \in SUBSET (1..m) /\ down \in SUBSET (1..m) /\ IsFiniteSet(1..m)
    BY <1>1, <1>6, UpTo
  <2> HIDE DEF up, down
  <2> QED BY <2>1, FS_Subset, FS_CardinalityType, FS_EmptySet
<1>8. \A k \in 1..m : base[k] \in Nat
  BY <1>3
<1>9. ASSUME on, up = {} PROVE \A k \in 1..m : base[k] = k
  <2>1. ASSUME NEW k \in 1..m PROVE base[k] <= k
    <3>1. ~(base[k] > k)
      BY <1>6, <1>9
    <3>2. base[k] \in Nat /\ k \in Nat
      BY <1>1, <1>8
    <3> QED BY <3>1, <3>2
  <2> QED BY <1>1, <1>4, <2>1, NobodyMoves
<1>10. ASSUME on, down = {}, m = c PROVE \A k \in 1..m : base[k] = k
  <2>1. ASSUME NEW k \in 1..m PROVE base[k] >= k
    <3>1. ~(base[k] < k)
      BY <1>6, <1>10
    <3>2. base[k] \in Nat /\ k \in Nat
      BY <1>1, <1>8
    <3> QED BY <3>1, <3>2
  <2> QED BY <1>1, <1>4, <1>10, <2>1, NobodyMoves
<1>11. moved.demoted > 0 => moved.promoted > 0
  <2> SUFFICES ASSUME down # {} PROVE up # {}
    <3> HIDE DEF up, down
    <3> QED BY <1>5, <1>7
  <2>1. on
    OBVIOUS
  <2>2. PICK k \in 1..m : base[k] < k
    BY <1>6
  <2>3. up = {} => base[k] = k
    <3> HIDE DEF up
    <3> QED BY <1>9, <2>1
  <2> HIDE DEF up
  <2> QED BY <1>1, <2>2, <2>3
<1>12. c <= s.limit => (moved.promoted > 0 => moved.demoted > 0)
  <2> SUFFICES ASSUME m = c, up # {} PROVE down # {}
    <3>1. c <= s.limit => m = c
      BY <1>1, <1>2
    <3> HIDE DEF up, down
    <3> QED BY <1>5, <1>7, <3>1
  <2>1. on
    OBVIOUS
  <2>2. PICK k \in 1..m : base[k] > k
    BY <1>6
  <2>3. down = {} => base[k] = k
    <3> HIDE DEF down
    <3> QED BY <1>10, <2>1
  <2> HIDE DEF down
  <2> QED BY <1>1, <2>2, <2>3
<1>13. /\ DOMAIN plain = 1..m
       /\ \A k \in 1..m : k \in DOMAIN candidates /\ plain[k] = candidates[k]
  <2>1. /\ Len(plain) = m /\ Lists(plain, Ats(candidates))
        /\ \A k \in DOMAIN plain : k \in DOMAIN candidates /\ plain[k] = candidates[k]
    BY TakeLists
  <2>2. DOMAIN plain = 1..Len(plain)
    BY <2>1, ElementsOf DEF Lists
  <2> HIDE DEF plain
  <2> QED BY <2>1, <2>2
<1> HIDE DEF plain
<1>14. c <= s.limit => Ats(rows) = Ats(plain)
  <2> SUFFICES ASSUME c <= s.limit PROVE Ats(rows) = Ats(plain)
    OBVIOUS
  <2>1. m = c
    BY <1>1, <1>2
  <2>2. base \in Surjection(1..m, 1..c)
    <3>1. IsFiniteSet(1..c)
      BY <1>1, UpTo
    <3> QED BY <1>4, <2>1, <3>1, FS_Injection
  <2>3. \A j \in 1..c : \E k \in 1..m : base[k] = j
    BY <2>2 DEF Surjection
  <2>4. ASSUME NEW a \in Ats(plain) PROVE a \in Ats(rows)
    <3>1. PICK j \in 1..m : a = candidates[j].at
      BY <1>13 DEF Ats
    <3>2. PICK k \in 1..m : base[k] = j
      BY <2>1, <2>3
    <3> QED BY <1>1, <1>3, <3>1, <3>2 DEF Ats
  <2>5. ASSUME NEW a \in Ats(rows) PROVE a \in Ats(plain)
    <3>1. PICK k \in 1..m : a = rows[k].at
      BY <1>1 DEF Ats
    <3>2. base[k] \in 1..m /\ plain[base[k]].at = a
      BY <1>3, <1>13, <2>1, <3>1
    <3> QED BY <1>13, <3>2 DEF Ats
  <2> QED BY <2>4, <2>5
<1>15. ASSUME moved.promoted = 0
       PROVE  ~moved.topChanged /\ DOMAIN rows = DOMAIN plain /\ \A k \in DOMAIN rows : rows[k].at = plain[k].at
  <2>1. up = {}
    <3> HIDE DEF up
    <3> QED BY <1>5, <1>7, <1>15
  <2>2. CASE on
    <3>1. \A k \in 1..m : base[k] = k
      BY <1>9, <2>1, <2>2
    <3>2. 1 \in 1..m
      <4>1. rows # << >>
        BY <2>2
      <4>2. m # 0
        BY <4>1, ElementsOf DEF Lists
      <4> QED BY <1>1, <4>2
    <3>3. \A k \in 1..m : rows[k].at = plain[k].at
      BY <1>3, <1>13, <3>1
    <3> QED BY <1>1, <1>5, <1>13, <3>1, <3>2, <3>3
  <2>3. CASE s.mode = "none"
    BY <1>1, <1>5, <1>13, <2>3 DEF plain
  <2>4. CASE rows = << >>
    <3>1. m = 0
      BY <2>4
    <3>2. 1..m = {}
      BY <3>1
    <3> QED BY <1>1, <1>5, <1>13, <2>4, <3>2
  <2> QED BY <2>2, <2>3, <2>4
<1> QED BY <1>11, <1>12, <1>14, <1>15 DEF moved, plain

\* A target is matched by messages, wherever in the results they are.
LEMMA RanksOf ==
    ASSUME NEW T, NEW judgment, IsJudgment(T, judgment), NEW messages, NEW hits, NEW rows, Lists(rows, hits)
    PROVE  LET met == Met(messages, rows, judgment)
               targets == ExpectedTargets(judgment)
           IN  /\ IsMet(met, Len(rows)) /\ DOMAIN met = DOMAIN targets
               /\ \A n \in DOMAIN met : (met[n] # {}) = (\E a \in Ats(rows) : Matches(messages, a, targets[n]))
<1> DEFINE met == Met(messages, rows, judgment)
           targets == ExpectedTargets(judgment)
<1>1. /\ Len(met) \in Nat /\ DOMAIN met = 1..Len(met) /\ DOMAIN met = DOMAIN targets
      /\ \A n \in DOMAIN met : met[n] = Ranks(messages, rows, targets[n])
  BY MetAre, Zenon
<1>2. Len(rows) \in Nat /\ DOMAIN rows = 1..Len(rows)
  BY ElementsOf DEF Lists
<1>3. ASSUME NEW target
      PROVE  /\ Ranks(messages, rows, target) \in SUBSET (1..Len(rows))
             /\ (Ranks(messages, rows, target) # {}) = (\E a \in Ats(rows) : Matches(messages, a, target))
  BY <1>2 DEF Ranks, Ats
<1> HIDE DEF met, targets
<1>4. IsMet(met, Len(rows))
  BY <1>1, <1>3 DEF IsMet
<1>5. \A n \in DOMAIN met : (met[n] # {}) = (\E a \in Ats(rows) : Matches(messages, a, targets[n]))
  BY <1>1, <1>3, Zenon
<1> QED BY <1>1, <1>4, <1>5 DEF met, targets

\* Lists of the same messages are judged the same.
LEMMA RanksAlike ==
    ASSUME NEW messages, NEW judgment, NEW rows, NEW plain, NEW limit,
           DOMAIN rows = DOMAIN plain, \A k \in DOMAIN rows : rows[k].at = plain[k].at
    PROVE  EvaluateResults(messages, rows, judgment, limit) = EvaluateResults(messages, plain, judgment, limit)
<1>1. ASSUME NEW target PROVE Ranks(messages, rows, target) = Ranks(messages, plain, target)
  BY DEF Ranks
<1>2. Met(messages, rows, judgment) = Met(messages, plain, judgment)
  BY <1>1, Zenon DEF Met
<1> QED BY <1>2, Zenon DEF EvaluateResults

\* Of the same messages, as many targets are met.
LEMMA RecallAlike ==
    ASSUME NEW T, NEW judgment, IsJudgment(T, judgment), NEW messages, NEW hits, NEW rows, Lists(rows, hits),
           NEW plain, Lists(plain, hits), Ats(rows) = Ats(plain), NEW limit,
           Met(messages, rows, judgment) # << >>
    PROVE  EvaluateResults(messages, rows, judgment, limit).recall
             = EvaluateResults(messages, plain, judgment, limit).recall
<1> DEFINE met == Met(messages, rows, judgment)
           other == Met(messages, plain, judgment)
           targets == ExpectedTargets(judgment)
<1>1. /\ IsMet(met, Len(rows)) /\ DOMAIN met = DOMAIN targets
      /\ \A n \in DOMAIN met : (met[n] # {}) = (\E a \in Ats(rows) : Matches(messages, a, targets[n]))
  BY RanksOf, Zenon
<1>2. /\ IsMet(other, Len(plain)) /\ DOMAIN other = DOMAIN targets
      /\ \A n \in DOMAIN other : (other[n] # {}) = (\E a \in Ats(plain) : Matches(messages, a, targets[n]))
  BY RanksOf, Zenon
<1>3. Len(rows) \in Nat /\ Len(plain) \in Nat
  BY ElementsOf DEF Lists
<1>4. /\ EvaluateResults(messages, rows, judgment, limit) = Quality(Len(met), Hits(met), limit)
      /\ EvaluateResults(messages, plain, judgment, limit) = Quality(Len(other), Hits(other), limit)
  BY Zenon DEF EvaluateResults, Hits
<1> HIDE DEF met, other, targets
<1>5. { n \in DOMAIN met : met[n] # {} } = { n \in DOMAIN other : other[n] # {} }
  BY <1>1, <1>2
<1>6. /\ Cardinality(Hits(met)) = Cardinality({ n \in DOMAIN met : met[n] # {} })
      /\ Cardinality(Hits(other)) = Cardinality({ n \in DOMAIN other : other[n] # {} })
  <2>1. Cardinality(Hits(met)) = Cardinality({ n \in DOMAIN met : met[n] # {} })
    BY <1>1, <1>3, HitsAre
  <2>2. Cardinality(Hits(other)) = Cardinality({ n \in DOMAIN other : other[n] # {} })
    BY <1>2, <1>3, HitsAre
  <2> QED BY <2>1, <2>2
<1>7. Len(met) = Len(other)
  <2>1. /\ Len(met) \in Nat /\ Len(other) \in Nat /\ 1..Len(met) = 1..Len(other)
    BY <1>1, <1>2 DEF IsMet
  <2> QED BY <2>1
<1>8. ASSUME NEW count, NEW h, NEW g, Cardinality(h) = Cardinality(g)
      PROVE  Quality(count, h, limit).recall = Quality(count, g, limit).recall
  BY <1>8 DEF Quality
<1>9. Quality(Len(met), Hits(met), limit).recall = Quality(Len(met), Hits(other), limit).recall
  <2>1. Cardinality(Hits(met)) = Cardinality(Hits(other))
    BY <1>5, <1>6
  <2> QED BY <1>8, <2>1
<1> QED BY <1>4, <1>7, <1>9

LEMMA ThoseFirst ==
    ASSUME NEW S, NEW s \in Seq(S), 1 \in DOMAIN s
    PROVE  Those(s, {1}) = [k \in 1..1 |-> s[1]] /\ Those(s, {1}) \in Seq(S)
<1>1. PICK at : at = {1}
  OBVIOUS
<1>2. at \in SUBSET DOMAIN s
  BY <1>1
<1>3. Cardinality(at) = 1
  BY <1>1, FS_Singleton
<1> DEFINE those == Those(s, at)
<1>4. those \in Seq(S) /\ Len(those) = Cardinality(at)
  BY <1>2, ThoseAre
<1>5. \A k \in DOMAIN those : \E n \in at : those[k] = s[n]
  BY <1>2, ThoseAre
<1> HIDE DEF those
<1>6. \A k \in DOMAIN those : those[k] = s[1]
  BY <1>1, <1>5
<1>7. DOMAIN those = 1..1 /\ those = [k \in DOMAIN those |-> those[k]]
  BY <1>3, <1>4
<1>8. those = [k \in 1..1 |-> s[1]]
  BY <1>6, <1>7
<1> QED BY <1>1, <1>4, <1>8, Zenon DEF those

\* A saved run of two queries, and the report of such a run.
SavedRun(mode, first, second) ==
    [workspace |-> "w1", kind |-> "search", mode |-> mode, result |-> << first, second >>]
ReportOf(run) == CompareRuns(ListBenchmarkRuns(<< run >>, "w1", "any", "search", 1))

\* The report of a saved run of a judged query and one that is not judged.
LEMMA ReportTells ==
    ASSUME NEW first, NEW second, NEW quality, NEW mode, first.quality = {quality}, second.quality = {},
           quality.expected \in Nat, quality.expected > 0, quality.recall \in Nat, quality.mrr \in Nat,
           first.results \in Nat, second.results = first.results, NEW report,
           report = ReportOf(SavedRun(mode, first, second))
    PROVE  /\ report[1].recall = << quality.recall, 1 >> /\ report[1].mrr = << quality.mrr, 1 >>
           /\ report[1].results = 2 * first.results /\ report[1].queries = 2
<1> DEFINE saved == [workspace |-> "w1", kind |-> "search", mode |-> mode, result |-> << first, second >>]
           at == Where(<< saved >>, LAMBDA r : "w1" \in {"any", r.workspace} /\ "any" \in {"any", r.mode}
                                               /\ "search" \in {"all", r.kind})
           queries == << first, second >>
           judged == Where(queries, LAMBDA q : \E x \in q.quality : x.expected > 0)
           rows == Those(queries, judged)
           qualities == [n \in DOMAIN rows |-> CHOOSE x \in rows[n].quality : TRUE]
<1>1. ListBenchmarkRuns(<< saved >>, "w1", "any", "search", 1) = << saved >>
  <2>1. at = {1}
    BY DEF Where
  <2>2. << saved >> \in Seq({saved}) /\ DOMAIN << saved >> = {1} /\ Len(<< saved >>) = 1
    OBVIOUS
  <2> DEFINE listed == << saved >>
             cut == Take(listed, 1)
  <2> HIDE DEF at, saved
  <2>3. Those(listed, {1}) = listed
    <3>1. listed \in Seq({saved}) /\ 1 \in DOMAIN listed /\ listed = [k \in 1..1 |-> listed[1]]
      OBVIOUS
    <3> HIDE DEF listed
    <3> QED BY <3>1, ThoseFirst
  <2>4. cut = listed
    <3>1. Min({1, Len(listed)}) \in {1, Len(listed)} /\ Len(listed) = 1
      BY <2>2, TakeOf
    <3>2. /\ cut \in [1..1 -> {saved}] /\ listed \in [1..1 -> {saved}]
      <4>1. cut \in [1..Min({1, Len(listed)}) -> {saved}]
        BY <2>2, TakeOf
      <4> QED BY <2>2, <3>1, <4>1
    <3> QED BY <3>2
  <2>5. ListBenchmarkRuns(<< saved >>, "w1", "any", "search", 1) = Take(Those(listed, at), 1)
    BY Zenon DEF ListBenchmarkRuns, at
  <2> QED BY <2>1, <2>3, <2>4, <2>5
<1>2. judged = {1}
  BY DEF Where
<1>3. DOMAIN rows = {1} /\ rows[1] = first
  <2>1. queries \in Seq({first, second}) /\ {1} \in SUBSET DOMAIN queries /\ queries[1] = first
    OBVIOUS
  <2>2. 1 \in DOMAIN queries
    OBVIOUS
  <2>3. Those(queries, {1}) = [k \in 1..1 |-> queries[1]]
    <3> HIDE DEF queries
    <3> QED BY <2>1, <2>2, ThoseFirst
  <2> HIDE DEF judged, queries
  <2> QED BY <1>2, <2>1, <2>3
<1>4. qualities = [n \in {1} |-> quality]
  <2>1. (CHOOSE x \in {quality} : TRUE) = quality
    OBVIOUS
  <2> HIDE DEF rows
  <2> QED BY <1>3, <2>1
<1>5. Judged(saved) = [n \in {1} |-> quality]
  <2>1. Judged(saved) = qualities
    BY DEF Judged
  <2> QED BY <1>4, <2>1
<1> HIDE DEF qualities, rows, judged, at
<1>6. ASSUME NEW v \in Nat PROVE Mean([n \in {1} |-> v]) = << v, 1 >>
  <2> DEFINE f == [n \in {1} |-> v]
  <2>1. DOMAIN f = {1} /\ f[1] = v /\ IsAmount(f)
    BY FS_Singleton DEF IsAmount
  <2>2. Len(f) = 1
    <3>1. f \in [1..1 -> {v}]
      OBVIOUS
    <3> QED BY <3>1, IsSequence
  <2> HIDE DEF f
  <2>3. SumOf(f) = v
    BY <2>1, SumOfOne
  <2> QED BY <2>2, <2>3 DEF Mean, f
<1>7. SumOf([n \in DOMAIN queries |-> queries[n].results]) = 2 * first.results
  <2> DEFINE f == [n \in DOMAIN queries |-> queries[n].results]
  <2>1. DOMAIN f = {1, 2} /\ f[1] = first.results /\ f[2] = first.results
    OBVIOUS
  <2>2. IsAmount(f)
    <3>1. IsFiniteSet({1, 2})
      <4>1. IsFiniteSet(1..2)
        BY UpTo
      <4>2. 1..2 = {1, 2}
        OBVIOUS
      <4> QED BY <4>1, <4>2
    <3> HIDE DEF f
    <3> QED BY <2>1, <3>1 DEF IsAmount
  <2> HIDE DEF f
  <2>3. SumOf(f) = first.results + first.results
    BY <2>1, <2>2, SumOfTwo
  <2> QED BY <2>3 DEF f
<1> HIDE DEF saved
<1>8. /\ CompareRuns(<< saved >>)[1].recall = Mean([n \in DOMAIN Judged(saved) |-> Judged(saved)[n].recall])
      /\ CompareRuns(<< saved >>)[1].mrr = Mean([n \in DOMAIN Judged(saved) |-> Judged(saved)[n].mrr])
      /\ CompareRuns(<< saved >>)[1].results = SumOf([n \in DOMAIN saved.result |-> saved.result[n].results])
      /\ CompareRuns(<< saved >>)[1].queries = Len(saved.result)
  <2> DEFINE runs == << saved >>
             recalls == Mean([n \in DOMAIN Judged(saved) |-> Judged(saved)[n].recall])
             mrrs == Mean([n \in DOMAIN Judged(saved) |-> Judged(saved)[n].mrr])
             found == SumOf([n \in DOMAIN saved.result |-> saved.result[n].results])
             summary == SummarizeDiagnostics(saved.result)
  <2>1. runs[1] = saved /\ 1 \in DOMAIN runs
    OBVIOUS
  <2> HIDE DEF runs
  <2>2. CompareRuns(runs)[1] = [recall |-> recalls, mrr |-> mrrs, queries |-> Len(saved.result),
                                summary |-> summary, results |-> found]
    BY <2>1, Zenon DEF CompareRuns
  <2> HIDE DEF recalls, mrrs, found, summary
  <2>3. /\ CompareRuns(runs)[1].recall = recalls /\ CompareRuns(runs)[1].mrr = mrrs
        /\ CompareRuns(runs)[1].results = found /\ CompareRuns(runs)[1].queries = Len(saved.result)
    BY <2>2
  <2> QED BY <2>3, Zenon DEF runs, recalls, mrrs, found
<1>9. saved.result = queries /\ Len(queries) = 2
  BY DEF saved
<1>10. /\ [n \in DOMAIN Judged(saved) |-> Judged(saved)[n].recall] = [n \in {1} |-> quality.recall]
       /\ [n \in DOMAIN Judged(saved) |-> Judged(saved)[n].mrr] = [n \in {1} |-> quality.mrr]
  BY <1>5
<1>11. report = CompareRuns(<< saved >>)
  BY <1>1, Zenon DEF ReportOf, SavedRun, saved
<1> HIDE DEF queries
<1> QED BY <1>6, <1>7, <1>8, <1>9, <1>10, <1>11

\* Any search of any messages, however it is judged, is measured as it was.
LEMMA AnyMeasuresTell ==
    ASSUME NEW W, NEW A, NEW messages \in Messages(W, A), NEW s, IsSearch(s),
           NEW T, NEW judgment, IsJudgment(T, judgment), 1..s.limit \subseteq DOMAIN Gains
    PROVE  MeasuresTell(messages, s, judgment)
<1> DEFINE saved == [workspace |-> "w1", kind |-> "search", mode |-> s.way,
                     result |-> << BenchmarkQuery(messages, s, {judgment}), BenchmarkQuery(messages, s, {}) >>]
<1> SUFFICES ASSUME NEW candidates \in {Candidates(messages, s)}, NEW results \in {Results(messages, s)},
                    NEW met \in {Met(messages, results, judgment)},
                    NEW report \in {CompareRuns(ListBenchmarkRuns(<< saved >>, "w1", "any", "search", 1))},
                    met # << >>
             PROVE  LET apart == \A m, n \in DOMAIN met : m # n => met[m] \cap met[n] = {}
                        quality == EvaluateResults(messages, results, judgment, s.limit)
                        plain == EvaluateResults(messages, Take(candidates, s.limit), judgment, s.limit)
                        moved == Diagnostics(s, results, candidates)
                    IN  /\ (quality.recall = Unit) = (\A n \in DOMAIN met : met[n] # {})
                        /\ quality.hits <= quality.expected /\ quality.mrr <= quality.recall
                        /\ (quality.first = 1) = (\E n \in DOMAIN met : 1 \in met[n])
                        /\ apart => quality.gained <= quality.ideal
                        /\ moved.demoted > 0 => moved.promoted > 0
                        /\ Len(candidates) <= s.limit =>
                             quality.recall = plain.recall /\ (moved.promoted > 0 => moved.demoted > 0)
                        /\ moved.promoted = 0 => quality = plain /\ ~moved.topChanged
                        /\ report[1].recall = << quality.recall, 1 >> /\ report[1].mrr = << quality.mrr, 1 >>
                        /\ report[1].results = 2 * Len(results) /\ report[1].queries = 2
  BY ZenonT(30) DEF MeasuresTell
<1> DEFINE taken == Take(candidates, s.limit)
           apart == \A m, n \in DOMAIN met : m # n => met[m] \cap met[n] = {}
           quality == EvaluateResults(messages, results, judgment, s.limit)
           plain == EvaluateResults(messages, taken, judgment, s.limit)
           moved == Diagnostics(s, results, candidates)
<1>0. candidates = Candidates(messages, s) /\ results = Results(messages, s) /\ met = Met(messages, results, judgment)
  OBVIOUS
<1>1. /\ Lists(candidates, Ats(candidates)) /\ Lists(results, Ats(candidates))
      /\ Ats(candidates) \in SUBSET DOMAIN messages /\ s.limit \in Nat
      /\ Len(results) = Min({s.limit, Len(candidates)})
      /\ s.mode = "none" => results = taken
  BY <1>0, RerankedAre
<1>2. /\ moved.demoted > 0 => moved.promoted > 0
      /\ Len(candidates) <= s.limit => Ats(results) = Ats(taken) /\ (moved.promoted > 0 => moved.demoted > 0)
      /\ moved.promoted = 0 =>
           ~moved.topChanged /\ DOMAIN results = DOMAIN taken /\ \A k \in DOMAIN results : results[k].at = taken[k].at
  BY <1>1, MovesTell, Zenon
<1>3. Len(results) \in Nat /\ Len(results) <= s.limit
  <2>1. Len(results) \in Nat /\ Len(candidates) \in Nat
    BY <1>1, ElementsOf DEF Lists
  <2> QED BY <1>1, <2>1, LeastOfTwo
<1>4. IsMet(met, Len(results))
  <2>1. IsMet(Met(messages, results, judgment), Len(results))
    BY <1>1, RanksOf, Zenon
  <2> QED BY <1>0, <2>1
<1>5. quality = Quality(Len(met), Hits(met), s.limit)
  BY <1>0, Zenon DEF EvaluateResults, Hits
<1>7. Len(met) # 0
  <2>1. Len(met) \in Nat /\ DOMAIN met = 1..Len(met)
    BY <1>4 DEF IsMet
  <2>2. met = [n \in DOMAIN met |-> met[n]]
    BY <1>0 DEF Met
  <2>3. Len(met) = 0 => DOMAIN met = {}
    BY <2>1
  <2> QED BY <2>1, <2>2, <2>3
<1> HIDE DEF quality, plain, moved
<1>8. /\ (quality.recall = Unit) = (\A n \in DOMAIN met : met[n] # {})
      /\ quality.hits <= quality.expected /\ quality.mrr <= quality.recall
      /\ quality.recall \in Nat /\ quality.mrr \in Nat /\ quality.expected > 0
      /\ (quality.first = 1) = (\E n \in DOMAIN met : 1 \in met[n])
      /\ apart => quality.gained <= quality.ideal
  <2>1. LET q == Quality(Len(met), Hits(met), s.limit)
        IN  /\ (q.recall = Unit) = (\A n \in DOMAIN met : met[n] # {})
            /\ q.hits <= q.expected /\ q.mrr <= q.recall
            /\ q.recall \in Nat /\ q.mrr \in Nat /\ q.expected > 0
            /\ (q.first = 1) = (\E n \in DOMAIN met : 1 \in met[n])
            /\ (\A m, n \in DOMAIN met : m # n => met[m] \cap met[n] = {}) => q.gained <= q.ideal
    BY <1>1, <1>3, <1>4, <1>7, QualityTells, Zenon
  <2> QED BY <1>5, <2>1, Zenon
<1>9. Len(candidates) <= s.limit => quality.recall = plain.recall
  <2>1. Lists(taken, Ats(candidates))
    BY <1>1, TakeLists
  <2> SUFFICES ASSUME Ats(results) = Ats(taken) PROVE quality.recall = plain.recall
    BY <1>2
  <2>2. Met(messages, results, judgment) # << >>
    BY <1>0
  <2> HIDE DEF taken
  <2> QED BY <1>1, <2>1, <2>2, RecallAlike DEF quality, plain
<1>10. moved.promoted = 0 => quality = plain
  <2> HIDE DEF taken
  <2> QED BY <1>2, RanksAlike DEF quality, plain
<1>11. /\ report[1].recall = << quality.recall, 1 >> /\ report[1].mrr = << quality.mrr, 1 >>
       /\ report[1].results = 2 * Len(results) /\ report[1].queries = 2
  <2> DEFINE first == BenchmarkQuery(messages, s, {judgment})
             second == BenchmarkQuery(messages, s, {})
  <2>1. first.quality = {quality} /\ second.quality = {} /\ first.results = Len(results) /\ second.results = Len(results)
    BY <1>0 DEF BenchmarkQuery, Measured, quality
  <2>2. quality.expected \in Nat
    <3>1. quality.expected = Len(met) /\ Len(met) \in Nat
      BY <1>4, <1>5, <1>7 DEF Quality, IsMet
    <3> QED BY <3>1
  <2>3. report = ReportOf(SavedRun(s.way, first, second))
    BY Zenon DEF ReportOf, SavedRun
  <2> HIDE DEF first, second
  <2>4. /\ first.results \in Nat /\ second.results = first.results
        /\ quality.expected > 0 /\ quality.recall \in Nat /\ quality.mrr \in Nat
    BY <1>3, <1>8, <2>1
  <2>5. /\ report[1].recall = << quality.recall, 1 >> /\ report[1].mrr = << quality.mrr, 1 >>
        /\ report[1].results = 2 * first.results /\ report[1].queries = 2
    BY <2>1, <2>2, <2>3, <2>4, ReportTells
  <2> QED BY <2>1, <2>5
<1> QED BY <1>2, <1>8, <1>9, <1>10, <1>11, Zenon DEF quality, plain, moved

\* A search or an agent's run that a benchmark is given, of whatever messages, targets
\* and transcripts.
IsBenchmarkInput(W, A, T) ==
    /\ input.about = "benchmark" =>
         /\ input.messages \in Messages(W, A) /\ IsSearch(input.search) /\ IsJudgment(T, input.judgment)
         /\ 1..input.search.limit \subseteq DOMAIN Gains
    /\ input.about = "evidence" =>
         /\ input.transcript \in TranscriptsOf(T)
         /\ input.source \in {"codex", "claude-code", "antigravity", "vscode-copilot", "manus"}

\* For any messages, search, reranking and judgment the measures are of that search, and
\* what a saved run cites is the session its transcript was imported as (evaluate_results,
\* build_rerank_diagnostics, compare_benchmark_runs, resolve_agent_session_reference).
THEOREM BenchmarksSayWhatHappened ==
    ASSUME NEW W, NEW A, NEW T, IsBenchmarkInput(W, A, T), MaxPeek \in Nat \ {0}
    PROVE  BenchmarksTell
<1>1. ASSUME input.about = "benchmark" PROVE MeasuresTell(input.messages, input.search, input.judgment)
  BY <1>1, AnyMeasuresTell DEF IsBenchmarkInput
<1>2. ASSUME input.about = "evidence"
      PROVE  EvidenceIsCited(input.sessions, input.workspace, input.source, input.transcript)
  BY <1>2, RunsCiteTheirSession DEF IsBenchmarkInput
<1> QED BY <1>1, <1>2 DEF BenchmarksTell

-----------------------------------------------------------------------------
(* The code graph of any files, indexed in any order, and any changes.      *)

\* What is known of a workspace's code.
Graph(db) == db = [entities |-> db.entities, edges |-> db.edges, changes |-> db.changes, links |-> db.links]

LEMMA WithLinks ==
    ASSUME NEW db, NEW links, Graph(db)
    PROVE  [db EXCEPT !.links = links]
           = [entities |-> db.entities, edges |-> db.edges, changes |-> db.changes, links |-> links]
<1> DEFINE e == db.entities
           x == db.edges
           c == db.changes
           l == db.links
<1>1. db = [entities |-> e, edges |-> x, changes |-> c, links |-> l]
  BY DEF Graph
<1> HIDE DEF e, x, c, l
<1>2. [[entities |-> e, edges |-> x, changes |-> c, links |-> l] EXCEPT !.links = links]
      = [entities |-> e, edges |-> x, changes |-> c, links |-> links]
  OBVIOUS
<1>3. [db EXCEPT !.links = links] = [entities |-> e, edges |-> x, changes |-> c, links |-> links]
  BY Zenon, <1>1, <1>2
<1> QED BY Zenon, <1>3 DEF e, x, c, l

LEMMA WithChanges ==
    ASSUME NEW db, NEW changes, Graph(db)
    PROVE  [db EXCEPT !.changes = changes]
           = [entities |-> db.entities, edges |-> db.edges, changes |-> changes, links |-> db.links]
<1> DEFINE e == db.entities
           x == db.edges
           c == db.changes
           l == db.links
<1>1. db = [entities |-> e, edges |-> x, changes |-> c, links |-> l]
  BY DEF Graph
<1> HIDE DEF e, x, c, l
<1>2. [[entities |-> e, edges |-> x, changes |-> c, links |-> l] EXCEPT !.changes = changes]
      = [entities |-> e, edges |-> x, changes |-> changes, links |-> l]
  OBVIOUS
<1>3. [db EXCEPT !.changes = changes] = [entities |-> e, edges |-> x, changes |-> changes, links |-> l]
  BY Zenon, <1>1, <1>2
<1> QED BY Zenon, <1>3 DEF e, x, c, l

LEMMA WithEdges ==
    ASSUME NEW db, NEW edges, Graph(db)
    PROVE  [db EXCEPT !.edges = edges]
           = [entities |-> db.entities, edges |-> edges, changes |-> db.changes, links |-> db.links]
<1> DEFINE e == db.entities
           x == db.edges
           c == db.changes
           l == db.links
<1>1. db = [entities |-> e, edges |-> x, changes |-> c, links |-> l]
  BY DEF Graph
<1> HIDE DEF e, x, c, l
<1>2. [[entities |-> e, edges |-> x, changes |-> c, links |-> l] EXCEPT !.edges = edges]
      = [entities |-> e, edges |-> edges, changes |-> c, links |-> l]
  OBVIOUS
<1>3. [db EXCEPT !.edges = edges] = [entities |-> e, edges |-> edges, changes |-> c, links |-> l]
  BY Zenon, <1>1, <1>2
<1> QED BY Zenon, <1>3 DEF e, x, c, l

\* The links of changes by their lines, and the graph in which the others are
\* looked for.
Lined(db, changes) == UNION { CodeIndex!LinkByLines(db, c) : c \in changes }
KeptLinks(db, changes) ==
    { l \in db.links : ~ \E m \in Lined(db, changes) : m.change = l.change /\ m.entity = l.entity }
Once(db, changes) == [db EXCEPT !.links = KeptLinks(db, changes) \cup Lined(db, changes)]

LEMMA LinkingLinks ==
    ASSUME NEW db, NEW changes, Graph(db)
    PROVE  LET new == CodeIndex!LinkChanges(db, changes)
               once == Once(db, changes)
           IN  /\ Graph(new) /\ new.entities = db.entities /\ new.edges = db.edges
               /\ new.changes = db.changes
               /\ new.links = once.links \cup UNION { CodeIndex!LinkByPath(once, c) : c \in changes }
               /\ Graph(once) /\ once.entities = db.entities
               /\ once.links = KeptLinks(db, changes) \cup Lined(db, changes)
<1> DEFINE new == CodeIndex!LinkChanges(db, changes)
           once == Once(db, changes)
           more == UNION { CodeIndex!LinkByPath(once, c) : c \in changes }
           first == KeptLinks(db, changes) \cup Lined(db, changes)
<1>1. new = [once EXCEPT !.links = @ \cup more]
  BY Zenon DEF CodeIndex!LinkChanges, Once, KeptLinks, Lined
<1>2. once = [db EXCEPT !.links = first]
  BY DEF Once
<1> HIDE DEF first, more, new, once
<1>3. once = [entities |-> db.entities, edges |-> db.edges, changes |-> db.changes, links |-> first]
  BY <1>2, WithLinks
<1>4. Graph(once) /\ once.entities = db.entities /\ once.edges = db.edges /\ once.changes = db.changes
      /\ once.links = first
  BY <1>3 DEF Graph
<1>5. new = [entities |-> once.entities, edges |-> once.edges, changes |-> once.changes,
             links |-> once.links \cup more]
  <2>1. new = [once EXCEPT !.links = once.links \cup more]
    BY <1>1
  <2> QED BY <2>1, <1>4, WithLinks
<1>6. Graph(new) /\ new.entities = once.entities /\ new.edges = once.edges /\ new.changes = once.changes
      /\ new.links = once.links \cup more
  BY <1>5 DEF Graph
<1> QED BY Zenon, <1>4, <1>6 DEF new, once, more, first

\* What was known of other files, and what indexing makes of these.
Elsewhere(db, files) == { e \in db.entities : e.path \notin { f.path : f \in files } }
NamesOf(entities) == { e.name : e \in entities }
Indexed(files) == { CodeIndex!IndexFile(f) : f \in files }
Everything(db, files) == Elsewhere(db, files) \cup UNION { x.entities : x \in Indexed(files) }
Stored(db, files) ==
    [entities |-> Everything(db, files),
     edges |-> { x \in db.edges : {x[1], x[2]} \subseteq Elsewhere(db, files) }
               \cup CodeIndex!EdgesAmong(Everything(db, files), Indexed(files)),
     changes |-> db.changes,
     links |-> { l \in db.links : l.entity \in Elsewhere(db, files) }]
Touching(db, files) == { c \in db.changes : c.path \in { f.path : f \in files } }

LEMMA StoringLinks ==
    ASSUME NEW db, NEW files
    PROVE  /\ CodeIndex!StoreIndex(db, files)
              = CodeIndex!LinkChanges(Stored(db, files), Touching(db, files))
           /\ Graph(Stored(db, files))
<1>1. CodeIndex!StoreIndex(db, files)
      = CodeIndex!LinkChanges(Stored(db, files), Touching(db, files))
  BY Zenon DEF CodeIndex!StoreIndex, Stored, Touching, Everything, Elsewhere, Indexed
<1>2. \A a, b, c, d : Graph([entities |-> a, edges |-> b, changes |-> c, links |-> d])
  BY DEF Graph
<1>3. Graph(Stored(db, files))
  BY Zenon, <1>2 DEF Stored
<1> QED BY <1>1, <1>3

LEMMA StoredIs ==
    ASSUME NEW db, NEW files
    PROVE  /\ Stored(db, files).entities = Everything(db, files)
           /\ Stored(db, files).edges
              = { x \in db.edges : {x[1], x[2]} \subseteq Elsewhere(db, files) }
                \cup CodeIndex!EdgesAmong(Everything(db, files), Indexed(files))
           /\ Stored(db, files).changes = db.changes
           /\ Stored(db, files).links = { l \in db.links : l.entity \in Elsewhere(db, files) }
<1>1. \A a, b, c, d : LET r == [entities |-> a, edges |-> b, changes |-> c, links |-> d]
                      IN  r.entities = a /\ r.edges = b /\ r.changes = c /\ r.links = d
  OBVIOUS
<1> QED BY Zenon, <1>1 DEF Stored

\* Items as an indexer lists them: their lines in order, and each within an
\* earlier definition or none.
Lines == { l \in Int \X Int : l[1] <= l[2] }
IsFile(file, Word) ==
    /\ file.path \in Seq(Word)
    /\ \E Item : file.items \in Seq(Item)
    /\ \A n \in DOMAIN file.items :
         /\ file.items[n].lines \in Lines
         /\ file.items[n].within \in 0..(n - 1)
         /\ file.items[n].within # 0 => file.items[file.items[n].within].sort \in {"class", "def"}

\* What an item makes of the name its own stands within, for what stands in it.
Naming(way, module, items, within, n) ==
    IF way = "python" THEN Append(within, items[n].name)
    ELSE IF items[n].sort = "class" THEN Append(module, items[n].name) ELSE within

NamesScopes(f, way, module, items, N) ==
    f = [n \in 0..N |-> IF n = 0 THEN module ELSE Naming(way, module, items, f[items[n].within], n)]

LEMMA ScopesExist ==
    ASSUME NEW way, NEW module, NEW items, NEW N \in Nat,
           \A n \in 1..N : items[n].within \in 0..(n - 1)
    PROVE  \E f : NamesScopes(f, way, module, items, N)
<1> DEFINE And(was, k) == Naming(way, module, items, was, k)
           Up(k) == items[k].within
           Goes(f, n) == f = [k \in 0..n |-> IF k = 0 THEN module ELSE And(f[Up(k)], k)]
           P == { n \in Nat : n <= N => \E f : Goes(f, n) }
<1>1. \A n \in 1..N : Up(n) \in 0..(n - 1)
  OBVIOUS
<1> HIDE DEF And, Up
<1>2. 0 \in P
  <2> DEFINE f == [k \in 0..0 |-> module]
  <2>1. \A k \in 0..0 : k = 0
    OBVIOUS
  <2>2. Goes(f, 0)
    BY <2>1
  <2> HIDE DEF f
  <2> QED BY <2>2
<1>3. ASSUME NEW n \in P PROVE n + 1 \in P
  <2> SUFFICES ASSUME n + 1 <= N PROVE \E f : Goes(f, n + 1)
    OBVIOUS
  <2>1. PICK f : Goes(f, n)
    OBVIOUS
  <2>2. n \in Nat /\ Up(n + 1) \in 0..n
    BY <1>1
  <2> DEFINE g == [k \in 0..(n + 1) |-> IF k = n + 1 THEN And(f[Up(n + 1)], k) ELSE f[k]]
  <2>3. ASSUME NEW k \in 0..(n + 1) PROVE g[k] = IF k = 0 THEN module ELSE And(g[Up(k)], k)
    <3>1. n \in Nat /\ k \in Nat
      OBVIOUS
    <3>2. k # 0 => k \in 1..N /\ Up(k) \in 0..(k - 1)
      BY <1>1, <3>1
    <3>3. k # 0 => Up(k) \in 0..(n + 1) /\ Up(k) # n + 1
      BY <3>1, <3>2
    <3>4. k # 0 => g[Up(k)] = f[Up(k)]
      BY <3>3
    <3>5. k = n + 1 => g[k] = And(f[Up(n + 1)], k) /\ k # 0
      BY <3>1
    <3>6. k # n + 1 => k \in 0..n
      BY <3>1
    <3>7. k # n + 1 => f[k] = IF k = 0 THEN module ELSE And(f[Up(k)], k)
      BY <2>1, <3>6
    <3>8. k # n + 1 => g[k] = f[k]
      BY <3>1
    <3> HIDE DEF g
    <3> QED BY <3>4, <3>5, <3>7, <3>8
  <2>4. g = [k \in 0..(n + 1) |-> g[k]]
    OBVIOUS
  <2> HIDE DEF g
  <2>5. Goes(g, n + 1)
    BY <2>3, <2>4
  <2> HIDE DEF Goes
  <2> QED BY <2>5
<1>4. P = Nat
  <2>1. P \in SUBSET Nat
    OBVIOUS
  <2> HIDE DEF P
  <2> QED BY <1>2, <1>3, <2>1, Counting
<1>5. \E f : Goes(f, N)
  BY <1>4
<1> QED BY Zenon, <1>5 DEF And, Up, NamesScopes

LEMMA PythonScopes ==
    ASSUME NEW Word, NEW file, IsFile(file, Word)
    PROVE  \E scope : /\ scope[0] = file.module
                      /\ \A n \in DOMAIN file.items :
                           scope[n] = Append(scope[file.items[n].within], file.items[n].name)
                      /\ CodeIndex!PythonItems(file)
                         = { CodeIndex!Find(file, file.items[n], scope[file.items[n].within],
                                            CodeIndex!CallsWithin(file.items, n)) : n \in DOMAIN file.items }
<1> DEFINE items == file.items
           N == Len(items)
           Goes(f) == f = [n \in 0..N |-> IF n = 0 THEN file.module
                                          ELSE Append(f[items[n].within], items[n].name)]
           scope == CHOOSE f : Goes(f)
<1>1. DOMAIN items = 1..N /\ N \in Nat /\ \A n \in DOMAIN items : items[n].within \in 0..(n - 1)
  BY DEF IsFile
<1>2. \E f : NamesScopes(f, "python", file.module, items, N)
  <2> DEFINE way == "python"
             module == file.module
  <2>1. N \in Nat /\ \A n \in 1..N : items[n].within \in 0..(n - 1)
    BY <1>1
  <2> HIDE DEF way, module, items, N
  <2>2. \E f : NamesScopes(f, way, module, items, N)
    BY <2>1, ScopesExist
  <2> QED BY Zenon, <2>2 DEF way, module
<1>3. \E f : Goes(f)
  <2>1. PICK f : NamesScopes(f, "python", file.module, items, N)
    BY <1>2
  <2>2. \A n \in 0..N : f[n] = IF n = 0 THEN file.module
                               ELSE Naming("python", file.module, items, f[items[n].within], n)
    BY <2>1 DEF NamesScopes
  <2>3. \A n \in 0..N : f[n] = IF n = 0 THEN file.module
                               ELSE Append(f[items[n].within], items[n].name)
    BY <2>2 DEF Naming
  <2>4. f = [n \in 0..N |-> f[n]]
    BY <2>1 DEF NamesScopes
  <2>5. Goes(f)
    BY <2>3, <2>4
  <2> HIDE DEF Goes
  <2> QED BY <2>5
<1>4. Goes(scope)
  BY <1>3
<1>5. CodeIndex!PythonItems(file)
      = { CodeIndex!Find(file, items[n], scope[items[n].within], CodeIndex!CallsWithin(items, n))
          : n \in DOMAIN items }
  BY Zenon DEF CodeIndex!PythonItems
<1> HIDE DEF scope
<1>6. \A n \in 0..N : scope[n] = IF n = 0 THEN file.module
                                 ELSE Append(scope[items[n].within], items[n].name)
  BY <1>4
<1>7. 0 \in 0..N /\ \A n \in DOMAIN items : n \in 0..N /\ n # 0
  BY <1>1
<1>8. scope[0] = file.module
  BY <1>6, <1>7
<1>9. \A n \in DOMAIN items : scope[n] = Append(scope[items[n].within], items[n].name)
  BY <1>6, <1>7
<1> QED BY Zenon, <1>5, <1>8, <1>9

LEMMA TsClasses ==
    ASSUME NEW Word, NEW file, IsFile(file, Word)
    PROVE  \E class : /\ class[0] = file.module
                      /\ \A n \in DOMAIN file.items :
                           class[n] = IF file.items[n].sort = "class"
                                      THEN Append(file.module, file.items[n].name)
                                      ELSE class[file.items[n].within]
                      /\ CodeIndex!TsItems(file)
                         = { CodeIndex!Find(file, file.items[n],
                                            IF file.items[n].sort = "class" THEN file.module
                                            ELSE class[file.items[n].within],
                                            file.items[n].calls) : n \in DOMAIN file.items }
<1> DEFINE items == file.items
           N == Len(items)
           Goes(f) == f = [n \in 0..N |-> IF n = 0 THEN file.module
                                          ELSE IF items[n].sort = "class" THEN Append(file.module, items[n].name)
                                          ELSE f[items[n].within]]
           class == CHOOSE f : Goes(f)
<1>1. DOMAIN items = 1..N /\ N \in Nat /\ \A n \in DOMAIN items : items[n].within \in 0..(n - 1)
  BY DEF IsFile
<1>2. \E f : NamesScopes(f, "ts", file.module, items, N)
  <2> DEFINE way == "ts"
             module == file.module
  <2>1. N \in Nat /\ \A n \in 1..N : items[n].within \in 0..(n - 1)
    BY <1>1
  <2> HIDE DEF way, module, items, N
  <2>2. \E f : NamesScopes(f, way, module, items, N)
    BY <2>1, ScopesExist
  <2> QED BY Zenon, <2>2 DEF way, module
<1>3. \E f : Goes(f)
  <2>1. PICK f : NamesScopes(f, "ts", file.module, items, N)
    BY <1>2
  <2>2. \A n \in 0..N : f[n] = IF n = 0 THEN file.module
                               ELSE Naming("ts", file.module, items, f[items[n].within], n)
    BY <2>1 DEF NamesScopes
  <2>3. \A n \in 0..N : f[n] = IF n = 0 THEN file.module
                               ELSE IF items[n].sort = "class" THEN Append(file.module, items[n].name)
                               ELSE f[items[n].within]
    BY <2>2 DEF Naming
  <2>4. f = [n \in 0..N |-> f[n]]
    BY <2>1 DEF NamesScopes
  <2>5. Goes(f)
    BY <2>3, <2>4
  <2> HIDE DEF Goes
  <2> QED BY <2>5
<1>4. Goes(class)
  BY <1>3
<1>5. CodeIndex!TsItems(file)
      = { CodeIndex!Find(file, items[n], IF items[n].sort = "class" THEN file.module
                                         ELSE class[items[n].within], items[n].calls)
          : n \in DOMAIN items }
  BY Zenon DEF CodeIndex!TsItems
<1> HIDE DEF class
<1>6. \A n \in 0..N : class[n] = IF n = 0 THEN file.module
                                 ELSE IF items[n].sort = "class" THEN Append(file.module, items[n].name)
                                 ELSE class[items[n].within]
  BY <1>4
<1>7. 0 \in 0..N /\ \A n \in DOMAIN items : n \in 0..N /\ n # 0
  BY <1>1
<1>8. class[0] = file.module
  BY <1>6, <1>7
<1>9. \A n \in DOMAIN items : class[n] = IF items[n].sort = "class"
                                    THEN Append(file.module, items[n].name)
                                    ELSE class[items[n].within]
  BY <1>6, <1>7
<1> QED BY Zenon, <1>5, <1>8, <1>9

\* A definition as it is listed.
Listed(e) ==
    e = [path |-> e.path, kind |-> e.kind, name |-> e.name, lines |-> e.lines,
         default |-> e.default, alias |-> e.alias, target |-> e.target]

LEMMA EntityTells ==
    ASSUME NEW file, NEW kind, NEW name, NEW item
    PROVE  LET e == CodeIndex!Entity(file, kind, name, item)
           IN  e.path = file.path /\ e.name = name /\ e.lines = item.lines /\ Listed(e)
  BY DEF CodeIndex!Entity, Listed

LEMMA DefaultTells ==
    ASSUME NEW e, NEW value, Listed(e)
    PROVE  LET new == [e EXCEPT !.default = value]
           IN  new.path = e.path /\ new.name = e.name /\ new.lines = e.lines /\ Listed(new)
<1> DEFINE p == e.path
           k == e.kind
           m == e.name
           l == e.lines
           d == e.default
           a == e.alias
           t == e.target
           new == [e EXCEPT !.default = value]
<1>1. e = [path |-> p, kind |-> k, name |-> m, lines |-> l, default |-> d, alias |-> a, target |-> t]
  BY DEF Listed
<1> HIDE DEF p, k, m, l, d, a, t
<1>2. [[path |-> p, kind |-> k, name |-> m, lines |-> l, default |-> d, alias |-> a, target |-> t]
         EXCEPT !.default = value]
      = [path |-> p, kind |-> k, name |-> m, lines |-> l, default |-> value, alias |-> a, target |-> t]
  OBVIOUS
<1>3. new = [path |-> p, kind |-> k, name |-> m, lines |-> l, default |-> value, alias |-> a, target |-> t]
  BY Zenon, <1>1, <1>2
<1> HIDE DEF new
<1>4. new.path = p /\ new.name = m /\ new.lines = l /\ Listed(new)
  BY <1>3 DEF Listed
<1> QED BY Zenon, <1>4 DEF new, p, m, l

\* What is found of an item, in what has a name.
Tells(file, item, in, x) ==
    /\ x.entity.path = file.path /\ x.entity.lines = item.lines /\ Listed(x.entity)
    /\ IF item.sort \in {"class", "def"}
       THEN x.in = in /\ x.entity.name = Append(in, item.name)
       ELSE x.in = file.module

LEMMA FindTells ==
    ASSUME NEW file, NEW item, NEW in, NEW calls
    PROVE  Tells(file, item, in, CodeIndex!Find(file, item, in, calls))
<1> DEFINE defines == item.sort \in {"class", "def"}
           kind == IF item.sort # "def" THEN item.sort
                   ELSE IF in = file.module THEN "function" ELSE "method"
           name == IF defines THEN Append(in, item.name) ELSE CodeIndex!ImportName(file, item)
           entity == CodeIndex!Entity(file, kind, name, item)
           inside == IF defines THEN in ELSE file.module
           called == IF item.sort = "def" THEN calls ELSE {}
           x == CodeIndex!Find(file, item, in, calls)
<1>1. x = [entity |-> entity, in |-> inside, calls |-> called]
  BY Zenon DEF CodeIndex!Find
<1>2. entity.path = file.path /\ entity.name = name /\ entity.lines = item.lines /\ Listed(entity)
  <2> HIDE DEF kind, name, entity
  <2>1. LET e == CodeIndex!Entity(file, kind, name, item)
        IN  e.path = file.path /\ e.name = name /\ e.lines = item.lines /\ Listed(e)
    BY EntityTells
  <2> QED BY Zenon, <2>1 DEF entity
<1> HIDE DEF x, entity, called, kind, inside
<1>3. x.entity = entity /\ x.in = inside
  BY <1>1
<1>4. IF defines THEN x.in = in /\ x.entity.name = Append(in, item.name) ELSE x.in = file.module
  BY <1>2, <1>3 DEF inside
<1> QED BY Zenon, <1>2, <1>3, <1>4 DEF x, Tells

\* Everything found in a file has its path and lines of it, and stands in the
\* module or in something else that was found.
FoundWell(file, found) ==
    \A x \in found :
      /\ x.entity.path = file.path /\ x.entity.lines \in Lines /\ Listed(x.entity)
      /\ x.in = file.module \/ \E y \in found : y.entity.name = x.in

LEMMA PythonFinds ==
    ASSUME NEW Word, NEW file, IsFile(file, Word)
    PROVE  FoundWell(file, CodeIndex!PythonItems(file))
<1> DEFINE items == file.items
           found == CodeIndex!PythonItems(file)
<1>1. PICK scope : /\ scope[0] = file.module
                   /\ \A n \in DOMAIN file.items :
                        scope[n] = Append(scope[file.items[n].within], file.items[n].name)
                   /\ CodeIndex!PythonItems(file)
                      = { CodeIndex!Find(file, file.items[n], scope[file.items[n].within],
                                         CodeIndex!CallsWithin(file.items, n)) : n \in DOMAIN file.items }
  BY PythonScopes
<1> DEFINE At(n) == CodeIndex!Find(file, items[n], scope[items[n].within], CodeIndex!CallsWithin(items, n))
<1>2. found = { At(n) : n \in DOMAIN items }
  BY <1>1
<1>3. ASSUME NEW n \in DOMAIN items
      PROVE  /\ At(n).entity.path = file.path /\ At(n).entity.lines = items[n].lines /\ Listed(At(n).entity)
             /\ IF items[n].sort \in {"class", "def"}
                THEN At(n).in = scope[items[n].within]
                     /\ At(n).entity.name = Append(scope[items[n].within], items[n].name)
                ELSE At(n).in = file.module
  <2> DEFINE in == scope[items[n].within]
             calls == CodeIndex!CallsWithin(items, n)
             item == items[n]
             x == CodeIndex!Find(file, item, in, calls)
  <2> HIDE DEF in, calls, item
  <2>1. Tells(file, item, in, x)
    BY Zenon, FindTells
  <2> QED BY Zenon, <2>1 DEF in, calls, item, Tells
<1> HIDE DEF At
<1>4. \A n \in DOMAIN items : n \in 1..Len(items) /\ Len(items) \in Nat
  BY DEF IsFile
<1>5. ASSUME NEW n \in DOMAIN items
      PROVE  /\ items[n].lines \in Lines
             /\ items[n].within = 0 \/ /\ items[n].within \in DOMAIN items
                                       /\ items[items[n].within].sort \in {"class", "def"}
  <2>1. DOMAIN items = 1..Len(items) /\ Len(items) \in Nat
    BY DEF IsFile
  <2>2. /\ items[n].lines \in Lines /\ items[n].within \in 0..(n - 1)
        /\ items[n].within # 0 => items[items[n].within].sort \in {"class", "def"}
    BY DEF IsFile
  <2> QED BY <2>1, <2>2
<1>6. ASSUME NEW n \in DOMAIN items
      PROVE  At(n).in = file.module \/ \E m \in DOMAIN items : At(m).entity.name = At(n).in
  <2> DEFINE w == items[n].within
  <2>1. CASE items[n].sort \notin {"class", "def"}
    BY <1>3, <2>1
  <2>2. CASE items[n].sort \in {"class", "def"} /\ w = 0
    BY <1>1, <1>3, <2>2
  <2>3. CASE items[n].sort \in {"class", "def"} /\ w # 0
    <3>1. w \in DOMAIN items /\ items[w].sort \in {"class", "def"}
      BY <1>5, <2>3
    <3>2. At(w).entity.name = Append(scope[items[w].within], items[w].name)
      BY <1>3, <3>1
    <3>3. scope[w] = Append(scope[items[w].within], items[w].name)
      BY <1>1, <3>1
    <3>4. At(n).in = scope[w]
      BY <1>3, <2>3
    <3> QED BY <3>1, <3>2, <3>3, <3>4
  <2> QED BY <2>1, <2>2, <2>3
<1> QED BY <1>2, <1>3, <1>5, <1>6 DEF FoundWell

LEMMA TsFinds ==
    ASSUME NEW Word, NEW file, IsFile(file, Word)
    PROVE  FoundWell(file, CodeIndex!TsItems(file))
<1> DEFINE items == file.items
           found == CodeIndex!TsItems(file)
<1>1. PICK class : /\ class[0] = file.module
                   /\ \A n \in DOMAIN file.items :
                        class[n] = IF file.items[n].sort = "class"
                                   THEN Append(file.module, file.items[n].name)
                                   ELSE class[file.items[n].within]
                   /\ CodeIndex!TsItems(file)
                      = { CodeIndex!Find(file, file.items[n],
                                         IF file.items[n].sort = "class" THEN file.module
                                         ELSE class[file.items[n].within],
                                         file.items[n].calls) : n \in DOMAIN file.items }
  BY TsClasses
<1> DEFINE In(n) == IF items[n].sort = "class" THEN file.module ELSE class[items[n].within]
           At(n) == CodeIndex!Find(file, items[n], In(n), items[n].calls)
<1>2. found = { At(n) : n \in DOMAIN items }
  BY Zenon, <1>1
<1>3. ASSUME NEW n \in DOMAIN items
      PROVE  /\ At(n).entity.path = file.path /\ At(n).entity.lines = items[n].lines /\ Listed(At(n).entity)
             /\ IF items[n].sort \in {"class", "def"}
                THEN At(n).in = In(n) /\ At(n).entity.name = Append(In(n), items[n].name)
                ELSE At(n).in = file.module
  <2> DEFINE in == In(n)
             item == items[n]
             calls == item.calls
             x == CodeIndex!Find(file, item, in, calls)
  <2> HIDE DEF in, calls, item
  <2>1. Tells(file, item, in, x)
    BY Zenon, FindTells
  <2> QED BY Zenon, <2>1 DEF in, calls, item, Tells
<1> HIDE DEF At
<1>4. DOMAIN items = 1..Len(items) /\ Len(items) \in Nat
  BY DEF IsFile
<1>5. ASSUME NEW n \in DOMAIN items
      PROVE  items[n].lines \in Lines /\ items[n].within \in 0..(n - 1)
  BY DEF IsFile
<1> DEFINE Known(n) == class[n] = file.module \/ \E m \in DOMAIN items : At(m).entity.name = class[n]
           P == { n \in Nat : \A k \in 0..n : k <= Len(items) => Known(k) }
<1>6. ASSUME NEW n \in DOMAIN items, items[n].within = 0 \/ Known(items[n].within) PROVE Known(n)
  <2>1. class[n] = IF items[n].sort = "class" THEN Append(file.module, items[n].name)
                   ELSE class[items[n].within]
    BY <1>1
  <2>2. CASE items[n].sort = "class"
    <3>1. At(n).entity.name = Append(In(n), items[n].name) /\ In(n) = file.module
      BY <1>3, <2>2
    <3> QED BY <2>1, <2>2, <3>1
  <2>3. CASE items[n].sort # "class"
    BY <1>1, <1>6, <2>1, <2>3
  <2> QED BY <2>2, <2>3
<1>7. \A n \in 0..Len(items) : Known(n)
  <2>1. Known(0)
    BY <1>1
  <2> HIDE DEF Known
  <2>2. 0 \in P
    BY <2>1
  <2>3. ASSUME NEW n \in P PROVE n + 1 \in P
    <3>1. n \in Nat /\ \A k \in 0..n : k <= Len(items) => Known(k)
      OBVIOUS
    <3>2. ASSUME n + 1 <= Len(items) PROVE Known(n + 1)
      <4>1. n + 1 \in DOMAIN items
        BY <1>4, <3>1, <3>2
      <4>2. items[n + 1].within \in 0..n
        BY <1>5, <4>1
      <4>3. Known(items[n + 1].within)
        BY <3>1, <3>2, <4>2, <1>4
      <4> QED BY <1>6, <4>1, <4>3
    <3>3. \A k \in 0..(n + 1) : k \in 0..n \/ k = n + 1
      BY <3>1
    <3> QED BY <3>1, <3>2, <3>3
  <2>4. P = Nat
    <3>1. P \in SUBSET Nat
      OBVIOUS
    <3> HIDE DEF P
    <3> QED BY <2>2, <2>3, <3>1, Counting
  <2> QED BY <1>4, <2>4
<1>8. ASSUME NEW n \in DOMAIN items
      PROVE  At(n).in = file.module \/ \E m \in DOMAIN items : At(m).entity.name = At(n).in
  <2>1. In(n) = file.module \/ In(n) = class[items[n].within]
    OBVIOUS
  <2>2. items[n].within \in 0..Len(items)
    BY <1>4, <1>5
  <2>3. Known(items[n].within)
    BY <1>7, <2>2
  <2> HIDE DEF In
  <2> QED BY <1>3, <2>1, <2>3
<1> HIDE DEF In, Known, P
<1> QED BY <1>2, <1>3, <1>5, <1>8 DEF FoundWell

\* Definitions of a file, and edges from them.
Well(file, entities) == \A e \in entities : e.path = file.path /\ e.lines \in Lines /\ Listed(e)
From(edges, entities) == \A x \in edges : x[1] \in NamesOf(entities)

LEMMA ModuleTells ==
    ASSUME NEW file
    PROVE  /\ CodeIndex!ModuleItem(file).lines \in Lines
           /\ [CodeIndex!ModuleItem(file) EXCEPT !.lines = << 1, 99 >>].lines \in Lines
<1> DEFINE item == CodeIndex!ModuleItem(file)
           last == CodeIndex!Last(file.module)
           none == << >>
           lines == IF file.language = "python" THEN << 1, 1 >> ELSE << 1, 99 >>
           whole == << 1, 99 >>
<1>1. item = [name |-> last, target |-> none, default |-> FALSE, lines |-> lines]
  BY Zenon DEF CodeIndex!ModuleItem
<1>2. lines \in Lines /\ whole \in Lines
  BY DEF Lines
<1> HIDE DEF item, last, none, lines, whole
<1>3. item.lines = lines /\ [item EXCEPT !.lines = whole].lines = whole
  BY <1>1
<1> QED BY Zenon, <1>2, <1>3 DEF item, whole

LEMMA OwnTells ==
    ASSUME NEW Word, NEW file, IsFile(file, Word)
    PROVE  Well(file, CodeIndex!IndexOwn(file).entities)
<1> DEFINE found == IF file.language = "python" THEN CodeIndex!PythonItems(file) ELSE CodeIndex!TsItems(file)
           item == CodeIndex!ModuleItem(file)
           module == CodeIndex!Entity(file, "module", file.module, item)
           entities == { f.entity : f \in found } \cup {module}
<1>1. CodeIndex!IndexOwn(file).entities = entities
  BY DEF CodeIndex!IndexOwn
<1>2. FoundWell(file, found)
  <2>1. FoundWell(file, CodeIndex!PythonItems(file)) /\ FoundWell(file, CodeIndex!TsItems(file))
    BY PythonFinds, TsFinds
  <2> QED BY <2>1
<1>3. module.path = file.path /\ module.lines \in Lines /\ Listed(module)
  <2>1. item.lines \in Lines
    BY ModuleTells
  <2> HIDE DEF item
  <2> QED BY <2>1, EntityTells
<1> HIDE DEF found, module
<1>4. Well(file, entities)
  BY <1>2, <1>3 DEF FoundWell, Well
<1> QED BY <1>1, <1>4

LEMMA OwnStarts ==
    ASSUME NEW Word, NEW file, IsFile(file, Word)
    PROVE  From(CodeIndex!IndexOwn(file).edges, CodeIndex!IndexOwn(file).entities)
<1> DEFINE found == IF file.language = "python" THEN CodeIndex!PythonItems(file) ELSE CodeIndex!TsItems(file)
           module == CodeIndex!Entity(file, "module", file.module, CodeIndex!ModuleItem(file))
           entities == { f.entity : f \in found } \cup {module}
           within == { << f.in, f.entity.name, CodeIndex!EdgeType(f.entity.kind) >> : f \in found }
           Calls(f) == UNION { { << f.entity.name, t, "calls" >> : t \in CodeIndex!CallTarget(found, c) }
                               : c \in f.calls }
           calls == UNION { Calls(f) : f \in found }
<1>1. /\ CodeIndex!IndexOwn(file).entities = entities
      /\ CodeIndex!IndexOwn(file).edges = within \cup calls
  BY DEF CodeIndex!IndexOwn
<1>2. FoundWell(file, found)
  <2>1. FoundWell(file, CodeIndex!PythonItems(file)) /\ FoundWell(file, CodeIndex!TsItems(file))
    BY PythonFinds, TsFinds
  <2> QED BY <2>1
<1>3. module.name = file.module
  BY EntityTells
<1> HIDE DEF found, module
<1>4. ASSUME NEW x \in within PROVE \E e \in entities : e.name = x[1]
  <2>1. PICK f \in found : x = << f.in, f.entity.name, CodeIndex!EdgeType(f.entity.kind) >>
    OBVIOUS
  <2>2. x[1] = f.in
    BY <2>1
  <2>3. f.in = file.module \/ \E y \in found : y.entity.name = f.in
    BY <1>2 DEF FoundWell
  <2> QED BY <1>3, <2>2, <2>3
<1>5. ASSUME NEW x \in calls PROVE \E e \in entities : e.name = x[1]
  <2>1. PICK f \in found : x \in Calls(f)
    OBVIOUS
  <2>2. PICK c \in f.calls : \E t \in CodeIndex!CallTarget(found, c) : x = << f.entity.name, t, "calls" >>
    BY <2>1
  <2>3. x[1] = f.entity.name
    BY <2>2
  <2> QED BY <2>3
<1> HIDE DEF entities, within, calls
<1>6. From(within \cup calls, entities)
  BY <1>4, <1>5 DEF From, NamesOf
<1> QED BY <1>1, <1>6

LEMMA FileTells ==
    ASSUME NEW Word, NEW file, IsFile(file, Word)
    PROVE  /\ Well(file, CodeIndex!IndexFile(file).entities)
           /\ From(CodeIndex!IndexFile(file).edges, CodeIndex!IndexFile(file).entities)
<1> DEFINE own == CodeIndex!IndexOwn(file)
           primary == CodeIndex!IndexSource(file)
           all == CodeIndex!MergeIndexed(primary, own)
<1>1. Well(file, own.entities) /\ From(own.edges, own.entities)
  BY OwnTells, OwnStarts
<1>2. Well(file, primary.entities)
  <2> DEFINE found == { f \in CodeIndex!PythonItems(file) : f.entity.kind \in {"class", "function", "method", "import"} }
             item == [CodeIndex!ModuleItem(file) EXCEPT !.lines = << 1, 99 >>]
             whole == CodeIndex!Entity(file, "module", file.module, item)
             told == {whole} \cup { f.entity : f \in found }
  <2>1. primary.entities = { [e EXCEPT !.default = FALSE] : e \in told }
    BY DEF CodeIndex!IndexSource
  <2>2. \A x \in found : x.entity.path = file.path /\ x.entity.lines \in Lines /\ Listed(x.entity)
    <3>1. FoundWell(file, CodeIndex!PythonItems(file))
      BY PythonFinds
    <3> QED BY <3>1 DEF FoundWell
  <2>3. whole.path = file.path /\ whole.lines \in Lines /\ Listed(whole)
    <3>1. item.lines \in Lines
      BY ModuleTells
    <3> HIDE DEF item
    <3> QED BY <3>1, EntityTells
  <2> HIDE DEF whole, found
  <2>4. Well(file, told)
    BY <2>2, <2>3 DEF Well
  <2> DEFINE Plain(e) == [e EXCEPT !.default = FALSE]
  <2>5. \A e : Listed(e) => /\ Plain(e).path = e.path /\ Plain(e).lines = e.lines /\ Listed(Plain(e))
    BY DefaultTells
  <2>6. primary.entities = { Plain(e) : e \in told }
    BY <2>1
  <2> HIDE DEF told, primary, Plain
  <2> QED BY <2>4, <2>5, <2>6 DEF Well
<1> HIDE DEF own, primary
<1>3. Well(file, all.entities) /\ From(all.edges, all.entities)
  <2> DEFINE Same(e) == { o \in own.entities : o.name = e.name }
             merged == { [e EXCEPT !.default = \E o \in Same(e) : o.default] : e \in primary.entities }
             entities == merged \cup { o \in own.entities : ~ \E e \in merged : e.name = o.name }
             edges == { x \in own.edges \cup primary.edges : {x[1], x[2]} \subseteq NamesOf(entities) }
  <2>1. all = [entities |-> entities, edges |-> edges]
    BY Zenon DEF CodeIndex!MergeIndexed, NamesOf
  <2>2. From(edges, entities)
    BY DEF From
  <2>3. Well(file, merged)
    <3> DEFINE Value(e) == \E o \in Same(e) : o.default
    <3>1. ASSUME NEW e \in primary.entities
          PROVE  LET new == [e EXCEPT !.default = Value(e)]
                 IN  new.path = file.path /\ new.lines \in Lines /\ Listed(new)
      <4> DEFINE value == Value(e)
      <4>1. e.path = file.path /\ e.lines \in Lines /\ Listed(e)
        BY <1>2 DEF Well
      <4> HIDE DEF value
      <4>2. LET new == [e EXCEPT !.default = value]
            IN  new.path = e.path /\ new.name = e.name /\ new.lines = e.lines /\ Listed(new)
        BY <4>1, DefaultTells
      <4>3. LET new == [e EXCEPT !.default = value]
            IN  new.path = file.path /\ new.lines \in Lines /\ Listed(new)
        BY <4>1, <4>2
      <4> QED BY Zenon, <4>3 DEF value
    <3> DEFINE New(e) == [e EXCEPT !.default = Value(e)]
    <3>2. merged = { New(e) : e \in primary.entities }
      OBVIOUS
    <3>3. \A e \in primary.entities : New(e).path = file.path /\ New(e).lines \in Lines /\ Listed(New(e))
      BY Zenon, <3>1
    <3> HIDE DEF New, merged
    <3> QED BY <3>2, <3>3 DEF Well
  <2> HIDE DEF merged
  <2>4. Well(file, entities)
    BY <1>1, <2>3 DEF Well
  <2> HIDE DEF entities, edges, all
  <2>5. all.entities = entities /\ all.edges = edges
    BY <2>1
  <2> QED BY <2>2, <2>4, <2>5
<1> QED BY <1>1, <1>3 DEF CodeIndex!IndexFile, own, primary, all

\* A link is of the change it was made for, to something that is there.
LEMMA LinksTell ==
    ASSUME NEW db, NEW change
    PROVE  /\ \A l \in CodeIndex!LinkByLines(db, change) :
                l.change = change /\ l.by = "line_range" /\ l.entity \in db.entities
           /\ \A l \in CodeIndex!LinkByPath(db, change) :
                l.change = change /\ l.by = "file_path" /\ l.entity \in db.entities
<1>1. \A e, by : LET l == CodeIndex!Link(change, e, by)
                 IN  l.change = change /\ l.entity = e /\ l.by = by
  BY DEF CodeIndex!Link
<1>2. \A l \in CodeIndex!LinkByLines(db, change) :
        \E e \in db.entities : l = CodeIndex!Link(change, e, "line_range")
  BY DEF CodeIndex!LinkByLines
<1>3. \A l \in CodeIndex!LinkByPath(db, change) :
        \E e \in db.entities : l = CodeIndex!Link(change, e, "file_path")
  <2>1. CASE \E l \in db.links : l.change = change /\ l.by = "line_range"
    BY <2>1 DEF CodeIndex!LinkByPath
  <2>2. CASE ~ \E l \in db.links : l.change = change /\ l.by = "line_range"
    BY <2>2 DEF CodeIndex!LinkByPath
  <2> QED BY <2>1, <2>2
<1> QED BY <1>1, <1>2, <1>3

\* A graph of these files, and of these changes at most.
GraphOf(db, files, changes) ==
    /\ Graph(db)
    /\ \A e \in db.entities : \E f \in files : e \in CodeIndex!IndexFile(f).entities
    /\ \A l \in db.links : l.change \in db.changes
    /\ db.changes \subseteq changes

LEMMA LinkingKeeps ==
    ASSUME NEW db, NEW files, NEW all, NEW changes, GraphOf(db, files, all), changes \subseteq db.changes
    PROVE  GraphOf(CodeIndex!LinkChanges(db, changes), files, all)
<1> DEFINE new == CodeIndex!LinkChanges(db, changes)
           once == Once(db, changes)
<1>1. Graph(db)
  BY DEF GraphOf
<1>2. /\ Graph(new) /\ new.entities = db.entities /\ new.edges = db.edges
      /\ new.changes = db.changes
      /\ new.links = once.links \cup UNION { CodeIndex!LinkByPath(once, c) : c \in changes }
      /\ Graph(once) /\ once.entities = db.entities
      /\ once.links = KeptLinks(db, changes) \cup Lined(db, changes)
  BY <1>1, LinkingLinks
<1> HIDE DEF new, once
<1>3. \A l \in KeptLinks(db, changes) : l.change \in db.changes
  BY DEF KeptLinks, GraphOf
<1>4. \A l \in Lined(db, changes) : l.change \in db.changes
  BY LinksTell DEF Lined
<1>5. \A c \in changes : \A l \in CodeIndex!LinkByPath(once, c) : l.change \in db.changes
  BY LinksTell
<1>6. \A l \in new.links : l.change \in db.changes
  BY <1>2, <1>3, <1>4, <1>5
<1>7. GraphOf(new, files, all)
  BY <1>2, <1>6 DEF GraphOf
<1> QED BY <1>7 DEF new

LEMMA StoringKeeps ==
    ASSUME NEW db, NEW files, NEW all, NEW changes, GraphOf(db, all, changes), files \subseteq all
    PROVE  GraphOf(CodeIndex!StoreIndex(db, files), all, changes)
<1> DEFINE stored == Stored(db, files)
<1>1. GraphOf(stored, all, changes)
  <2>1. Graph(stored)
    BY StoringLinks
  <2>2. stored.entities = Everything(db, files) /\ stored.changes = db.changes
    BY StoredIs
  <2>3. \A l \in stored.links : l \in db.links
    BY StoredIs
  <2> HIDE DEF stored
  <2>4. \A e \in Everything(db, files) : \E f \in all : e \in CodeIndex!IndexFile(f).entities
    BY DEF Everything, Elsewhere, Indexed, GraphOf
  <2> QED BY <2>1, <2>2, <2>3, <2>4 DEF GraphOf
<1>2. Touching(db, files) \subseteq stored.changes
  BY StoredIs DEF Touching
<1>3. CodeIndex!StoreIndex(db, files) = CodeIndex!LinkChanges(stored, Touching(db, files))
  BY StoringLinks
<1> HIDE DEF stored
<1> QED BY <1>1, <1>2, <1>3, LinkingKeeps

LEMMA RecordingKeeps ==
    ASSUME NEW db, NEW files, NEW changes, NEW change \in changes, GraphOf(db, files, changes)
    PROVE  GraphOf(CodeIndex!RecordChangeset(db, change), files, changes)
<1> DEFINE more == db.changes \cup {change}
           new == [db EXCEPT !.changes = more]
<1>1. CodeIndex!RecordChangeset(db, change) = CodeIndex!LinkChanges(new, {change})
  BY Zenon DEF CodeIndex!RecordChangeset
<1> HIDE DEF more
<1>2. new = [entities |-> db.entities, edges |-> db.edges, changes |-> more, links |-> db.links]
  BY WithChanges DEF GraphOf
<1> HIDE DEF new
<1>3. Graph(new) /\ new.entities = db.entities /\ new.changes = more /\ new.links = db.links
  BY <1>2 DEF Graph
<1>4. GraphOf(new, files, changes)
  BY <1>3 DEF GraphOf, more
<1>5. {change} \subseteq new.changes
  BY <1>3 DEF more
<1> QED BY <1>1, <1>4, <1>5, LinkingKeeps

LEMMA ReferringKeeps ==
    ASSUME NEW db, NEW files, NEW changes, NEW references, NEW replace, GraphOf(db, files, changes)
    PROVE  GraphOf(CodeIndex!StoreReferences(db, references, replace), files, changes)
<1>1. PICK edges : CodeIndex!StoreReferences(db, references, replace) = [db EXCEPT !.edges = edges]
  BY Zenon DEF CodeIndex!StoreReferences
<1> DEFINE new == [db EXCEPT !.edges = edges]
<1>2. new = [entities |-> db.entities, edges |-> edges, changes |-> db.changes, links |-> db.links]
  BY WithEdges DEF GraphOf
<1> HIDE DEF new
<1>3. Graph(new) /\ new.entities = db.entities /\ new.changes = db.changes /\ new.links = db.links
  BY <1>2 DEF Graph
<1>4. GraphOf(new, files, changes)
  BY <1>3 DEF GraphOf
<1> QED BY <1>1, <1>4 DEF new

\* A history of files that are indexed, changes recorded and references imported.
IsStep(step, Word) ==
    \/ step[1] = "index" /\ \A f \in step[2] : IsFile(f, Word)
    \/ step[1] = "record"
    \/ step[1] = "refer"
FilesIn(history) == UNION { history[n][2] : n \in { n \in DOMAIN history : history[n][1] = "index" } }
ChangesIn(history) == { history[n][2] : n \in { n \in DOMAIN history : history[n][1] = "record" } }

LEMMA StepKeeps ==
    ASSUME NEW Word, NEW db, NEW step, NEW files, NEW changes, IsStep(step, Word),
           GraphOf(db, files, changes),
           step[1] = "index" => step[2] \subseteq files,
           step[1] = "record" => step[2] \in changes
    PROVE  GraphOf(CodeIndex!Do(db, step), files, changes)
<1>1. CASE step[1] = "index"
  <2>1. CodeIndex!Do(db, step) = CodeIndex!StoreIndex(db, step[2])
    BY <1>1 DEF CodeIndex!Do
  <2> QED BY <1>1, <2>1, StoringKeeps
<1>2. CASE step[1] = "record"
  <2>1. CodeIndex!Do(db, step) = CodeIndex!RecordChangeset(db, step[2])
    BY <1>2 DEF CodeIndex!Do
  <2> QED BY <1>2, <2>1, RecordingKeeps
<1>3. CASE step[1] = "refer"
  <2>1. CodeIndex!Do(db, step) = CodeIndex!StoreReferences(db, step[2], step[3])
    BY <1>3 DEF CodeIndex!Do
  <2> QED BY <2>1, ReferringKeeps
<1> QED BY <1>1, <1>2, <1>3 DEF IsStep

LEMMA GraphsExist ==
    ASSUME NEW Step, NEW history \in Seq(Step)
    PROVE  \E db : /\ db[0] = CodeIndex!Empty
                   /\ \A n \in 1..Len(history) : db[n] = CodeIndex!Do(db[n - 1], history[n])
                   /\ CodeIndex!After(history) = db[Len(history)]
<1> DEFINE N == Len(history)
           And(was, k) == CodeIndex!Do(was, history[k])
           Goes(f, n) == f = [k \in 0..n |-> IF k = 0 THEN CodeIndex!Empty ELSE And(f[k - 1], k)]
           P == { n \in Nat : \E f : Goes(f, n) }
<1>1. N \in Nat
  OBVIOUS
<1> HIDE DEF And
<1>2. 0 \in P
  <2> DEFINE f == [k \in 0..0 |-> CodeIndex!Empty]
  <2>1. \A k \in 0..0 : k = 0
    OBVIOUS
  <2>2. Goes(f, 0)
    BY <2>1
  <2> HIDE DEF f
  <2> QED BY <2>2
<1>3. ASSUME NEW n \in P PROVE n + 1 \in P
  <2>1. PICK f : Goes(f, n)
    OBVIOUS
  <2> DEFINE g == [k \in 0..(n + 1) |-> IF k = n + 1 THEN And(f[n], k) ELSE f[k]]
  <2>2. ASSUME NEW k \in 0..(n + 1) PROVE g[k] = IF k = 0 THEN CodeIndex!Empty ELSE And(g[k - 1], k)
    <3>1. n \in Nat /\ k \in Nat
      OBVIOUS
    <3>2. k # 0 => k - 1 \in 0..(n + 1) /\ k - 1 # n + 1
      BY <3>1
    <3>3. k # 0 => g[k - 1] = f[k - 1]
      BY <3>2
    <3>4. k = n + 1 => g[k] = And(f[n], k) /\ k # 0 /\ k - 1 = n
      BY <3>1
    <3>5. k # n + 1 => k \in 0..n
      BY <3>1
    <3>6. k # n + 1 => f[k] = IF k = 0 THEN CodeIndex!Empty ELSE And(f[k - 1], k)
      BY <2>1, <3>5
    <3>7. k # n + 1 => g[k] = f[k]
      BY <3>1
    <3> HIDE DEF g
    <3> QED BY <3>3, <3>4, <3>6, <3>7
  <2>3. g = [k \in 0..(n + 1) |-> g[k]]
    OBVIOUS
  <2> HIDE DEF g
  <2>4. Goes(g, n + 1)
    BY <2>2, <2>3
  <2> HIDE DEF Goes
  <2> QED BY <2>4
<1>4. P = Nat
  <2>1. P \in SUBSET Nat
    OBVIOUS
  <2> HIDE DEF P
  <2> QED BY <1>2, <1>3, <2>1, Counting
<1> DEFINE db == CHOOSE f : Goes(f, N)
<1>5. CodeIndex!After(history) = db[N]
  BY DEF CodeIndex!After, And
<1>6. Goes(db, N)
  BY <1>1, <1>4
<1> HIDE DEF db
<1>7. \A k \in 0..N : db[k] = IF k = 0 THEN CodeIndex!Empty ELSE And(db[k - 1], k)
  BY <1>6
<1>8. 0 \in 0..N /\ \A n \in 1..N : n \in 0..N /\ n # 0
  BY <1>1
<1>9. db[0] = CodeIndex!Empty /\ \A n \in 1..N : db[n] = CodeIndex!Do(db[n - 1], history[n])
  BY <1>7, <1>8 DEF And
<1> QED BY <1>5, <1>9

LEMMA AfterOneMore ==
    ASSUME NEW Step, NEW history \in Seq(Step), NEW step \in Step
    PROVE  CodeIndex!After(Append(history, step)) = CodeIndex!Do(CodeIndex!After(history), step)
<1> DEFINE more == Append(history, step)
           N == Len(history)
<1>1. more \in Seq(Step) /\ N \in Nat /\ Len(more) = N + 1 /\ more[N + 1] = step
      /\ \A n \in 1..N : more[n] = history[n]
  OBVIOUS
<1> HIDE DEF more
<1>2. PICK f : /\ f[0] = CodeIndex!Empty
               /\ \A n \in 1..Len(history) : f[n] = CodeIndex!Do(f[n - 1], history[n])
               /\ CodeIndex!After(history) = f[Len(history)]
  BY GraphsExist
<1>3. PICK g : /\ g[0] = CodeIndex!Empty
               /\ \A n \in 1..Len(more) : g[n] = CodeIndex!Do(g[n - 1], more[n])
               /\ CodeIndex!After(more) = g[Len(more)]
  BY <1>1, GraphsExist
<1> DEFINE P == { n \in Nat : n <= N => g[n] = f[n] }
<1>4. 0 \in P
  BY <1>2, <1>3
<1>5. ASSUME NEW n \in P PROVE n + 1 \in P
  <2> SUFFICES ASSUME n + 1 <= N PROVE g[n + 1] = f[n + 1]
    OBVIOUS
  <2>1. n \in Nat /\ g[n] = f[n] /\ n + 1 \in 1..Len(history) /\ n + 1 \in 1..Len(more) /\ (n + 1) - 1 = n
    BY <1>1
  <2>2. g[n + 1] = CodeIndex!Do(g[n], more[n + 1]) /\ f[n + 1] = CodeIndex!Do(f[n], history[n + 1])
    BY <1>2, <1>3, <2>1
  <2>3. more[n + 1] = history[n + 1]
    BY <1>1, <2>1
  <2> QED BY <2>1, <2>2, <2>3
<1>6. P = Nat
  <2>1. P \in SUBSET Nat
    OBVIOUS
  <2> HIDE DEF P
  <2> QED BY <1>4, <1>5, <2>1, Counting
<1>7. g[N] = f[N]
  BY <1>1, <1>6
<1>8. g[N + 1] = CodeIndex!Do(g[N], step)
  <2>1. N + 1 \in 1..Len(more) /\ (N + 1) - 1 = N
    BY <1>1
  <2> QED BY <1>1, <1>3, <2>1
<1> QED BY <1>1, <1>2, <1>3, <1>7, <1>8 DEF more

IsHistory(history, Word) ==
    (\E Step : history \in Seq(Step)) /\ \A n \in DOMAIN history : IsStep(history[n], Word)

LEMMA GraphAfter ==
    ASSUME NEW Word, NEW history, IsHistory(history, Word)
    PROVE  GraphOf(CodeIndex!After(history), FilesIn(history), ChangesIn(history))
<1> DEFINE N == Len(history)
           Good(db) == GraphOf(db, FilesIn(history), ChangesIn(history))
<1>1. PICK Step : history \in Seq(Step)
  BY DEF IsHistory
<1>2. N \in Nat /\ DOMAIN history = 1..N
  BY <1>1
<1>3. PICK f : /\ f[0] = CodeIndex!Empty
               /\ \A n \in 1..Len(history) : f[n] = CodeIndex!Do(f[n - 1], history[n])
               /\ CodeIndex!After(history) = f[Len(history)]
  BY <1>1, GraphsExist
<1>4. ASSUME NEW n \in DOMAIN history
      PROVE  /\ IsStep(history[n], Word)
             /\ history[n][1] = "index" => history[n][2] \subseteq FilesIn(history)
             /\ history[n][1] = "record" => history[n][2] \in ChangesIn(history)
  BY DEF IsHistory, FilesIn, ChangesIn
<1>5. Good(f[0])
  BY <1>3 DEF CodeIndex!Empty, GraphOf, Graph
<1> DEFINE P == { n \in Nat : n <= N => Good(f[n]) }
<1> HIDE DEF Good
<1>6. 0 \in P
  BY <1>5
<1>7. ASSUME NEW n \in P PROVE n + 1 \in P
  <2> SUFFICES ASSUME n + 1 <= N PROVE Good(f[n + 1])
    OBVIOUS
  <2>1. n \in Nat /\ Good(f[n]) /\ n + 1 \in DOMAIN history /\ (n + 1) - 1 = n
    BY <1>2
  <2>2. f[n + 1] = CodeIndex!Do(f[n], history[n + 1])
    BY <1>2, <1>3, <2>1
  <2> DEFINE db == f[n]
             step == history[n + 1]
             files == FilesIn(history)
             changes == ChangesIn(history)
  <2>3. /\ IsStep(step, Word) /\ GraphOf(db, files, changes)
        /\ step[1] = "index" => step[2] \subseteq files
        /\ step[1] = "record" => step[2] \in changes
    BY <1>4, <2>1 DEF Good
  <2> HIDE DEF db, step, files, changes
  <2>4. GraphOf(CodeIndex!Do(db, step), files, changes)
    BY <2>3, StepKeeps
  <2> QED BY Zenon, <2>2, <2>4 DEF Good, db, step, files, changes
<1>8. P = Nat
  <2>1. P \in SUBSET Nat
    OBVIOUS
  <2> HIDE DEF P
  <2> QED BY <1>6, <1>7, <2>1, Counting
<1>9. Good(f[N])
  BY <1>2, <1>8
<1> QED BY <1>3, <1>9 DEF Good

\* What is in the graph of a history is in its lines and of its files.
LEMMA EntitiesAre ==
    ASSUME NEW Word, NEW db, NEW files, NEW changes, GraphOf(db, files, changes),
           \A f \in files : IsFile(f, Word), NEW e \in db.entities
    PROVE  e.path \in Seq(Word) /\ e.lines \in Lines
<1>1. PICK f \in files : e \in CodeIndex!IndexFile(f).entities
  BY DEF GraphOf
<1>2. Well(f, CodeIndex!IndexFile(f).entities) /\ f.path \in Seq(Word)
  BY FileTells DEF IsFile
<1> QED BY <1>1, <1>2 DEF Well

\* Files of which none has the place of another.
Apart(files) == \A f, g \in files : f.path = g.path => f = g

\* What an entity may be named like, and what has no rival.
Sources(entities, name) == { e \in entities : e.name = name }
NewOf(indexed) == UNION { y.entities : y \in indexed }
AloneIn(entities, e) == ~ \E o \in entities : CodeIndex!Rivals(e, o)

LEMMA MeantIs ==
    ASSUME NEW new, NEW these
    PROVE  /\ CodeIndex!Meant(new, these) \subseteq these
           /\ \A e : these = {e} /\ e.lines \in Lines => CodeIndex!Meant(new, these) = {e}
<1>1. CodeIndex!Meant(new, these) \subseteq these
  BY DEF CodeIndex!Meant
<1>2. ASSUME NEW e, these = {e}, e.lines \in Lines PROVE CodeIndex!Meant(new, these) = {e}
  <2> DEFINE indexed == these \cap new
  <2>1. e.lines[1] <= e.lines[1]
    <3>1. e.lines[1] \in Int
      BY <1>2 DEF Lines
    <3> QED BY <3>1
  <2>2. CodeIndex!Meant(new, these) = IF indexed # {} THEN { d \in indexed : \A o \in indexed : o.lines[1] <= d.lines[1] }
                                      ELSE { d \in these : d = CHOOSE o \in these : TRUE }
    BY Zenon DEF CodeIndex!Meant
  <2>3. CASE indexed # {}
    <3>1. indexed = {e}
      BY <1>2, <2>3
    <3> HIDE DEF indexed
    <3> QED BY <2>1, <2>2, <3>1
  <2>4. CASE indexed = {}
    <3>1. (CHOOSE o \in these : TRUE) = e
      BY <1>2
    <3> HIDE DEF indexed
    <3>2. CodeIndex!Meant(new, these) = { d \in these : d = e }
      BY <2>2, <2>4, <3>1
    <3> QED BY <1>2, <3>2
  <2> QED BY <2>3, <2>4
<1> QED BY <1>1, <1>2

\* What has no rival is all that is meant by what it is named.
LEMMA NamedAlone ==
    ASSUME NEW entities, NEW name
    PROVE  /\ CodeIndex!Named(entities, name) \subseteq entities
           /\ \A e \in CodeIndex!Named(entities, name) :
                AloneIn(entities, e) => CodeIndex!Named(entities, name) = {e}
           /\ \A e \in Sources(entities, name) : AloneIn(entities, e) => Sources(entities, name) = {e}
<1> DEFINE direct == { e \in entities : e.name = name }
           others == { e \in entities : e.default /\ CodeIndex!DefaultName(e) = name }
<1>1. CodeIndex!Named(entities, name) = IF direct # {} THEN direct ELSE others
  BY Zenon DEF CodeIndex!Named
<1>2. ASSUME NEW e \in direct, AloneIn(entities, e) PROVE direct = {e}
  <2>1. \A o \in direct : o = e
    BY <1>2 DEF AloneIn, CodeIndex!Rivals
  <2> QED BY <2>1
<1>3. ASSUME NEW e \in others, AloneIn(entities, e) PROVE others = {e}
  <2>1. \A o \in others : o = e
    BY <1>3 DEF AloneIn, CodeIndex!Rivals
  <2> QED BY <2>1
<1>4. direct \subseteq entities /\ others \subseteq entities /\ direct = Sources(entities, name)
  BY DEF Sources
<1> HIDE DEF direct, others
<1> QED BY <1>1, <1>2, <1>3, <1>4

LEMMA ResolvedIs ==
    ASSUME NEW entities, NEW new, NEW name, NEW t
    PROVE  t \in CodeIndex!Resolve(entities, new, name)
           <=> \E n \in CodeIndex!LastName(entities, name) :
                 t \in CodeIndex!Meant(new, CodeIndex!Named(entities, n))
  BY DEF CodeIndex!Resolve

\* The edges a store makes: from what the name they start at means, to what they
\* lead to.
LEMMA EdgesAre ==
    ASSUME NEW entities, NEW indexed, NEW x
    PROVE  x \in CodeIndex!EdgesAmong(entities, indexed)
           <=> \E y \in indexed : \E z \in y.edges :
                 \E s \in CodeIndex!Meant(NewOf(indexed), Sources(entities, z[1])),
                    t \in CodeIndex!Resolve(entities, NewOf(indexed), z[2]) : x = << s, t, z[3] >>
<1> DEFINE new == NewOf(indexed)
           Of(z) == { << s, t, z[3] >> : s \in CodeIndex!Meant(new, Sources(entities, z[1])),
                                         t \in CodeIndex!Resolve(entities, new, z[2]) }
           all == UNION { y.edges : y \in indexed }
<1>1. CodeIndex!EdgesAmong(entities, indexed) = UNION { Of(z) : z \in all }
  BY DEF CodeIndex!EdgesAmong, NewOf, Sources
<1>2. \A z : x \in Of(z) <=> \E s \in CodeIndex!Meant(new, Sources(entities, z[1])),
                                t \in CodeIndex!Resolve(entities, new, z[2]) : x = << s, t, z[3] >>
  OBVIOUS
<1>3. x \in UNION { Of(z) : z \in all } <=> \E y \in indexed : \E z \in y.edges : x \in Of(z)
  <2> HIDE DEF Of
  <2> QED OBVIOUS
<1> HIDE DEF Of, new, all
<1>4. x \in CodeIndex!EdgesAmong(entities, indexed) <=> \E y \in indexed : \E z \in y.edges : x \in Of(z)
  BY <1>1, <1>3
<1> QED BY Zenon, <1>2, <1>4 DEF new

LEMMA StoreTells ==
    ASSUME NEW db, NEW files
    PROVE  LET new == CodeIndex!StoreIndex(db, files)
           IN  /\ new.entities = Everything(db, files)
               /\ new.edges = { x \in db.edges : {x[1], x[2]} \subseteq Elsewhere(db, files) }
                              \cup CodeIndex!EdgesAmong(Everything(db, files), Indexed(files))
               /\ \A x \in new.edges : x[1] \in new.entities /\ x[2] \in new.entities
               /\ \A l \in new.links : l.entity \in new.entities
<1> DEFINE new == CodeIndex!StoreIndex(db, files)
           stored == Stored(db, files)
           changes == Touching(db, files)
           once == Once(stored, changes)
           all == Everything(db, files)
           kept == { x \in db.edges : {x[1], x[2]} \subseteq Elsewhere(db, files) }
           made == CodeIndex!EdgesAmong(all, Indexed(files))
<1>1. Graph(stored) /\ new = CodeIndex!LinkChanges(stored, changes)
  BY StoringLinks
<1>2. /\ stored.entities = all /\ stored.edges = kept \cup made
      /\ stored.links = { l \in db.links : l.entity \in Elsewhere(db, files) }
  BY StoredIs
<1> HIDE DEF stored, changes, new
<1>3. /\ new.entities = stored.entities /\ new.edges = stored.edges
      /\ new.links = once.links \cup UNION { CodeIndex!LinkByPath(once, c) : c \in changes }
      /\ once.entities = stored.entities
      /\ once.links = KeptLinks(stored, changes) \cup Lined(stored, changes)
  BY <1>1, LinkingLinks
<1> HIDE DEF once
<1>4. Elsewhere(db, files) \subseteq all
  BY DEF Everything
<1> HIDE DEF all
<1>5. \A l \in KeptLinks(stored, changes) : l.entity \in all
  BY <1>2, <1>4 DEF KeptLinks
<1>6. \A l \in Lined(stored, changes) : l.entity \in all
  BY <1>2, LinksTell DEF Lined
<1>7. \A c \in changes : \A l \in CodeIndex!LinkByPath(once, c) : l.entity \in all
  BY <1>2, <1>3, LinksTell
<1>8. \A l \in new.links : l.entity \in all
  BY <1>3, <1>5, <1>6, <1>7
<1>9. \A x \in kept : x[1] \in all /\ x[2] \in all
  BY <1>4
<1>10. ASSUME NEW x \in made PROVE x[1] \in all /\ x[2] \in all
  <2> DEFINE these == NewOf(Indexed(files))
  <2>1. PICK y \in Indexed(files) : \E z \in y.edges :
          \E s \in CodeIndex!Meant(these, Sources(all, z[1])),
             t \in CodeIndex!Resolve(all, these, z[2]) : x = << s, t, z[3] >>
    BY EdgesAre
  <2>2. PICK z \in y.edges : \E s \in CodeIndex!Meant(these, Sources(all, z[1])),
             t \in CodeIndex!Resolve(all, these, z[2]) : x = << s, t, z[3] >>
    BY <2>1
  <2> HIDE DEF these
  <2>3. PICK s \in CodeIndex!Meant(these, Sources(all, z[1])),
             t \in CodeIndex!Resolve(all, these, z[2]) : x = << s, t, z[3] >>
    BY <2>2
  <2>4. s \in all
    <3>1. s \in Sources(all, z[1])
      BY MeantIs
    <3> QED BY <3>1 DEF Sources
  <2>5. PICK n \in CodeIndex!LastName(all, z[2]) : t \in CodeIndex!Meant(these, CodeIndex!Named(all, n))
    BY ResolvedIs
  <2>6. t \in all
    BY <2>5, MeantIs, NamedAlone
  <2> QED BY <2>3, <2>4, <2>6
<1> HIDE DEF kept, made
<1>11. new.entities = all /\ new.edges = kept \cup made
  BY <1>2, <1>3
<1>12. \A x \in new.edges : x[1] \in new.entities /\ x[2] \in new.entities
  BY <1>9, <1>10, <1>11
<1>13. \A l \in new.links : l.entity \in new.entities
  BY <1>8, <1>11
<1> QED BY Zenon, <1>11, <1>12, <1>13 DEF new, all, kept, made

\* An edge between what has no rivals is made whatever else is indexed with it.
LEMMA MadeAnyhow ==
    ASSUME NEW entities, \A e \in entities : e.lines \in Lines, NEW new, NEW other, NEW y \in other,
           NEW z \in y.edges,
           NEW s \in CodeIndex!Meant(new, Sources(entities, z[1])), AloneIn(entities, s),
           NEW t \in CodeIndex!Resolve(entities, new, z[2]), AloneIn(entities, t)
    PROVE  << s, t, z[3] >> \in CodeIndex!EdgesAmong(entities, other)
<1> DEFINE these == NewOf(other)
<1>1. s \in Sources(entities, z[1])
  BY MeantIs
<1>2. Sources(entities, z[1]) = {s} /\ s.lines \in Lines
  BY <1>1, NamedAlone DEF Sources
<1>3. s \in CodeIndex!Meant(these, Sources(entities, z[1]))
  BY <1>2, MeantIs
<1>4. PICK n \in CodeIndex!LastName(entities, z[2]) : t \in CodeIndex!Meant(new, CodeIndex!Named(entities, n))
  BY ResolvedIs
<1>5. t \in CodeIndex!Named(entities, n)
  BY <1>4, MeantIs
<1>6. CodeIndex!Named(entities, n) = {t} /\ t.lines \in Lines
  BY <1>5, NamedAlone
<1>7. t \in CodeIndex!Meant(these, CodeIndex!Named(entities, n))
  BY <1>6, MeantIs
<1>8. t \in CodeIndex!Resolve(entities, these, z[2])
  BY <1>4, <1>7, ResolvedIs
<1> QED BY <1>3, <1>8, EdgesAre

\* Edges that start at certain entities and have no rivals at their ends, references
\* excepted.
Out(edges, own, entities) ==
    { x \in edges : x[1] \in own /\ x[3] # "references" /\ AloneIn(entities, x[1]) /\ AloneIn(entities, x[2]) }

\* Of the edges made among the definitions of several files, those that start in one of
\* them are made by it.
LEMMA OutOfOne ==
    ASSUME NEW Word, NEW files, \A f \in files : IsFile(f, Word), Apart(files), NEW last \in files
    PROVE  LET own == CodeIndex!IndexFile(last).entities
               all == UNION { CodeIndex!IndexFile(f).entities : f \in files }
           IN  Out(CodeIndex!EdgesAmong(all, Indexed(files)), own, all)
               = Out(CodeIndex!EdgesAmong(all, Indexed({last})), own, all)
<1> DEFINE mine == CodeIndex!IndexFile(last)
           own == mine.entities
           all == UNION { CodeIndex!IndexFile(f).entities : f \in files }
           made == CodeIndex!EdgesAmong(all, Indexed(files))
           few == CodeIndex!EdgesAmong(all, Indexed({last}))
<1>1. Indexed({last}) = {mine} /\ mine \in Indexed(files)
  BY DEF Indexed
<1>2. \A e \in all : e.lines \in Lines
  <2>1. \A f \in files : Well(f, CodeIndex!IndexFile(f).entities)
    BY FileTells
  <2> QED BY <2>1 DEF Well
<1>3. \A f \in files : CodeIndex!IndexFile(f).entities \subseteq all
  OBVIOUS
<1> HIDE DEF all
<1>4. ASSUME NEW indexed, indexed \subseteq Indexed(files), NEW other, mine \in other,
             NEW x \in CodeIndex!EdgesAmong(all, indexed), x[1] \in own, AloneIn(all, x[1]), AloneIn(all, x[2])
      PROVE  x \in CodeIndex!EdgesAmong(all, other)
  <2> DEFINE new == NewOf(indexed)
  <2>1. PICK y \in indexed : \E z \in y.edges :
          \E s \in CodeIndex!Meant(new, Sources(all, z[1])),
             t \in CodeIndex!Resolve(all, new, z[2]) : x = << s, t, z[3] >>
    BY EdgesAre
  <2>2. PICK z \in y.edges : \E s \in CodeIndex!Meant(new, Sources(all, z[1])),
             t \in CodeIndex!Resolve(all, new, z[2]) : x = << s, t, z[3] >>
    BY <2>1
  <2> HIDE DEF new
  <2>3. PICK s \in CodeIndex!Meant(new, Sources(all, z[1])),
             t \in CodeIndex!Resolve(all, new, z[2]) : x = << s, t, z[3] >>
    BY <2>2
  <2>4. x[1] = s /\ x[2] = t
    BY <2>3
  <2>5. PICK f \in files : y = CodeIndex!IndexFile(f)
    BY <1>4, <2>1 DEF Indexed
  <2>6. PICK e \in y.entities : e.name = z[1]
    BY <2>2, <2>5, FileTells DEF From, NamesOf
  <2>7. s \in Sources(all, z[1])
    BY MeantIs
  <2>8. Sources(all, z[1]) = {s} /\ e \in Sources(all, z[1])
    <3>1. e \in all
      BY <1>3, <2>5, <2>6
    <3> QED BY <1>4, <2>4, <2>6, <2>7, <3>1, NamedAlone DEF Sources
  <2>9. s.path = f.path /\ s.path = last.path
    <3>1. Well(f, CodeIndex!IndexFile(f).entities) /\ Well(last, own)
      BY FileTells
    <3>2. s \in CodeIndex!IndexFile(f).entities /\ s \in own
      BY <1>4, <2>4, <2>5, <2>6, <2>8
    <3> QED BY <3>1, <3>2 DEF Well
  <2>10. y = mine
    BY <2>5, <2>9 DEF Apart
  <2> QED BY <1>2, <1>4, <2>2, <2>3, <2>4, <2>10, MadeAnyhow
<1>5. \A x \in made : x[1] \in own /\ AloneIn(all, x[1]) /\ AloneIn(all, x[2]) => x \in few
  <2> HIDE DEF mine
  <2> QED BY <1>1, <1>4
<1>6. \A x \in few : x[1] \in own /\ AloneIn(all, x[1]) /\ AloneIn(all, x[2]) => x \in made
  <2> HIDE DEF mine
  <2> QED BY <1>1, <1>4
<1> HIDE DEF own, made, few
<1>7. Out(made, own, all) = Out(few, own, all)
  BY <1>5, <1>6 DEF Out
<1> QED BY Zenon, <1>7 DEF own, made, few, mine, all

\* A file indexed last, when the others are in place, has the edges it has when
\* all are indexed at once.
LEMMA IndexedLast ==
    ASSUME NEW Word, NEW files, \A f \in files : IsFile(f, Word), Apart(files), NEW last \in files, NEW db,
           LET new == CodeIndex!StoreIndex(db, {last})
               others == UNION { CodeIndex!IndexFile(f).entities : f \in files \ {last} }
           IN  /\ others \subseteq new.entities
               /\ \A e \in new.entities : \E f \in files : e \in CodeIndex!IndexFile(f).entities
    PROVE  LET own == CodeIndex!IndexFile(last).entities
               new == CodeIndex!StoreIndex(db, {last})
           IN  Out(new.edges, own, new.entities)
               = Out(CodeIndex!StoreIndex(CodeIndex!Empty, files).edges, own, new.entities)
<1> DEFINE new == CodeIndex!StoreIndex(db, {last})
           fresh == CodeIndex!StoreIndex(CodeIndex!Empty, files)
           own == CodeIndex!IndexFile(last).entities
           all == UNION { CodeIndex!IndexFile(f).entities : f \in files }
           others == UNION { CodeIndex!IndexFile(f).entities : f \in files \ {last} }
           left == Elsewhere(db, {last})
           kept == { x \in db.edges : {x[1], x[2]} \subseteq left }
<1>1. new.entities = Everything(db, {last})
      /\ new.edges = kept \cup CodeIndex!EdgesAmong(Everything(db, {last}), Indexed({last}))
  BY StoreTells
<1>2. fresh.edges = CodeIndex!EdgesAmong(all, Indexed(files))
  <2>1. fresh.edges = { x \in CodeIndex!Empty.edges : {x[1], x[2]} \subseteq Elsewhere(CodeIndex!Empty, files) }
                      \cup CodeIndex!EdgesAmong(Everything(CodeIndex!Empty, files), Indexed(files))
    BY StoreTells
  <2>2. CodeIndex!Empty.edges = {} /\ CodeIndex!Empty.entities = {}
    BY DEF CodeIndex!Empty
  <2>3. Everything(CodeIndex!Empty, files) = all
    BY <2>2 DEF Everything, Elsewhere, Indexed
  <2> QED BY <2>1, <2>2, <2>3
<1>3. new.entities = all
  <2>1. others \subseteq new.entities /\ \A e \in new.entities : e \in all
    OBVIOUS
  <2>2. CodeIndex!IndexFile(last).entities \subseteq Everything(db, {last})
    BY DEF Everything, Indexed
  <2>3. all = others \cup CodeIndex!IndexFile(last).entities
    OBVIOUS
  <2> HIDE DEF all, others, new
  <2> QED BY <1>1, <2>1, <2>2, <2>3
<1>4. ASSUME NEW x \in kept PROVE x[1] \notin own
  <2>1. x[1] \in left
    OBVIOUS
  <2>2. x[1].path # last.path
    BY <2>1 DEF Elsewhere
  <2>3. \A o \in own : o.path = last.path
    BY FileTells DEF Well
  <2> QED BY <2>2, <2>3
<1> DEFINE few == CodeIndex!EdgesAmong(all, Indexed({last}))
           made == CodeIndex!EdgesAmong(all, Indexed(files))
<1>5. new.edges = kept \cup few
  BY <1>1, <1>3
<1>6. Out(made, own, all) = Out(few, own, all)
  BY OutOfOne
<1> HIDE DEF new, fresh, own, all, kept, few, made
<1>7. Out(new.edges, own, all) = Out(few, own, all)
  BY <1>4, <1>5 DEF Out
<1>8. fresh.edges = made
  BY <1>2 DEF made
<1>9. Out(new.edges, own, new.entities) = Out(fresh.edges, own, new.entities)
  BY <1>3, <1>6, <1>7, <1>8
<1> QED BY <1>9 DEF new, fresh, own

\* Below a root, and without it.
LEMMA RootOff ==
    ASSUME NEW Word, NEW p \in Seq(Word)
    PROVE  LET full == CodeIndex!Root \o p
           IN  /\ CodeIndex!IsPrefix(CodeIndex!Root, full) /\ SubSeq(full, 2, Len(full)) = p
               /\ \A q \in Seq(Word) : CodeIndex!Root \o q = full => q = p
<1> DEFINE root == CodeIndex!Root
           full == root \o p
           All == Word \cup {root[1]}
<1>1. root \in Seq(All) /\ Len(root) = 1
  BY DEF CodeIndex!Root
<1>2. \A q \in Seq(Word) : q \in Seq(All)
  <2> TAKE q \in Seq(Word)
  <2>1. q = [n \in 1..Len(q) |-> q[n]] /\ Len(q) \in Nat /\ \A n \in 1..Len(q) : q[n] \in Word
    OBVIOUS
  <2> HIDE DEF All
  <2>2. \A n \in 1..Len(q) : q[n] \in All
    BY <2>1 DEF All
  <2> QED BY <2>1, <2>2
<1> HIDE DEF root, All
<1>3. ASSUME NEW q \in Seq(All)
      PROVE  LET r == root \o q
             IN  /\ r \in Seq(All) /\ Len(r) = 1 + Len(q) /\ r[1] = root[1]
                 /\ \A n \in 1..Len(q) : r[n + 1] = q[n]
  <2> DEFINE r == root \o q
  <2>1. Len(q) \in Nat
    OBVIOUS
  <2>2. r \in Seq(All) /\ Len(r) = 1 + Len(q)
    BY <1>1, ConcatProperties
  <2>3. r[1] = root[1]
    BY <1>1, <2>1, ConcatProperties
  <2>4. ASSUME NEW n \in 1..Len(q) PROVE r[n + 1] = q[n]
    <3>1. n + 1 \in 1..(Len(root) + Len(q)) /\ ~(n + 1 <= Len(root)) /\ (n + 1) - Len(root) = n
      BY <1>1, <2>1
    <3>2. \A i \in 1..(Len(root) + Len(q)) : r[i] = IF i <= Len(root) THEN root[i] ELSE q[i - Len(root)]
      BY Zenon, <1>1, ConcatProperties
    <3> HIDE DEF r
    <3>3. r[n + 1] = q[(n + 1) - Len(root)]
      BY <3>1, <3>2
    <3> QED BY Zenon, <3>1, <3>3
  <2> HIDE DEF r
  <2>5. \A n \in 1..Len(q) : r[n + 1] = q[n]
    BY <2>4
  <2> QED BY Zenon, <2>2, <2>3, <2>5 DEF r
<1>4. full \in Seq(All) /\ Len(full) = 1 + Len(p) /\ full[1] = root[1] /\ \A n \in 1..Len(p) : full[n + 1] = p[n]
  BY <1>2, <1>3
<1>5. p \in Seq(All) /\ Len(p) \in Nat
  BY <1>2
<1> HIDE DEF full
<1>6. SubSeq(full, 2, Len(full)) = p
  <2> DEFINE rest == SubSeq(full, 2, Len(full))
  <2>1. rest \in Seq(All) /\ Len(rest) = Len(p) /\ \A n \in 1..Len(p) : rest[n] = full[n + 1]
    BY <1>4, <1>5
  <2> HIDE DEF rest
  <2>2. \A n \in 1..Len(p) : rest[n] = p[n]
    BY <1>4, <2>1
  <2>3. rest = p
    BY <1>5, <2>1, <2>2, SeqEqual
  <2> QED BY <2>3 DEF rest
<1>7. CodeIndex!IsPrefix(root, full)
  <2> DEFINE a == SubSeq(root, 1, Len(root))
             b == SubSeq(full, 1, Len(root))
  <2>1. a \in Seq(All) /\ Len(a) = 1 /\ a[1] = root[1]
    BY <1>1
  <2>2. b \in Seq(All) /\ Len(b) = 1 /\ b[1] = root[1]
    BY <1>1, <1>4, <1>5
  <2> HIDE DEF a, b
  <2>3. a = b
    <3>1. \A n \in 1..1 : a[n] = b[n]
      BY <2>1, <2>2
    <3> QED BY <2>1, <2>2, <3>1, SeqEqual
  <2>4. Len(root) <= Len(full)
    BY <1>1, <1>4, <1>5
  <2> QED BY Zenon, <2>3, <2>4 DEF CodeIndex!IsPrefix, a, b
<1>8. ASSUME NEW q \in Seq(Word), root \o q = full PROVE q = p
  <2>1. q \in Seq(All) /\ Len(q) \in Nat
    BY <1>2
  <2>2. Len(full) = 1 + Len(q) /\ \A n \in 1..Len(q) : full[n + 1] = q[n]
    BY <1>3, <1>8, <2>1
  <2>3. Len(q) = Len(p)
    BY <1>4, <1>5, <2>1, <2>2
  <2>4. \A n \in 1..Len(q) : q[n] = p[n]
    BY <1>4, <2>2, <2>3
  <2> QED BY <1>5, <2>1, <2>3, <2>4, SeqEqual
<1> QED BY <1>6, <1>7, <1>8 DEF root, full

\* A reference as a language server gives it, and what becomes of it.
LEMMA ReferenceIs ==
    ASSUME NEW Word, NEW p \in Seq(Word), NEW reference, NEW Target,
           reference \in [target : Target, path : {CodeIndex!Root \o p}, line : Int]
    PROVE  LET r == CodeIndex!Normalize(reference)
           IN  r.target = reference.target /\ r.path = p /\ r.line = reference.line + 1
<1> DEFINE target == reference.target
           path == reference.path
           line == reference.line
           next == line + 1
           short == IF CodeIndex!IsPrefix(CodeIndex!Root, path) THEN SubSeq(path, 2, Len(path)) ELSE path
           down == [reference EXCEPT !.line = next]
           r == CodeIndex!Normalize(reference)
<1>1. reference = [target |-> target, path |-> path, line |-> line] /\ path = CodeIndex!Root \o p
  OBVIOUS
<1>2. short = p
  BY <1>1, RootOff
<1>3. r = [reference EXCEPT !.line = @ + 1,
                            !.path = IF CodeIndex!IsPrefix(CodeIndex!Root, @) THEN SubSeq(@, 2, Len(@)) ELSE @]
  BY Zenon DEF CodeIndex!Normalize
<1> HIDE DEF target, path, line, short, next, down, r
<1>4. [[target |-> target, path |-> path, line |-> line] EXCEPT !.line = next]
      = [target |-> target, path |-> path, line |-> next]
  OBVIOUS
<1>5. down = [target |-> target, path |-> path, line |-> next]
  BY Zenon, <1>1, <1>4 DEF down
<1>6. down.path = path
  BY <1>5
<1>7. r = [down EXCEPT !.path = short]
  BY Zenon, <1>3, <1>6 DEF down, next, line, short, path
<1>8. r = [target |-> target, path |-> short, line |-> next]
  BY <1>5, <1>7
<1>9. r.target = target /\ r.path = short /\ r.line = next
  BY <1>8
<1> QED BY <1>2, <1>9 DEF r, target, next, line

\* What is around a line in a file has a smallest.
LEMMA EnclosingIs ==
    ASSUME NEW Word, NEW db, \A e \in db.entities : e.lines \in Lines, NEW path, NEW line \in Int,
           NEW e \in CodeIndex!Enclosing(db, path, line)
    PROVE  /\ e \in db.entities /\ e.path = path /\ CodeIndex!Spans(e, line)
           /\ \A o \in db.entities :
                o.path = path /\ CodeIndex!Spans(o, line)
                => e.lines[2] - e.lines[1] <= o.lines[2] - o.lines[1]
<1> DEFINE around == { o \in db.entities : o.path = path /\ CodeIndex!Spans(o, line) }
           Size(o) == o.lines[2] - o.lines[1]
           Least(o) == \A u \in around : Size(o) <= Size(u)
           sizes == { Size(o) : o \in around }
<1>1. around # {} /\ e = CHOOSE o \in around : Least(o)
  BY DEF CodeIndex!Enclosing
<1>2. \A o \in around : Size(o) \in Nat
  BY DEF Lines
<1>3. sizes \in SUBSET Nat /\ sizes # {}
  <2> HIDE DEF around, Size
  <2> QED BY <1>1, <1>2
<1>4. Min(sizes) \in sizes /\ \A s \in sizes : Min(sizes) <= s
  BY <1>3, MinOf
<1>5. \E o \in around : Least(o)
  <2> HIDE DEF around, Size
  <2>1. PICK o \in around : Min(sizes) = Size(o)
    BY <1>4
  <2> QED BY <1>4, <2>1
<1>6. e \in around /\ Least(e)
  <2> HIDE DEF around, Least
  <2> QED BY <1>1, <1>5
<1> QED BY <1>6

\* It is a definition around the line of a reference, and no smaller one in it is.
Innermost(entities, reference, e) ==
    LET Around(o) == CodeIndex!Root \o o.path = reference.path
                     /\ CodeIndex!Spans(o, reference.line + 1)
        Holds(o, u) == o.lines[1] <= u.lines[1] /\ u.lines[2] <= o.lines[2]
    IN  /\ e \in entities /\ Around(e)
        /\ \A o \in entities : Around(o) /\ Holds(e, o) => o.lines = e.lines

LEMMA ReferenceStarts ==
    ASSUME NEW db, NEW r, NEW x, x \in CodeIndex!ReferenceEdges(db, r)
    PROVE  x[1] \in CodeIndex!Enclosing(db, r.path, r.line)
<1> DEFINE around == CodeIndex!Enclosing(db, r.path, r.line)
           these == { o \in db.entities : o.name = r.target }
           targets == CodeIndex!Meant({}, these)
           kind == "references"
           edges == { << e, t, kind >> : e \in around, t \in targets }
<1>1. CodeIndex!ReferenceEdges(db, r) = edges
  BY DEF CodeIndex!ReferenceEdges
<1> HIDE DEF around, targets, kind
<1>2. \A y \in edges : y[1] \in around
  OBVIOUS
<1> HIDE DEF edges
<1>3. x[1] \in around
  BY <1>1, <1>2
<1> QED BY <1>3 DEF around

\* A reference comes from a definition around its line in which no other around
\* it is contained.
LEMMA ReferredFrom ==
    ASSUME NEW Word, NEW db, Graph(db), \A e \in db.entities : e.path \in Seq(Word) /\ e.lines \in Lines,
           NEW p \in Seq(Word), NEW Target, NEW reference,
           reference \in [target : Target, path : {CodeIndex!Root \o p}, line : Int],
           NEW x, x \in CodeIndex!StoreReferences(db, {reference}, TRUE).edges, x[3] = "references"
    PROVE  Innermost(db.entities, reference, x[1])
<1> DEFINE line == reference.line + 1
           r == CodeIndex!Normalize(reference)
           kept == { y \in db.edges : ~(TRUE /\ y[3] = "references") }
           edges == kept \cup UNION { CodeIndex!ReferenceEdges(db, CodeIndex!Normalize(s)) : s \in {reference} }
           new == [db EXCEPT !.edges = edges]
<1>1. CodeIndex!StoreReferences(db, {reference}, TRUE) = new
  BY Zenon DEF CodeIndex!StoreReferences
<1>2. new.edges = edges
  <2> HIDE DEF edges, new
  <2>1. new = [entities |-> db.entities, edges |-> edges, changes |-> db.changes, links |-> db.links]
    BY WithEdges DEF new
  <2> QED BY <2>1
<1>3. x \in CodeIndex!ReferenceEdges(db, r)
  <2> HIDE DEF new
  <2>1. x \in edges
    BY <1>1, <1>2
  <2> QED BY <2>1
<1>4. r.path = p /\ r.line = line
  BY ReferenceIs
<1>5. x[1] \in CodeIndex!Enclosing(db, p, line)
  <2> HIDE DEF r, line
  <2> QED BY <1>3, <1>4, ReferenceStarts
<1>6. line \in Int /\ reference.path = CodeIndex!Root \o p
  OBVIOUS
<1> DEFINE e == x[1]
<1> HIDE DEF line, e
<1>7. /\ e \in db.entities /\ e.path = p /\ CodeIndex!Spans(e, line)
      /\ \A o \in db.entities :
           o.path = p /\ CodeIndex!Spans(o, line)
           => e.lines[2] - e.lines[1] <= o.lines[2] - o.lines[1]
  BY <1>5, <1>6, EnclosingIs DEF e
<1>8. e.lines \in Lines
  BY <1>7
<1>9. ASSUME NEW o \in db.entities, CodeIndex!Root \o o.path = reference.path, CodeIndex!Spans(o, line),
             e.lines[1] <= o.lines[1], o.lines[2] <= e.lines[2]
      PROVE  o.lines = e.lines
  <2>1. o.path = p
    BY <1>6, <1>9, RootOff
  <2>2. o.lines \in Lines
    OBVIOUS
  <2>3. e.lines[2] - e.lines[1] <= o.lines[2] - o.lines[1]
    BY <1>7, <1>9, <2>1
  <2>4. PICK a \in Int, b \in Int : e.lines = << a, b >>
    BY <1>8 DEF Lines
  <2>5. PICK c \in Int, d \in Int : o.lines = << c, d >>
    BY <2>2 DEF Lines
  <2>6. b - a <= d - c /\ a <= c /\ d <= b
    BY <1>9, <2>3, <2>4, <2>5
  <2>7. a = c /\ b = d
    BY <2>6
  <2> QED BY <2>4, <2>5, <2>7
<1>10. Innermost(db.entities, reference, e)
  BY <1>6, <1>7, <1>9 DEF line, Innermost
<1> QED BY <1>10 DEF e

LEMMA IndexTells ==
    ASSUME NEW Word, NEW history, IsHistory(history, Word),
           NEW files, \A f \in files : IsFile(f, Word), Apart(files), NEW last \in files,
           NEW p \in Seq(Word), NEW Target, NEW reference,
           reference \in [target : Target, path : {CodeIndex!Root \o p}, line : Int]
    PROVE  CodeIndex!IndexIsExact(history, files, last, reference)
<1> DEFINE step == << "index", {last} >>
           was == CodeIndex!After(history)
           db == CodeIndex!After(Append(history, step))
           fresh == CodeIndex!StoreIndex(CodeIndex!Empty, files)
           others == UNION { CodeIndex!IndexFile(f).entities : f \in files \ {last} }
           own == CodeIndex!IndexFile(last).entities
           Sure(d) == Out(d.edges, own, db.entities)
           Agreed == \A e, o \in db.entities :
                       e.kind = "reexport" /\ o.kind = "reexport" /\ CodeIndex!Exported(e) = CodeIndex!Exported(o)
                         => e.target = o.target
           referred == CodeIndex!StoreReferences(db, {reference}, TRUE)
           all == FilesIn(history) \cup {last}
           changes == ChangesIn(history)
<1>1. db = CodeIndex!StoreIndex(was, {last})
  <2>1. PICK Step : history \in Seq(Step)
    BY DEF IsHistory
  <2> DEFINE Steps == Step \cup {step}
  <2>2. step \in Steps /\ step[1] = "index" /\ step[2] = {last}
    OBVIOUS
  <2>3. Step \subseteq Steps
    OBVIOUS
  <2> HIDE DEF Steps, step
  <2>4. history \in Seq(Steps)
    BY <2>1, <2>3
  <2>5. db = CodeIndex!Do(was, step)
    BY <2>2, <2>4, AfterOneMore
  <2>6. CodeIndex!Do(was, step) = CodeIndex!StoreIndex(was, step[2])
    BY <2>2 DEF CodeIndex!Do
  <2> QED BY Zenon, <2>2, <2>5, <2>6
<1>2. GraphOf(was, all, changes)
  <2>1. GraphOf(was, FilesIn(history), changes)
    BY GraphAfter
  <2> HIDE DEF was, changes
  <2> QED BY <2>1 DEF GraphOf
<1>3. \A f \in all : IsFile(f, Word)
  <2>1. \A f \in FilesIn(history) : IsFile(f, Word)
    BY DEF FilesIn, IsHistory, IsStep
  <2> QED BY <2>1
<1>4. \A f \in {last} : IsFile(f, Word)
  OBVIOUS
<1> HIDE DEF was, changes, all, step
<1>5. GraphOf(db, all, changes)
  <2>1. {last} \subseteq all
    BY DEF all
  <2> QED BY <1>1, <1>2, <2>1, StoringKeeps
<1>6. others \subseteq db.entities
      /\ (\A e \in db.entities : \E f \in files : e \in CodeIndex!IndexFile(f).entities) /\ Agreed
        => Sure(db) = Sure(fresh)
  <2> SUFFICES ASSUME others \subseteq db.entities,
                      \A e \in db.entities : \E f \in files : e \in CodeIndex!IndexFile(f).entities
               PROVE  Sure(db) = Sure(fresh)
    OBVIOUS
  <2> HIDE DEF db
  <2> QED BY <1>1, IndexedLast
<1>7. /\ \A x \in db.edges : x[1] \in db.entities /\ x[2] \in db.entities
      /\ \A l \in db.links : l.entity \in db.entities
  <2> HIDE DEF db
  <2> QED BY <1>1, StoreTells
<1>8. \A x \in { x \in referred.edges : x[3] = "references" } :
        Innermost(db.entities, reference, x[1])
  <2> TAKE x \in { x \in referred.edges : x[3] = "references" }
  <2> HIDE DEF db
  <2>1. Graph(db)
    BY <1>5 DEF GraphOf
  <2>2. \A e \in db.entities : e.path \in Seq(Word) /\ e.lines \in Lines
    BY <1>3, <1>5, EntitiesAre
  <2>3. x \in referred.edges /\ x[3] = "references"
    OBVIOUS
  <2> QED BY <2>1, <2>2, <2>3, ReferredFrom
<1> QED BY Zenon, <1>6, <1>7, <1>8 DEF CodeIndex!IndexIsExact, Out, AloneIn, Innermost, step

\* What is indexed: well-formed files, one of a path, after any history, and a
\* reference to some place below the root. Files may define one another's names.
IsIndexInput ==
    input.about = "index" =>
      \E Word, Target :
        /\ IsHistory(input.history, Word)
        /\ \A f \in input.files : IsFile(f, Word)
        /\ Apart(input.files) /\ input.last \in input.files
        /\ \E p \in Seq(Word) :
             input.reference \in [target : Target, path : {CodeIndex!Root \o p}, line : Int]

\* Files may be indexed in whatever order, with whatever changes and references recorded
\* between: nothing points at what is gone; a file that is indexed with the others in
\* place has the edges it would get with all indexed at once, those of definitions that
\* share a name or a module's default excepted (an edge may then lead to either); and a
\* reference comes from the innermost definition around it (code_graph.py).
THEOREM GraphFollowsTheFiles ==
    ASSUME IsIndexInput
    PROVE  GraphIsExact
<1> SUFFICES ASSUME input.about = "index"
             PROVE  CodeIndex!IndexIsExact(input.history, input.files, input.last, input.reference)
  BY Zenon DEF GraphIsExact
<1>1. PICK Word, Target :
        /\ IsHistory(input.history, Word)
        /\ \A f \in input.files : IsFile(f, Word)
        /\ Apart(input.files) /\ input.last \in input.files
        /\ \E p \in Seq(Word) :
             input.reference \in [target : Target, path : {CodeIndex!Root \o p}, line : Int]
  BY DEF IsIndexInput
<1>2. PICK p \in Seq(Word) : input.reference \in [target : Target, path : {CodeIndex!Root \o p}, line : Int]
  BY <1>1
<1> QED BY <1>1, <1>2, IndexTells

\* A hunk, the line of the new file an entry of it stands at, and how many lines
\* of the new file it has.
HunkOf(h) == h.new \in Nat /\ h.body \in Seq({"+", "-", " ", "++", "--", "end"})
LineAt(h, n) == h.new + CodeIndex!Cardinality({ k \in 1..(n - 1) : h.body[k] \notin {"-", "end"} })
Extent(h) == CodeIndex!Cardinality({ n \in DOMAIN h.body : h.body[n] \notin {"-", "end"} })

LEMMA LargestOf ==
    ASSUME NEW n \in Nat, NEW S \in SUBSET (0..n), S # {}
    PROVE  Max(S) \in S /\ \A x \in S : x <= Max(S)
<1> DEFINE down == { n - x : x \in S }
<1>1. down \in SUBSET Nat /\ down # {}
  <2>1. \A x \in S : n - x \in Nat
    OBVIOUS
  <2>2. \E x \in S : TRUE
    OBVIOUS
  <2> QED BY <2>1, <2>2, Zenon
<1>2. Min(down) \in down /\ \A y \in down : Min(down) <= y
  BY <1>1, MinOf
<1>3. PICK x \in S : Min(down) = n - x
  BY <1>2
<1>4. \A y \in S : y <= x
  <2> TAKE y \in S
  <2>1. n - x <= n - y
    BY <1>2, <1>3
  <2> QED BY <2>1
<1>5. \E y \in S : \A z \in S : z <= y
  BY <1>4
<1> QED BY <1>5 DEF Max

LEMMA IndexCounts == \A S : CodeIndex!Cardinality(S) = Cardinality(S)
  BY DEF CodeIndex!Cardinality, Cardinality

LEMMA HunkIs ==
    ASSUME NEW h, HunkOf(h)
    PROVE  Len(h.body) \in Nat /\ DOMAIN h.body = 1..Len(h.body) /\ h.new \in Nat
<1>1. h.new \in Nat /\ \E S : h.body \in Seq(S)
  BY Zenon DEF HunkOf
<1> QED BY <1>1

LEMMA ExtentIs ==
    ASSUME NEW h, HunkOf(h)
    PROVE  Extent(h) \in Nat
<1>1. Len(h.body) \in Nat /\ DOMAIN h.body = 1..Len(h.body)
  BY HunkIs
<1> DEFINE all == { k \in DOMAIN h.body : h.body[k] \notin {"-", "end"} }
<1>2. IsFiniteSet(DOMAIN h.body) /\ all \in SUBSET (DOMAIN h.body)
  BY <1>1, FS_Interval
<1> HIDE DEF all
<1>3. Cardinality(all) \in Nat
  BY <1>2, FS_Subset, FS_CardinalityType
<1> QED BY <1>3, IndexCounts DEF Extent, all

LEMMA LineAtIs ==
    ASSUME NEW h, HunkOf(h), NEW n \in DOMAIN h.body
    PROVE  /\ LineAt(h, n) \in Nat /\ Extent(h) \in Nat
           /\ h.new <= LineAt(h, n) /\ LineAt(h, n) <= h.new + Extent(h)
<1> DEFINE before == { k \in 1..(n - 1) : h.body[k] \notin {"-", "end"} }
           all == { k \in DOMAIN h.body : h.body[k] \notin {"-", "end"} }
<1>1. Len(h.body) \in Nat /\ DOMAIN h.body = 1..Len(h.body) /\ h.new \in Nat
  BY HunkIs
<1>2. IsFiniteSet(DOMAIN h.body)
  BY <1>1, FS_Interval
<1>3. all \in SUBSET (DOMAIN h.body) /\ before \in SUBSET all
  BY <1>1
<1> HIDE DEF before, all
<1>4. IsFiniteSet(all) /\ IsFiniteSet(before) /\ Cardinality(before) <= Cardinality(all)
  BY <1>2, <1>3, FS_Subset
<1>5. Cardinality(before) \in Nat /\ Cardinality(all) \in Nat
  BY <1>4, FS_CardinalityType
<1>6. h.new <= h.new + Cardinality(before) /\ h.new + Cardinality(before) <= h.new + Cardinality(all)
      /\ h.new + Cardinality(before) \in Nat
  BY <1>1, <1>4, <1>5
<1> QED BY <1>5, <1>6, IndexCounts DEF LineAt, Extent, before, all

\* The lines of a hunk are among its lines of the new file, and all it adds is
\* among them.
LEMMA HunkTells ==
    ASSUME NEW h, HunkOf(h)
    PROVE  \E a, b \in Nat :
             /\ CodeIndex!HunkLines(h) = << a, b >>
             /\ h.new <= a /\ a <= b /\ b <= h.new + Extent(h)
             /\ \A n \in DOMAIN h.body : h.body[n] = "+" => a <= LineAt(h, n) /\ LineAt(h, n) <= b
<1> DEFINE Some(sign) == { LineAt(h, n) : n \in { n \in DOMAIN h.body : h.body[n] = sign } }
           added == Some("+")
           gone == Some("-")
           first == h.new
           last == h.new + Extent(h)
<1>1. CodeIndex!HunkLines(h) = IF added # {} THEN << Min(added), Max(added) >>
                               ELSE IF gone # {} THEN << Min(gone), Max(gone) >>
                               ELSE << h.new, h.new >>
  <2>1. \A S : CodeIndex!Min(S) = Min(S) /\ CodeIndex!Max(S) = Max(S)
    BY DEF CodeIndex!Min, CodeIndex!Max, Min, Max
  <2>2. CodeIndex!HunkLines(h) = IF added # {} THEN << CodeIndex!Min(added), CodeIndex!Max(added) >>
                               ELSE IF gone # {} THEN << CodeIndex!Min(gone), CodeIndex!Max(gone) >>
                               ELSE << h.new, h.new >>
    BY Zenon DEF CodeIndex!HunkLines, LineAt
  <2> HIDE DEF added, gone
  <2> QED BY <2>1, <2>2
<1>2. h.new \in Nat /\ Extent(h) \in Nat
  BY HunkIs, ExtentIs
<1>3. \A sign : \A x \in Some(sign) : x \in Nat /\ first <= x /\ x <= last
  <2> TAKE sign
  <2> TAKE x \in Some(sign)
  <2>1. PICK n \in DOMAIN h.body : x = LineAt(h, n)
    OBVIOUS
  <2> QED BY <2>1, LineAtIs
<1>4. \A n \in DOMAIN h.body : h.body[n] = "+" => LineAt(h, n) \in added
  OBVIOUS
<1> HIDE DEF Some, added, gone, first, last
<1>5. first \in Nat /\ last \in Nat /\ first <= last
  BY <1>2 DEF first, last
<1>6. \A sign : Some(sign) # {} =>
        /\ Min(Some(sign)) \in Some(sign) /\ Max(Some(sign)) \in Some(sign)
        /\ \A x \in Some(sign) : Min(Some(sign)) <= x /\ x <= Max(Some(sign))
  <2> TAKE sign
  <2> SUFFICES ASSUME Some(sign) # {}
               PROVE  /\ Min(Some(sign)) \in Some(sign) /\ Max(Some(sign)) \in Some(sign)
                      /\ \A x \in Some(sign) : Min(Some(sign)) <= x /\ x <= Max(Some(sign))
    OBVIOUS
  <2> DEFINE S == Some(sign)
  <2>1. S \in SUBSET Nat /\ S \in SUBSET (0..last) /\ S # {}
    BY <1>3, <1>5
  <2> HIDE DEF S
  <2>2. Min(S) \in S /\ \A x \in S : Min(S) <= x
    BY <2>1, MinOf
  <2>3. Max(S) \in S /\ \A x \in S : x <= Max(S)
    BY <1>5, <2>1, LargestOf
  <2> QED BY Zenon, <2>2, <2>3 DEF S
<1> DEFINE Fits(a, b) == /\ CodeIndex!HunkLines(h) = << a, b >>
                         /\ first <= a /\ a <= b /\ b <= last
                         /\ \A n \in DOMAIN h.body : h.body[n] = "+" => a <= LineAt(h, n) /\ LineAt(h, n) <= b
<1>7. \E a, b \in Nat : Fits(a, b)
  <2>1. CASE added # {}
    <3> DEFINE a == Min(added)
               b == Max(added)
    <3>1. a \in added /\ b \in added /\ \A x \in added : a <= x /\ x <= b
      BY Zenon, <1>6, <2>1 DEF added
    <3>2. CodeIndex!HunkLines(h) = << a, b >>
      BY <1>1, <2>1
    <3> HIDE DEF a, b
    <3>3. a \in Nat /\ b \in Nat /\ first <= a /\ a <= b /\ b <= last
      BY <1>3, <3>1 DEF added
    <3>4. \A n \in DOMAIN h.body : h.body[n] = "+" => a <= LineAt(h, n) /\ LineAt(h, n) <= b
      BY <1>4, <3>1
    <3> QED BY Zenon, <3>2, <3>3, <3>4
  <2>2. CASE added = {} /\ gone # {}
    <3> DEFINE a == Min(gone)
               b == Max(gone)
    <3>1. a \in gone /\ b \in gone /\ \A x \in gone : a <= x /\ x <= b
      BY Zenon, <1>6, <2>2 DEF gone
    <3>2. CodeIndex!HunkLines(h) = << a, b >>
      BY <1>1, <2>2
    <3> HIDE DEF a, b
    <3>3. a \in Nat /\ b \in Nat /\ first <= a /\ a <= b /\ b <= last
      BY <1>3, <3>1 DEF gone
    <3>4. \A n \in DOMAIN h.body : h.body[n] = "+" => a <= LineAt(h, n) /\ LineAt(h, n) <= b
      BY <1>4, <2>2
    <3> QED BY Zenon, <3>2, <3>3, <3>4
  <2>3. CASE added = {} /\ gone = {}
    <3>1. CodeIndex!HunkLines(h) = << first, first >>
      BY <1>1, <2>3 DEF first
    <3>2. \A n \in DOMAIN h.body : h.body[n] = "+" => first <= LineAt(h, n) /\ LineAt(h, n) <= first
      BY <1>4, <2>3
    <3>3. first <= first
      BY <1>5
    <3> QED BY Zenon, <1>5, <3>1, <3>2, <3>3
  <2> QED BY <2>1, <2>2, <2>3
<1> QED BY Zenon, <1>7 DEF first, last

\* A place is the same as itself.
LEMMA SameAsItself ==
    ASSUME NEW Word, NEW p \in Seq(Word)
    PROVE  CodeIndex!SamePlace(p, p)
<1> DEFINE r == CodeIndex!Reverse(p)
<1>1. r \in Seq(Word)
  BY DEF CodeIndex!Reverse
<1> HIDE DEF r
<1>2. CodeIndex!IsPrefix(r, r)
  BY <1>1 DEF CodeIndex!IsPrefix
<1> QED BY <1>2 DEF CodeIndex!SamePlace, CodeIndex!IsSuffix, r

\* The links of a change, and those it gets by its path when these are there.
Mine(links, change) == { l \in links : l.change = change }
ByPath(entities, change, mine) ==
    IF \E l \in mine : l.by = "line_range" THEN {}
    ELSE { CodeIndex!Link(change, e, "file_path") : e \in { e \in entities :
             CodeIndex!SamePlace(change.path, e.path) /\ ~ \E l \in mine : l.entity = e } }

LEMMA LinkIs ==
    ASSUME NEW change, NEW e, NEW by
    PROVE  LET l == CodeIndex!Link(change, e, by)
           IN  l.change = change /\ l.entity = e /\ l.by = by
  BY DEF CodeIndex!Link

LEMMA ByPathIs ==
    ASSUME NEW db, NEW change
    PROVE  CodeIndex!LinkByPath(db, change) = ByPath(db.entities, change, Mine(db.links, change))
<1> DEFINE mine == Mine(db.links, change)
           Free(e) == CodeIndex!SamePlace(change.path, e.path)
                      /\ ~ \E l \in db.links : l.change = change /\ l.entity = e
           Still(e) == CodeIndex!SamePlace(change.path, e.path) /\ ~ \E l \in mine : l.entity = e
<1>1. (\E l \in db.links : l.change = change /\ l.by = "line_range") <=> (\E l \in mine : l.by = "line_range")
  BY DEF Mine
<1>2. \A e : Free(e) <=> Still(e)
  BY DEF Mine
<1>3. CodeIndex!LinkByPath(db, change)
      = IF \E l \in db.links : l.change = change /\ l.by = "line_range" THEN {}
        ELSE { CodeIndex!Link(change, e, "file_path") : e \in { e \in db.entities : Free(e) } }
  BY Zenon DEF CodeIndex!LinkByPath
<1>4. ByPath(db.entities, change, mine)
      = IF \E l \in mine : l.by = "line_range" THEN {}
        ELSE { CodeIndex!Link(change, e, "file_path") : e \in { e \in db.entities : Still(e) } }
  BY Zenon DEF ByPath
<1> HIDE DEF Free, Still, mine
<1>5. { e \in db.entities : Free(e) } = { e \in db.entities : Still(e) }
  BY <1>2
<1>6. CodeIndex!LinkByPath(db, change) = ByPath(db.entities, change, mine)
  BY Zenon, <1>1, <1>3, <1>4, <1>5
<1> QED BY <1>6 DEF mine

LEMMA LinedAlike ==
    ASSUME NEW db, NEW other, db.entities = other.entities, NEW change
    PROVE  CodeIndex!LinkByLines(db, change) = CodeIndex!LinkByLines(other, change)
  BY Zenon DEF CodeIndex!LinkByLines

LEMMA MyLinks ==
    ASSUME NEW db, Graph(db), NEW changes, NEW change \in changes
    PROVE  LET lined == CodeIndex!LinkByLines(db, change)
               kept == Mine(KeptLinks(db, changes), change)
           IN  Mine(CodeIndex!LinkChanges(db, changes).links, change)
               = (kept \cup lined) \cup ByPath(db.entities, change, kept \cup lined)
<1> DEFINE lined == CodeIndex!LinkByLines(db, change)
           kept == Mine(KeptLinks(db, changes), change)
           new == CodeIndex!LinkChanges(db, changes)
           once == Once(db, changes)
           By(c) == CodeIndex!LinkByPath(once, c)
<1>1. /\ new.links = once.links \cup UNION { By(c) : c \in changes }
      /\ once.entities = db.entities
      /\ once.links = KeptLinks(db, changes) \cup Lined(db, changes)
  BY LinkingLinks
<1> HIDE DEF once
<1>2. Lined(db, changes) = UNION { CodeIndex!LinkByLines(db, c) : c \in changes }
  BY DEF Lined
<1>3. \A c \in changes : /\ \A l \in CodeIndex!LinkByLines(db, c) : l.change = c
                         /\ \A l \in By(c) : l.change = c
  BY LinksTell
<1> HIDE DEF By, new
<1>4. Mine(Lined(db, changes), change) = lined
  BY <1>2, <1>3 DEF Mine
<1>5. Mine(UNION { By(c) : c \in changes }, change) = By(change)
  BY <1>3 DEF Mine
<1>6. \A x, y : Mine(x \cup y, change) = Mine(x, change) \cup Mine(y, change)
  BY DEF Mine
<1> HIDE DEF lined, kept
<1>7. Mine(once.links, change) = kept \cup lined
  BY Zenon, <1>1, <1>4, <1>6 DEF kept
<1>8. Mine(new.links, change) = (kept \cup lined) \cup By(change)
  <2> DEFINE made == UNION { By(c) : c \in changes }
  <2>1. new.links = once.links \cup made /\ Mine(made, change) = By(change)
    BY <1>1, <1>5
  <2> HIDE DEF made
  <2>2. Mine(once.links \cup made, change) = Mine(once.links, change) \cup Mine(made, change)
    BY <1>6
  <2> QED BY <1>7, <2>1, <2>2
<1>9. By(change) = ByPath(db.entities, change, kept \cup lined)
  <2>1. CodeIndex!LinkByPath(once, change) = ByPath(once.entities, change, Mine(once.links, change))
    BY ByPathIs
  <2> QED BY <1>1, <1>7, <2>1 DEF By
<1> QED BY <1>8, <1>9 DEF lined, kept, new

\* A change that is recorded gets the links of its lines, or of its path.
LEMMA RecordTells ==
    ASSUME NEW db, Graph(db), NEW change, \A l \in db.links : l.change # change
    PROVE  LET new == CodeIndex!RecordChangeset(db, change)
               lined == CodeIndex!LinkByLines(db, change)
           IN  /\ Graph(new) /\ new.entities = db.entities /\ new.changes = db.changes \cup {change}
               /\ Mine(new.links, change) = lined \cup ByPath(db.entities, change, lined)
<1> DEFINE new == CodeIndex!RecordChangeset(db, change)
           lined == CodeIndex!LinkByLines(db, change)
           more == db.changes \cup {change}
           with == [db EXCEPT !.changes = more]
           kept == Mine(KeptLinks(with, {change}), change)
<1>1. new = CodeIndex!LinkChanges(with, {change})
  BY Zenon DEF CodeIndex!RecordChangeset
<1> HIDE DEF more
<1>2. with = [entities |-> db.entities, edges |-> db.edges, changes |-> more, links |-> db.links]
  BY WithChanges
<1> HIDE DEF with, new
<1>3. Graph(with) /\ with.entities = db.entities /\ with.changes = more /\ with.links = db.links
  BY <1>2 DEF Graph
<1>4. Graph(new) /\ new.entities = db.entities /\ new.changes = more
  BY <1>1, <1>3, LinkingLinks
<1>5. kept = {}
  BY <1>3 DEF Mine, KeptLinks
<1>6. CodeIndex!LinkByLines(with, change) = lined
  BY <1>3, LinedAlike
<1> DEFINE again == CodeIndex!LinkByLines(with, change)
<1>7. change \in {change}
  OBVIOUS
<1>8. Mine(new.links, change) = (kept \cup again) \cup ByPath(with.entities, change, kept \cup again)
  BY <1>1, <1>3, <1>7, MyLinks
<1> HIDE DEF kept, again, lined
<1>9. kept \cup again = lined
  BY <1>5, <1>6 DEF again
<1>10. Mine(new.links, change) = lined \cup ByPath(db.entities, change, lined)
  BY <1>3, <1>8, <1>9
<1> QED BY <1>4, <1>10 DEF new, lined, more

\* The links of a change to what is defined in a file.
OfFile(links, change, file) ==
    { l \in links : l.change = change /\ l.entity \in CodeIndex!IndexFile(file).entities }

\* To index a file again keeps the links of a change to it.
LEMMA AgainTells ==
    ASSUME NEW file, NEW db, Graph(db), NEW change \in db.changes, change.path = file.path,
           db.entities = Elsewhere(db, {file}) \cup CodeIndex!IndexFile(file).entities,
           \A e \in CodeIndex!IndexFile(file).entities : e.path = file.path,
           LET lined == CodeIndex!LinkByLines(db, change)
           IN  Mine(db.links, change) = lined \cup ByPath(db.entities, change, lined)
    PROVE  OfFile(CodeIndex!StoreIndex(db, {file}).links, change, file) = OfFile(db.links, change, file)
<1> DEFINE own == CodeIndex!IndexFile(file).entities
           left == Elsewhere(db, {file})
           all == db.entities
           lined == CodeIndex!LinkByLines(db, change)
           stored == Stored(db, {file})
           changes == Touching(db, {file})
           again == CodeIndex!StoreIndex(db, {file})
           kept == Mine(KeptLinks(stored, changes), change)
           Own(e) == e \in own
<1>1. again = CodeIndex!LinkChanges(stored, changes) /\ Graph(stored)
  BY StoringLinks
<1>2. stored.entities = all /\ \A l \in stored.links : l \in db.links /\ l.entity \in left
  <2>1. UNION { x.entities : x \in Indexed({file}) } = own
    BY DEF Indexed
  <2>2. stored.entities = Everything(db, {file})
        /\ stored.links = { l \in db.links : l.entity \in Elsewhere(db, {file}) }
    BY StoredIs
  <2> QED BY <2>1, <2>2 DEF Everything
<1>3. change \in changes
  BY DEF Touching
<1>4. CodeIndex!LinkByLines(stored, change) = lined
  <2>1. stored.entities = db.entities
    BY <1>2
  <2> HIDE DEF stored
  <2> QED BY <2>1, LinedAlike
<1>5. \A l \in lined : l.change = change /\ l.by = "line_range"
  BY LinksTell
<1> HIDE DEF stored, changes, again
<1>a. \A e \in left : ~Own(e)
  BY DEF Elsewhere
<1>6. \A l \in kept : l \in Mine(db.links, change) /\ ~Own(l.entity)
  <2> TAKE l \in kept
  <2>1. l \in stored.links /\ l.change = change
    BY DEF Mine, KeptLinks
  <2>2. l \in db.links /\ l.entity \in left
    BY <1>2, <2>1
  <2>3. ~Own(l.entity)
    BY <1>a, <2>2
  <2> QED BY <2>1, <2>2, <2>3 DEF Mine
<1> DEFINE afresh == CodeIndex!LinkByLines(stored, change)
<1>7. Mine(again.links, change) = (kept \cup afresh) \cup ByPath(stored.entities, change, kept \cup afresh)
  BY <1>1, <1>3, MyLinks
<1> HIDE DEF kept, afresh, lined, own, left
<1>8. Mine(again.links, change) = (kept \cup lined) \cup ByPath(all, change, kept \cup lined)
  <2>1. afresh = lined /\ stored.entities = all
    BY <1>2, <1>4 DEF afresh
  <2> QED BY Zenon, <1>7, <2>1
<1>9. Mine(db.links, change) = lined \cup ByPath(all, change, lined)
  BY DEF lined
<1> HIDE DEF all
<1>10. ASSUME NEW l, Own(l.entity)
       PROVE  l \in Mine(again.links, change) <=> l \in Mine(db.links, change)
  <2>1. l \notin kept
    BY <1>6, <1>10
  <2>2. CASE lined # {}
    <3>1. \E m \in lined : m.by = "line_range"
      BY <1>5, <2>2
    <3>2. \E m \in kept \cup lined : m.by = "line_range"
      BY <3>1
    <3>3. ByPath(all, change, lined) = {} /\ ByPath(all, change, kept \cup lined) = {}
      BY <3>1, <3>2 DEF ByPath
    <3> QED BY <1>8, <1>9, <2>1, <3>3
  <2>3. CASE lined = {}
    <3>1. kept \cup lined = kept
      BY <2>3
    <3> DEFINE Of(e) == CodeIndex!Link(change, e, "file_path")
               Free(e, mine) == CodeIndex!SamePlace(change.path, e.path) /\ ~ \E m \in mine : m.entity = e
    <3>2. \A mine : ~(\E m \in mine : m.by = "line_range")
            => ByPath(all, change, mine) = { Of(e) : e \in { e \in all : Free(e, mine) } }
      BY Zenon DEF ByPath
    <3>3. \A e : Of(e).by = "file_path" /\ Of(e).entity = e
      BY LinkIs
    <3>4. Mine(db.links, change) = { Of(e) : e \in { e \in all : Free(e, lined) } }
      BY <1>9, <2>3, <3>2
    <3> HIDE DEF Of, Free
    <3>5. \A m \in kept : m.by = "file_path"
      <4> TAKE m \in kept
      <4>1. m \in Mine(db.links, change)
        BY Zenon, <1>6
      <4>2. PICK e \in all : m = Of(e)
        BY <3>4, <4>1
      <4> QED BY <3>3, <4>2
    <3>6. ByPath(all, change, kept) = { Of(e) : e \in { e \in all : Free(e, kept) } }
      BY <3>2, <3>5
    <3>7. l \in Mine(again.links, change) <=> \E e \in all : Free(e, kept) /\ l = Of(e)
      BY <1>8, <2>1, <3>1, <3>6
    <3>8. l \in Mine(db.links, change) <=> \E e \in all : Free(e, lined) /\ l = Of(e)
      BY <3>4
    <3>9. ASSUME NEW e \in all, l = Of(e) PROVE Free(e, kept) <=> Free(e, lined)
      <4>1. Own(e)
        BY <1>10, <3>3, <3>9
      <4>2. ~ \E m \in kept : m.entity = e
        BY <1>6, <4>1
      <4>3. ~ \E m \in lined : m.entity = e
        BY <2>3
      <4> QED BY <4>2, <4>3 DEF Free
    <3> QED BY <3>7, <3>8, <3>9
  <2> QED BY <2>2, <2>3
<1>11. \A links : OfFile(links, change, file) = { l \in Mine(links, change) : Own(l.entity) }
  BY DEF OfFile, Mine, own
<1> HIDE DEF Own
<1>12. { l \in Mine(again.links, change) : Own(l.entity) } = { l \in Mine(db.links, change) : Own(l.entity) }
  BY <1>10
<1> QED BY <1>11, <1>12 DEF again

\* What a file and a change have of one another.
IsChangeOf(history, file, change, Word) ==
    /\ IsHistory(history, Word) /\ IsFile(file, Word)
    /\ change.path = file.path /\ change \notin ChangesIn(history)
    /\ \A k \in DOMAIN change.hunks : HunkOf(change.hunks[k])

\* The graph once a file is indexed after others, before a change of it is recorded.
Reindexed(history, file) == CodeIndex!StoreIndex(CodeIndex!After(history), {file})
Changed(history, file, change) ==
    CodeIndex!After(history \o << << "index", {file} >>, << "record", change >> >>)

LEMMA IndexedThen ==
    ASSUME NEW Word, NEW history, NEW file, NEW change, IsChangeOf(history, file, change, Word)
    PROVE  /\ Changed(history, file, change) = CodeIndex!RecordChangeset(Reindexed(history, file), change)
           /\ Graph(Reindexed(history, file))
           /\ \A l \in Reindexed(history, file).links : l.change # change
           /\ Reindexed(history, file).entities
              = Elsewhere(Reindexed(history, file), {file}) \cup CodeIndex!IndexFile(file).entities
<1> DEFINE was == CodeIndex!After(history)
           first == CodeIndex!StoreIndex(was, {file})
           index == << "index", {file} >>
           record == << "record", change >>
           all == FilesIn(history) \cup {file}
           changes == ChangesIn(history)
           own == CodeIndex!IndexFile(file).entities
<1>1. CodeIndex!After(history \o << index, record >>) = CodeIndex!RecordChangeset(first, change)
  <2>1. PICK Step : history \in Seq(Step)
    BY DEF IsChangeOf, IsHistory
  <2> DEFINE Steps == Step \cup {index, record}
             once == Append(history, index)
  <2>2. index \in Steps /\ record \in Steps /\ Step \subseteq Steps
    OBVIOUS
  <2>3. index[1] = "index" /\ index[2] = {file} /\ record[1] = "record" /\ record[2] = change
    OBVIOUS
  <2> HIDE DEF Steps, index, record
  <2>4. history \in Seq(Steps)
    BY <2>1, <2>2
  <2>5. once \in Seq(Steps) /\ Append(once, record) = history \o << index, record >>
    BY <2>2, <2>4
  <2>6. CodeIndex!After(once) = CodeIndex!Do(was, index)
    BY <2>2, <2>4, AfterOneMore
  <2>7. CodeIndex!Do(was, index) = first
    BY <2>3 DEF CodeIndex!Do
  <2> HIDE DEF once
  <2>8. CodeIndex!After(Append(once, record)) = CodeIndex!Do(CodeIndex!After(once), record)
    BY <2>2, <2>5, AfterOneMore
  <2> HIDE DEF first
  <2>9. CodeIndex!Do(first, record) = CodeIndex!RecordChangeset(first, change)
    BY <2>3 DEF CodeIndex!Do
  <2> QED BY Zenon, <2>5, <2>6, <2>7, <2>8, <2>9
<1>2. GraphOf(was, all, changes)
  <2>1. GraphOf(was, FilesIn(history), changes)
    BY GraphAfter DEF IsChangeOf
  <2> HIDE DEF was, changes
  <2> QED BY <2>1 DEF GraphOf
<1>3. \A f \in all : IsFile(f, Word)
  <2>1. \A f \in FilesIn(history) : IsFile(f, Word)
    BY DEF FilesIn, IsHistory, IsStep, IsChangeOf
  <2> QED BY <2>1 DEF IsChangeOf
<1>4. {file} \subseteq all
  OBVIOUS
<1> HIDE DEF was, index, record
<1>5. GraphOf(first, all, changes)
  <2> HIDE DEF all, changes
  <2> QED BY <1>2, <1>4, StoringKeeps
<1>6. Graph(first) /\ \A l \in first.links : l.change # change
  <2> HIDE DEF first
  <2> QED BY <1>5 DEF GraphOf, IsChangeOf
<1>7. first.entities = Elsewhere(was, {file}) \cup own
  <2>1. first.entities = Everything(was, {file})
    BY StoreTells
  <2> QED BY <2>1 DEF Everything, Indexed
<1>8. \A e \in own : e.path = file.path
  BY FileTells DEF Well, IsChangeOf
<1> HIDE DEF first, own
<1>9. first.entities = Elsewhere(first, {file}) \cup own
  BY <1>7, <1>8 DEF Elsewhere
<1> QED BY Zenon, <1>1, <1>6, <1>9 DEF Reindexed, Changed, was, first, index, record, own

\* What a definition has in common with a change.
Meets(e, change) ==
    \E n \in DOMAIN change.hunks :
      /\ e.lines[1] <= CodeIndex!HunkLines(change.hunks[n])[2]
      /\ e.lines[2] >= CodeIndex!HunkLines(change.hunks[n])[1]

LEMMA LinedIs ==
    ASSUME NEW db, NEW change, NEW e
    PROVE  CodeIndex!Link(change, e, "line_range") \in CodeIndex!LinkByLines(db, change)
           <=> e \in db.entities /\ CodeIndex!SamePlace(change.path, e.path) /\ Meets(e, change)
<1> DEFINE Of(o) == CodeIndex!Link(change, o, "line_range")
           Goes(o) == CodeIndex!SamePlace(change.path, o.path) /\ Meets(o, change)
<1>1. CodeIndex!LinkByLines(db, change) = { Of(o) : o \in { o \in db.entities : Goes(o) } }
  BY Zenon DEF CodeIndex!LinkByLines, Meets
<1>2. \A o : Of(o).entity = o
  BY LinkIs
<1> HIDE DEF Of, Goes
<1>3. \A o : Of(e) = Of(o) => e = o
  BY <1>2
<1>4. Of(e) \in CodeIndex!LinkByLines(db, change) <=> e \in db.entities /\ Goes(e)
  BY <1>1, <1>3
<1> QED BY <1>4 DEF Of, Goes

\* The line of the new file that an entry stands at; it is the one counted where
\* no line went whose text begins with --.
LineOf(h, n) == h.new + CodeIndex!Cardinality({ k \in 1..(n - 1) : h.body[k] \in {"+", "++", " "} })
Right(h, n) == h.body[n] = "+" /\ \A k \in 1..(n - 1) : h.body[k] # "--"

LEMMA LineOfIs ==
    ASSUME NEW h, HunkOf(h), NEW n \in DOMAIN h.body, Right(h, n)
    PROVE  LineOf(h, n) = LineAt(h, n)
<1>1. Len(h.body) \in Nat /\ DOMAIN h.body = 1..Len(h.body)
  BY HunkIs
<1>2. \A S : \A s \in Seq(S) : \A k \in 1..Len(s) : s[k] \in S
  OBVIOUS
<1>3. \A k \in 1..Len(h.body) : h.body[k] \in {"+", "-", " ", "++", "--", "end"}
  BY Zenon, <1>2 DEF HunkOf
<1> DEFINE Stands(x) == x \in {"+", "++", " "}
           Counts(x) == x \notin {"-", "end"}
<1>4. \A x \in {"+", "-", " ", "++", "--", "end"} : x # "--" => (Stands(x) <=> Counts(x))
  <2>1. /\ "+" # "-" /\ "+" # "end" /\ "++" # "-" /\ "++" # "end" /\ " " # "-" /\ " " # "end"
    OBVIOUS
  <2> QED BY Zenon, <2>1
<1> HIDE DEF Stands, Counts
<1>5. \A k \in 1..(n - 1) : Stands(h.body[k]) <=> Counts(h.body[k])
  <2> TAKE k \in 1..(n - 1)
  <2>1. k \in 1..Len(h.body)
    BY <1>1
  <2>2. h.body[k] \in {"+", "-", " ", "++", "--", "end"}
    BY Zenon, <1>3, <2>1
  <2>3. h.body[k] # "--"
    BY Zenon DEF Right
  <2> QED BY Zenon, <1>4, <2>2, <2>3
<1>6. { k \in 1..(n - 1) : h.body[k] \in {"+", "++", " "} } = { k \in 1..(n - 1) : h.body[k] \notin {"-", "end"} }
  BY Zenon, <1>5 DEF Stands, Counts
<1> QED BY Zenon, <1>6 DEF LineOf, LineAt

\* What is linked has something in common with the lines of a hunk, and what has
\* a line that was added is linked.
LEMMA MeetsIf ==
    ASSUME NEW change, \A k \in DOMAIN change.hunks : HunkOf(change.hunks[k]), NEW e, e.lines \in Lines,
           NEW k \in DOMAIN change.hunks, NEW n \in DOMAIN change.hunks[k].body,
           Right(change.hunks[k], n),
           e.lines[1] <= LineOf(change.hunks[k], n), LineOf(change.hunks[k], n) <= e.lines[2]
    PROVE  Meets(e, change)
<1> DEFINE h == change.hunks[k]
           line == LineAt(h, n)
<1>1. HunkOf(h) /\ n \in DOMAIN h.body /\ h.body[n] = "+" /\ Right(h, n)
  BY DEF Right
<1> HIDE DEF h
<1>2. PICK a, b \in Nat : /\ CodeIndex!HunkLines(h) = << a, b >>
                          /\ h.new <= a /\ a <= b /\ b <= h.new + Extent(h)
                          /\ \A m \in DOMAIN h.body : h.body[m] = "+" => a <= LineAt(h, m) /\ LineAt(h, m) <= b
  BY <1>1, HunkTells
<1>3. a <= line /\ line <= b
  BY Zenon, <1>1, <1>2
<1>4. line \in Nat
  BY <1>1, LineAtIs
<1>5. e.lines[1] <= line /\ line <= e.lines[2]
  BY <1>1, LineOfIs DEF h
<1> DEFINE c == e.lines[1]
           d == e.lines[2]
<1>6. c \in Int /\ d \in Int
  BY DEF Lines
<1>7. CodeIndex!HunkLines(h)[1] = a /\ CodeIndex!HunkLines(h)[2] = b
  BY <1>2
<1> HIDE DEF line, c, d
<1>8. c <= b /\ d >= a
  BY <1>3, <1>4, <1>5, <1>6 DEF c, d
<1> QED BY <1>7, <1>8 DEF Meets, c, d, h

Span(h) == h.new .. (h.new + Extent(h))

LEMMA MeetsThen ==
    ASSUME NEW change, \A k \in DOMAIN change.hunks : HunkOf(change.hunks[k]), NEW e, e.lines \in Lines,
           Meets(e, change)
    PROVE  \E k \in DOMAIN change.hunks : (e.lines[1] .. e.lines[2]) \cap Span(change.hunks[k]) # {}
<1>1. PICK k \in DOMAIN change.hunks :
        /\ e.lines[1] <= CodeIndex!HunkLines(change.hunks[k])[2]
        /\ e.lines[2] >= CodeIndex!HunkLines(change.hunks[k])[1]
  BY Zenon DEF Meets
<1> DEFINE h == change.hunks[k]
           last == h.new + Extent(h)
           c == e.lines[1]
           d == e.lines[2]
<1>2. HunkOf(h) /\ c <= CodeIndex!HunkLines(h)[2] /\ d >= CodeIndex!HunkLines(h)[1]
  BY <1>1
<1>3. c \in Int /\ d \in Int /\ c <= d
  BY DEF Lines
<1> HIDE DEF h, c, d
<1>4. PICK a, b \in Nat : /\ CodeIndex!HunkLines(h) = << a, b >>
                          /\ h.new <= a /\ a <= b /\ b <= h.new + Extent(h)
                          /\ \A m \in DOMAIN h.body : h.body[m] = "+" => a <= LineAt(h, m) /\ LineAt(h, m) <= b
  BY <1>2, HunkTells
<1>5. CodeIndex!HunkLines(h)[1] = a /\ CodeIndex!HunkLines(h)[2] = b
  BY <1>4
<1>6. h.new \in Nat /\ Extent(h) \in Nat
  BY <1>2, HunkIs, ExtentIs
<1>7. c <= b /\ d >= a /\ h.new <= a /\ a <= b /\ b <= last
  BY <1>2, <1>4, <1>5
<1> HIDE DEF last
<1>8. last \in Nat /\ h.new \in Nat
  BY <1>6 DEF last
<1> DEFINE x == IF c <= a THEN a ELSE c
<1>9. x \in c..d /\ x \in (h.new)..last
  BY <1>3, <1>7, <1>8
<1> HIDE DEF x
<1>10. (c..d) \cap ((h.new)..last) # {}
  BY <1>9
<1>11. (e.lines[1] .. e.lines[2]) \cap Span(change.hunks[k]) # {}
  BY Zenon, <1>10 DEF Span, last, h, c, d
<1> QED BY Zenon, <1>11

LEMMA ChangeTells ==
    ASSUME NEW Word, NEW history, NEW file, NEW change, IsChangeOf(history, file, change, Word)
    PROVE  CodeIndex!ChangesAreLinked(history, file, change)
<1> DEFINE db == Changed(history, file, change)
           again == CodeIndex!StoreIndex(db, {file})
           own == CodeIndex!IndexFile(file).entities
           first == Reindexed(history, file)
           Added == UNION { { LineOf(h, n) : n \in { n \in DOMAIN h.body : Right(h, n) } }
                            : h \in { change.hunks[k] : k \in DOMAIN change.hunks } }
           ByLine(e) == CodeIndex!Link(change, e, "line_range")
<1>1. /\ db = CodeIndex!RecordChangeset(first, change)
      /\ Graph(first) /\ \A l \in first.links : l.change # change
      /\ first.entities = Elsewhere(first, {file}) \cup own
  BY IndexedThen
<1>2. /\ IsFile(file, Word) /\ change.path = file.path
      /\ \A k \in DOMAIN change.hunks : HunkOf(change.hunks[k])
  BY DEF IsChangeOf
<1>3. \A e \in own : e.path = file.path /\ e.lines \in Lines
  BY <1>2, FileTells DEF Well
<1>4. CodeIndex!SamePlace(change.path, file.path)
  BY <1>2, SameAsItself DEF IsFile
<1> HIDE DEF first, db, own
<1> DEFINE lined == CodeIndex!LinkByLines(first, change)
<1>5. /\ Graph(db) /\ db.entities = first.entities /\ db.changes = first.changes \cup {change}
      /\ Mine(db.links, change) = lined \cup ByPath(first.entities, change, lined)
  BY <1>1, RecordTells
<1>6. \A e : ByLine(e) \in db.links <=> ByLine(e) \in lined
  <2> TAKE o
  <2> DEFINE l == ByLine(o)
  <2>1. l.change = change /\ l.by = "line_range"
    BY LinkIs
  <2>2. \A m \in ByPath(first.entities, change, lined) : m.by = "file_path"
    <3>1. CASE \E m \in lined : m.by = "line_range"
      BY <3>1 DEF ByPath
    <3>2. CASE ~ \E m \in lined : m.by = "line_range"
      <4> TAKE m \in ByPath(first.entities, change, lined)
      <4> HIDE DEF lined
      <4>1. PICK e : m = CodeIndex!Link(change, e, "file_path")
        BY <3>2 DEF ByPath
      <4> QED BY <4>1, LinkIs
    <3> QED BY <3>1, <3>2
  <2> HIDE DEF l, lined
  <2>3. l \in db.links <=> l \in Mine(db.links, change)
    BY <2>1 DEF Mine
  <2>4. l \in db.links <=> l \in lined
    BY <1>5, <2>1, <2>2, <2>3
  <2> QED BY <2>4 DEF l
<1>7. \A e : ByLine(e) \in db.links
        <=> e \in first.entities /\ CodeIndex!SamePlace(change.path, e.path) /\ Meets(e, change)
  BY Zenon, <1>6, LinedIs
<1>8. ASSUME NEW e \in own, \E n \in Added : e.lines[1] <= n /\ n <= e.lines[2]
      PROVE  ByLine(e) \in db.links
  <2>1. PICK h \in { change.hunks[k] : k \in DOMAIN change.hunks } : \E n \in DOMAIN h.body :
          Right(h, n) /\ e.lines[1] <= LineOf(h, n) /\ LineOf(h, n) <= e.lines[2]
    BY <1>8
  <2>2. PICK k \in DOMAIN change.hunks : h = change.hunks[k]
    OBVIOUS
  <2>a. PICK n \in DOMAIN change.hunks[k].body :
          /\ Right(change.hunks[k], n)
          /\ e.lines[1] <= LineOf(change.hunks[k], n) /\ LineOf(change.hunks[k], n) <= e.lines[2]
    BY <2>1, <2>2
  <2>3. e.lines \in Lines
    BY <1>3
  <2>4. Meets(e, change)
    BY <1>2, <2>a, <2>3, MeetsIf
  <2>5. e \in first.entities /\ e.path = file.path
    BY <1>1, <1>3
  <2> HIDE DEF ByLine
  <2> QED BY <1>4, <1>7, <2>4, <2>5
<1>9. ASSUME NEW e \in own, ByLine(e) \in db.links
      PROVE  \E k \in DOMAIN change.hunks : (e.lines[1] .. e.lines[2]) \cap Span(change.hunks[k]) # {}
  <2>1. Meets(e, change)
    BY <1>7, <1>9
  <2> QED BY <1>2, <1>3, <2>1, MeetsThen
<1>10. OfFile(again.links, change, file) = OfFile(db.links, change, file)
  <2>1. change \in db.changes /\ change.path = file.path
    BY <1>2, <1>5
  <2>2. Elsewhere(db, {file}) = Elsewhere(first, {file})
    BY <1>5 DEF Elsewhere
  <2>3. /\ db.entities = Elsewhere(db, {file}) \cup CodeIndex!IndexFile(file).entities
        /\ \A e \in CodeIndex!IndexFile(file).entities : e.path = file.path
    BY <1>1, <1>3, <1>5, <2>2 DEF own
  <2>4. CodeIndex!LinkByLines(db, change) = lined
    BY <1>5, LinedAlike
  <2>5. LET l == CodeIndex!LinkByLines(db, change)
        IN  Mine(db.links, change) = l \cup ByPath(db.entities, change, l)
    BY <1>5, <2>4
  <2> QED BY <1>5, <2>1, <2>3, <2>5, AgainTells
<1> HIDE DEF lined
<1> QED BY Zenon, <1>8, <1>9, <1>10
        DEF CodeIndex!ChangesAreLinked, Changed, db, again, own, Added, ByLine, LineOf, Right, Span, Extent, OfFile

\* What is linked: a new change of a file, under its path, after any history.
IsLinkingInput ==
    input.about = "changes" =>
      \E Word : IsChangeOf(input.history, input.file, input.change, Word)

\* A change, whatever its hunks, of a file, whatever its definitions and whatever was
\* indexed, recorded and imported before, is linked to every definition it adds a line
\* to (but for lines that begin with ++, and those after a line that goes and begins
\* with --) and to none away from its hunks, and keeps these links when the file is
\* indexed again (storage/changesets.py, code_graph.py).
THEOREM ChangesFindWhatTheyTouch ==
    ASSUME IsLinkingInput
    PROVE  ChangesLinked
<1> SUFFICES ASSUME input.about = "changes"
             PROVE  CodeIndex!ChangesAreLinked(input.history, input.file, input.change)
  BY Zenon DEF ChangesLinked
<1>1. PICK Word : IsChangeOf(input.history, input.file, input.change, Word)
  BY DEF IsLinkingInput
<1> QED BY <1>1, ChangeTells

-----------------------------------------------------------------------------
(* Usage: what the sessions used, and the budget. *)

\* What is left of a function on some of its arguments.
On(f, set) == [x \in set |-> f[x]]

\* The sum of some of the values.
LEMMA SumOn ==
    ASSUME NEW f, IsAmount(f), NEW set \in SUBSET DOMAIN f
    PROVE  /\ IsAmount(On(f, set)) /\ IsFiniteSet(Piles(f, set))
           /\ SumOf(On(f, set)) = Cardinality(Piles(f, set)) /\ SumOf(On(f, set)) \in Nat
<1>1. IsFiniteSet(set) /\ IsFiniteSet(Piles(f, set))
  BY PilesAre
<1>2. DOMAIN On(f, set) = set /\ \A x \in set : On(f, set)[x] = f[x]
  BY DEF On
<1>3. IsAmount(On(f, set))
  BY <1>1, <1>2 DEF IsAmount
<1>4. Piles(On(f, set), set) = Piles(f, set)
  BY <1>2 DEF Piles
<1> QED BY <1>1, <1>2, <1>3, <1>4, SumIs

\* The sum of no values.
LEMMA SumOfNone ==
    ASSUME NEW f, DOMAIN f = {}
    PROVE  IsAmount(f) /\ SumOf(f) = 0
<1>1. IsAmount(f)
  BY FS_EmptySet DEF IsAmount
<1>2. Piles(f, DOMAIN f) = {}
  BY DEF Piles
<1> QED BY <1>1, <1>2, SumIs, FS_EmptySet

\* The sum of two parts.
LEMMA SumOfParts ==
    ASSUME NEW f, IsAmount(f), NEW one \in SUBSET DOMAIN f, NEW other \in SUBSET DOMAIN f,
           one \cap other = {}
    PROVE  SumOf(On(f, one \cup other)) = SumOf(On(f, one)) + SumOf(On(f, other))
<1> DEFINE P == Piles(f, one)
           Q == Piles(f, other)
           R == Piles(f, one \cup other)
<1>1. one \cup other \in SUBSET DOMAIN f
  OBVIOUS
<1>2. /\ IsFiniteSet(P) /\ IsFiniteSet(Q) /\ SumOf(On(f, one)) = Cardinality(P)
      /\ SumOf(On(f, other)) = Cardinality(Q)
  BY SumOn
<1>3. SumOf(On(f, one \cup other)) = Cardinality(R)
  BY <1>1, SumOn
<1>4. R = P \cup Q /\ P \cap Q = {}
  BY DEF Piles
<1> HIDE DEF P, Q, R
<1>5. Cardinality(P \cup Q) = Cardinality(P) + Cardinality(Q) - Cardinality(P \cap Q)
  BY <1>2, FS_Union
<1>6. Cardinality(P \cap Q) = 0 /\ Cardinality(P) \in Nat /\ Cardinality(Q) \in Nat
  BY <1>2, <1>4, FS_EmptySet, FS_CardinalityType
<1>7. Cardinality(R) = Cardinality(P) + Cardinality(Q)
  BY <1>4, <1>5, <1>6
<1> QED BY Zenon, <1>2, <1>3, <1>7

\* The sums of groups add up to the sum of all.
LEMMA SumOfGroups ==
    ASSUME NEW f, IsAmount(f), NEW label
    PROVE  LET labels == { label[x] : x \in DOMAIN f }
               groups == [l \in labels |-> SumOf(On(f, { x \in DOMAIN f : label[x] = l }))]
           IN  IsAmount(groups) /\ SumOf(groups) = SumOf(On(f, DOMAIN f))
<1> DEFINE D == DOMAIN f
           labels == { label[x] : x \in D }
           With(l) == { x \in D : label[x] = l }
           Labelled(ls) == { x \in D : label[x] \in ls }
           groups == [l \in labels |-> SumOf(On(f, With(l)))]
<1>1. IsFiniteSet(labels)
  <2> DEFINE of == [x \in D |-> label[x]]
  <2>1. of \in Surjection(D, labels)
    BY DEF Surjection
  <2> HIDE DEF of, labels
  <2> QED BY <2>1, FS_Surjection DEF IsAmount
<1>2. \A l \in labels : SumOf(On(f, With(l))) \in Nat
  <2>1. \A l \in labels : With(l) \in SUBSET DOMAIN f
    OBVIOUS
  <2> HIDE DEF With
  <2> QED BY <2>1, SumOn
<1>3. IsAmount(groups)
  BY <1>1, <1>2 DEF IsAmount
<1>4. DOMAIN groups = labels /\ \A l \in labels : groups[l] = SumOf(On(f, With(l)))
  OBVIOUS
<1> DEFINE P == { n \in Nat : \A ls \in SUBSET labels :
                    Cardinality(ls) = n => SumOf(On(groups, ls)) = SumOf(On(f, Labelled(ls))) }
<1> HIDE DEF groups, labels
<1>5. \A ls \in SUBSET labels : IsFiniteSet(ls) /\ Cardinality(ls) \in Nat
  BY <1>1, FS_Subset, FS_CardinalityType
<1>6. 0 \in P
  <2>1. ASSUME NEW ls \in SUBSET labels, Cardinality(ls) = 0
        PROVE  SumOf(On(groups, ls)) = SumOf(On(f, Labelled(ls)))
    <3>1. ls = {}
      BY <1>5, <2>1, FS_EmptySet
    <3>2. DOMAIN On(groups, ls) = {} /\ DOMAIN On(f, Labelled(ls)) = {}
      BY <3>1 DEF On
    <3> QED BY <3>2, SumOfNone
  <2> QED BY <2>1
<1>7. ASSUME NEW n \in P PROVE n + 1 \in P
  <2>1. ASSUME NEW ls \in SUBSET labels, Cardinality(ls) = n + 1
        PROVE  SumOf(On(groups, ls)) = SumOf(On(f, Labelled(ls)))
    <3>1. PICK l \in ls : TRUE
      <4>1. ls # {}
        BY <1>5, <2>1, FS_EmptySet
      <4> QED BY <4>1
    <3> DEFINE others == ls \ {l}
    <3>2. Cardinality(others) = n
      <4>1. Cardinality(ls \ {l}) = Cardinality(ls) - 1
        BY <1>5, <3>1, FS_RemoveElement
      <4> QED BY <2>1, <4>1
    <3>3. SumOf(On(groups, others)) = SumOf(On(f, Labelled(others)))
      BY <3>2
    <3>4. others \in SUBSET DOMAIN groups /\ {l} \in SUBSET DOMAIN groups
          /\ others \cap {l} = {} /\ others \cup {l} = ls
      BY <1>4, <3>1
    <3>5. SumOf(On(groups, ls)) = SumOf(On(groups, others)) + SumOf(On(groups, {l}))
      BY <1>3, <3>4, SumOfParts
    <3>6. SumOf(On(groups, {l})) = groups[l]
      <4>1. IsAmount(On(groups, {l}))
        BY <1>3, <3>4, SumOn
      <4>2. DOMAIN On(groups, {l}) = {l} /\ On(groups, {l})[l] = groups[l]
        BY DEF On
      <4> QED BY <4>1, <4>2, SumOfOne
    <3>7. Labelled(others) \in SUBSET D /\ With(l) \in SUBSET D
          /\ Labelled(others) \cap With(l) = {} /\ Labelled(others) \cup With(l) = Labelled(ls)
      BY <3>1
    <3> HIDE DEF Labelled, With, others
    <3>8. SumOf(On(f, Labelled(ls))) = SumOf(On(f, Labelled(others))) + SumOf(On(f, With(l)))
      BY <3>7, SumOfParts
    <3> QED BY <1>4, <3>1, <3>3, <3>5, <3>6, <3>8
  <2> QED BY <2>1
<1>8. P = Nat
  <2>1. P \in SUBSET Nat
    OBVIOUS
  <2> HIDE DEF P
  <2> QED BY <1>6, <1>7, <2>1, Counting
<1>9. SumOf(On(groups, labels)) = SumOf(On(f, Labelled(labels)))
  BY <1>5, <1>8
<1>10. Labelled(labels) = D
  BY DEF labels
<1>11. On(groups, labels) = groups
  BY DEF On, groups
<1> HIDE DEF Labelled
<1>12. SumOf(groups) = SumOf(On(f, D))
  BY <1>9, <1>10, <1>11
<1> QED BY <1>3, <1>12 DEF groups, labels

\* Two sums of the same values.
LEMMA SumAlike ==
    ASSUME NEW f, IsAmount(f), NEW g, IsAmount(g),
           NEW m \in Injection(DOMAIN f, DOMAIN g), NEW w \in Injection(DOMAIN g, DOMAIN f),
           \A x \in DOMAIN f : f[x] = g[m[x]], \A y \in DOMAIN g : g[y] = f[w[y]]
    PROVE  SumOf(f) = SumOf(g)
<1>1. \A x \in DOMAIN f : f[x] <= g[m[x]]
  BY DEF IsAmount
<1>2. \A y \in DOMAIN g : g[y] <= f[w[y]]
  BY DEF IsAmount
<1>3. SumOf(f) <= SumOf(g)
  BY <1>1, SumUnder
<1>4. SumOf(g) <= SumOf(f)
  BY <1>2, SumUnder
<1> QED BY <1>3, <1>4, SumIs

\* The listings that Usage works with are these.
LEMMA SameSum == \A f : Usage!SumOf(f) = SumOf(f)
  BY DEF Usage!SumOf, SumOf, Usage!MapThenSumSet, MapThenSumSet, Usage!MapThenFoldSet, MapThenFoldSet

LEMMA SameThose == \A s, at : Usage!Those(s, at) = Those(s, at)
  BY DEF Usage!Those, Those, Usage!Places, Places, Usage!InOrder, InOrder,
         Usage!Cardinality, Cardinality

LEMMA SameTake == \A s, n : Usage!Take(s, n) = Take(s, n)
  BY DEF Usage!Take, Take, Usage!Min, Min

LEMMA SameMax == \A a, b : Usage!Max({a, b}) = Max({a, b})
  BY DEF Usage!Max, Max

LEMMA SameSize == \A S : Usage!Cardinality(S) = Cardinality(S)
  BY DEF Usage!Cardinality, Cardinality

\* Token counts, None for one that is no number.
IsCounts(counts) ==
    /\ DOMAIN counts \subseteq Usage!Counts
    /\ \A c \in DOMAIN counts : counts[c] \in Nat \cup {Usage!None}

\* A raw record, of any number of values.
IsUsageRecord(record) ==
    /\ \E Value : record \in Seq(Value)
    /\ \A n \in DOMAIN record : IsCounts(record[n].counts) /\ \A u \in record[n].usage : IsCounts(u)

\* Messages, with what they are estimated at.
IsSaid(messages) ==
    /\ \E Message : messages \in Seq(Message)
    /\ \A n \in DOMAIN messages : messages[n].tokens \in Nat

\* A session as the importers give it; "any" is the filter that passes every source.
IsUsageSession(session) ==
    /\ session = [source |-> session.source, id |-> session.id, model |-> session.model,
                  raw |-> session.raw, messages |-> session.messages, heard |-> session.heard]
    /\ \E Record : session.raw \in Seq(Record)
    /\ \A n \in DOMAIN session.raw : IsUsageRecord(session.raw[n])
    /\ IsSaid(session.messages) /\ IsSaid(session.heard)
    /\ session.source # "any"

\* A usage that is normalized.
SomeUsage == [Usage!Counts -> Nat \cup {Usage!None}]

\* What is found in a record is of the form that is normalized.
LEMMA FoundIs ==
    ASSUME NEW record, IsUsageRecord(record)
    PROVE  LET found == Usage!Find(record)
           IN  /\ Len(found) \in Nat /\ DOMAIN found = 1..Len(found)
               /\ \A k \in DOMAIN found : Usage!Normalize(found[k]) \in SomeUsage
<1>1. PICK Value : record \in Seq(Value)
  BY DEF IsUsageRecord
<1>2. PICK at \in SUBSET DOMAIN record : Usage!Find(record) = Usage!Those(record, at)
  BY DEF Usage!Find
<1>3. Usage!Find(record) = Those(record, at)
  BY <1>2, SameThose
<1>4. /\ Usage!Find(record) \in Seq(Value)
      /\ \A k \in DOMAIN Usage!Find(record) : \E n \in at : Usage!Find(record)[k] = record[n]
  BY <1>1, <1>3, ThoseAre
<1>5. ASSUME NEW n \in DOMAIN record PROVE Usage!Normalize(record[n]) \in SomeUsage
  <2> DEFINE told == IF record[n].usage = {} THEN record[n].counts
                     ELSE CHOOSE u \in record[n].usage : TRUE
  <2>1. IsCounts(told)
    BY DEF IsUsageRecord
  <2> HIDE DEF told
  <2>2. [c \in Usage!Counts |-> IF c \in DOMAIN told THEN told[c] ELSE Usage!None] \in SomeUsage
    BY <2>1 DEF SomeUsage, IsCounts
  <2> QED BY <2>2 DEF Usage!Normalize, told
<1> HIDE DEF SomeUsage
<1> QED BY <1>4, <1>5

\* The usages of a session are as many as were found.
LEMMA ReportedIs ==
    ASSUME NEW session, IsUsageSession(session)
    PROVE  LET reported == Usage!Reported(session)
           IN  /\ IsFiniteSet(DOMAIN reported)
               /\ \A p \in DOMAIN reported : reported[p] \in SomeUsage
               /\ \A p \in DOMAIN reported : p # Usage!Estimated
<1> DEFINE raw == session.raw
           found == [n \in DOMAIN raw |-> Usage!Find(raw[n])]
           count == [n \in DOMAIN raw |-> Len(found[n])]
           reported == Usage!Reported(session)
           places == UNION { {n} \X DOMAIN found[n] : n \in DOMAIN raw }
<1>1. reported = [p \in places |-> Usage!Normalize(found[p[1]][p[2]])]
  BY DEF Usage!Reported
<1>2. ASSUME NEW n \in DOMAIN raw
      PROVE  /\ Len(found[n]) \in Nat /\ DOMAIN found[n] = 1..Len(found[n])
             /\ \A k \in DOMAIN found[n] : Usage!Normalize(found[n][k]) \in SomeUsage
  <2>1. IsUsageRecord(raw[n])
    BY DEF IsUsageSession
  <2>2. found[n] = Usage!Find(raw[n])
    OBVIOUS
  <2> HIDE DEF found, SomeUsage
  <2> QED BY <2>1, <2>2, FoundIs
<1>3. IsFiniteSet(DOMAIN raw)
  <2>1. PICK Record : raw \in Seq(Record)
    BY DEF IsUsageSession
  <2>2. DOMAIN raw = 1..Len(raw) /\ Len(raw) \in Nat
    BY <2>1
  <2> QED BY <2>2, FS_Interval
<1> HIDE DEF raw, found, SomeUsage
<1>4. IsAmount(count)
  BY <1>2, <1>3 DEF IsAmount
<1>5. Piles(count, DOMAIN raw) = places
  <2>1. \A n \in DOMAIN raw : DOMAIN found[n] = 1..count[n]
    BY <1>2
  <2> HIDE DEF count
  <2> QED BY <2>1 DEF Piles
<1>6. IsFiniteSet(places)
  <2>1. DOMAIN raw = DOMAIN count
    OBVIOUS
  <2> HIDE DEF count, places
  <2> QED BY <1>4, <1>5, <2>1, PilesAre
<1>7. ASSUME NEW p \in places
      PROVE  Usage!Normalize(found[p[1]][p[2]]) \in SomeUsage /\ p # Usage!Estimated
  <2>1. PICK n \in DOMAIN raw : p \in {n} \X DOMAIN found[n]
    BY <1>7
  <2>2. p = << n, p[2] >> /\ p[1] = n /\ p[2] \in DOMAIN found[n]
    BY <2>1
  <2>3. p # << >>
    BY <2>2
  <2> QED BY <1>2, <2>2, <2>3 DEF Usage!Estimated
<1> HIDE DEF places, reported
<1> QED BY <1>1, <1>6, <1>7 DEF reported

\* Usages that say something say how much.
LEMMA TotalIs ==
    ASSUME NEW usage \in SomeUsage, Usage!HasUsage(usage)
    PROVE  Usage!TotalTokens(usage) \in Nat
<1> DEFINE parts == [c \in Usage!Parts |-> usage[c]]
           known == { x \in DOMAIN parts : parts[x] # Usage!None }
           some == [x \in known |-> parts[x]]
<1>1. Usage!Counts = {"input", "output", "cached", "reasoning", "total"}
      /\ Usage!Parts = {"input", "output", "cached", "reasoning"}
  BY DEF Usage!Counts, Usage!Parts
<1>2. \A c \in Usage!Counts : usage[c] \in Nat \cup {Usage!None}
  BY DEF SomeUsage
<1>3. CASE usage["total"] # Usage!None
  BY <1>1, <1>2, <1>3 DEF Usage!TotalTokens
<1>4. CASE usage["total"] = Usage!None
  <2>1. known # {}
    BY <1>1, <1>4 DEF Usage!HasUsage
  <2>2. IsFiniteSet(known)
    <3>1. IsFiniteSet({"input", "output", "cached", "reasoning"})
      <4>1. IsFiniteSet({"input"} \cup {"output"}) /\ IsFiniteSet({"cached"} \cup {"reasoning"})
        BY FS_Singleton, FS_Union
      <4>2. IsFiniteSet(({"input"} \cup {"output"}) \cup ({"cached"} \cup {"reasoning"}))
        BY <4>1, FS_Union
      <4>3. ({"input"} \cup {"output"}) \cup ({"cached"} \cup {"reasoning"}) = {"input", "output", "cached", "reasoning"}
        OBVIOUS
      <4> QED BY <4>2, <4>3
    <3>2. known \in SUBSET {"input", "output", "cached", "reasoning"}
      BY <1>1
    <3> HIDE DEF known
    <3> QED BY <3>1, <3>2, FS_Subset
  <2>3. IsAmount(some)
    <3>1. \A x \in known : some[x] \in Nat
      BY <1>1, <1>2
    <3> QED BY <2>2, <3>1 DEF IsAmount
  <2>4. SumOf(some) \in Nat
    <3> HIDE DEF some
    <3> QED BY <2>3, SumIs
  <2>5. Usage!TotalTokens(usage) = Usage!SumOf(some)
    BY <1>4, <2>1 DEF Usage!TotalTokens, Usage!SumKnown
  <2> QED BY <2>4, <2>5, SameSum
<1> QED BY <1>3, <1>4

\* An estimate is of some tokens, unless nothing was said.
LEMMA EstimateIs ==
    ASSUME NEW session, IsUsageSession(session)
    PROVE  /\ Usage!Estimate(session) \in SomeUsage
           /\ (\E n \in DOMAIN session.messages :
                 session.messages[n].by = "user" /\ session.messages[n].tokens > 0)
              => /\ Usage!HasUsage(Usage!Estimate(session))
                 /\ Usage!TotalTokens(Usage!Estimate(session)) > 0
<1> DEFINE onlyHeard == session.source = "vscode-copilot" /\ session.messages = << >>
           said == IF onlyHeard THEN session.heard ELSE session.messages
           out == { n \in DOMAIN said : said[n].by = "assistant" }
           in == { n \in DOMAIN said : said[n].by # "assistant" /\ (onlyHeard => said[n].by = "user") }
           amount == [n \in DOMAIN said |-> said[n].tokens]
           output == SumOf([n \in out |-> said[n].tokens])
           inputs == SumOf([n \in in |-> said[n].tokens])
           estimate == Usage!Estimate(session)
<1>1. IsSaid(said)
  BY DEF IsUsageSession
<1>2. IsAmount(amount)
  <2>1. PICK Message : said \in Seq(Message)
    BY <1>1 DEF IsSaid
  <2>2. IsFiniteSet(DOMAIN said)
    <3> HIDE DEF said
    <3>1. DOMAIN said = 1..Len(said) /\ Len(said) \in Nat
      BY <2>1
    <3> QED BY <3>1, FS_Interval
  <2> HIDE DEF said
  <2> QED BY <1>1, <2>2 DEF IsAmount, IsSaid
<1>3. estimate = [c \in Usage!Counts |->
                    CASE c = "input" -> Usage!Known(inputs) [] c = "output" -> Usage!Known(output)
                      [] c = "total" -> Usage!Known(inputs + output) [] OTHER -> Usage!None]
  BY SameSum DEF Usage!Estimate, Usage!Where
<1>4. out \in SUBSET DOMAIN amount /\ in \in SUBSET DOMAIN amount
      /\ [n \in out |-> said[n].tokens] = On(amount, out) /\ [n \in in |-> said[n].tokens] = On(amount, in)
  BY DEF On
<1>5. inputs \in Nat /\ output \in Nat /\ inputs = SumOf(On(amount, in)) /\ output = SumOf(On(amount, out))
  <2> HIDE DEF out, in, amount, said
  <2> QED BY <1>2, <1>4, SumOn
<1> HIDE DEF inputs, output, estimate
<1>6. estimate \in SomeUsage
  <2> DEFINE Of(c) == CASE c = "input" -> Usage!Known(inputs) [] c = "output" -> Usage!Known(output)
                        [] c = "total" -> Usage!Known(inputs + output) [] OTHER -> Usage!None
  <2>1. \A n \in Nat : Usage!Known(n) \in Nat \cup {Usage!None}
    BY DEF Usage!Known
  <2>2. \A c \in Usage!Counts : Of(c) \in Nat \cup {Usage!None}
    BY <1>5, <2>1
  <2>3. estimate = [c \in Usage!Counts |-> Of(c)]
    BY Zenon, <1>3
  <2> HIDE DEF Of
  <2> QED BY <2>2, <2>3 DEF SomeUsage
<1>7. ASSUME NEW n \in DOMAIN session.messages,
             session.messages[n].by = "user", session.messages[n].tokens > 0
      PROVE  inputs > 0
  <2>1. session.messages # << >>
    BY <1>7
  <2>2. said = session.messages /\ n \in in /\ amount[n] = session.messages[n].tokens /\ amount[n] > 0
    BY <1>7, <2>1
  <2>3. {n} \in SUBSET DOMAIN amount /\ in \ {n} \in SUBSET DOMAIN amount
        /\ {n} \cap (in \ {n}) = {} /\ {n} \cup (in \ {n}) = in
    BY <2>2
  <2> HIDE DEF in, amount, said
  <2>4. SumOf(On(amount, in)) = SumOf(On(amount, {n})) + SumOf(On(amount, in \ {n}))
    BY <1>2, <2>3, SumOfParts
  <2>5. SumOf(On(amount, {n})) = amount[n] /\ SumOf(On(amount, in \ {n})) \in Nat
    <3>1. IsAmount(On(amount, {n})) /\ DOMAIN On(amount, {n}) = {n} /\ On(amount, {n})[n] = amount[n]
      <4>1. IsAmount(On(amount, {n}))
        BY <1>2, <2>3, SumOn
      <4> QED BY <4>1 DEF On
    <3> QED BY <1>2, <2>3, <3>1, SumOfOne, SumOn
  <2>6. amount[n] \in Nat
    BY <1>2, <2>3 DEF IsAmount
  <2> QED BY <1>5, <2>2, <2>4, <2>5, <2>6
<1>8. ASSUME inputs > 0 PROVE Usage!HasUsage(estimate) /\ Usage!TotalTokens(estimate) > 0
  <2>1. "total" \in Usage!Counts
    BY DEF Usage!Counts
  <2>2. estimate["total"] = inputs + output /\ inputs + output > 0 /\ inputs + output # Usage!None
    BY <1>3, <1>5, <1>8, <2>1 DEF Usage!Known, Usage!None
  <2> QED BY <2>1, <2>2 DEF Usage!HasUsage, Usage!TotalTokens
<1> QED BY <1>6, <1>7, <1>8 DEF estimate

-----------------------------------------------------------------------------
\* What an import records of a session, place by place.
Uses(session) ==
    IF Usage!Reports(session) # {}
    THEN [p \in Usage!Reports(session) |-> Usage!Reported(session)[p]]
    ELSE IF Usage!HasUsage(Usage!Estimate(session))
    THEN [p \in {Usage!Estimated} |-> Usage!Estimate(session)]
    ELSE [p \in {} |-> p]

\* The keys that it is recorded under.
Keys(session) == { Usage!RecordKey(session, p) : p \in DOMAIN Uses(session) }

\* A session uses some number of tokens in each of finitely many places.
LEMMA UsesAre ==
    ASSUME NEW session, IsUsageSession(session)
    PROVE  /\ IsFiniteSet(DOMAIN Uses(session)) /\ IsFiniteSet(Keys(session))
           /\ \A p \in DOMAIN Uses(session) : Usage!TotalTokens(Uses(session)[p]) \in Nat
<1>1. Usage!Reports(session) \in SUBSET DOMAIN Usage!Reported(session)
      /\ \A p \in Usage!Reports(session) : Usage!HasUsage(Usage!Reported(session)[p])
  BY DEF Usage!Reports
<1>2. IsFiniteSet(Usage!Reports(session)) /\ IsFiniteSet({Usage!Estimated}) /\ IsFiniteSet({})
  BY <1>1, ReportedIs, FS_Subset, FS_Singleton, FS_EmptySet
<1>3. IsFiniteSet(DOMAIN Uses(session))
  BY <1>2 DEF Uses
<1>4. \A p \in Usage!Reports(session) : Usage!TotalTokens(Usage!Reported(session)[p]) \in Nat
  BY <1>1, ReportedIs, TotalIs
<1>5. Usage!HasUsage(Usage!Estimate(session)) => Usage!TotalTokens(Usage!Estimate(session)) \in Nat
  BY EstimateIs, TotalIs
<1>6. \A p \in DOMAIN Uses(session) : Usage!TotalTokens(Uses(session)[p]) \in Nat
  BY <1>4, <1>5 DEF Uses
<1>7. IsFiniteSet(Keys(session))
  <2> DEFINE S == DOMAIN Uses(session)
             key == [p \in S |-> Usage!RecordKey(session, p)]
  <2>1. key \in Surjection(S, Keys(session))
    BY DEF Surjection, Keys
  <2> HIDE DEF S, key
  <2> QED BY <1>3, <2>1, FS_Surjection DEF S
<1> QED BY <1>3, <1>6, <1>7

\* A store of events, each under its source, session and place.
IsStore(store) ==
    /\ store = [events |-> store.events, prices |-> store.prices, now |-> store.now]
    /\ store.events = [k \in DOMAIN store.events |-> store.events[k]]
    /\ IsFiniteSet(DOMAIN store.events) /\ store.now \in Int
    /\ \A k \in DOMAIN store.events :
         store.events[k].tokens \in Nat /\ store.events[k].source # "any"

\* What an import leaves.
LEMMA ImportTells ==
    ASSUME NEW store, IsStore(store), NEW workspace, NEW session, IsUsageSession(session)
    PROVE  LET after == Usage!RecordUsage(store, workspace, session)
               cost(p) == Usage!Cost(Usage!LookupPricing(store.prices, session.model, store.now), Uses(session)[p])
           IN  /\ IsStore(after) /\ after.prices = store.prices /\ after.now = store.now
               /\ DOMAIN after.events = DOMAIN store.events \cup Keys(session)
               /\ \A k \in DOMAIN store.events \ Keys(session) : after.events[k] = store.events[k]
               /\ \A p \in DOMAIN Uses(session) :
                    LET key == Usage!RecordKey(session, p)
                    IN  after.events[key] =
                          [workspace |-> workspace, source |-> session.source, model |-> session.model,
                           tokens |-> Usage!TotalTokens(Uses(session)[p]),
                           estimated |-> Usage!Reports(session) = {},
                           created |-> IF key \in DOMAIN store.events THEN store.events[key].created
                                       ELSE store.now,
                           cost |-> cost(p)]
<1> DEFINE after == Usage!RecordUsage(store, workspace, session)
           uses == Uses(session)
           events == store.events
           guess == Usage!Reports(session) = {}
           Priced(u) == Usage!Cost(Usage!LookupPricing(store.prices, session.model, store.now), u)
           Event(key) ==
             [workspace |-> workspace, source |-> session.source, model |-> session.model,
              tokens |-> Usage!TotalTokens(uses[key[3]]), estimated |-> guess,
              created |-> IF key \in DOMAIN events THEN events[key].created ELSE store.now,
              cost |-> Priced(uses[key[3]])]
           keys == Keys(session)
           more == [key \in DOMAIN events \cup keys |-> IF key \in keys THEN Event(key) ELSE events[key]]
<1>1. CASE uses = [p \in {} |-> p] /\ after = store
  <2>1. DOMAIN uses = {} /\ keys = {}
    BY <1>1 DEF Keys
  <2> QED BY <1>1, <2>1
<1>2. CASE after = [store EXCEPT !.events = more]
  <2>1. after = [events |-> more, prices |-> store.prices, now |-> store.now]
    <3>1. store = [events |-> store.events, prices |-> store.prices, now |-> store.now]
      BY DEF IsStore
    <3>2. DOMAIN store = {"events", "prices", "now"}
      BY <3>1
    <3> HIDE DEF more, after
    <3> QED BY <1>2, <3>1, <3>2
  <2>2. after.events = more /\ after.prices = store.prices /\ after.now = store.now
    <3> HIDE DEF more, after
    <3> QED BY <2>1
  <2>3. DOMAIN more = DOMAIN events \cup keys /\ more = [k \in DOMAIN more |-> more[k]]
        /\ \A k \in DOMAIN events \ keys : more[k] = events[k]
    OBVIOUS
  <2>4. ASSUME NEW p \in DOMAIN uses
        PROVE  LET key == Usage!RecordKey(session, p)
               IN  key \in keys /\ key[3] = p /\ more[key] = Event(key)
    BY DEF Keys, Usage!RecordKey
  <2>5. \A k \in keys : more[k].tokens \in Nat /\ more[k].source # "any"
    <3> SUFFICES ASSUME NEW p \in DOMAIN uses
                 PROVE  more[Usage!RecordKey(session, p)].tokens \in Nat
                        /\ more[Usage!RecordKey(session, p)].source # "any"
      BY DEF Keys
    <3>1. Usage!TotalTokens(uses[p]) \in Nat /\ session.source # "any"
      BY UsesAre DEF IsUsageSession
    <3> HIDE DEF more, keys, uses, events, guess, Priced
    <3>2. PICK key : key = Usage!RecordKey(session, p)
      OBVIOUS
    <3>3. more[key] = Event(key) /\ key[3] = p
      BY <2>4, <3>2
    <3>4. Event(key).tokens = Usage!TotalTokens(uses[key[3]]) /\ Event(key).source = session.source
      OBVIOUS
    <3> HIDE DEF Event
    <3> QED BY <3>1, <3>2, <3>3, <3>4
  <2>6. IsFiniteSet(DOMAIN more)
    <3>1. IsFiniteSet(DOMAIN events) /\ IsFiniteSet(keys)
      BY UsesAre DEF IsStore
    <3> HIDE DEF more, keys, events
    <3> QED BY <2>3, <3>1, FS_Union
  <2>7. IsStore(after)
    <3>1. store.now \in Int /\ \A k \in DOMAIN events : events[k].tokens \in Nat /\ events[k].source # "any"
      BY DEF IsStore
    <3> HIDE DEF more, keys, events, after
    <3> QED BY <2>1, <2>2, <2>3, <2>5, <2>6, <3>1 DEF IsStore
  <2> HIDE DEF more, after, keys, uses, events, guess, Priced
  <2>8. ASSUME NEW p \in DOMAIN uses
        PROVE  LET key == Usage!RecordKey(session, p)
               IN  after.events[key] =
                          [workspace |-> workspace, source |-> session.source, model |-> session.model,
                           tokens |-> Usage!TotalTokens(uses[p]), estimated |-> guess,
                           created |-> IF key \in DOMAIN events THEN events[key].created ELSE store.now,
                           cost |-> Priced(uses[p])]
    BY <2>2, <2>4
  <2> QED BY <2>2, <2>3, <2>7, <2>8 DEF after, keys, uses, events, guess, Priced
<1>3. (uses = [p \in {} |-> p] /\ after = store) \/ after = [store EXCEPT !.events = more]
  <2>1. CASE Usage!Reports(session) # {}
    <3>1. uses = [p \in Usage!Reports(session) |-> Usage!Reported(session)[p]]
      BY <2>1 DEF Uses
    <3>2. after = Usage!InsertUsageEvents(store, workspace, session, uses, FALSE)
      BY <2>1, <3>1 DEF Usage!RecordUsage
    <3>3. guess = FALSE
      BY <2>1
    <3> HIDE DEF guess, uses
    <3> QED BY <3>2, <3>3 DEF Usage!InsertUsageEvents, Keys, uses
  <2>2. CASE Usage!Reports(session) = {} /\ Usage!HasUsage(Usage!Estimate(session))
    <3>1. uses = [p \in {Usage!Estimated} |-> Usage!Estimate(session)]
      BY <2>2 DEF Uses
    <3>2. after = Usage!InsertUsageEvents(store, workspace, session, uses, TRUE)
      BY <2>2, <3>1 DEF Usage!RecordUsage
    <3>3. guess = TRUE
      BY <2>2
    <3> HIDE DEF guess, uses
    <3> QED BY <3>2, <3>3 DEF Usage!InsertUsageEvents, Keys, uses
  <2>3. CASE Usage!Reports(session) = {} /\ ~Usage!HasUsage(Usage!Estimate(session))
    BY <2>3 DEF Uses, Usage!RecordUsage
  <2> QED BY <2>1, <2>2, <2>3
<1> QED BY <1>1, <1>2, <1>3

\* A step of a history, and the keys it may add.
IsUse(step) ==
    /\ step[1] \in {"import", "price", "wait"}
    /\ step[1] = "import" => IsUsageSession(step[3])

Adds(step) == IF step[1] = "import" THEN Keys(step[3]) ELSE {}

\* A step leaves a store, with the keys that it adds.
LEMMA UseTells ==
    ASSUME NEW store, IsStore(store), NEW step, IsUse(step)
    PROVE  /\ IsStore(Usage!Do(store, step))
           /\ DOMAIN Usage!Do(store, step).events = DOMAIN store.events \cup Adds(step)
<1>1. CASE step[1] = "import"
  <2>1. Usage!Do(store, step) = Usage!RecordUsage(store, step[2], step[3])
    BY <1>1 DEF Usage!Do
  <2>2. IsUsageSession(step[3]) /\ Adds(step) = Keys(step[3])
    BY <1>1 DEF IsUse, Adds
  <2> QED BY <2>1, <2>2, ImportTells
<1>2. CASE step[1] = "price"
  <2> DEFINE prices == Usage!UpsertPricing(store.prices, step[2])
  <2>1. Usage!Do(store, step) = [store EXCEPT !.prices = prices]
    BY <1>2 DEF Usage!Do
  <2> HIDE DEF prices
  <2>2. store = [events |-> store.events, prices |-> store.prices, now |-> store.now]
    BY DEF IsStore
  <2>3. [store EXCEPT !.prices = prices] = [events |-> store.events, prices |-> prices, now |-> store.now]
    BY <2>2
  <2>4. Adds(step) = {}
    BY <1>2 DEF Adds
  <2> QED BY <2>1, <2>3, <2>4 DEF IsStore
<1>3. CASE step[1] = "wait"
  <2> DEFINE now == store.now + 1
  <2>1. Usage!Do(store, step) = [store EXCEPT !.now = now]
    BY <1>3 DEF Usage!Do
  <2>2. now \in Int
    BY DEF IsStore
  <2> HIDE DEF now
  <2>3. store = [events |-> store.events, prices |-> store.prices, now |-> store.now]
    BY DEF IsStore
  <2>4. [store EXCEPT !.now = now] = [events |-> store.events, prices |-> store.prices, now |-> now]
    BY <2>3
  <2>5. Adds(step) = {}
    BY <1>3 DEF Adds
  <2> QED BY <2>1, <2>2, <2>4, <2>5 DEF IsStore
<1> QED BY <1>1, <1>2, <1>3 DEF IsUse

\* The stores that a history passes through.
LEMMA StoresExist ==
    ASSUME NEW store, NEW Step, NEW steps \in Seq(Step)
    PROVE  \E at : /\ at[0] = store
                   /\ \A n \in 1..Len(steps) : at[n] = Usage!Do(at[n - 1], steps[n])
                   /\ Usage!Follow(store, steps) = at[Len(steps)]
<1> DEFINE N == Len(steps)
           And(was, k) == Usage!Do(was, steps[k])
           Goes(f, n) == f = [k \in 0..n |-> IF k = 0 THEN store ELSE And(f[k - 1], k)]
           P == { n \in Nat : \E f : Goes(f, n) }
<1>1. N \in Nat
  OBVIOUS
<1> HIDE DEF And
<1>2. 0 \in P
  <2> DEFINE f == [k \in 0..0 |-> store]
  <2>1. \A k \in 0..0 : k = 0
    OBVIOUS
  <2>2. Goes(f, 0)
    BY <2>1
  <2> HIDE DEF f
  <2> QED BY <2>2
<1>3. ASSUME NEW n \in P PROVE n + 1 \in P
  <2>1. PICK f : Goes(f, n)
    OBVIOUS
  <2> DEFINE g == [k \in 0..(n + 1) |-> IF k = n + 1 THEN And(f[n], k) ELSE f[k]]
  <2>2. ASSUME NEW k \in 0..(n + 1) PROVE g[k] = IF k = 0 THEN store ELSE And(g[k - 1], k)
    <3>1. n \in Nat /\ k \in Nat
      OBVIOUS
    <3>2. k # 0 => k - 1 \in 0..(n + 1) /\ k - 1 # n + 1
      BY <3>1
    <3>3. k # 0 => g[k - 1] = f[k - 1]
      BY <3>2
    <3>4. k = n + 1 => g[k] = And(f[n], k) /\ k # 0 /\ k - 1 = n
      BY <3>1
    <3>5. k # n + 1 => k \in 0..n
      BY <3>1
    <3>6. k # n + 1 => f[k] = IF k = 0 THEN store ELSE And(f[k - 1], k)
      BY <2>1, <3>5
    <3>7. k # n + 1 => g[k] = f[k]
      BY <3>1
    <3> HIDE DEF g
    <3> QED BY <3>3, <3>4, <3>6, <3>7
  <2>3. g = [k \in 0..(n + 1) |-> g[k]]
    OBVIOUS
  <2> HIDE DEF g
  <2>4. Goes(g, n + 1)
    BY <2>2, <2>3
  <2> HIDE DEF Goes
  <2> QED BY <2>4
<1>4. P = Nat
  <2>1. P \in SUBSET Nat
    OBVIOUS
  <2> HIDE DEF P
  <2> QED BY <1>2, <1>3, <2>1, Counting
<1> DEFINE at == CHOOSE f : Goes(f, N)
<1>5. Usage!Follow(store, steps) = at[N]
  BY DEF Usage!Follow, And
<1>6. Goes(at, N)
  BY <1>1, <1>4
<1> HIDE DEF at
<1>7. \A k \in 0..N : at[k] = IF k = 0 THEN store ELSE And(at[k - 1], k)
  BY <1>6
<1>8. 0 \in 0..N /\ \A n \in 1..N : n \in 0..N /\ n # 0
  BY <1>1
<1>9. at[0] = store /\ \A n \in 1..N : at[n] = Usage!Do(at[n - 1], steps[n])
  BY <1>7, <1>8 DEF And
<1> QED BY <1>5, <1>9

\* A history of imports, prices and waits.
IsUsageHistory(history) ==
    /\ \E Step : history \in Seq(Step)
    /\ \A n \in DOMAIN history : IsUse(history[n])

\* What any history leaves is a store, with a key for all that was recorded.
LEMMA StoreAfter ==
    ASSUME NEW history, IsUsageHistory(history)
    PROVE  /\ IsStore(Usage!After(history))
           /\ DOMAIN Usage!After(history).events = UNION { Adds(history[n]) : n \in DOMAIN history }
<1> DEFINE N == Len(history)
           Added(n) == UNION { Adds(history[m]) : m \in 1..n }
           Good(store, n) == IsStore(store) /\ DOMAIN store.events = Added(n)
<1>1. PICK Step : history \in Seq(Step)
  BY DEF IsUsageHistory
<1>2. N \in Nat /\ DOMAIN history = 1..N
  BY <1>1
<1>3. PICK at : /\ at[0] = Usage!Empty
                /\ \A n \in 1..Len(history) : at[n] = Usage!Do(at[n - 1], history[n])
                /\ Usage!After(history) = at[Len(history)]
  BY <1>1, StoresExist DEF Usage!After
<1>4. Good(at[0], 0)
  <2>1. at[0] = [events |-> [k \in {} |-> k], prices |-> {}, now |-> 0]
    BY <1>3 DEF Usage!Empty
  <2>2. Added(0) = {}
    OBVIOUS
  <2> HIDE DEF Added
  <2> QED BY <2>1, <2>2, FS_EmptySet DEF IsStore
<1> DEFINE P == { n \in Nat : n <= N => Good(at[n], n) }
<1> HIDE DEF Good
<1>5. 0 \in P
  BY <1>4
<1>6. ASSUME NEW n \in P PROVE n + 1 \in P
  <2> SUFFICES ASSUME n + 1 <= N PROVE Good(at[n + 1], n + 1)
    OBVIOUS
  <2>1. n \in Nat /\ Good(at[n], n) /\ n + 1 \in DOMAIN history /\ (n + 1) - 1 = n
    BY <1>2
  <2>2. at[n + 1] = Usage!Do(at[n], history[n + 1])
    BY <1>2, <1>3, <2>1
  <2>3. IsUse(history[n + 1])
    BY <2>1 DEF IsUsageHistory
  <2>4. Added(n + 1) = Added(n) \cup Adds(history[n + 1])
    <3>1. 1..(n + 1) = 1..n \cup {n + 1}
      BY <2>1
    <3> QED BY <3>1
  <2> HIDE DEF Added
  <2>5. IsStore(at[n]) /\ DOMAIN at[n].events = Added(n)
    BY <2>1 DEF Good
  <2> QED BY <2>2, <2>3, <2>4, <2>5, UseTells DEF Good
<1>7. P = Nat
  <2>1. P \in SUBSET Nat
    OBVIOUS
  <2> HIDE DEF P
  <2> QED BY <1>5, <1>6, <2>1, Counting
<1>8. Good(at[N], N)
  BY <1>2, <1>7
<1> QED BY <1>2, <1>3, <1>8 DEF Good

\* All groupings of some rows add up to their total.
LEMMA GroupsAddUp ==
    ASSUME NEW store, IsStore(store), NEW rows \in SUBSET DOMAIN store.events, NEW label
    PROVE  /\ Usage!SumOf(Usage!GroupedBy(label, store, rows)) = Usage!Tokens(store, rows)
           /\ Usage!Tokens(store, rows) \in Nat
<1> DEFINE amount == [k \in rows |-> store.events[k].tokens]
           With(l) == { k \in rows : label[k] = l }
           labels == { label[k] : k \in rows }
<1>1. IsAmount(amount)
  <2>1. IsFiniteSet(rows)
    BY FS_Subset DEF IsStore
  <2>2. \A k \in rows : store.events[k].tokens \in Nat
    BY DEF IsStore
  <2> QED BY <2>1, <2>2 DEF IsAmount
<1>2. \A l \in labels : On(amount, With(l)) = [k \in With(l) |-> store.events[k].tokens]
  BY DEF On
<1>3. On(amount, DOMAIN amount) = amount /\ DOMAIN amount = rows
  BY DEF On
<1>4. Usage!GroupedBy(label, store, rows) = [l \in labels |-> SumOf(On(amount, With(l)))]
  <2>1. \A l \in labels : Usage!Tokens(store, With(l)) = SumOf(On(amount, With(l)))
    <3> HIDE DEF amount, With, labels
    <3> QED BY <1>2, SameSum DEF Usage!Tokens
  <2>2. Usage!GroupedBy(label, store, rows) = [l \in labels |-> Usage!Tokens(store, With(l))]
    BY DEF Usage!GroupedBy
  <2> HIDE DEF amount, With, labels
  <2> QED BY <2>1, <2>2
<1>5. Usage!Tokens(store, rows) = SumOf(amount)
  BY SameSum DEF Usage!Tokens
<1> HIDE DEF amount
<1>6. SumOf([l \in labels |-> SumOf(On(amount, With(l)))]) = SumOf(On(amount, DOMAIN amount))
  BY <1>1, <1>3, SumOfGroups
<1> HIDE DEF labels, With
<1> QED BY <1>1, <1>3, <1>4, <1>5, <1>6, SameSum, SumIs

\* Recording a session again changes nothing.
LEMMA RecordedForGood ==
    ASSUME NEW store, IsStore(store), NEW workspace, NEW session, IsUsageSession(session)
    PROVE  LET once == Usage!RecordUsage(store, workspace, session)
           IN  Usage!RecordUsage(once, workspace, session) = once
<1> DEFINE once == Usage!RecordUsage(store, workspace, session)
           again == Usage!RecordUsage(once, workspace, session)
           Priced(p) == Usage!Cost(Usage!LookupPricing(store.prices, session.model, store.now), Uses(session)[p])
           Event(p, at) ==
             [workspace |-> workspace, source |-> session.source, model |-> session.model,
              tokens |-> Usage!TotalTokens(Uses(session)[p]), estimated |-> Usage!Reports(session) = {},
              created |-> at, cost |-> Priced(p)]
           Key(p) == Usage!RecordKey(session, p)
<1>1. /\ IsStore(once) /\ once.prices = store.prices /\ once.now = store.now
      /\ DOMAIN once.events = DOMAIN store.events \cup Keys(session)
      /\ \A p \in DOMAIN Uses(session) :
           once.events[Key(p)] =
             Event(p, IF Key(p) \in DOMAIN store.events THEN store.events[Key(p)].created ELSE store.now)
  BY ImportTells
<1>2. /\ IsStore(again) /\ again.prices = once.prices /\ again.now = once.now
      /\ DOMAIN again.events = DOMAIN once.events \cup Keys(session)
      /\ \A k \in DOMAIN once.events \ Keys(session) : again.events[k] = once.events[k]
      /\ \A p \in DOMAIN Uses(session) :
           again.events[Key(p)] =
             Event(p, IF Key(p) \in DOMAIN once.events THEN once.events[Key(p)].created ELSE once.now)
  <2> HIDE DEF once
  <2>1. /\ IsStore(again) /\ again.prices = once.prices /\ again.now = once.now
        /\ DOMAIN again.events = DOMAIN once.events \cup Keys(session)
        /\ \A k \in DOMAIN once.events \ Keys(session) : again.events[k] = once.events[k]
        /\ \A p \in DOMAIN Uses(session) :
             again.events[Key(p)] =
               [workspace |-> workspace, source |-> session.source, model |-> session.model,
                tokens |-> Usage!TotalTokens(Uses(session)[p]), estimated |-> Usage!Reports(session) = {},
                created |-> IF Key(p) \in DOMAIN once.events THEN once.events[Key(p)].created ELSE once.now,
                cost |-> Usage!Cost(Usage!LookupPricing(once.prices, session.model, once.now), Uses(session)[p])]
    BY <1>1, ImportTells
  <2>2. once.prices = store.prices /\ once.now = store.now
    BY <1>1
  <2>3. \A p \in DOMAIN Uses(session) :
          Usage!Cost(Usage!LookupPricing(once.prices, session.model, once.now), Uses(session)[p]) = Priced(p)
    BY <2>2
  <2> HIDE DEF again, Priced, Key
  <2>4. ASSUME NEW p \in DOMAIN Uses(session)
        PROVE  again.events[Key(p)] =
                 Event(p, IF Key(p) \in DOMAIN once.events THEN once.events[Key(p)].created ELSE once.now)
    BY <2>1, <2>3
  <2> QED BY <2>1, <2>4
<1> HIDE DEF once, again, Priced
<1>3. ASSUME NEW p \in DOMAIN Uses(session) PROVE again.events[Key(p)] = once.events[Key(p)]
  <2>1. Key(p) \in DOMAIN once.events
    BY <1>1 DEF Keys
  <2> DEFINE at == IF Key(p) \in DOMAIN store.events THEN store.events[Key(p)].created ELSE store.now
  <2>2. once.events[Key(p)] = Event(p, at)
    BY <1>1
  <2>3. \A t : Event(p, t).created = t
    OBVIOUS
  <2>4. again.events[Key(p)] = Event(p, once.events[Key(p)].created)
    BY <1>2, <2>1
  <2> HIDE DEF at, Event, Key
  <2> QED BY <2>2, <2>3, <2>4
<1>4. DOMAIN again.events = DOMAIN once.events
  BY <1>1, <1>2
<1>5. \A k \in DOMAIN once.events : again.events[k] = once.events[k]
  BY <1>2, <1>3 DEF Keys
<1>6. again.events = once.events
  BY <1>1, <1>2, <1>4, <1>5 DEF IsStore
<1>7. again = once
  BY <1>1, <1>2, <1>6 DEF IsStore
<1> QED BY <1>7 DEF again, once

\* What a session has in the store is what all its imports recorded.
LEMMA KeysAre ==
    ASSUME NEW history, IsUsageHistory(history), NEW session, IsUsageSession(session), NEW workspace
    PROVE  LET store == Usage!RecordUsage(Usage!After(history), workspace, session)
               told == Usage!Told(history, session) \cup {session}
               guessed == \E s \in told : Usage!Reports(s) = {} /\ Usage!HasUsage(Usage!Estimate(s))
           IN  { k \in DOMAIN store.events : k[1] = session.source /\ k[2] = session.id } =
                 { Usage!RecordKey(session, p) : p \in UNION { Usage!Reports(s) : s \in told } }
                 \cup { Usage!RecordKey(session, p) : p \in IF guessed THEN {Usage!Estimated} ELSE {} }
<1> DEFINE store == Usage!RecordUsage(Usage!After(history), workspace, session)
           told == Usage!Told(history, session) \cup {session}
           guessed == \E s \in told : Usage!Reports(s) = {} /\ Usage!HasUsage(Usage!Estimate(s))
           mine == { k \in DOMAIN store.events : k[1] = session.source /\ k[2] = session.id }
           places == (UNION { Usage!Reports(s) : s \in told }) \cup (IF guessed THEN {Usage!Estimated} ELSE {})
           Key(p) == Usage!RecordKey(session, p)
<1>1. DOMAIN store.events = (UNION { Adds(history[n]) : n \in DOMAIN history }) \cup Keys(session)
  BY StoreAfter, ImportTells
<1>2. ASSUME NEW s, NEW k \in Keys(s)
      PROVE  k[1] = s.source /\ k[2] = s.id /\ \E p \in DOMAIN Uses(s) : k = << s.source, s.id, p >>
  BY DEF Keys, Usage!RecordKey
<1>3. \A s \in told : s.source = session.source /\ s.id = session.id
  BY DEF Usage!Told
<1>4. places = UNION { DOMAIN Uses(s) : s \in told }
  <2>1. \A s : DOMAIN Uses(s) = IF Usage!Reports(s) # {} THEN Usage!Reports(s)
                                ELSE IF Usage!HasUsage(Usage!Estimate(s)) THEN {Usage!Estimated} ELSE {}
    BY DEF Uses
  <2> HIDE DEF told
  <2>2. \A p \in places : \E s \in told : p \in DOMAIN Uses(s)
    BY <2>1
  <2>3. \A s \in told : \A p \in DOMAIN Uses(s) : p \in places
    BY <2>1
  <2> HIDE DEF places
  <2> QED BY <2>2, <2>3
<1> HIDE DEF store, places
<1>5. ASSUME NEW k \in mine PROVE \E p \in places : k = Key(p)
  <2>1. \E s \in told : k \in Keys(s)
    <3>1. CASE k \in Keys(session)
      BY <3>1
    <3>2. CASE k \notin Keys(session)
      <4>1. PICK n \in DOMAIN history : k \in Adds(history[n])
        BY <1>1, <1>5, <3>2
      <4>2. history[n][1] = "import" /\ k \in Keys(history[n][3])
        BY <4>1 DEF Adds
      <4>3. history[n][3].source = session.source /\ history[n][3].id = session.id
        BY <1>2, <1>5, <4>2
      <4>4. history[n][3] \in Usage!Told(history, session)
        BY <4>2, <4>3 DEF Usage!Told, Usage!Imports
      <4> QED BY <4>2, <4>4
    <3> QED BY <3>1, <3>2
  <2>2. PICK s \in told : k \in Keys(s)
    BY <2>1
  <2> QED BY <1>2, <1>3, <1>4, <2>2 DEF Usage!RecordKey
<1>6. ASSUME NEW p \in places PROVE Key(p) \in mine
  <2>1. PICK s \in told : p \in DOMAIN Uses(s)
    BY <1>4
  <2>2. Key(p) = Usage!RecordKey(s, p) /\ Key(p)[1] = session.source /\ Key(p)[2] = session.id
    BY <1>3 DEF Usage!RecordKey
  <2>3. Key(p) \in Keys(s)
    BY <2>1, <2>2 DEF Keys
  <2>4. Key(p) \in DOMAIN store.events
    <3>1. CASE s = session
      BY <1>1, <2>3, <3>1
    <3>2. CASE s # session
      <4>1. PICK n \in Usage!Imports(history) : s = history[n][3]
        BY <3>2 DEF Usage!Told
      <4>2. n \in DOMAIN history /\ Adds(history[n]) = Keys(s)
        BY <4>1 DEF Usage!Imports, Adds
      <4> QED BY <1>1, <2>3, <4>2
    <3> QED BY <3>1, <3>2
  <2> QED BY <2>2, <2>4
<1>7. mine = { Key(p) : p \in places }
  <2> HIDE DEF mine
  <2>1. mine \subseteq { Key(p) : p \in places }
    BY <1>5
  <2>2. { Key(p) : p \in places } \subseteq mine
    BY <1>6
  <2> QED BY <2>1, <2>2
<1>8. { Key(p) : p \in places } = { Key(p) : p \in UNION { Usage!Reports(s) : s \in told } }
                                   \cup { Key(p) : p \in IF guessed THEN {Usage!Estimated} ELSE {} }
  <2> HIDE DEF told, guessed, Key
  <2> QED BY DEF places
<1> QED BY <1>7, <1>8 DEF store

\* What an import writes under a session's keys.
LEMMA EventsTell ==
    ASSUME NEW store, IsStore(store), NEW workspace, NEW session, IsUsageSession(session),
           NEW p \in DOMAIN Uses(session)
    PROVE  LET key == Usage!RecordKey(session, p)
               event == Usage!RecordUsage(store, workspace, session).events[key]
           IN  /\ event.workspace = workspace /\ event.source = session.source
               /\ event.tokens = Usage!TotalTokens(Uses(session)[p])
               /\ key \notin DOMAIN store.events => event.created = store.now
<1> DEFINE key == Usage!RecordKey(session, p)
           after == Usage!RecordUsage(store, workspace, session)
           created == IF key \in DOMAIN store.events THEN store.events[key].created ELSE store.now
           cost == Usage!Cost(Usage!LookupPricing(store.prices, session.model, store.now), Uses(session)[p])
           event == [workspace |-> workspace, source |-> session.source, model |-> session.model,
                     tokens |-> Usage!TotalTokens(Uses(session)[p]),
                     estimated |-> Usage!Reports(session) = {}, created |-> created, cost |-> cost]
<1>1. after.events[key] = event
  BY ImportTells
<1>2. /\ event.workspace = workspace /\ event.source = session.source
      /\ event.tokens = Usage!TotalTokens(Uses(session)[p]) /\ event.created = created
  OBVIOUS
<1> HIDE DEF event, after
<1> QED BY <1>1, <1>2 DEF after

\* A session's usage counts once, and where it was last imported.
LEMMA CountsOnce ==
    ASSUME NEW history, IsUsageHistory(history), NEW session, IsUsageSession(session),
           NEW workspace, NEW signs
    PROVE  Usage!UsageCountedOnce(history, workspace, session, signs)
<1> DEFINE was == Usage!After(history)
           store == Usage!RecordUsage(was, workspace, session)
           again == Usage!RecordUsage(store, workspace, session)
           usage == Usage!SummarizeUsage(store, workspace, "any", "any")
           rows == Usage!Rows(store, workspace, "any", "any")
           sources == [k \in rows |-> store.events[k].source]
           models == [k \in rows |-> store.events[k].model]
           Key(p) == Usage!RecordKey(session, p)
<1>1. IsStore(was)
  BY StoreAfter
<1>2. /\ IsStore(store)
      /\ DOMAIN store.events = DOMAIN was.events \cup Keys(session)
      /\ \A p \in DOMAIN Uses(session) :
           /\ store.events[Key(p)].workspace = workspace
           /\ store.events[Key(p)].source = session.source
           /\ store.events[Key(p)].tokens = Usage!TotalTokens(Uses(session)[p])
  <2> HIDE DEF was
  <2>1. IsStore(store) /\ DOMAIN store.events = DOMAIN was.events \cup Keys(session)
    BY <1>1, ImportTells
  <2>2. ASSUME NEW p \in DOMAIN Uses(session)
        PROVE  /\ store.events[Key(p)].workspace = workspace
               /\ store.events[Key(p)].source = session.source
               /\ store.events[Key(p)].tokens = Usage!TotalTokens(Uses(session)[p])
    BY <1>1, EventsTell
  <2> QED BY <2>1, <2>2
<1>3. again = store
  <2> HIDE DEF was
  <2> QED BY <1>1, RecordedForGood
<1>4. rows \in SUBSET DOMAIN store.events /\ rows = { k \in DOMAIN store.events : store.events[k].workspace = workspace }
  BY DEF Usage!Rows
<1>5. /\ usage.tokens = Usage!Tokens(store, rows)
      /\ usage.bySource = Usage!GroupedBy(sources, store, rows)
      /\ usage.byModel = Usage!GroupedBy(models, store, rows)
  BY DEF Usage!SummarizeUsage
<1> HIDE DEF was, store, again, usage, rows
<1>6. Usage!SumOf(usage.bySource) = usage.tokens /\ Usage!SumOf(usage.byModel) = usage.tokens
  <2> HIDE DEF sources, models
  <2> QED BY <1>2, <1>4, <1>5, GroupsAddUp
<1>7. ASSUME NEW source \in DOMAIN usage.bySource
      PROVE  Usage!SummarizeUsage(store, workspace, source, "any").tokens = usage.bySource[source]
  <2> DEFINE mine == { k \in rows : sources[k] = source }
  <2>1. usage.bySource = [l \in { sources[k] : k \in rows } |-> Usage!Tokens(store, { k \in rows : sources[k] = l })]
    BY <1>5 DEF Usage!GroupedBy
  <2>2. \E k \in rows : source = store.events[k].source
    BY <1>7, <2>1
  <2>3. source # "any"
    BY <1>2, <1>4, <2>2 DEF IsStore
  <2>4. Usage!Rows(store, workspace, source, "any") = mine
    BY <1>4, <2>3 DEF Usage!Rows
  <2>5. usage.bySource[source] = Usage!Tokens(store, mine)
    BY <1>7, <2>1
  <2>6. Usage!SummarizeUsage(store, workspace, source, "any").tokens
          = Usage!Tokens(store, Usage!Rows(store, workspace, source, "any"))
    BY DEF Usage!SummarizeUsage
  <2> QED BY <2>4, <2>5, <2>6
<1>8. ASSUME NEW p \in Usage!Reports(session)
      PROVE  /\ store.events[Key(p)].tokens = Usage!TotalTokens(Usage!Reported(session)[p])
             /\ store.events[Key(p)].workspace = workspace
  <2>1. p \in DOMAIN Uses(session) /\ Uses(session)[p] = Usage!Reported(session)[p]
    BY <1>8 DEF Uses
  <2> QED BY <1>2, <2>1
<1>9. ASSUME Usage!Reports(session) = {},
             \E n \in DOMAIN session.messages :
               session.messages[n].by = "user" /\ session.messages[n].tokens > 0
      PROVE  "prompt_evidence_without_usage" \notin Usage!RiskSignals(usage, signs)
  <2> DEFINE key == Key(Usage!Estimated)
             amount == [k \in rows |-> store.events[k].tokens]
  <2>1. /\ Usage!HasUsage(Usage!Estimate(session))
        /\ Usage!TotalTokens(Usage!Estimate(session)) > 0
    BY <1>9, EstimateIs
  <2>2. Usage!Estimated \in DOMAIN Uses(session) /\ Uses(session)[Usage!Estimated] = Usage!Estimate(session)
    BY <1>9, <2>1 DEF Uses
  <2>3. key \in rows /\ store.events[key].tokens > 0
    BY <1>2, <1>4, <2>1, <2>2 DEF Keys
  <2>4. IsAmount(amount) /\ DOMAIN amount = rows
    <3>1. IsFiniteSet(rows) /\ \A k \in rows : store.events[k].tokens \in Nat
      BY <1>2, <1>4, FS_Subset DEF IsStore
    <3> QED BY <3>1 DEF IsAmount
  <2>5. usage.tokens = SumOf(amount)
    BY <1>5, SameSum DEF Usage!Tokens
  <2>6. On(amount, rows) = amount /\ amount[key] = store.events[key].tokens
    BY <2>3 DEF On
  <2> HIDE DEF amount, key
  <2>7. /\ {key} \in SUBSET DOMAIN amount /\ rows \ {key} \in SUBSET DOMAIN amount
        /\ {key} \cap (rows \ {key}) = {} /\ {key} \cup (rows \ {key}) = rows
    BY <2>3, <2>4
  <2>8. SumOf(On(amount, rows)) = SumOf(On(amount, {key})) + SumOf(On(amount, rows \ {key}))
    BY <2>4, <2>7, SumOfParts
  <2>9. SumOf(On(amount, {key})) = amount[key] /\ SumOf(On(amount, rows \ {key})) \in Nat
    <3>1. IsAmount(On(amount, {key}))
      BY <2>4, <2>7, SumOn
    <3>2. DOMAIN On(amount, {key}) = {key} /\ On(amount, {key})[key] = amount[key]
      BY DEF On
    <3> QED BY <2>4, <2>7, <3>1, <3>2, SumOfOne, SumOn
  <2>10. amount[key] \in Nat
    BY <2>4, <2>7 DEF IsAmount
  <2>11. usage.tokens # 0
    BY <2>3, <2>5, <2>6, <2>8, <2>9, <2>10
  <2> QED BY <2>11 DEF Usage!RiskSignals
<1>10. LET told == Usage!Told(history, session) \cup {session}
           guessed == \E s \in told : Usage!Reports(s) = {} /\ Usage!HasUsage(Usage!Estimate(s))
       IN  { k \in DOMAIN store.events : k[1] = session.source /\ k[2] = session.id } =
             { Usage!RecordKey(session, p) : p \in UNION { Usage!Reports(s) : s \in told } }
             \cup { Usage!RecordKey(session, p) : p \in IF guessed THEN {Usage!Estimated} ELSE {} }
  BY KeysAre DEF store, was
<1> QED BY Zenon, <1>3, <1>6, <1>7, <1>8, <1>9, <1>10
        DEF Usage!UsageCountedOnce, Usage!CountedOnce, store, again, usage, was

\* The rows of a workspace that were made within a window.
InWindow(store, workspace, window) ==
    { k \in Usage!Rows(store, workspace, "any", "any") :
        store.events[k].created >= store.now - Usage!Hours(window) }

\* A session under another name.
Named(session, n) == [session EXCEPT !.id = n]

\* What a session uses.
Uptake(session) == SumOf([p \in DOMAIN Uses(session) |-> Usage!TotalTokens(Uses(session)[p])])

\* A session uses the same under another name.
LEMMA NameIsNothing ==
    ASSUME NEW session, IsUsageSession(session), NEW n
    PROVE  /\ IsUsageSession(Named(session, n)) /\ Uses(Named(session, n)) = Uses(session)
           /\ Named(session, n).source = session.source /\ Named(session, n).id = n
<1> DEFINE other == Named(session, n)
<1>1. /\ other.source = session.source /\ other.id = n /\ other.model = session.model
      /\ other.raw = session.raw /\ other.messages = session.messages /\ other.heard = session.heard
      /\ other = [source |-> session.source, id |-> n, model |-> session.model,
                  raw |-> session.raw, messages |-> session.messages, heard |-> session.heard]
  BY DEF IsUsageSession, Named
<1> HIDE DEF other
<1>2. IsUsageSession(other)
  <2>1. other = [source |-> other.source, id |-> other.id, model |-> other.model,
                 raw |-> other.raw, messages |-> other.messages, heard |-> other.heard]
    BY <1>1
  <2> QED BY <1>1, <2>1 DEF IsUsageSession
<1>3. Usage!Reported(other) = Usage!Reported(session)
  BY <1>1 DEF Usage!Reported
<1>4. Usage!Estimate(other) = Usage!Estimate(session)
  BY <1>1 DEF Usage!Estimate
<1>5. Usage!Reports(other) = Usage!Reports(session)
  BY <1>3 DEF Usage!Reports
<1>6. Uses(other) = Uses(session)
  BY <1>3, <1>4, <1>5 DEF Uses
<1> QED BY <1>1, <1>2, <1>6 DEF other

\* What a session uses is some number of tokens.
LEMMA UptakeIs ==
    ASSUME NEW session, IsUsageSession(session)
    PROVE  /\ IsAmount([p \in DOMAIN Uses(session) |-> Usage!TotalTokens(Uses(session)[p])])
           /\ Uptake(session) \in Nat
<1> DEFINE amount == [p \in DOMAIN Uses(session) |-> Usage!TotalTokens(Uses(session)[p])]
<1>1. IsAmount(amount)
  BY UsesAre DEF IsAmount
<1> HIDE DEF amount
<1>2. SumOf(amount) \in Nat
  BY <1>1, SumIs
<1> QED BY <1>1, <1>2 DEF amount, Uptake

\* What is counted after a session that was not imported before: what was counted
\* then, and what the session used.
LEMMA WindowGrows ==
    ASSUME NEW store, IsStore(store), NEW workspace, NEW session, IsUsageSession(session),
           Keys(session) \cap DOMAIN store.events = {}, NEW window \in Int
    PROVE  LET after == Usage!RecordUsage(store, workspace, session)
               before == InWindow(store, workspace, window)
               now == InWindow(after, workspace, window)
           IN  /\ before \subseteq now
               /\ Usage!Tokens(after, now) = Usage!Tokens(store, before) + Uptake(session)
<1> DEFINE after == Usage!RecordUsage(store, workspace, session)
           before == InWindow(store, workspace, window)
           now == InWindow(after, workspace, window)
           keys == Keys(session)
           amount == [k \in now |-> after.events[k].tokens]
           uses == Uses(session)
           used == [p \in DOMAIN uses |-> Usage!TotalTokens(uses[p])]
           Key(p) == Usage!RecordKey(session, p)
<1>1. /\ IsStore(after) /\ after.now = store.now
      /\ DOMAIN after.events = DOMAIN store.events \cup keys
      /\ \A k \in DOMAIN store.events \ keys : after.events[k] = store.events[k]
  BY ImportTells
<1>2. ASSUME NEW p \in DOMAIN uses
      PROVE  /\ Key(p) \in keys /\ after.events[Key(p)].workspace = workspace
             /\ after.events[Key(p)].tokens = used[p] /\ after.events[Key(p)].created = store.now
  <2>1. Key(p) \in keys
    BY DEF Keys
  <2>2. Key(p) \notin DOMAIN store.events
    BY <2>1
  <2> HIDE DEF keys
  <2> QED BY <2>1, <2>2, EventsTell
<1>3. Usage!Hours(window) \in Int /\ 1 <= Usage!Hours(window) /\ store.now \in Int
  <2>1. Max({1, window}) \in Int /\ 1 <= Max({1, window})
    <3>1. 1 \in Int
      OBVIOUS
    <3> QED BY Zenon, <3>1, GreaterOfTwo
  <2>2. Usage!Max({1, window}) = Max({1, window})
    BY Zenon, SameMax
  <2>3. Usage!Hours(window) \in {24, Max({1, window})}
    BY <2>2 DEF Usage!Hours
  <2> QED BY <2>1, <2>3 DEF IsStore
<1>4. now = before \cup keys /\ before \cap keys = {} /\ before \in SUBSET DOMAIN store.events
  <2>1. \A k \in keys : after.events[k].workspace = workspace /\ after.events[k].created = store.now
    <3>1. \A k \in keys : \E p \in DOMAIN uses : k = Key(p)
      BY DEF Keys
    <3> HIDE DEF keys, uses, after, Key, used
    <3> QED BY <1>2, <3>1
  <2>2. now = { k \in DOMAIN after.events : /\ after.events[k].workspace = workspace
                                            /\ after.events[k].created >= after.now - Usage!Hours(window) }
    BY DEF InWindow, Usage!Rows
  <2>3. before = { k \in DOMAIN store.events : /\ store.events[k].workspace = workspace
                                               /\ store.events[k].created >= store.now - Usage!Hours(window) }
    BY DEF InWindow, Usage!Rows
  <2>4. keys \cap DOMAIN store.events = {}
    OBVIOUS
  <2>5. store.now >= store.now - Usage!Hours(window)
    BY <1>3
  <2> HIDE DEF keys, uses, after, Key, used, now, before
  <2>6. \A k \in DOMAIN store.events : k \in now <=> k \in before
    BY <1>1, <2>2, <2>3, <2>4
  <2>7. \A k \in keys : k \in now
    BY <1>1, <2>1, <2>2, <2>5
  <2>8. before \subseteq DOMAIN store.events /\ now \subseteq DOMAIN store.events \cup keys
    BY <1>1, <2>2, <2>3
  <2> QED BY <2>4, <2>6, <2>7, <2>8
<1> HIDE DEF after, before, now, keys
<1>5. IsAmount(amount) /\ DOMAIN amount = now
  <2>1. IsFiniteSet(now) /\ \A k \in now : after.events[k].tokens \in Nat
    <3>1. now \in SUBSET DOMAIN after.events
      BY <1>1, <1>4
    <3> QED BY <1>1, <3>1, FS_Subset DEF IsStore
  <2> QED BY <2>1 DEF IsAmount
<1>6. Usage!Tokens(after, now) = SumOf(amount) /\ On(amount, now) = amount
  BY SameSum DEF Usage!Tokens, On
<1>7. On(amount, before) = [k \in before |-> store.events[k].tokens]
  BY <1>1, <1>4 DEF On
<1>8. Usage!Tokens(store, before) = SumOf(On(amount, before))
  BY <1>7, SameSum DEF Usage!Tokens
<1>9. SumOf(On(amount, now)) = SumOf(On(amount, before)) + SumOf(On(amount, keys))
  <2> HIDE DEF amount
  <2>1. before \in SUBSET DOMAIN amount /\ keys \in SUBSET DOMAIN amount
    BY <1>4, <1>5
  <2> QED BY <1>4, <1>5, <2>1, SumOfParts
<1>10. SumOf(On(amount, keys)) = SumOf(used)
  <2> DEFINE m == [k \in keys |-> k[3]]
             w == [p \in DOMAIN uses |-> Key(p)]
             f == On(amount, keys)
  <2>1. IsAmount(used)
    BY UptakeIs
  <2>2. IsAmount(f) /\ DOMAIN f = keys
    <3>1. keys \in SUBSET DOMAIN amount
      BY <1>4, <1>5
    <3> HIDE DEF amount
    <3> QED BY <1>5, <3>1, SumOn DEF On
  <2>3. \A k \in keys : k[3] \in DOMAIN uses /\ k = Key(k[3]) /\ f[k] = used[k[3]]
    <3> SUFFICES ASSUME NEW p \in DOMAIN uses
                 PROVE  Key(p)[3] = p /\ f[Key(p)] = used[p]
      BY DEF keys, Keys, Usage!RecordKey
    <3>1. Key(p)[3] = p
      BY DEF Usage!RecordKey
    <3>2. f[Key(p)] = after.events[Key(p)].tokens
      BY <1>2, <1>4 DEF On
    <3> HIDE DEF f, Key, used, uses
    <3> QED BY <1>2, <3>1, <3>2
  <2>4. \A p \in DOMAIN uses : Key(p) \in keys /\ Key(p)[3] = p
    BY <1>2 DEF Usage!RecordKey
  <2>5. DOMAIN used = DOMAIN uses
    OBVIOUS
  <2> HIDE DEF f, Key, used, uses
  <2>6. m \in Injection(DOMAIN f, DOMAIN used) /\ \A k \in DOMAIN f : f[k] = used[m[k]]
    BY <2>2, <2>3, <2>5 DEF Injection, IsInjective
  <2>7. w \in Injection(DOMAIN used, DOMAIN f) /\ \A p \in DOMAIN used : used[p] = f[w[p]]
    BY <2>2, <2>3, <2>4, <2>5 DEF Injection, IsInjective
  <2> HIDE DEF m, w
  <2>8. SumOf(f) = SumOf(used)
    BY <2>1, <2>2, <2>6, <2>7, SumAlike
  <2> QED BY <2>8 DEF f
<1>11. Usage!Tokens(after, now) = Usage!Tokens(store, before) + Uptake(session)
  BY <1>6, <1>8, <1>9, <1>10 DEF Uptake
<1> QED BY <1>4, <1>11 DEF after, before, now

\* The imports of the sessions of some spawned workers.
SpawnedUse(workspace, session, count) ==
    [n \in 1..count |-> << "import", workspace, Named(session, n) >>]

\* A store without any session under their names.
AreNew(store, session, count) ==
    \A k \in DOMAIN store.events : k[1] = session.source => k[2] \notin 1..count

\* What is counted after their imports: what was counted before, and what each used.
AddsUp(store, workspace, session, window, count) ==
    LET later == Usage!Follow(store, SpawnedUse(workspace, session, count))
        before == InWindow(store, workspace, window)
        now == InWindow(later, workspace, window)
    IN  /\ before \subseteq now
        /\ Usage!Tokens(later, now) = Usage!Tokens(store, before) + Uptake(session) * count

\* Sessions that were not imported before are counted so.
LEMMA SpawnsCount ==
    ASSUME NEW store, IsStore(store), NEW workspace, NEW session, IsUsageSession(session),
           NEW window \in Int, NEW N \in Nat,
           AreNew(store, session, N)
    PROVE  AddsUp(store, workspace, session, window, N)
<1> DEFINE step(n) == << "import", workspace, Named(session, n) >>
           steps == [n \in 1..N |-> step(n)]
           Seen(s) == InWindow(s, workspace, window)
           Count(s) == Usage!Tokens(s, Seen(s))
           V == Uptake(session)
           Good(s, n) ==
             /\ IsStore(s) /\ Seen(store) \subseteq Seen(s)
             /\ Count(s) = Count(store) + V * n
             /\ \A k \in DOMAIN s.events : k[1] = session.source => k[2] \notin (n + 1)..N
<1>1. steps \in Seq({ step(n) : n \in 1..N }) /\ Len(steps) = N
  OBVIOUS
<1>2. PICK at : /\ at[0] = store
                /\ \A n \in 1..Len(steps) : at[n] = Usage!Do(at[n - 1], steps[n])
                /\ Usage!Follow(store, steps) = at[Len(steps)]
  <2> HIDE DEF steps
  <2> QED BY <1>1, StoresExist
<1>3. \A n \in 1..N : at[n] = Usage!RecordUsage(at[n - 1], workspace, Named(session, n))
  <2> TAKE n \in 1..N
  <2>1. steps[n] = step(n) /\ step(n)[1] = "import" /\ step(n)[2] = workspace /\ step(n)[3] = Named(session, n)
    OBVIOUS
  <2> HIDE DEF steps, step
  <2>2. at[n] = Usage!Do(at[n - 1], step(n))
    BY <1>1, <1>2, <2>1
  <2> QED BY <2>1, <2>2 DEF Usage!Do
<1>4. V \in Nat /\ Count(store) \in Nat
  <2>1. Seen(store) \in SUBSET DOMAIN store.events
    BY DEF InWindow, Usage!Rows
  <2> HIDE DEF Seen
  <2> QED BY <2>1, UptakeIs, GroupsAddUp
<1>5. Good(at[0], 0)
  <2>1. Count(store) = Count(store) + V * 0
    <3> HIDE DEF Count, V
    <3> QED BY <1>4
  <2>2. \A k \in DOMAIN store.events : k[1] = session.source => k[2] \notin (0 + 1)..N
    BY DEF AreNew
  <2> HIDE DEF Count, V, Seen
  <2> QED BY <1>2, <2>1, <2>2
<1> DEFINE P == { n \in Nat : n <= N => Good(at[n], n) }
<1> HIDE DEF Good
<1>6. 0 \in P
  BY <1>5
<1>7. ASSUME NEW n \in P PROVE n + 1 \in P
  <2> SUFFICES ASSUME n + 1 <= N PROVE Good(at[n + 1], n + 1)
    OBVIOUS
  <2>1. n \in Nat /\ n <= N /\ Good(at[n], n) /\ n + 1 \in 1..N /\ (n + 1) - 1 = n
    OBVIOUS
  <2> DEFINE s == at[n]
             t == at[n + 1]
             spawned == Named(session, n + 1)
  <2>2. t = Usage!RecordUsage(s, workspace, spawned)
    BY <1>3, <2>1
  <2>3. /\ IsStore(s) /\ Seen(store) \subseteq Seen(s) /\ Count(s) = Count(store) + V * n
        /\ \A k \in DOMAIN s.events : k[1] = session.source => k[2] \notin (n + 1)..N
    BY <2>1 DEF Good
  <2>4. IsUsageSession(spawned) /\ spawned.source = session.source /\ spawned.id = n + 1
        /\ Uses(spawned) = Uses(session)
    BY NameIsNothing
  <2> HIDE DEF s, t, spawned, Seen, Count, V
  <2>5. \A k \in Keys(spawned) : k[1] = session.source /\ k[2] = n + 1
    BY <2>4 DEF Keys, Usage!RecordKey
  <2>6. n + 1 \in (n + 1)..N
    BY <2>1
  <2>7. Keys(spawned) \cap DOMAIN s.events = {}
    BY <2>3, <2>5, <2>6
  <2>8. Seen(s) \subseteq Seen(t) /\ Count(t) = Count(s) + Uptake(spawned)
    BY <2>2, <2>3, <2>4, <2>7, WindowGrows DEF Seen, Count
  <2>9. Uptake(spawned) = V
    BY <2>4 DEF Uptake, V
  <2>10. Count(t) = Count(store) + V * (n + 1)
    BY <1>4, <2>1, <2>3, <2>8, <2>9
  <2>11. IsStore(t) /\ DOMAIN t.events = DOMAIN s.events \cup Keys(spawned)
    BY <2>2, <2>3, <2>4, ImportTells
  <2>12. \A k \in DOMAIN t.events : k[1] = session.source => k[2] \notin (n + 2)..N
    <3>1. (n + 2)..N \subseteq (n + 1)..N /\ n + 1 \notin (n + 2)..N
      BY <2>1
    <3> QED BY <2>3, <2>5, <2>11, <3>1
  <2>13. (n + 1) + 1 = n + 2
    BY <2>1
  <2>14. Good(t, n + 1)
    BY <2>3, <2>8, <2>10, <2>11, <2>12, <2>13 DEF Good
  <2> QED BY <2>14 DEF t
<1>8. P = Nat
  <2>1. P \in SUBSET Nat
    OBVIOUS
  <2> HIDE DEF P
  <2> QED BY <1>6, <1>7, <2>1, Counting
<1>9. Good(at[N], N)
  BY <1>8
<1> HIDE DEF steps, V
<1>10. Usage!Follow(store, steps) = at[N]
  BY <1>1, <1>2
<1>11. SpawnedUse(workspace, session, N) = steps
  BY DEF SpawnedUse, steps
<1> QED BY <1>9, <1>10, <1>11 DEF Good, V, AddsUp

\* What was imported is under the names of the sessions that were.
LEMMA NamesAreNew ==
    ASSUME NEW history, IsUsageHistory(history), NEW session, NEW N \in Nat,
           \A n \in Usage!Imports(history) :
             history[n][3].source = session.source => history[n][3].id \notin Nat \ {0}
    PROVE  AreNew(Usage!After(history), session, N)
<1> SUFFICES ASSUME NEW k \in DOMAIN Usage!After(history).events, k[1] = session.source
             PROVE  k[2] \notin 1..N
  BY DEF AreNew
<1>1. PICK n \in DOMAIN history : k \in Adds(history[n])
  BY StoreAfter
<1>2. history[n][1] = "import" /\ k \in Keys(history[n][3])
  BY <1>1 DEF Adds
<1>3. k[1] = history[n][3].source /\ k[2] = history[n][3].id
  BY <1>2 DEF Keys, Usage!RecordKey
<1>4. n \in Usage!Imports(history)
  BY <1>2 DEF Usage!Imports
<1>5. k[2] \notin Nat \ {0}
  BY <1>3, <1>4
<1> QED BY <1>5

\* What is selected of a queue, and the spawns in it, are counted.
LEMMA SelectedIs ==
    ASSUME NEW items, \E Item : items \in Seq(Item), NEW limit \in Int
    PROVE  Usage!Spawns(Usage!Selected(items, limit)) \in Nat
<1> DEFINE listed == Usage!Classify(items)
           selected == Usage!Selected(items, limit)
           spawns == { n \in DOMAIN selected : selected[n].type = "dispatch_spawn" }
<1>1. PICK fit, order : /\ listed = Usage!Places(items, Usage!InOrder(fit, order))
                        /\ fit \in SUBSET DOMAIN items
  <2> DEFINE Fits(i) == i.status = "approved" /\ i.type \in Usage!AutoActions
             fit == Usage!Where(items, Fits)
  <2>1. fit \in SUBSET DOMAIN items
    BY DEF Usage!Where
  <2> QED BY <2>1 DEF Usage!Classify
<1>2. IsFiniteSet(fit) /\ Cardinality(fit) \in Nat
  <2>1. IsFiniteSet(DOMAIN items)
    BY FS_Interval
  <2> QED BY <1>1, <2>1, FS_Subset, FS_CardinalityType
<1>3. \E Item : listed \in Seq(Item)
  <2>1. DOMAIN Usage!InOrder(fit, order) = 1..Cardinality(fit)
    BY SameSize DEF Usage!InOrder
  <2>2. listed = [k \in 1..Cardinality(fit) |-> items[Usage!InOrder(fit, order)[k]]]
    BY <1>1, <2>1 DEF Usage!Places
  <2>3. listed \in Seq({ items[Usage!InOrder(fit, order)[k]] : k \in 1..Cardinality(fit) })
    BY <1>2, <2>2
  <2> QED BY <2>3
<1>4. Max({1, limit}) \in Nat
  <2>1. 1 \in Int
    OBVIOUS
  <2>2. Max({1, limit}) \in Int /\ 1 <= Max({1, limit})
    BY Zenon, <2>1, GreaterOfTwo
  <2> QED BY <2>2
<1>5. selected = Take(listed, Max({1, limit}))
  BY Zenon, SameTake, SameMax DEF Usage!Selected
<1> HIDE DEF listed, selected
<1>6. \E Item : selected \in Seq(Item)
  BY <1>3, <1>4, <1>5, TakeOf
<1>7. IsFiniteSet(spawns)
  <2>1. IsFiniteSet(DOMAIN selected)
    BY <1>6, FS_Interval
  <2> QED BY <2>1, FS_Subset
<1>8. Usage!Spawns(selected) = Cardinality(spawns)
  BY SameSize DEF Usage!Spawns, Usage!Where
<1> QED BY <1>7, <1>8, FS_CardinalityType DEF selected

\* A session that reports its usage uses what it reports.
LEMMA ReportedUptake ==
    ASSUME NEW session, IsUsageSession(session),
           Usage!Reports(session) = {} => ~Usage!HasUsage(Usage!Estimate(session)),
           NEW limit \in Int, NEW W \in Nat,
           W * Usage!SumKnown([p \in Usage!Reports(session) |->
                                 Usage!TotalTokens(Usage!Reported(session)[p])]) <= limit
    PROVE  W * Uptake(session) <= Usage!Max({0, limit})
<1> DEFINE amount == [p \in Usage!Reports(session) |-> Usage!TotalTokens(Usage!Reported(session)[p])]
           uses == [p \in DOMAIN Uses(session) |-> Usage!TotalTokens(Uses(session)[p])]
<1>1. Usage!Max({0, limit}) \in Int /\ 0 <= Usage!Max({0, limit}) /\ limit <= Usage!Max({0, limit})
  <2>1. 0 \in Int
    OBVIOUS
  <2>2. Max({0, limit}) \in Int /\ 0 <= Max({0, limit}) /\ limit <= Max({0, limit})
    BY Zenon, <2>1, GreaterOfTwo
  <2>3. Usage!Max({0, limit}) = Max({0, limit})
    BY Zenon, SameMax
  <2> QED BY <2>2, <2>3
<1>2. CASE Usage!Reports(session) = {}
  <2>1. DOMAIN Uses(session) = {}
    BY <1>2 DEF Uses
  <2>2. DOMAIN uses = {}
    BY <2>1
  <2>3. SumOf(uses) = 0
    BY <2>2, SumOfNone
  <2>4. Uptake(session) = 0
    BY <2>3 DEF Uptake
  <2>5. W * 0 = 0
    OBVIOUS
  <2> QED BY <1>1, <2>4, <2>5
<1>3. CASE Usage!Reports(session) # {}
  <2>1. uses = amount
    BY <1>3 DEF Uses
  <2>2. IsAmount(amount) /\ DOMAIN amount = Usage!Reports(session)
    <3>1. IsAmount(uses)
      BY UptakeIs
    <3> HIDE DEF uses
    <3> QED BY <2>1, <3>1
  <2>3. Uptake(session) = SumOf(amount)
    <3>1. Uptake(session) = SumOf(uses)
      BY DEF Uptake
    <3> HIDE DEF uses, amount
    <3> QED BY <2>1, <3>1
  <2> HIDE DEF amount, uses
  <2>4. Usage!SumKnown(amount) = SumOf(amount)
    <3>1. { x \in DOMAIN amount : amount[x] # Usage!None } = DOMAIN amount
      BY <2>2 DEF IsAmount, Usage!None
    <3>2. DOMAIN amount # {}
      BY <1>3, <2>2
    <3>3. [x \in DOMAIN amount |-> amount[x]] = amount
      BY DEF amount
    <3> QED BY <3>1, <3>2, <3>3, SameSum DEF Usage!SumKnown
  <2>5. SumOf(amount) \in Nat
    BY <2>2, SumIs
  <2>6. W * SumOf(amount) <= limit
    BY <2>4 DEF amount
  <2>7. W * Uptake(session) = W * SumOf(amount) /\ W * SumOf(amount) \in Int
    BY <2>3, <2>5
  <2> HIDE DEF amount
  <2> QED BY <1>1, <2>6, <2>7
<1> QED BY <1>2, <1>3

\* What is started within a token budget stays within it.
LEMMA BudgetStays ==
    ASSUME NEW history, IsUsageHistory(history), NEW workspace,
           NEW items, \E Item : items \in Seq(Item), NEW limit \in Int, NEW workers \in Int,
           NEW b, b.tokens \in Int, b.perSpawn \in Int, b.window \in Int,
           NEW session, IsUsageSession(session),
           Usage!Reports(session) = {} => ~Usage!HasUsage(Usage!Estimate(session)),
           \A n \in Usage!Imports(history) :
             history[n][3].source = session.source => history[n][3].id \notin Nat \ {0}
    PROVE  Usage!BudgetHolds(history, workspace, items, limit, workers, b, session)
<1> DEFINE store == Usage!After(history)
           selected == Usage!Selected(items, limit)
           cycle == Usage!DaemonCycle(store, workspace, items, limit, b)
           N == Usage!Spawns(cycle)
           W == Usage!Max({1, workers})
           used == Usage!SumKnown([p \in Usage!Reports(session) |->
                                     Usage!TotalTokens(Usage!Reported(session)[p])])
           M == Usage!Max({0, b.perSpawn})
           V == Uptake(session)
           before == InWindow(store, workspace, b.window)
           T == Usage!Tokens(store, before)
           totals == Usage!UsageTotals(store, workspace, b.window)
           Ends(n) == Usage!UsageTotals(Usage!Follow(store, SpawnedUse(workspace, session, n)),
                                        workspace, b.window)
<1>1. Usage!BudgetHolds(history, workspace, items, limit, workers, b, session) <=>
        (b.tokens # Usage!None /\ N > 0 /\ W * used <= b.perSpawn
           => \A n \in 0..(W * N) : Ends(n).tokens <= b.tokens /\ Ends(n).known)
  BY DEF Usage!BudgetHolds, Usage!StartedWorkers, Named, SpawnedUse
<1>2. totals.tokens = T /\ (totals.known <=> before # {})
  BY DEF Usage!UsageTotals, InWindow
<1>3. Usage!Spawns(<< >>) = 0
  <2>1. Usage!Spawns(<< >>) = Cardinality({})
    BY SameSize DEF Usage!Spawns, Usage!Where
  <2> QED BY <2>1, FS_EmptySet
<1>4. N > 0 => /\ cycle = selected
               /\ Usage!BudgetReasons(store, workspace, selected, b) = {}
  BY <1>3 DEF Usage!DaemonCycle
<1>5. b.tokens # Usage!None /\ Usage!BudgetReasons(store, workspace, selected, b) = {}
      => totals.known /\ ~(Usage!Projected(totals.tokens, b.perSpawn, selected) > b.tokens)
  <2> HIDE DEF store, selected
  <2> SUFFICES ASSUME b.tokens # Usage!None, Usage!BudgetReasons(store, workspace, selected, b) = {}
               PROVE  totals.known /\ ~(Usage!Projected(totals.tokens, b.perSpawn, selected) > b.tokens)
    OBVIOUS
  <2>1. totals.known
    <3>1. "unknown" \notin Usage!BudgetReasons(store, workspace, selected, b)
      OBVIOUS
    <3> HIDE DEF totals
    <3>2. Usage!UsageTotals(store, workspace, b.window) = totals
      BY DEF totals
    <3> QED BY <3>1, <3>2 DEF Usage!BudgetReasons
  <2>2. ~(Usage!Projected(totals.tokens, b.perSpawn, selected) > b.tokens)
    <3>1. "tokens" \notin Usage!BudgetReasons(store, workspace, selected, b)
      OBVIOUS
    <3> HIDE DEF totals
    <3>2. Usage!UsageTotals(store, workspace, b.window) = totals
      BY DEF totals
    <3> QED BY <2>1, <3>1, <3>2 DEF Usage!BudgetReasons, Usage!Over
  <2> QED BY <2>1, <2>2
<1>6. IsStore(store)
  BY StoreAfter
<1>7. Usage!Spawns(selected) \in Nat /\ N \in Nat
  <2>1. Usage!Spawns(selected) \in Nat
    BY SelectedIs
  <2>2. cycle \in {selected, << >>}
    BY DEF Usage!DaemonCycle
  <2> HIDE DEF selected, cycle
  <2> QED BY <1>3, <2>1, <2>2
<1>8. V \in Nat /\ M \in Int /\ T \in Nat /\ W \in Nat
  <2>1. before \in SUBSET DOMAIN store.events
    BY DEF InWindow, Usage!Rows
  <2>2. M \in Int
    <3>1. 0 \in Int
      OBVIOUS
    <3>2. Max({0, b.perSpawn}) \in Int
      BY Zenon, <3>1, GreaterOfTwo
    <3>3. M = Max({0, b.perSpawn})
      BY Zenon, SameMax
    <3> QED BY <3>2, <3>3
  <2>3. W \in Nat
    <3>1. 1 \in Int
      OBVIOUS
    <3>2. Max({1, workers}) \in Int /\ 1 <= Max({1, workers})
      BY Zenon, <3>1, GreaterOfTwo
    <3>3. W = Max({1, workers})
      BY Zenon, SameMax
    <3> HIDE DEF W
    <3> QED BY <3>2, <3>3
  <2> HIDE DEF before, store, W, M
  <2> QED BY <1>6, <2>1, <2>2, <2>3, UptakeIs, GroupsAddUp
<1> HIDE DEF cycle
<1>9. ASSUME NEW n \in Nat
      PROVE  Ends(n).tokens = T + V * n /\ (totals.known => Ends(n).known)
  <2> DEFINE later == Usage!Follow(store, SpawnedUse(workspace, session, n))
             now == InWindow(later, workspace, b.window)
  <2>1. Ends(n).tokens = Usage!Tokens(later, now) /\ (Ends(n).known <=> now # {})
    BY DEF Usage!UsageTotals, InWindow
  <2>2. AreNew(store, session, n)
    BY NamesAreNew
  <2> HIDE DEF store
  <2>3. AddsUp(store, workspace, session, b.window, n)
    BY <1>6, <2>2, SpawnsCount
  <2>4. before \subseteq now /\ Usage!Tokens(later, now) = T + V * n
    BY <2>3 DEF AddsUp
  <2> HIDE DEF later, now, Ends, before, T, V, totals
  <2> QED BY <1>2, <2>1, <2>4
<1>10. W * used <= b.perSpawn => W * V <= M
  <2> HIDE DEF W
  <2> QED BY <1>8, ReportedUptake
<1>11. Usage!Projected(totals.tokens, b.perSpawn, selected) = totals.tokens + M * Usage!Spawns(selected)
  BY DEF Usage!Projected
<1> SUFFICES ASSUME b.tokens # Usage!None, N > 0, W * used <= b.perSpawn,
                    NEW n \in 0..(W * N)
             PROVE  Ends(n).tokens <= b.tokens /\ Ends(n).known
  BY <1>1
<1>12. totals.known /\ ~(T + M * N > b.tokens)
  <2>1. totals.known /\ ~(Usage!Projected(totals.tokens, b.perSpawn, selected) > b.tokens) /\ cycle = selected
    BY <1>4, <1>5
  <2>2. N = Usage!Spawns(selected)
    BY <2>1
  <2> HIDE DEF N, V, M, T, totals, selected
  <2> QED BY <1>2, <1>11, <2>1, <2>2
<1> HIDE DEF N, W, V, M, T, used, totals, Ends, before
<1>13. n \in Nat /\ n <= W * N /\ W * N \in Nat
  BY <1>7, <1>8
<1>14. V * n <= M * N
  <2>1. V * n <= V * (W * N)
    <3> DEFINE d == W * N - n
    <3>1. d \in Nat /\ W * N = n + d
      BY <1>13
    <3> HIDE DEF d
    <3>2. V * (n + d) = V * n + V * d /\ V * n \in Nat /\ V * d \in Nat
      BY <1>8, <1>13, <3>1
    <3> QED BY <3>1, <3>2
  <2>2. V * (W * N) = (W * V) * N
    BY <1>7, <1>8
  <2>3. (W * V) * N <= M * N
    <3>1. W * V \in Int /\ W * V <= M
      BY <1>8, <1>10
    <3> QED BY <1>7, <1>8, <3>1
  <2>4. V * n \in Int /\ V * (W * N) \in Int /\ (W * V) * N \in Int /\ M * N \in Int
    BY <1>7, <1>8, <1>13
  <2> QED BY <2>1, <2>2, <2>3, <2>4
<1>15. Ends(n).tokens <= b.tokens
  <2>1. V * n \in Int /\ M * N \in Int /\ T \in Int
    BY <1>7, <1>8, <1>13
  <2> QED BY <1>9, <1>12, <1>13, <1>14, <2>1
<1> QED BY <1>9, <1>12, <1>13, <1>15

\* The inputs that the property is about.
IsUsageInput ==
    /\ input.about = "usage" => IsUsageHistory(input.history) /\ IsUsageSession(input.session)
    /\ input.about = "budget" =>
         /\ IsUsageHistory(input.history) /\ IsUsageSession(input.session)
         /\ \E Item : input.items \in Seq(Item)
         /\ input.limit \in Int /\ input.workers \in Int
         /\ input.budget.tokens \in Int /\ input.budget.perSpawn \in Int /\ input.budget.window \in Int
         /\ Usage!Reports(input.session) = {} => ~Usage!HasUsage(Usage!Estimate(input.session))
         /\ \A n \in Usage!Imports(input.history) :
              input.history[n][3].source = input.session.source
                => input.history[n][3].id \notin Nat \ {0}

\* A transcript imported again as it grows is counted once, and a drain within the
\* token budget stays within it if the workers of an action, up to max_workers of
\* them, together use no more than it was estimated to (storage/usage.py,
\* orchestrator_budget.py): after any history, for transcripts, queues and budgets
\* of any size.
THEOREM UsageAddsUp ==
    ASSUME IsUsageInput
    PROVE  UsageIsAccounted
<1>1. input.about = "usage" =>
        Usage!UsageCountedOnce(input.history, input.workspace, input.session, input.evidence)
  BY CountsOnce DEF IsUsageInput
<1>2. input.about = "budget" =>
        Usage!BudgetHolds(input.history, input.workspace, input.items, input.limit,
                          input.workers, input.budget, input.session)
  BY BudgetStays DEF IsUsageInput
<1> QED BY <1>1, <1>2 DEF UsageIsAccounted
=============================================================================
