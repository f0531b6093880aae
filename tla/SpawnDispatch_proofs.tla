------------------------ MODULE SpawnDispatch_proofs ------------------------
(***************************************************************************)
(* Proofs about SpawnDispatch, for any number of dispatchers, tasks,        *)
(* workers and faults.                                                     *)
(*                                                                         *)
(* All that matters of an invocation is its own (Sound): who holds its      *)
(* task, what it was handed over with, what the ledger and the findings     *)
(* keep of it.  A step touches one invocation, or all of one dispatcher,    *)
(* and leaves the others as they are.  Called says what a dispatcher's own  *)
(* mode and report have to do with its invocations.                        *)
(***************************************************************************)
EXTENDS SpawnDispatch, TLAPS

Kinds    == {"handoff", "review_finding", "command_evidence"}
Contents == {"done", "blocked", "any"}
Reviewed == {"plan", "implementation"}
Ended    == {"exited", "over"} \cup Completing

\* The ledger keeps nothing of an invocation.
Clean(d, t) == \A k \in Kinds, c \in Contents : << d, t, k, c >> \notin ledger

Recorded(d, t) == \/ << d, t >> \in findings
                  \/ << d, t, "review_finding", "any" >> \in ledger

\* Who holds the task has claimed it and not handed it over; once the
\* invocation is over only a lost claim or a pending handoff keep the lease.
Holding(d, t) ==
    holder[t] = d =>
        /\ Stage(d, t) \notin {"out", "selected", "prepared"}
        /\ handoff[d][t] = "none"
        /\ Stage(d, t) = "over" =>
              \/ mode[d] = "died" \/ inv[d][t].lost
              \/ \E s \in {"done", "blocked"} : << d, t, "handoff", s >> \in ledger

\* Nothing is handed over before the invocation is over.
Unhanded(d, t) ==
    Stage(d, t) # "over" =>
        handoff[d][t] = "none" /\ \A c \in Contents : << d, t, "handoff", c >> \notin ledger

\* What the reviewer has let pass, step by step.
Approved(d, t) ==
    inv[d][t].agent = "copilot" =>
        /\ Stage(d, t) \in {"implementing", "implementation_review"} => "plan" \in inv[d][t].approved
        /\ Stage(d, t) \in Ended /\ inv[d][t].result = "done" => inv[d][t].approved = Reviewed
        /\ handoff[d][t] = "done" \/ << d, t, "handoff", "done" >> \in ledger
              => inv[d][t].approved = Reviewed

\* A rejection blocks the result, and is on record before it is handed over.
Rejected(d, t) ==
    /\ Stage(d, t) \notin Ended => inv[d][t].review = "none"
    /\ Stage(d, t) = "finding" => inv[d][t].review = "rejected"
    /\ Stage(d, t) \in Completing => inv[d][t].result # "none"
    /\ inv[d][t].review = "rejected" =>
          /\ Stage(d, t) # "over" => inv[d][t].result = "blocked"
          /\ Stage(d, t) \in {"evidence", "handing"} => Recorded(d, t)
          /\ handoff[d][t] # "none" => Recorded(d, t)
          /\ \A c \in Contents : << d, t, "handoff", c >> \in ledger => Recorded(d, t)

\* What the ledger keeps shows in the invocation, and keeps it from "completed".
Accounted(d, t) ==
    /\ Stage(d, t) \notin {"evidence", "handing", "over"} => Clean(d, t)
    /\ Stage(d, t) = "evidence" => Clean(d, t) \/ inv[d][t].review = "rejected"
    /\ Stage(d, t) = "handing" =>
          Clean(d, t) \/ inv[d][t].review = "rejected" \/ inv[d][t].evidence = "pending"
    /\ Stage(d, t) = "over" /\ inv[d][t].item.execution = "completed" =>
          handoff[d][t] = "done" /\ Clean(d, t)

Sound(d, t) == /\ Holding(d, t) /\ Unhanded(d, t) /\ Approved(d, t)
               /\ Rejected(d, t) /\ Accounted(d, t)

Called(d) ==
    /\ mode[d] = "none" => \A t \in Tasks : Stage(d, t) = "out"
    /\ ~Alive(d) => \A t \in Tasks : Stage(d, t) \in {"out", "over"}
    /\ mode[d] = "one" => Selected(d) # {} /\ \A t, u \in Selected(d) : t = u
    /\ (\E t \in Tasks : Stage(d, t) = "selected") => \A t \in Tasks : Stage(d, t) \in {"out", "selected"}
    /\ report[d] # "none" => mode[d] = "returned"
    /\ report[d] = "completed" => \A t \in Selected(d) : inv[d][t].item.execution = "completed"

Inv == TypeOK /\ (\A d \in Dispatchers : Called(d)) /\ (\A d \in Dispatchers, t \in Tasks : Sound(d, t))

-----------------------------------------------------------------------------
(* What steps have in common. *)

LEMMA Types ==
    ASSUME TypeOK, NEW d \in Dispatchers, NEW t \in Tasks
    PROVE  inv[d][t] \in Invocations
BY DEF TypeOK

LEMMA OverTypes ==
    ASSUME NEW i \in Invocations, NEW item \in Items
    PROVE  /\ Over(i, item) \in Invocations
           /\ Over(i, item).stage = "over" /\ Over(i, item).item = item
           /\ Over(i, item).review = i.review /\ Over(i, item).approved = i.approved
           /\ Over(i, item).agent = i.agent /\ Over(i, item).lost = i.lost
           /\ Over(i, item).result = "none" /\ Over(i, item).evidence = "none"
<1>1. [i EXCEPT !.stage = "over"] \in Invocations
  BY DEF Invocations, Stages
<1>2. [i EXCEPT !.stage = "over", !.item = item] \in Invocations
  BY <1>1 DEF Invocations
<1>3. [i EXCEPT !.stage = "over", !.item = item, !.result = "none"] \in Invocations
  BY <1>2 DEF Invocations
<1>4. Over(i, item) \in Invocations
  BY <1>3 DEF Invocations, Over
<1> QED BY <1>4 DEF Invocations, Over

LEMMA MovedTypes ==
    ASSUME TypeOK, NEW d \in Dispatchers, NEW t \in Tasks, NEW stage \in Stages
    PROVE  /\ Moved(d, t, stage) \in Invocations /\ Moved(d, t, stage).stage = stage
           /\ Moved(d, t, stage).agent = inv[d][t].agent
           /\ Moved(d, t, stage).result = inv[d][t].result
           /\ Moved(d, t, stage).review = inv[d][t].review
           /\ Moved(d, t, stage).approved = inv[d][t].approved
           /\ Moved(d, t, stage).evidence = inv[d][t].evidence
           /\ Moved(d, t, stage).lost = inv[d][t].lost
           /\ Moved(d, t, stage).item = inv[d][t].item
BY Types DEF Moved, Invocations

LEMMA StepTypes ==
    ASSUME TypeOK, NEW d \in Dispatchers, NEW t \in Tasks, NEW new \in Invocations, Step(d, t, new)
    PROVE  /\ inv' \in [Dispatchers -> [Tasks -> Invocations]]
           /\ inv'[d][t] = new
           /\ \A e \in Dispatchers, u \in Tasks : e # d \/ u # t => inv'[e][u] = inv[e][u]
<1>1. inv \in [Dispatchers -> [Tasks -> Invocations]] /\ inv' = [inv EXCEPT ![d][t] = new]
  BY DEF TypeOK, Step
<1> QED BY <1>1

\* What a step does to an invocation that it is not about.
Aside(e, u) ==
    /\ inv'[e][u] = inv[e][u] /\ handoff'[e][u] = handoff[e][u]
    /\ holder'[u] = e => holder[u] = e
    /\ \A k \in Kinds, c \in Contents : << e, u, k, c >> \in ledger' <=> << e, u, k, c >> \in ledger
    /\ << e, u >> \in findings => << e, u >> \in findings'
    /\ mode[e] = "died" => mode'[e] = "died"

LEMMA Frame ==
    ASSUME NEW e \in Dispatchers, NEW u \in Tasks, Sound(e, u), Aside(e, u)
    PROVE  Sound(e, u)'
<1>1. Stage(e, u)' = Stage(e, u)
  BY DEF Stage, Aside
<1>2. Clean(e, u)' = Clean(e, u) /\ (Recorded(e, u) => Recorded(e, u)')
  BY DEF Clean, Recorded, Aside, Kinds, Contents
<1>3. Holding(e, u)'
  BY <1>1 DEF Sound, Holding, Aside, Kinds, Contents
<1>4. Unhanded(e, u)' /\ Approved(e, u)'
  BY <1>1 DEF Sound, Unhanded, Approved, Aside, Kinds, Contents
<1>5. Rejected(e, u)'
  BY <1>1, <1>2 DEF Sound, Rejected, Aside, Kinds, Contents
<1>6. Accounted(e, u)'
  BY <1>1, <1>2 DEF Sound, Accounted, Aside
<1> QED BY <1>3, <1>4, <1>5, <1>6 DEF Sound

\* A step of one invocation of a call that goes on.
LEMMA OneStep ==
    ASSUME Inv, NEW d \in Dispatchers, NEW t \in Tasks, NEW new \in Invocations,
           Alive(d), Stage(d, t) \notin {"out", "selected"}, Step(d, t, new),
           new.stage \notin {"out", "selected"},
           UNCHANGED << mode, report >>, TypeOK',
           \A e \in Dispatchers, u \in Tasks : e # d \/ u # t => Aside(e, u),
           Sound(d, t)'
    PROVE  Inv'
<1>1. /\ inv'[d][t] = new
      /\ \A e \in Dispatchers, u \in Tasks : e # d \/ u # t => inv'[e][u] = inv[e][u]
  BY StepTypes DEF Inv
<1>2. \A e \in Dispatchers, u \in Tasks : Sound(e, u)'
  BY Frame DEF Inv
<1>3. ASSUME NEW e \in Dispatchers PROVE Called(e)'
  <2>1. Called(e)
    BY DEF Inv
  <2>2. \A u \in Tasks : Stage(e, u)' = "out" <=> Stage(e, u) = "out"
    BY <1>1 DEF Stage
  <2>3. Selected(e)' = Selected(e)
    BY <2>2 DEF Selected
  <2>4. CASE e = d
    <3>1. \A u \in Tasks : Stage(e, u)' # "selected"
      BY <1>1, <2>1, <2>4 DEF Stage, Called
    <3> QED BY <2>1, <2>2, <2>3, <2>4, <3>1 DEF Called, Alive
  <2>5. CASE e # d
    <3>1. \A u \in Tasks : inv'[e][u] = inv[e][u] /\ Stage(e, u)' = Stage(e, u)
      BY <1>1, <2>5 DEF Stage
    <3>2. \A u \in Selected(e) : u \in Tasks
      BY DEF Selected
    <3> QED BY <2>1, <2>3, <3>1, <3>2 DEF Called, Alive
  <2> QED BY <2>4, <2>5
<1> QED BY <1>2, <1>3 DEF Inv

\* The same where the database is not touched.
LEMMA OwnStep ==
    ASSUME Inv, NEW d \in Dispatchers, NEW t \in Tasks, NEW new \in Invocations,
           Alive(d), Stage(d, t) \notin {"out", "selected"}, Step(d, t, new),
           new.stage \notin {"out", "selected"},
           UNCHANGED << mode, store, report >>, Sound(d, t)'
    PROVE  Inv'
<1>1. /\ inv' \in [Dispatchers -> [Tasks -> Invocations]]
      /\ \A e \in Dispatchers, u \in Tasks : e # d \/ u # t => inv'[e][u] = inv[e][u]
  BY StepTypes DEF Inv
<1>2. TypeOK'
  BY <1>1 DEF Inv, TypeOK, store
<1>3. \A e \in Dispatchers, u \in Tasks : e # d \/ u # t => Aside(e, u)
  BY <1>1 DEF Aside, store
<1> QED BY <1>2, <1>3, OneStep

LEMMA InvInit == Init => Inv
<1> SUFFICES ASSUME Init PROVE Inv
  OBVIOUS
<1>1. NewInvocation \in Invocations
  BY DEF NewInvocation, NoItem, Invocations, Stages, Items
<1>2. TypeOK
  BY <1>1, HoldersDiffer DEF Init, TypeOK
<1>3. \A d \in Dispatchers, t \in Tasks :
         Stage(d, t) = "out" /\ inv[d][t] = NewInvocation /\ Clean(d, t) /\ handoff[d][t] = "none"
         /\ holder[t] # d
  BY HoldersDiffer DEF Init, Stage, NewInvocation, Clean
<1>4. ASSUME NEW d \in Dispatchers PROVE Called(d)
  BY <1>3 DEF Called, Init, Alive, Selected
<1>5. ASSUME NEW d \in Dispatchers, NEW t \in Tasks PROVE Sound(d, t)
  <2>1. Holding(d, t) /\ Unhanded(d, t)
    BY <1>3 DEF Holding, Unhanded, Clean, Kinds
  <2>2. Approved(d, t) /\ Rejected(d, t)
    <3>1. inv[d][t].agent = "codex" /\ inv[d][t].review = "none"
      BY <1>3 DEF NewInvocation
    <3> QED BY <1>3, <3>1 DEF Approved, Rejected, Completing
  <2>3. Accounted(d, t)
    BY <1>3 DEF Accounted
  <2> QED BY <2>1, <2>2, <2>3 DEF Sound
<1> QED BY <1>2, <1>4, <1>5 DEF Inv

-----------------------------------------------------------------------------
(* The worker and its reviews. *)

AtWork == {"claimed", "planning", "plan_review", "implementing", "implementation_review", "exited"}

\* A step of a claimed invocation before anything of it is written down.
LEMMA Works ==
    ASSUME Inv, NEW d \in Dispatchers, NEW t \in Tasks, NEW new \in Invocations,
           Alive(d), Stage(d, t) \in AtWork, Step(d, t, new), UNCHANGED << mode, store, report >>,
           new.stage \in AtWork \cup {"finding", "evidence"},
           new.agent = inv[d][t].agent,
           new.agent = "copilot" =>
              /\ new.stage \in {"implementing", "implementation_review"} => "plan" \in new.approved
              /\ new.stage \in Ended /\ new.result = "done" => new.approved = Reviewed,
           new.stage \notin Ended => new.review = "none",
           new.stage = "finding" => new.review = "rejected",
           new.stage \in Completing => new.result # "none",
           new.review = "rejected" => new.result = "blocked" /\ new.stage # "evidence"
    PROVE  Inv'
<1>1. inv'[d][t] = new /\ Stage(d, t)' = new.stage
  BY StepTypes DEF Inv, Stage
<1>2. Sound(d, t) /\ Stage(d, t) \notin {"evidence", "handing", "over"}
  BY DEF Inv, AtWork
<1>3. Clean(d, t) /\ handoff[d][t] = "none"
  BY <1>2 DEF Sound, Accounted, Unhanded
<1>4. Clean(d, t)' /\ handoff'[d][t] = "none" /\ new.stage \notin {"handing", "over"}
  BY <1>3 DEF Clean, store, AtWork
<1>5. \A c \in Contents : << d, t, "handoff", c >> \notin ledger'
  BY <1>4 DEF Clean, Kinds
<1>6. Holding(d, t)' /\ Unhanded(d, t)'
  BY <1>1, <1>4, <1>5 DEF Holding, Unhanded, AtWork
<1>7. Approved(d, t)'
  BY <1>1, <1>4, <1>5 DEF Approved, Contents
<1>8. Rejected(d, t)'
  BY <1>1, <1>4, <1>5 DEF Rejected, Completing
<1>9. Accounted(d, t)'
  BY <1>1, <1>4 DEF Accounted
<1>10. Sound(d, t)'
  BY <1>6, <1>7, <1>8, <1>9 DEF Sound
<1> QED BY <1>2, <1>10, OwnStep DEF AtWork

\* What is known of an invocation at work.
LEMMA AtWorkFacts ==
    ASSUME Inv, NEW d \in Dispatchers, NEW t \in Tasks
    PROVE  /\ inv[d][t] \in Invocations
           /\ Stage(d, t) \notin Ended => inv[d][t].review = "none"
           /\ inv[d][t].review = "rejected" /\ Stage(d, t) = "exited" => inv[d][t].result = "blocked"
           /\ inv[d][t].agent = "copilot" /\ Stage(d, t) \in {"implementing", "implementation_review"}
                 => "plan" \in inv[d][t].approved
           /\ inv[d][t].agent = "copilot" /\ Stage(d, t) = "exited" /\ inv[d][t].result = "done"
                 => inv[d][t].approved = Reviewed
BY Types DEF Inv, Sound, Rejected, Approved, Ended

\* The review writes its own result over the worker's.
LEMMA BlockKeeps ==
    ASSUME Inv, NEW d \in Dispatchers, NEW t \in Tasks, Alive(d), Stage(d, t) \in AtWork,
           Step(d, t, BlockedResult(d, t)), UNCHANGED << mode, store, report >>
    PROVE  Inv'
<1> DEFINE new == BlockedResult(d, t)
<1>1. inv[d][t] \in Invocations
  BY AtWorkFacts
<1>2. [inv[d][t] EXCEPT !.stage = "exited"] \in Invocations
  BY <1>1 DEF Invocations, Stages
<1>3. [inv[d][t] EXCEPT !.stage = "exited", !.result = "blocked"] \in Invocations
  BY <1>2 DEF Invocations
<1>4. new \in Invocations
  BY <1>3 DEF Invocations, BlockedResult
<1>5. new.stage = "exited" /\ new.result = "blocked" /\ new.agent = inv[d][t].agent
  BY <1>1 DEF Invocations, BlockedResult
<1>6. Step(d, t, new)
  OBVIOUS
<1> HIDE DEF new
<1> QED BY <1>4, <1>5, <1>6, Works DEF AtWork, Ended

LEMMA LaunchKeeps ==
    ASSUME Inv, NEW d \in Dispatchers, NEW t \in Tasks, Launch(d, t)
    PROVE  Inv'
<1> DEFINE stage == IF inv[d][t].agent = "copilot" THEN "planning" ELSE "implementing"
           new == Moved(d, t, stage)
<1>1. Alive(d) /\ Stage(d, t) = "claimed" /\ Step(d, t, new) /\ UNCHANGED << mode, store, report >>
  BY DEF Launch
<1>2. stage \in Stages /\ stage \in {"planning", "implementing"}
      /\ (inv[d][t].agent = "copilot" => stage = "planning")
  BY DEF Stages
<1>3. new \in Invocations /\ new.stage = stage /\ new.agent = inv[d][t].agent
      /\ new.review = inv[d][t].review
  BY <1>2, MovedTypes DEF Inv
<1>4. new.review = "none"
  BY <1>1, <1>3, AtWorkFacts DEF Ended, Completing
<1> HIDE DEF new, stage
<1> QED BY <1>1, <1>2, <1>3, <1>4, Works DEF AtWork, Ended, Completing

LEMMA PlanKeeps ==
    ASSUME Inv, NEW d \in Dispatchers, NEW t \in Tasks, Plan(d, t)
    PROVE  Inv'
<1>1. Alive(d) /\ Stage(d, t) = "planning" /\ UNCHANGED << mode, store, report >>
  BY DEF Plan
<1>2. ASSUME NEW early \in {"none", "done"},
             Step(d, t, [inv[d][t] EXCEPT !.stage = "plan_review", !.result = early])
      PROVE  Inv'
  <2> DEFINE new == [inv[d][t] EXCEPT !.stage = "plan_review", !.result = early]
  <2>1. inv[d][t] \in Invocations /\ inv[d][t].review = "none"
    BY <1>1, AtWorkFacts DEF Ended, Completing
  <2>2. [inv[d][t] EXCEPT !.stage = "plan_review"] \in Invocations
    BY <2>1 DEF Invocations, Stages
  <2>3. new \in Invocations
    BY <2>2 DEF Invocations
  <2>4. new.stage = "plan_review" /\ new.agent = inv[d][t].agent /\ new.review = "none"
    BY <2>1 DEF Invocations
  <2> HIDE DEF new
  <2> QED BY <1>1, <1>2, <2>3, <2>4, Works DEF AtWork, Ended, Completing, new
<1>3. CASE Step(d, t, BlockedResult(d, t))
  BY <1>1, <1>3, BlockKeeps DEF AtWork
<1> QED BY <1>2, <1>3 DEF Plan

LEMMA ReviewPlanKeeps ==
    ASSUME Inv, NEW d \in Dispatchers, NEW t \in Tasks, ReviewPlan(d, t)
    PROVE  Inv'
<1> DEFINE new == [inv[d][t] EXCEPT !.stage = "implementing", !.approved = {"plan"}]
<1>1. Alive(d) /\ Stage(d, t) = "plan_review" /\ UNCHANGED << mode, store, report >>
  BY DEF ReviewPlan
<1>2. inv[d][t] \in Invocations /\ inv[d][t].review = "none"
  BY <1>1, AtWorkFacts DEF Ended, Completing
<1>3. [inv[d][t] EXCEPT !.stage = "implementing"] \in Invocations
  BY <1>2 DEF Invocations, Stages
<1>4. new \in Invocations
  BY <1>3 DEF Invocations
<1>5. /\ new.stage = "implementing" /\ new.agent = inv[d][t].agent /\ new.review = "none"
      /\ new.approved = {"plan"}
  BY <1>2 DEF Invocations
<1>6. CASE Step(d, t, new)
  <2> HIDE DEF new
  <2> QED BY <1>1, <1>4, <1>5, <1>6, Works DEF AtWork, Ended, Completing
<1>7. CASE Step(d, t, BlockedResult(d, t))
  BY <1>1, <1>7, BlockKeeps DEF AtWork
<1> QED BY <1>6, <1>7 DEF ReviewPlan

LEMMA ImplementKeeps ==
    ASSUME Inv, NEW d \in Dispatchers, NEW t \in Tasks, Implement(d, t)
    PROVE  Inv'
<1>1. Alive(d) /\ Stage(d, t) = "implementing" /\ UNCHANGED << mode, store, report >>
  BY DEF Implement
<1>2. /\ inv[d][t] \in Invocations /\ inv[d][t].review = "none"
      /\ inv[d][t].agent = "copilot" => "plan" \in inv[d][t].approved
  BY <1>1, AtWorkFacts DEF Ended, Completing
<1>3. \A r \in Outcomes(inv[d][t].result) : r \in {"none", "done", "blocked"}
  BY <1>2 DEF Outcomes, Invocations
<1>4. ASSUME NEW stage \in {"exited", "implementation_review"}, NEW r \in {"none", "done", "blocked"},
             Step(d, t, [inv[d][t] EXCEPT !.stage = stage, !.result = r]),
             inv[d][t].agent = "copilot" /\ stage = "exited" => r # "done"
      PROVE  Inv'
  <2> DEFINE new == [inv[d][t] EXCEPT !.stage = stage, !.result = r]
  <2>1. [inv[d][t] EXCEPT !.stage = stage] \in Invocations
    BY <1>2 DEF Invocations, Stages
  <2>2. new \in Invocations
    BY <2>1 DEF Invocations
  <2>3. /\ new.stage = stage /\ new.agent = inv[d][t].agent /\ new.review = "none"
        /\ new.approved = inv[d][t].approved /\ new.result = r
    BY <1>2 DEF Invocations
  <2>4. Step(d, t, new)
    BY <1>4
  <2> HIDE DEF new
  <2> QED BY <1>1, <1>2, <1>4, <2>2, <2>3, <2>4, Works DEF AtWork, Ended, Completing
<1>5. CASE Step(d, t, BlockedResult(d, t))
  BY <1>1, <1>5, BlockKeeps DEF AtWork
<1>6. PICK r \in {"none", "done", "blocked"}, fails \in BOOLEAN :
         \/ /\ fails \/ inv[d][t].agent # "copilot"
            /\ Step(d, t, [inv[d][t] EXCEPT !.stage = "exited", !.result = IF fails THEN "none" ELSE r])
         \/ /\ ~fails /\ inv[d][t].agent = "copilot"
            /\ Step(d, t, IF r = "none" THEN BlockedResult(d, t)
                          ELSE [inv[d][t] EXCEPT !.stage = "implementation_review", !.result = r])
  BY <1>3 DEF Implement, Fails
<1>7. CASE fails
  BY <1>4, <1>6, <1>7
<1>8. CASE ~fails /\ inv[d][t].agent # "copilot"
  BY <1>4, <1>6, <1>8
<1>9. CASE ~fails /\ inv[d][t].agent = "copilot"
  BY <1>4, <1>5, <1>6, <1>9
<1> QED BY <1>7, <1>8, <1>9

LEMMA ReviewImplementationKeeps ==
    ASSUME Inv, NEW d \in Dispatchers, NEW t \in Tasks, ReviewImplementation(d, t)
    PROVE  Inv'
<1> DEFINE both == inv[d][t].approved \cup {"implementation"}
           new == [inv[d][t] EXCEPT !.stage = "exited", !.review = "approved", !.approved = both]
<1>1. Alive(d) /\ Stage(d, t) = "implementation_review" /\ UNCHANGED << mode, store, report >>
  BY DEF ReviewImplementation
<1>2. /\ inv[d][t] \in Invocations
      /\ inv[d][t].agent = "copilot" => "plan" \in inv[d][t].approved
  BY <1>1, AtWorkFacts
<1>3. both \in SUBSET Reviewed /\ (inv[d][t].agent = "copilot" => both = Reviewed)
  BY <1>2 DEF Invocations, Reviewed
<1>4. [inv[d][t] EXCEPT !.stage = "exited"] \in Invocations
  BY <1>2 DEF Invocations, Stages
<1>5. [inv[d][t] EXCEPT !.stage = "exited", !.review = "approved"] \in Invocations
  BY <1>4 DEF Invocations
<1>6. new \in Invocations
  BY <1>3, <1>5 DEF Invocations, Reviewed
<1>7. /\ new.stage = "exited" /\ new.agent = inv[d][t].agent /\ new.review = "approved"
      /\ new.approved = both
  BY <1>2 DEF Invocations
<1>8. CASE Step(d, t, new)
  <2> HIDE DEF new, both
  <2> QED BY <1>1, <1>3, <1>6, <1>7, <1>8, Works DEF AtWork, Ended, Completing
<1>9. CASE Step(d, t, BlockedResult(d, t))
  BY <1>1, <1>9, BlockKeeps DEF AtWork
<1> QED BY <1>8, <1>9 DEF ReviewImplementation

LEMMA CompleteKeeps ==
    ASSUME Inv, NEW d \in Dispatchers, NEW t \in Tasks, Complete(d, t)
    PROVE  Inv'
<1> DEFINE stage == IF inv[d][t].review = "rejected" THEN "finding" ELSE "evidence"
           new == Moved(d, t, stage)
<1>1. /\ Alive(d) /\ Stage(d, t) = "exited" /\ Step(d, t, new) /\ UNCHANGED << mode, store, report >>
      /\ inv[d][t].result # "none"
  BY DEF Complete, Free
<1>2. stage \in Stages /\ stage \in {"finding", "evidence"}
      /\ (inv[d][t].review = "rejected" <=> stage = "finding")
  BY DEF Stages, Completing
<1>3. /\ new \in Invocations /\ new.stage = stage /\ new.agent = inv[d][t].agent
      /\ new.review = inv[d][t].review /\ new.result = inv[d][t].result
      /\ new.approved = inv[d][t].approved
  BY <1>2, MovedTypes DEF Inv
<1> HIDE DEF new, stage
<1>4. new.agent = "copilot" /\ new.result = "done" => new.approved = Reviewed
  BY <1>1, <1>3, AtWorkFacts
<1>5. new.review = "rejected" => new.result = "blocked"
  BY <1>1, <1>3, AtWorkFacts
<1> QED BY <1>1, <1>2, <1>3, <1>4, <1>5, Works DEF AtWork, Ended, Completing

-----------------------------------------------------------------------------
(* Claims, the ledger, findings and handoffs. *)

LEMMA ClaimKeeps ==
    ASSUME Inv, NEW d \in Dispatchers, NEW t \in Tasks, RegisterAndClaim(d, t)
    PROVE  Inv'
<1>1. /\ Alive(d) /\ Stage(d, t) = "prepared"
      /\ UNCHANGED << mode, task, handoff, ledger, findings, report >>
  BY DEF RegisterAndClaim
<1>2. /\ Sound(d, t) /\ inv[d][t].review = "none" /\ Clean(d, t) /\ handoff[d][t] = "none"
      /\ holder[t] # d /\ inv[d][t] \in Invocations
      /\ \A c \in Contents : << d, t, "handoff", c >> \notin ledger
  BY <1>1, AtWorkFacts DEF Inv, Sound, Accounted, Unhanded, Holding, Ended, Completing
<1>3. CASE Claimable(t) /\ holder' = [holder EXCEPT ![t] = d] /\ Step(d, t, Moved(d, t, "claimed"))
  <2> DEFINE new == Moved(d, t, "claimed")
  <2>1. new \in Invocations /\ new.stage = "claimed" /\ new.review = "none"
    BY <1>2, MovedTypes DEF Inv, Stages
  <2>2. Step(d, t, new)
    BY <1>3
  <2> HIDE DEF new
  <2>3. /\ inv' \in [Dispatchers -> [Tasks -> Invocations]] /\ inv'[d][t] = new
        /\ \A e \in Dispatchers, u \in Tasks : e # d \/ u # t => inv'[e][u] = inv[e][u]
    BY <2>1, <2>2, StepTypes DEF Inv
  <2>4. holder \in [Tasks -> Dispatchers \cup {Nobody, Other}]
    BY DEF Inv, TypeOK
  <2>5. /\ holder' \in [Tasks -> Dispatchers \cup {Nobody, Other}]
        /\ \A u \in Tasks : holder'[u] = IF u = t THEN d ELSE holder[u]
    BY <1>3, <2>4
  <2>6. TypeOK'
    BY <1>1, <2>3, <2>5 DEF Inv, TypeOK
  <2>7. \A e \in Dispatchers, u \in Tasks : e # d \/ u # t => Aside(e, u)
    BY <1>1, <2>3, <2>5 DEF Aside
  <2>8. Stage(d, t)' = "claimed" /\ Clean(d, t)' /\ handoff'[d][t] = "none" /\ inv'[d][t].review = "none"
    BY <1>1, <1>2, <2>1, <2>3 DEF Stage, Clean
  <2>9. Sound(d, t)'
    <3>1. Holding(d, t)' /\ Unhanded(d, t)'
      BY <2>8 DEF Holding, Unhanded, Clean, Kinds
    <3>2. Approved(d, t)'
      BY <2>8 DEF Approved, Clean, Kinds, Contents, Ended, Completing
    <3>3. Rejected(d, t)' /\ Accounted(d, t)'
      BY <2>8 DEF Rejected, Accounted, Completing
    <3> QED BY <3>1, <3>2, <3>3 DEF Sound
  <2> QED BY <1>1, <2>1, <2>2, <2>6, <2>7, <2>9, OneStep
<1>4. CASE UNCHANGED holder /\ Step(d, t, Over(inv[d][t], Failed))
  <2> DEFINE new == Over(inv[d][t], Failed)
  <2>1. Failed \in Items /\ Failed.execution = "failed"
    BY DEF Failed, Item, Items
  <2>2. new \in Invocations /\ new.stage = "over" /\ new.review = "none" /\ new.item = Failed
    BY <1>2, <2>1, OverTypes
  <2>3. Step(d, t, new)
    BY <1>4
  <2> HIDE DEF new
  <2>4. inv'[d][t] = new
    BY <2>2, <2>3, StepTypes DEF Inv
  <2>5. /\ Stage(d, t)' = "over" /\ Clean(d, t)' /\ handoff'[d][t] = "none" /\ inv'[d][t].review = "none"
        /\ inv'[d][t].item.execution = "failed" /\ holder'[t] # d
    BY <1>1, <1>2, <1>4, <2>1, <2>2, <2>4 DEF Stage, Clean
  <2>6. Sound(d, t)'
    <3>1. Holding(d, t)' /\ Unhanded(d, t)'
      BY <2>5 DEF Holding, Unhanded
    <3>2. Approved(d, t)'
      <4>1. inv'[d][t].result = "none"
        BY <1>2, <2>1, <2>4, OverTypes DEF new
      <4> QED BY <2>5, <4>1 DEF Approved, Clean, Kinds, Contents
    <3>3. Rejected(d, t)' /\ Accounted(d, t)'
      BY <2>5 DEF Rejected, Accounted, Completing
    <3> QED BY <3>1, <3>2, <3>3 DEF Sound
  <2> QED BY <1>1, <1>4, <2>2, <2>3, <2>6, OwnStep DEF store
<1> QED BY <1>3, <1>4 DEF RegisterAndClaim

\* An invocation is over, handed over or not, with or without an entry of the
\* ledger.
LEMMA EndKeeps ==
    ASSUME Inv, NEW d \in Dispatchers, NEW t \in Tasks, NEW status \in {"done", "blocked"},
           NEW item \in Items,
           Alive(d), Stage(d, t) \in {"exited", "handing"},
           Step(d, t, Over(inv[d][t], item)), UNCHANGED << mode, findings, report >>,
           NotFinished \/ (holder[t] = d /\ Finish(d, t, status)),
           \/ ledger' = ledger /\ (NotFinished => holder[t] # d)
           \/ ledger' = ledger \cup {<< d, t, "handoff", status >>} /\ item.execution # "completed",
           item.execution = "completed" => status = "done" /\ Clean(d, t) /\ ~NotFinished,
           inv[d][t].agent = "copilot" /\ status = "done" => inv[d][t].approved = Reviewed,
           inv[d][t].review = "rejected" => Recorded(d, t)
    PROVE  Inv'
<1> DEFINE new == Over(inv[d][t], item)
<1>1. /\ Sound(d, t) /\ inv[d][t] \in Invocations /\ handoff[d][t] = "none"
      /\ \A c \in Contents : << d, t, "handoff", c >> \notin ledger
  BY AtWorkFacts DEF Inv, Sound, Unhanded
<1>2. /\ new \in Invocations /\ new.stage = "over" /\ new.item = item /\ new.result = "none"
      /\ new.agent = inv[d][t].agent /\ new.approved = inv[d][t].approved
      /\ new.review = inv[d][t].review /\ new.lost = inv[d][t].lost
  BY <1>1, OverTypes
<1>3. Step(d, t, new)
  OBVIOUS
<1> HIDE DEF new
<1>4. /\ inv' \in [Dispatchers -> [Tasks -> Invocations]] /\ inv'[d][t] = new
      /\ \A e \in Dispatchers, u \in Tasks : e # d \/ u # t => inv'[e][u] = inv[e][u]
  BY <1>2, <1>3, StepTypes DEF Inv
<1>5. /\ holder \in [Tasks -> Dispatchers \cup {Nobody, Other}]
      /\ task \in [Tasks -> {"open", "done", "blocked"}]
      /\ handoff \in [Dispatchers -> [Tasks -> {"none", "done", "blocked"}]]
  BY DEF Inv, TypeOK
<1>6. /\ holder' \in [Tasks -> Dispatchers \cup {Nobody, Other}]
      /\ task' \in [Tasks -> {"open", "done", "blocked"}]
      /\ handoff' \in [Dispatchers -> [Tasks -> {"none", "done", "blocked"}]]
      /\ \A e \in Dispatchers, u \in Tasks :
            /\ e # d \/ u # t => handoff'[e][u] = handoff[e][u]
            /\ holder'[u] = e => holder[u] = e
      /\ handoff'[d][t] = IF NotFinished THEN "none" ELSE status
      /\ holder'[t] = d => NotFinished /\ holder[t] = d
  <2>1. CASE NotFinished
    BY <1>1, <1>5, <2>1 DEF NotFinished
  <2>2. CASE ~NotFinished
    <3>0. holder[t] = d /\ Finish(d, t, status)
      BY <2>2
    <3>1. holder'[t] = Nobody /\ \A u \in Tasks : u # t => holder'[u] = holder[u]
      BY <1>5, <3>0 DEF Finish
    <3>2. handoff'[d][t] = status
          /\ \A e \in Dispatchers, u \in Tasks : e # d \/ u # t => handoff'[e][u] = handoff[e][u]
      BY <1>5, <3>0 DEF Finish
    <3>3. /\ holder' \in [Tasks -> Dispatchers \cup {Nobody, Other}]
          /\ task' \in [Tasks -> {"open", "done", "blocked"}]
          /\ handoff' \in [Dispatchers -> [Tasks -> {"none", "done", "blocked"}]]
      BY <1>5, <3>0 DEF Finish
    <3>4. Nobody \notin Dispatchers
      BY HoldersDiffer
    <3> QED BY <2>2, <3>1, <3>2, <3>3, <3>4
  <2> QED BY <2>1, <2>2
<1>7. \A e \in Dispatchers, u \in Tasks, k \in Kinds, c \in Contents :
         e # d \/ u # t => (<< e, u, k, c >> \in ledger' <=> << e, u, k, c >> \in ledger)
  OBVIOUS
<1>8. \A e \in Dispatchers, u \in Tasks : e # d \/ u # t => Aside(e, u)
  BY <1>4, <1>6, <1>7 DEF Aside
<1>9. ledger' \subseteq Dispatchers \X Tasks \X Kinds \X Contents
  BY DEF Inv, TypeOK, Kinds, Contents
<1>10. TypeOK'
  BY <1>4, <1>6, <1>9 DEF Inv, TypeOK, Kinds, Contents
<1>11. Stage(d, t)' = "over" /\ (Recorded(d, t) => Recorded(d, t)')
  BY <1>2, <1>4 DEF Stage, Recorded
<1>12. Holding(d, t)'
  BY <1>6, <1>11 DEF Holding
<1>13. Unhanded(d, t)'
  BY <1>11 DEF Unhanded
<1>14. << d, t, "handoff", "done" >> \in ledger' => status = "done"
  BY <1>1 DEF Contents
<1>15. Approved(d, t)'
  BY <1>2, <1>4, <1>6, <1>11, <1>14 DEF Approved, Ended
<1>16. Rejected(d, t)'
  BY <1>2, <1>4, <1>11 DEF Rejected, Ended, Completing
<1>17. Accounted(d, t)'
  BY <1>2, <1>4, <1>6, <1>11 DEF Accounted, Clean
<1>18. Sound(d, t)'
  BY <1>12, <1>13, <1>15, <1>16, <1>17 DEF Sound
<1> QED BY <1>2, <1>3, <1>8, <1>10, <1>18, OneStep

\* Accepted, refused, or kept in the ledger.
LEMMA HandKeeps ==
    ASSUME Inv, NEW d \in Dispatchers, NEW t \in Tasks, NEW status \in {"done", "blocked"},
           NEW accepted \in Items, NEW refused \in Items, NEW degraded \in Items,
           Alive(d), Stage(d, t) \in {"exited", "handing"},
           Hand(d, t, status, accepted, refused, degraded), UNCHANGED << mode, findings, report >>,
           refused.execution # "completed", degraded.execution # "completed",
           accepted.execution = "completed" => status = "done" /\ Clean(d, t),
           inv[d][t].agent = "copilot" /\ status = "done" => inv[d][t].approved = Reviewed,
           inv[d][t].review = "rejected" => Recorded(d, t)
    PROVE  Inv'
<1>1. handoff[d][t] = "none" /\ handoff \in [Dispatchers -> [Tasks -> {"none", "done", "blocked"}]]
  BY DEF Inv, TypeOK, Sound, Unhanded
<1>2. Finish(d, t, status) => ~NotFinished
  BY <1>1 DEF Finish, NotFinished
<1>3. CASE holder[t] = d /\ Finish(d, t, status) /\ Step(d, t, Over(inv[d][t], accepted)) /\ UNCHANGED ledger
  BY <1>2, <1>3, EndKeeps
<1>4. CASE holder[t] # d /\ NotFinished /\ Step(d, t, Over(inv[d][t], refused)) /\ UNCHANGED ledger
  BY <1>4, EndKeeps
<1>5. CASE /\ NotFinished \/ (holder[t] = d /\ Finish(d, t, status))
           /\ ledger' = ledger \cup {<< d, t, "handoff", status >>}
           /\ Step(d, t, Over(inv[d][t], degraded))
  BY <1>5, EndKeeps
<1> QED BY <1>3, <1>4, <1>5 DEF Hand

LEMMA FinishBlockedKeeps ==
    ASSUME Inv, NEW d \in Dispatchers, NEW t \in Tasks, FinishBlocked(d, t)
    PROVE  Inv'
<1> DEFINE accepted == Item("ok", "blocked")
           other == Item("degraded", "failed")
<1>1. /\ Alive(d) /\ Stage(d, t) = "exited" /\ inv[d][t].result = "none"
      /\ Hand(d, t, "blocked", accepted, other, other) /\ UNCHANGED << mode, findings, report >>
  BY DEF FinishBlocked, Free
<1>2. /\ accepted \in Items /\ other \in Items
      /\ accepted.execution # "completed" /\ other.execution # "completed"
  BY DEF Item, Items
<1>3. inv[d][t].review # "rejected"
  BY <1>1, AtWorkFacts
<1> HIDE DEF accepted, other
<1> QED BY <1>1, <1>2, <1>3, HandKeeps

\* What is known of an invocation that is being handed over.
LEMMA CompletingFacts ==
    ASSUME Inv, NEW d \in Dispatchers, NEW t \in Tasks, Stage(d, t) \in Completing
    PROVE  /\ inv[d][t] \in Invocations /\ handoff[d][t] = "none"
           /\ \A c \in Contents : << d, t, "handoff", c >> \notin ledger
           /\ inv[d][t].result \in {"done", "blocked"}
           /\ inv[d][t].review = "rejected" => inv[d][t].result = "blocked"
           /\ inv[d][t].agent = "copilot" /\ inv[d][t].result = "done" => inv[d][t].approved = Reviewed
           /\ Stage(d, t) = "finding" => inv[d][t].review = "rejected" /\ Clean(d, t)
           /\ Stage(d, t) \in {"evidence", "handing"} /\ inv[d][t].review = "rejected" => Recorded(d, t)
           /\ Stage(d, t) = "evidence" => Clean(d, t) \/ inv[d][t].review = "rejected"
           /\ Stage(d, t) = "handing" =>
                 Clean(d, t) \/ inv[d][t].review = "rejected" \/ inv[d][t].evidence = "pending"
<1>1. Sound(d, t) /\ inv[d][t] \in Invocations
  BY Types DEF Inv
<1>2. Stage(d, t) # "over" /\ Stage(d, t) \in Ended
  BY DEF Completing, Ended
<1>3. inv[d][t].result \in {"done", "blocked"}
  BY <1>1 DEF Invocations, Sound, Rejected
<1> QED BY <1>1, <1>2, <1>3 DEF Sound, Unhanded, Rejected, Approved, Accounted

\* A finding or evidence is written down, or kept in the ledger.
LEMMA WriteKeeps ==
    ASSUME Inv, NEW d \in Dispatchers, NEW t \in Tasks, NEW new \in Invocations,
           NEW kind \in {"review_finding", "command_evidence"},
           Alive(d), Stage(d, t) \in {"finding", "evidence"}, Step(d, t, new),
           new.stage \in {"evidence", "handing"},
           new.agent = inv[d][t].agent, new.result = inv[d][t].result,
           new.approved = inv[d][t].approved, new.review = inv[d][t].review,
           UNCHANGED << mode, holder, task, handoff, report >>,
           findings \subseteq findings', findings' \subseteq findings \cup {<< d, t >>},
           \/ ledger' = ledger
           \/ ledger' = ledger \cup {<< d, t, kind, "any" >>},
           new.review = "rejected" => Recorded(d, t)',
           ledger' = ledger \/ new.review = "rejected" \/ (new.stage = "handing" /\ new.evidence = "pending")
    PROVE  Inv'
<1>1. /\ inv' \in [Dispatchers -> [Tasks -> Invocations]] /\ inv'[d][t] = new
      /\ \A e \in Dispatchers, u \in Tasks : e # d \/ u # t => inv'[e][u] = inv[e][u]
  BY StepTypes DEF Inv
<1>2. Stage(d, t)' = new.stage /\ new.stage \in Completing /\ new.stage \in Ended
  BY <1>1 DEF Stage, Completing, Ended
<1>3. /\ handoff'[d][t] = "none" /\ new.result # "none"
      /\ \A c \in Contents : << d, t, "handoff", c >> \notin ledger'
      /\ new.review = "rejected" => new.result = "blocked"
      /\ new.agent = "copilot" /\ new.result = "done" => new.approved = Reviewed
  BY CompletingFacts DEF Completing
<1>4. /\ ledger' \subseteq Dispatchers \X Tasks \X Kinds \X Contents
      /\ findings' \subseteq Dispatchers \X Tasks
  BY DEF Inv, TypeOK, Kinds, Contents
<1>5. TypeOK'
  BY <1>1, <1>4 DEF Inv, TypeOK, Kinds, Contents
<1>6. \A e \in Dispatchers, u \in Tasks, k \in Kinds, c \in Contents :
         e # d \/ u # t => (<< e, u, k, c >> \in ledger' <=> << e, u, k, c >> \in ledger)
  OBVIOUS
<1>7. \A e \in Dispatchers, u \in Tasks : e # d \/ u # t => Aside(e, u)
  BY <1>1, <1>6 DEF Aside
<1>8. ledger' = ledger => Clean(d, t)' \/ new.review = "rejected"
  BY CompletingFacts DEF Completing, Clean
<1>9. Holding(d, t)' /\ Unhanded(d, t)'
  BY <1>2, <1>3 DEF Holding, Unhanded
<1>10. Approved(d, t)'
  BY <1>1, <1>2, <1>3 DEF Approved, Contents
<1>11. Rejected(d, t)'
  BY <1>1, <1>2, <1>3 DEF Rejected
<1>12. Accounted(d, t)'
  BY <1>1, <1>2, <1>8 DEF Accounted
<1>13. Sound(d, t)'
  BY <1>9, <1>10, <1>11, <1>12 DEF Sound
<1> QED BY <1>2, <1>5, <1>7, <1>13, OneStep

LEMMA RecordFindingKeeps ==
    ASSUME Inv, NEW d \in Dispatchers, NEW t \in Tasks, RecordFinding(d, t)
    PROVE  Inv'
<1> DEFINE new == Moved(d, t, "evidence")
<1>1. /\ Alive(d) /\ Stage(d, t) = "finding" /\ UNCHANGED << mode, holder, task, handoff, report >>
      /\ Step(d, t, new)
      /\ findings \subseteq findings' /\ findings' \subseteq findings \cup {<< d, t >>}
      /\ \/ ledger' = ledger
         \/ ledger' = ledger \cup {<< d, t, "review_finding", "any" >>}
      /\ Recorded(d, t)'
  BY DEF RecordFinding, Recorded
<1>2. /\ new \in Invocations /\ new.stage = "evidence" /\ new.agent = inv[d][t].agent
      /\ new.result = inv[d][t].result /\ new.approved = inv[d][t].approved
      /\ new.review = inv[d][t].review
  BY MovedTypes DEF Inv, Stages, Completing
<1>3. new.review = "rejected"
  BY <1>1, <1>2, CompletingFacts DEF Completing
<1> HIDE DEF new
<1> QED BY <1>1, <1>2, <1>3, WriteKeeps

LEMMA RecordEvidenceKeeps ==
    ASSUME Inv, NEW d \in Dispatchers, NEW t \in Tasks, RecordEvidence(d, t)
    PROVE  Inv'
<1>1. /\ Alive(d) /\ Stage(d, t) = "evidence" /\ UNCHANGED << mode, holder, task, handoff, findings, report >>
  BY DEF RecordEvidence
<1>2. PICK e \in {"none", "ok", "refused", "pending"} :
         /\ Handing(d, t, e)
         /\ \/ ledger' = ledger
            \/ ledger' = ledger \cup {<< d, t, "command_evidence", "any" >>} /\ e = "pending"
  BY DEF RecordEvidence
<1> DEFINE new == [inv[d][t] EXCEPT !.stage = "handing", !.evidence = e]
<1>3. Step(d, t, new)
  BY <1>2 DEF Handing
<1>4. inv[d][t] \in Invocations /\ (inv[d][t].review = "rejected" => Recorded(d, t))
  BY <1>1, CompletingFacts DEF Completing
<1>5. [inv[d][t] EXCEPT !.stage = "handing"] \in Invocations
  BY <1>4 DEF Invocations, Stages, Completing
<1>6. new \in Invocations
  BY <1>5 DEF Invocations
<1>7. /\ new.stage = "handing" /\ new.agent = inv[d][t].agent /\ new.evidence = e
      /\ new.result = inv[d][t].result /\ new.approved = inv[d][t].approved
      /\ new.review = inv[d][t].review
  BY <1>4 DEF Invocations
<1>8. Recorded(d, t) => Recorded(d, t)'
  BY <1>1, <1>2 DEF Recorded
<1> HIDE DEF new
<1> QED BY <1>1, <1>2, <1>3, <1>4, <1>6, <1>7, <1>8, WriteKeeps

LEMMA HandOverKeeps ==
    ASSUME Inv, NEW d \in Dispatchers, NEW t \in Tasks, HandOver(d, t)
    PROVE  Inv'
<1> DEFINE r == inv[d][t].result
           accepted == Outcome(d, t, "ok", IF r = "done" THEN "completed" ELSE "blocked")
           refused == Outcome(d, t, "error", "failed")
           degraded == Outcome(d, t, "degraded", "blocked")
<1>1. /\ Alive(d) /\ Stage(d, t) = "handing" /\ UNCHANGED << mode, findings, report >>
      /\ Hand(d, t, r, accepted, refused, degraded)
  BY DEF HandOver
<1>2. /\ r \in {"done", "blocked"} /\ (inv[d][t].review = "rejected" => r = "blocked")
      /\ inv[d][t].agent = "copilot" /\ r = "done" => inv[d][t].approved = Reviewed
      /\ inv[d][t].review = "rejected" => Recorded(d, t)
      /\ Clean(d, t) \/ inv[d][t].review = "rejected" \/ inv[d][t].evidence = "pending"
      /\ inv[d][t].evidence \in {"none", "ok", "pending", "refused"}
  BY <1>1, CompletingFacts DEF Completing, Invocations
<1>3. ASSUME NEW status \in {"ok", "degraded", "error"},
             NEW execution \in {"none", "completed", "blocked", "failed"}
      PROVE  /\ Outcome(d, t, status, execution) \in Items
             /\ Outcome(d, t, status, execution).execution = "completed" =>
                    execution = "completed" /\ inv[d][t].evidence # "pending"
  BY <1>2 DEF Outcome, Item, Items
<1>4. /\ accepted \in Items /\ refused \in Items /\ degraded \in Items
      /\ refused.execution # "completed" /\ degraded.execution # "completed"
      /\ accepted.execution = "completed" => r = "done" /\ Clean(d, t)
  BY <1>2, <1>3
<1> HIDE DEF r, accepted, refused, degraded
<1> QED BY <1>1, <1>2, <1>4, HandKeeps DEF r

LEMMA ClaimRaisesKeeps ==
    ASSUME Inv, NEW d \in Dispatchers, NEW t \in Tasks, ClaimRaises(d, t)
    PROVE  Inv'
<1> DEFINE gone == Over(inv[d][t], Failed)
           new == [gone EXCEPT !.lost = TRUE]
<1>1. /\ Alive(d) /\ Stage(d, t) = "prepared" /\ Step(d, t, new)
      /\ holder' = holder \/ holder' = [holder EXCEPT ![t] = d]
      /\ mode' = [mode EXCEPT ![d] = IF mode[d] = "one" THEN "died" ELSE "many"]
      /\ UNCHANGED << task, handoff, ledger, findings, report >>
  BY DEF ClaimRaises
<1>2. /\ Sound(d, t) /\ inv[d][t].review = "none" /\ Clean(d, t) /\ handoff[d][t] = "none"
      /\ inv[d][t] \in Invocations /\ Called(d)
  BY <1>1, AtWorkFacts DEF Inv, Sound, Accounted, Unhanded, Ended, Completing
<1>3. Failed \in Items /\ Failed.execution = "failed"
  BY DEF Failed, Item, Items
<1>4. /\ gone \in Invocations /\ gone.stage = "over" /\ gone.review = "none" /\ gone.item = Failed
      /\ gone.result = "none"
  BY <1>2, <1>3, OverTypes
<1> HIDE DEF gone
<1>5. /\ new \in Invocations /\ new.stage = "over" /\ new.review = "none" /\ new.item = Failed
      /\ new.result = "none" /\ new.lost
  BY <1>4 DEF Invocations
<1> HIDE DEF new
<1>6. /\ inv' \in [Dispatchers -> [Tasks -> Invocations]] /\ inv'[d][t] = new
      /\ \A e \in Dispatchers, u \in Tasks : e # d \/ u # t => inv'[e][u] = inv[e][u]
  BY <1>1, <1>5, StepTypes DEF Inv
<1>7. /\ mode \in [Dispatchers -> {"none", "one", "many", "returned", "died"}]
      /\ holder \in [Tasks -> Dispatchers \cup {Nobody, Other}]
  BY DEF Inv, TypeOK
<1>8. /\ mode' \in [Dispatchers -> {"none", "one", "many", "returned", "died"}]
      /\ mode'[d] = IF mode[d] = "one" THEN "died" ELSE "many"
      /\ \A e \in Dispatchers : e # d => mode'[e] = mode[e]
  BY <1>1, <1>7
<1>9. /\ holder' \in [Tasks -> Dispatchers \cup {Nobody, Other}]
      /\ \A e \in Dispatchers, u \in Tasks : e # d \/ u # t => (holder'[u] = e => holder[u] = e)
  BY <1>1, <1>7
<1>10. TypeOK'
  BY <1>1, <1>6, <1>8, <1>9 DEF Inv, TypeOK
<1>11. \A e \in Dispatchers, u \in Tasks : e # d \/ u # t => Aside(e, u)
  BY <1>1, <1>6, <1>8, <1>9 DEF Aside, Alive
<1>12. /\ Stage(d, t)' = "over" /\ Clean(d, t)' /\ handoff'[d][t] = "none"
       /\ inv'[d][t].review = "none" /\ inv'[d][t].result = "none" /\ inv'[d][t].lost
       /\ inv'[d][t].item.execution = "failed"
  BY <1>1, <1>2, <1>3, <1>5, <1>6 DEF Stage, Clean
<1>13. Sound(d, t)'
  <2>1. Holding(d, t)' /\ Unhanded(d, t)'
    BY <1>12 DEF Holding, Unhanded
  <2>2. Approved(d, t)'
    BY <1>12 DEF Approved, Clean, Kinds, Contents
  <2>3. Rejected(d, t)' /\ Accounted(d, t)'
    BY <1>12 DEF Rejected, Accounted, Completing
  <2> QED BY <2>1, <2>2, <2>3 DEF Sound
<1>14. \A e \in Dispatchers, u \in Tasks : Sound(e, u)'
  BY <1>11, <1>13, Frame DEF Inv
<1>15. ASSUME NEW e \in Dispatchers PROVE Called(e)'
  <2>1. CASE e # d
    <3>1. /\ Called(e) /\ mode'[e] = mode[e] /\ report'[e] = report[e]
          /\ \A u \in Tasks : inv'[e][u] = inv[e][u] /\ Stage(e, u)' = Stage(e, u)
      BY <1>1, <1>6, <1>8, <2>1 DEF Inv, Stage
    <3>2. Selected(e)' = Selected(e) /\ \A u \in Selected(e) : u \in Tasks
      BY <3>1 DEF Selected
    <3> QED BY <3>1, <3>2 DEF Called, Alive
  <2>2. CASE e = d
    <3>1. \A u \in Tasks : Stage(d, u)' = IF u = t THEN "over" ELSE Stage(d, u)
      BY <1>6, <1>12 DEF Stage
    <3>2. report[d] = "none" /\ report'[d] = "none"
      BY <1>1, <1>2 DEF Called, Alive
    <3>3. \A u \in Tasks : Stage(d, u)' # "selected"
      BY <1>1, <1>2, <3>1 DEF Called
    <3>4. CASE mode[d] = "one"
      <4>1. \A u \in Tasks : u # t => Stage(d, u) = "out"
        BY <1>1, <1>2, <3>4 DEF Called, Selected
      <4> QED BY <1>8, <2>2, <3>1, <3>2, <3>3, <3>4, <4>1 DEF Called, Alive
    <3>5. CASE mode[d] # "one"
      BY <1>8, <2>2, <3>2, <3>3, <3>5 DEF Called, Alive
    <3> QED BY <3>4, <3>5
  <2> QED BY <2>1, <2>2
<1> QED BY <1>10, <1>14, <1>15 DEF Inv

-----------------------------------------------------------------------------
(* Steps of a dispatcher as a whole. *)

\* A step of one dispatcher that leaves the database alone.
LEMMA CallStep ==
    ASSUME Inv, NEW d \in Dispatchers, UNCHANGED store,
           inv' \in [Dispatchers -> [Tasks -> Invocations]],
           mode' \in [Dispatchers -> {"none", "one", "many", "returned", "died"}],
           report' \in [Dispatchers -> {"none", "completed", "partial", "blocked", "failed"}],
           \A e \in Dispatchers \ {d} :
              /\ mode'[e] = mode[e] /\ report'[e] = report[e]
              /\ \A u \in Tasks : inv'[e][u] = inv[e][u],
           Called(d)', \A t \in Tasks : Sound(d, t)'
    PROVE  Inv'
<1>1. TypeOK'
  BY DEF Inv, TypeOK, store
<1>2. ASSUME NEW e \in Dispatchers, e # d PROVE Called(e)'
  <2>1. /\ Called(e) /\ mode'[e] = mode[e] /\ report'[e] = report[e]
        /\ \A u \in Tasks : inv'[e][u] = inv[e][u] /\ Stage(e, u)' = Stage(e, u)
    BY <1>2 DEF Inv, Stage
  <2>2. Selected(e)' = Selected(e) /\ \A u \in Selected(e) : u \in Tasks
    BY <2>1 DEF Selected
  <2> QED BY <2>1, <2>2 DEF Called, Alive
<1>3. ASSUME NEW e \in Dispatchers, e # d, NEW u \in Tasks PROVE Sound(e, u)'
  <2>1. Sound(e, u) /\ Aside(e, u)
    BY <1>3 DEF Inv, Aside, store
  <2> QED BY <2>1, Frame
<1> QED BY <1>1, <1>2, <1>3 DEF Inv

\* An invocation that nothing has been done for yet.
LEMMA FreshFacts ==
    ASSUME Inv, NEW d \in Dispatchers, NEW t \in Tasks, Stage(d, t) \in {"out", "selected"}
    PROVE  /\ inv[d][t] \in Invocations /\ inv[d][t].review = "none" /\ handoff[d][t] = "none"
           /\ Clean(d, t) /\ holder[t] # d
BY AtWorkFacts DEF Inv, Sound, Holding, Unhanded, Accounted, Ended, Completing

\* It stays so, or it is over before it was claimed.
LEMMA FreshSound ==
    ASSUME Inv, NEW d \in Dispatchers, NEW t \in Tasks, Stage(d, t) \in {"out", "selected"},
           UNCHANGED store, inv'[d][t].review = "none",
           \/ inv'[d][t].stage \in {"out", "selected", "prepared"}
           \/ /\ inv'[d][t].stage = "over" /\ inv'[d][t].item.execution # "completed"
              /\ inv'[d][t].result = "none"
    PROVE  Sound(d, t)'
<1>1. handoff'[d][t] = "none" /\ Clean(d, t)' /\ holder'[t] # d
  BY FreshFacts DEF store, Clean
<1>2. Holding(d, t)' /\ Unhanded(d, t)'
  BY <1>1 DEF Holding, Unhanded, Clean, Kinds
<1>3. Approved(d, t)'
  BY <1>1 DEF Approved, Clean, Kinds, Contents, Stage, Ended, Completing
<1>4. Rejected(d, t)' /\ Accounted(d, t)'
  BY <1>1 DEF Rejected, Accounted, Stage, Completing
<1> QED BY <1>2, <1>3, <1>4 DEF Sound

LEMMA SelectKeeps ==
    ASSUME Inv, NEW d \in Dispatchers, NEW chosen \in SUBSET Tasks, chosen # {},
           NEW label \in {"one", "many"}, label = "one" => \A t, u \in chosen : t = u,
           mode[d] = "none", Select(d, chosen), mode' = [mode EXCEPT ![d] = label],
           UNCHANGED << store, report >>
    PROVE  Inv'
<1>1. /\ inv \in [Dispatchers -> [Tasks -> Invocations]] /\ Called(d)
      /\ mode \in [Dispatchers -> {"none", "one", "many", "returned", "died"}]
      /\ report \in [Dispatchers -> {"none", "completed", "partial", "blocked", "failed"}]
  BY DEF Inv, TypeOK
<1>2. \A t \in Tasks : Stage(d, t) = "out"
  BY <1>1 DEF Called
<1>3. \A t \in Tasks : /\ Moved(d, t, "selected") \in Invocations
                       /\ Moved(d, t, "selected").stage = "selected"
                       /\ Moved(d, t, "selected").review = "none"
  BY <1>2, MovedTypes, FreshFacts DEF Inv, Stages
<1> DEFINE next == [t \in Tasks |-> IF t \in chosen THEN Moved(d, t, "selected") ELSE inv[d][t]]
<1>4. inv' = [inv EXCEPT ![d] = next]
  BY DEF Select
<1>5. next \in [Tasks -> Invocations]
  BY <1>1, <1>3
<1>6. \A t \in Tasks : next[t].stage = (IF t \in chosen THEN "selected" ELSE "out") /\ next[t].review = "none"
  BY <1>2, <1>3, FreshFacts DEF Stage
<1> HIDE DEF next
<1>7. /\ inv' \in [Dispatchers -> [Tasks -> Invocations]] /\ inv'[d] = next
      /\ \A e \in Dispatchers \ {d} : inv'[e] = inv[e]
  BY <1>1, <1>4, <1>5
<1>8. /\ mode' \in [Dispatchers -> {"none", "one", "many", "returned", "died"}] /\ mode'[d] = label
      /\ \A e \in Dispatchers \ {d} : mode'[e] = mode[e]
  BY <1>1
<1>9. \A t \in Tasks : Sound(d, t)'
  BY <1>2, <1>6, <1>7, FreshSound
<1>10. \A t \in Tasks : Stage(d, t)' = IF t \in chosen THEN "selected" ELSE "out"
  BY <1>6, <1>7 DEF Stage
<1>11. Selected(d)' = chosen
  BY <1>10 DEF Selected
<1>12. Called(d)'
  <2>1. report'[d] = "none"
    BY <1>1 DEF Called
  <2> QED BY <1>8, <1>10, <1>11, <2>1 DEF Called, Alive
<1> QED BY <1>1, <1>7, <1>8, <1>9, <1>12, CallStep

LEMMA RefuseKeeps ==
    ASSUME Inv, NEW d \in Dispatchers, mode[d] = "none", Refuse(d), UNCHANGED store
    PROVE  Inv'
<1>1. /\ inv \in [Dispatchers -> [Tasks -> Invocations]] /\ Called(d)
      /\ mode \in [Dispatchers -> {"none", "one", "many", "returned", "died"}]
      /\ report \in [Dispatchers -> {"none", "completed", "partial", "blocked", "failed"}]
  BY DEF Inv, TypeOK
<1>2. PICK r \in {"blocked", "failed"} : report' = [report EXCEPT ![d] = r]
  BY DEF Refuse
<1>3. /\ report' \in [Dispatchers -> {"none", "completed", "partial", "blocked", "failed"}]
      /\ report'[d] = r /\ \A e \in Dispatchers \ {d} : report'[e] = report[e]
  BY <1>1, <1>2
<1>4. /\ mode' \in [Dispatchers -> {"none", "one", "many", "returned", "died"}] /\ mode'[d] = "returned"
      /\ \A e \in Dispatchers \ {d} : mode'[e] = mode[e]
  BY <1>1 DEF Refuse
<1>5. inv' = inv /\ \A t \in Tasks : Stage(d, t) = "out" /\ Stage(d, t)' = "out"
  BY <1>1 DEF Called, Refuse, Stage
<1>6. \A t \in Tasks : Sound(d, t)'
  BY <1>5, FreshSound, FreshFacts DEF Stage
<1>7. Called(d)'
  BY <1>3, <1>4, <1>5 DEF Called, Alive
<1> QED BY <1>1, <1>3, <1>4, <1>5, <1>6, <1>7, CallStep

LEMMA DispatchKeeps ==
    ASSUME Inv, NEW d \in Dispatchers, DispatchSpawn(d) \/ DispatchSpawnMany(d)
    PROVE  Inv'
<1>1. mode[d] = "none" /\ UNCHANGED store
  BY DEF DispatchSpawn, DispatchSpawnMany
<1>2. ASSUME NEW t \in Tasks, Select(d, {t}), mode' = [mode EXCEPT ![d] = "one"], UNCHANGED report
      PROVE  Inv'
  BY <1>1, <1>2, SelectKeeps
<1>3. ASSUME NEW chosen \in (SUBSET Tasks) \ {{}}, Select(d, chosen), mode' = [mode EXCEPT ![d] = "many"],
             UNCHANGED report
      PROVE  Inv'
  BY <1>1, <1>3, SelectKeeps
<1>4. CASE Refuse(d)
  BY <1>1, <1>4, RefuseKeeps
<1> QED BY <1>2, <1>3, <1>4 DEF DispatchSpawn, DispatchSpawnMany

LEMMA PrepareKeeps ==
    ASSUME Inv, NEW d \in Dispatchers, Prepare(d)
    PROVE  Inv'
<1>1. /\ inv \in [Dispatchers -> [Tasks -> Invocations]] /\ Called(d) /\ Alive(d)
      /\ mode \in [Dispatchers -> {"none", "one", "many", "returned", "died"}]
      /\ report \in [Dispatchers -> {"none", "completed", "partial", "blocked", "failed"}]
      /\ UNCHANGED << mode, store, report >>
  BY DEF Inv, TypeOK, Prepare
<1>2. \A t \in Tasks : Stage(d, t) \in {"out", "selected"}
  BY <1>1 DEF Called, Prepare
<1>3. PICK a \in [Selected(d) -> Preparations] :
         inv' = [inv EXCEPT ![d] = [t \in Tasks |->
                   CASE t \notin Selected(d) -> inv[d][t]
                     [] t \in Selected(d) /\ a[t] = "absent" -> Over(inv[d][t], Failed)
                     [] OTHER -> [inv[d][t] EXCEPT !.stage = "prepared", !.agent = a[t]]]]
  BY <1>1 DEF Prepare
<1> DEFINE next == [t \in Tasks |->
                   CASE t \notin Selected(d) -> inv[d][t]
                     [] t \in Selected(d) /\ a[t] = "absent" -> Over(inv[d][t], Failed)
                     [] OTHER -> [inv[d][t] EXCEPT !.stage = "prepared", !.agent = a[t]]]
<1>4. ASSUME NEW t \in Tasks
      PROVE  /\ next[t] \in Invocations /\ next[t].review = "none"
             /\ t \notin Selected(d) => next[t].stage = "out"
             /\ t \in Selected(d) => \/ next[t].stage = "prepared"
                                     \/ /\ next[t].stage = "over" /\ next[t].result = "none"
                                        /\ next[t].item.execution = "failed"
  <2>1. inv[d][t] \in Invocations /\ inv[d][t].review = "none"
    BY <1>2, FreshFacts
  <2>2. CASE t \notin Selected(d)
    BY <2>1, <2>2 DEF Selected, Stage
  <2>3. CASE t \in Selected(d) /\ a[t] = "absent"
    <3>1. Failed \in Items /\ Failed.execution = "failed"
      BY DEF Failed, Item, Items
    <3>2. next[t] = Over(inv[d][t], Failed)
      BY <2>3
    <3> QED BY <2>1, <2>3, <3>1, <3>2, OverTypes
  <2>4. CASE t \in Selected(d) /\ a[t] # "absent"
    <3>1. next[t] = [inv[d][t] EXCEPT !.stage = "prepared", !.agent = a[t]]
      BY <2>4
    <3>2. a[t] \in {"codex", "copilot"}
      BY <2>4 DEF Preparations
    <3>3. [inv[d][t] EXCEPT !.stage = "prepared"] \in Invocations
      BY <2>1 DEF Invocations, Stages
    <3>4. [inv[d][t] EXCEPT !.stage = "prepared", !.agent = a[t]] \in Invocations
      BY <3>2, <3>3 DEF Invocations
    <3> HIDE DEF next
    <3> QED BY <2>1, <2>4, <3>1, <3>4 DEF Invocations
  <2> QED BY <2>2, <2>3, <2>4
<1>5. next \in [Tasks -> Invocations]
  BY <1>4
<1>6. inv' = [inv EXCEPT ![d] = next]
  BY <1>3
<1> HIDE DEF next
<1>7. /\ inv' \in [Dispatchers -> [Tasks -> Invocations]] /\ inv'[d] = next
      /\ \A e \in Dispatchers \ {d} : inv'[e] = inv[e]
  BY <1>1, <1>5, <1>6
<1>8. \A t \in Tasks : Sound(d, t)'
  <2> TAKE t \in Tasks
  <2>1. /\ inv'[d][t].review = "none"
        /\ \/ inv'[d][t].stage \in {"out", "selected", "prepared"}
           \/ /\ inv'[d][t].stage = "over" /\ inv'[d][t].item.execution # "completed"
              /\ inv'[d][t].result = "none"
    BY <1>4, <1>7
  <2> QED BY <1>1, <1>2, <2>1, FreshSound
<1>9. \A t \in Tasks : /\ t \notin Selected(d) => Stage(d, t)' = "out"
                       /\ t \in Selected(d) => Stage(d, t)' \in {"prepared", "over"}
  BY <1>4, <1>7 DEF Stage
<1>10. Selected(d)' = Selected(d)
  BY <1>9 DEF Selected
<1>11. Called(d)'
  <2>1. report'[d] = "none" /\ mode'[d] = mode[d] /\ mode[d] \in {"one", "many"}
    BY <1>1 DEF Called, Alive
  <2>2. \A t \in Tasks : Stage(d, t)' # "selected"
    BY <1>9
  <2> QED BY <1>1, <1>10, <2>1, <2>2 DEF Called, Alive
<1> QED BY <1>1, <1>7, <1>8, <1>11, CallStep

\* What the report of a call is worth.
LEMMA ReportFacts ==
    ASSUME Inv, NEW d \in Dispatchers, Return(d)
    PROVE  /\ report'[d] \in {"none", "completed", "partial", "blocked", "failed"}
           /\ report'[d] = "completed" => \A t \in Selected(d) : inv[d][t].item.execution = "completed"
<1>1. /\ Called(d) /\ Alive(d)
      /\ report \in [Dispatchers -> {"none", "completed", "partial", "blocked", "failed"}]
  BY DEF Inv, TypeOK, Return
<1>2. report'[d] = IF mode[d] = "many" THEN OverallExecution(d) ELSE CHOOSE e \in Executions(d) : TRUE
  BY <1>1 DEF Return
<1>3. \A t \in Selected(d) :
         /\ t \in Tasks /\ inv[d][t].item.execution \in Executions(d)
         /\ inv[d][t].item.execution \in {"none", "completed", "blocked", "failed"}
  BY Types DEF Inv, Selected, Executions, Invocations, Items
<1>4. CASE mode[d] = "many"
  <2>1. OverallExecution(d) \in {"completed", "partial", "blocked", "failed"}
        /\ (OverallExecution(d) = "completed" => Executions(d) = {"completed"})
    BY DEF OverallExecution
  <2> QED BY <1>2, <1>3, <1>4, <2>1
<1>5. CASE mode[d] = "one"
  <2>1. PICK t \in Selected(d) : \A u \in Selected(d) : u = t
    BY <1>1, <1>5 DEF Called
  <2>2. \A e \in Executions(d) : e = inv[d][t].item.execution
    BY <2>1 DEF Executions
  <2>3. (CHOOSE e \in Executions(d) : TRUE) \in Executions(d)
    BY <1>3, <2>1
  <2>4. report'[d] = inv[d][t].item.execution
    BY <1>2, <1>5, <2>2, <2>3
  <2> QED BY <1>3, <2>1, <2>4
<1> QED BY <1>1, <1>4, <1>5 DEF Alive

LEMMA ReturnKeeps ==
    ASSUME Inv, NEW d \in Dispatchers, Return(d)
    PROVE  Inv'
<1>1. /\ inv \in [Dispatchers -> [Tasks -> Invocations]] /\ Called(d) /\ Alive(d)
      /\ mode \in [Dispatchers -> {"none", "one", "many", "returned", "died"}]
      /\ report \in [Dispatchers -> {"none", "completed", "partial", "blocked", "failed"}]
      /\ UNCHANGED << inv, store >>
  BY DEF Inv, TypeOK, Return
<1>2. /\ mode' \in [Dispatchers -> {"none", "one", "many", "returned", "died"}]
      /\ mode'[d] = "returned" /\ \A e \in Dispatchers \ {d} : mode'[e] = mode[e]
  BY <1>1 DEF Return
<1>3. /\ report' \in [Dispatchers -> {"none", "completed", "partial", "blocked", "failed"}]
      /\ \A e \in Dispatchers \ {d} : report'[e] = report[e]
  <2>1. \A e \in Dispatchers \ {d} : report'[e] = report[e]
    BY <1>1 DEF Return
  <2>2. \E r : report' = [report EXCEPT ![d] = r]
    BY DEF Return
  <2> QED BY <1>1, <2>1, <2>2, ReportFacts
<1>4. /\ \A t \in Tasks : Stage(d, t)' = Stage(d, t) /\ Stage(d, t) \in {"out", "over"}
      /\ Selected(d)' = Selected(d)
  BY <1>1 DEF Stage, Selected, Return
<1>5. \A t \in Tasks : Sound(d, t)'
  <2> TAKE t \in Tasks
  <2>1. Sound(d, t) /\ Aside(d, t)
    BY <1>1 DEF Inv, Aside, store, Alive
  <2> QED BY <2>1, Frame
<1>6. Called(d)'
  <2>1. report'[d] = "completed" => \A t \in Selected(d)' : inv'[d][t].item.execution = "completed"
    BY <1>1, <1>4, ReportFacts
  <2> QED BY <1>2, <1>4, <2>1 DEF Called, Alive
<1> QED BY <1>1, <1>2, <1>3, <1>5, <1>6, CallStep

LEMMA DiesKeeps ==
    ASSUME Inv, NEW d \in Dispatchers, Dies(d)
    PROVE  Inv'
<1>1. /\ inv \in [Dispatchers -> [Tasks -> Invocations]] /\ Called(d) /\ Alive(d)
      /\ mode \in [Dispatchers -> {"none", "one", "many", "returned", "died"}]
      /\ report \in [Dispatchers -> {"none", "completed", "partial", "blocked", "failed"}]
      /\ UNCHANGED << store, report >>
  BY DEF Inv, TypeOK, Dies
<1>2. /\ mode' \in [Dispatchers -> {"none", "one", "many", "returned", "died"}]
      /\ mode'[d] = "died" /\ \A e \in Dispatchers \ {d} : mode'[e] = mode[e]
  BY <1>1 DEF Dies
<1> DEFINE next == [t \in Tasks |-> IF t \in Selected(d) THEN Over(inv[d][t], NoItem) ELSE inv[d][t]]
<1>3. inv' = [inv EXCEPT ![d] = next]
  BY DEF Dies
<1>4. ASSUME NEW t \in Tasks, t \in Selected(d)
      PROVE  /\ next[t] \in Invocations /\ next[t].stage = "over" /\ next[t].result = "none"
             /\ next[t].item.execution = "none" /\ next[t].agent = inv[d][t].agent
             /\ next[t].approved = inv[d][t].approved /\ next[t].review = inv[d][t].review
  <2>1. NoItem \in Items /\ NoItem.execution = "none"
    BY DEF NoItem, Items
  <2>2. next[t] = Over(inv[d][t], NoItem)
    BY <1>4
  <2> QED BY <2>1, <2>2, OverTypes, Types DEF Inv
<1>5. \A t \in Tasks : t \notin Selected(d) => next[t] = inv[d][t]
  OBVIOUS
<1>6. next \in [Tasks -> Invocations]
  BY <1>1, <1>4
<1> HIDE DEF next
<1>7. /\ inv' \in [Dispatchers -> [Tasks -> Invocations]] /\ inv'[d] = next
      /\ \A e \in Dispatchers \ {d} : inv'[e] = inv[e]
  BY <1>1, <1>3, <1>6
<1>8. ASSUME NEW t \in Tasks PROVE Sound(d, t)'
  <2>1. Sound(d, t)
    BY DEF Inv
  <2>2. CASE t \notin Selected(d)
    <3>1. Aside(d, t)
      BY <1>1, <1>2, <1>5, <1>7, <2>2 DEF Aside, store
    <3> QED BY <2>1, <3>1, Frame
  <2>3. CASE t \in Selected(d)
    <3>1. /\ Stage(d, t)' = "over" /\ inv'[d][t].result = "none"
          /\ inv'[d][t].item.execution = "none" /\ inv'[d][t].agent = inv[d][t].agent
          /\ inv'[d][t].approved = inv[d][t].approved /\ inv'[d][t].review = inv[d][t].review
      BY <1>4, <1>7, <2>3 DEF Stage
    <3>2. (Recorded(d, t) => Recorded(d, t)')
      BY <1>1 DEF Recorded, store
    <3>3. Holding(d, t)' /\ Unhanded(d, t)'
      BY <1>1, <1>2, <2>1, <3>1 DEF Sound, Holding, Unhanded, store
    <3>4. Approved(d, t)'
      BY <1>1, <2>1, <3>1 DEF Sound, Approved, store
    <3>5. Rejected(d, t)'
      BY <1>1, <2>1, <3>1, <3>2 DEF Sound, Rejected, store, Ended, Completing
    <3>6. Accounted(d, t)'
      BY <3>1 DEF Accounted
    <3> QED BY <3>3, <3>4, <3>5, <3>6 DEF Sound
  <2> QED BY <2>2, <2>3
<1>9. \A t \in Tasks : Stage(d, t)' = IF t \in Selected(d) THEN "over" ELSE "out"
  BY <1>4, <1>5, <1>7 DEF Stage, Selected
<1>10. Called(d)'
  <2>1. report'[d] = "none"
    BY <1>1 DEF Called, Alive
  <2> QED BY <1>2, <1>9, <2>1 DEF Called, Alive
<1> QED BY <1>1, <1>2, <1>7, <1>8, <1>10, CallStep

-----------------------------------------------------------------------------
(* What happens besides. *)

\* Nothing happens to the invocations themselves.
LEMMA BesideStep ==
    ASSUME Inv, UNCHANGED << mode, inv, report >>, TypeOK',
           \A e \in Dispatchers, u \in Tasks : Sound(e, u)'
    PROVE  Inv'
<1>1. ASSUME NEW e \in Dispatchers PROVE Called(e)'
  <2>1. Called(e)
    BY DEF Inv
  <2>2. Selected(e)' = Selected(e) /\ \A u \in Tasks : Stage(e, u)' = Stage(e, u)
    BY DEF Selected, Stage
  <2> QED BY <2>1, <2>2 DEF Called, Alive
<1> QED BY <1>1 DEF Inv

LEMMA LeasesKeep ==
    ASSUME Inv, NEW t \in Tasks, LeaseExpires(t) \/ OtherClaims(t) \/ OtherFinishes(t)
    PROVE  Inv'
<1>1. /\ holder \in [Tasks -> Dispatchers \cup {Nobody, Other}]
      /\ task \in [Tasks -> {"open", "done", "blocked"}]
      /\ UNCHANGED << mode, inv, handoff, ledger, findings, report >>
  BY DEF Inv, TypeOK, LeaseExpires, OtherClaims, OtherFinishes
<1>2. /\ task' = task \/ task' = [task EXCEPT ![t] = "done"]
      /\ \E h \in {Nobody, Other} : holder' = [holder EXCEPT ![t] = h]
  BY DEF LeaseExpires, OtherClaims, OtherFinishes
<1>3. /\ task' \in [Tasks -> {"open", "done", "blocked"}]
      /\ holder' \in [Tasks -> Dispatchers \cup {Nobody, Other}]
      /\ \A e \in Dispatchers, u \in Tasks : holder'[u] = e => holder[u] = e
  BY <1>1, <1>2, HoldersDiffer
<1>4. TypeOK'
  BY <1>1, <1>3 DEF Inv, TypeOK
<1>5. ASSUME NEW e \in Dispatchers, NEW u \in Tasks PROVE Sound(e, u)'
  <2>1. Sound(e, u) /\ Aside(e, u)
    BY <1>1, <1>3 DEF Inv, Aside
  <2> QED BY <2>1, Frame
<1> QED BY <1>1, <1>4, <1>5, BesideStep

LEMMA ReconcileKeeps ==
    ASSUME Inv, NEW d \in Dispatchers, NEW t \in Tasks, NEW s \in {"done", "blocked"},
           Reconcile(d, t, s)
    PROVE  Inv'
<1> DEFINE entry == << d, t, "handoff", s >>
<1>1. /\ entry \in ledger /\ ledger' = ledger \ {entry}
      /\ UNCHANGED << mode, inv, findings, report >>
      /\ IF handoff[d][t] = "none" THEN holder[t] = d /\ Finish(d, t, s) ELSE NotFinished
  BY DEF Reconcile
<1>2. /\ holder \in [Tasks -> Dispatchers \cup {Nobody, Other}]
      /\ task \in [Tasks -> {"open", "done", "blocked"}]
      /\ handoff \in [Dispatchers -> [Tasks -> {"none", "done", "blocked"}]]
      /\ Sound(d, t) /\ Nobody \notin Dispatchers
  BY HoldersDiffer DEF Inv, TypeOK
<1>3. /\ holder' \in [Tasks -> Dispatchers \cup {Nobody, Other}]
      /\ task' \in [Tasks -> {"open", "done", "blocked"}]
      /\ handoff' \in [Dispatchers -> [Tasks -> {"none", "done", "blocked"}]]
      /\ \A e \in Dispatchers, u \in Tasks :
            /\ e # d \/ u # t => handoff'[e][u] = handoff[e][u]
            /\ holder'[u] = e => holder[u] = e
      /\ handoff'[d][t] = IF handoff[d][t] = "none" THEN s ELSE handoff[d][t]
      /\ holder'[t] # d
  <2>1. CASE handoff[d][t] # "none"
    <3>1. holder[t] # d
      BY <1>2, <2>1 DEF Sound, Holding
    <3> QED BY <1>1, <1>2, <2>1, <3>1 DEF NotFinished
  <2>2. CASE handoff[d][t] = "none"
    <3>1. holder'[t] = Nobody /\ \A u \in Tasks : u # t => holder'[u] = holder[u]
      BY <1>1, <1>2, <2>2 DEF Finish
    <3>2. handoff'[d][t] = s
          /\ \A e \in Dispatchers, u \in Tasks : e # d \/ u # t => handoff'[e][u] = handoff[e][u]
      BY <1>1, <1>2, <2>2 DEF Finish
    <3>3. /\ holder' \in [Tasks -> Dispatchers \cup {Nobody, Other}]
          /\ task' \in [Tasks -> {"open", "done", "blocked"}]
          /\ handoff' \in [Dispatchers -> [Tasks -> {"none", "done", "blocked"}]]
      BY <1>1, <1>2, <2>2 DEF Finish
    <3> QED BY <1>2, <2>2, <3>1, <3>2, <3>3
  <2> QED BY <2>1, <2>2
<1>4. TypeOK'
  BY <1>1, <1>3 DEF Inv, TypeOK
<1>5. ASSUME NEW e \in Dispatchers, NEW u \in Tasks, e # d \/ u # t PROVE Sound(e, u)'
  <2>1. \A k \in Kinds, c \in Contents : << e, u, k, c >> \in ledger' <=> << e, u, k, c >> \in ledger
    BY <1>1, <1>5
  <2>2. Sound(e, u) /\ Aside(e, u)
    BY <1>1, <1>3, <1>5, <2>1 DEF Inv, Aside
  <2> QED BY <2>2, Frame
<1>6. Sound(d, t)'
  <2>1. s \in Contents /\ "handoff" \in Kinds
    BY DEF Contents, Kinds
  <2>2. Stage(d, t) = "over" /\ Stage(d, t)' = "over" /\ ~Clean(d, t)
    BY <1>1, <1>2, <2>1 DEF Sound, Unhanded, Clean, Stage
  <2>3. Recorded(d, t) => Recorded(d, t)'
    BY <1>1 DEF Recorded
  <2>4. Holding(d, t)' /\ Unhanded(d, t)'
    BY <1>3, <2>2 DEF Holding, Unhanded
  <2>5. Approved(d, t)'
    BY <1>1, <1>2, <1>3, <2>2 DEF Sound, Approved, Ended
  <2>6. Rejected(d, t)'
    BY <1>1, <1>2, <1>3, <2>1, <2>2, <2>3 DEF Sound, Rejected, Ended, Completing
  <2>7. Accounted(d, t)'
    BY <1>1, <1>2, <2>2 DEF Sound, Accounted
  <2> QED BY <2>4, <2>5, <2>6, <2>7 DEF Sound
<1> QED BY <1>1, <1>4, <1>5, <1>6, BesideStep

-----------------------------------------------------------------------------

LEMMA InvNext == Inv /\ [Next]_vars => Inv'
<1> SUFFICES ASSUME Inv, [Next]_vars PROVE Inv'
  OBVIOUS
<1>1. CASE UNCHANGED vars
  <2>1. ASSUME NEW e \in Dispatchers, NEW u \in Tasks PROVE Sound(e, u)'
    <3>1. Sound(e, u) /\ Aside(e, u)
      BY <1>1 DEF Inv, Aside, vars
    <3> QED BY <3>1, Frame
  <2>2. TypeOK'
    BY <1>1 DEF Inv, TypeOK, vars
  <2> QED BY <1>1, <2>1, <2>2, BesideStep DEF vars
<1>2. ASSUME NEW d \in Dispatchers,
             DispatchSpawn(d) \/ DispatchSpawnMany(d) \/ Prepare(d) \/ Return(d) \/ Dies(d)
      PROVE  Inv'
  BY <1>2, DispatchKeeps, PrepareKeeps, ReturnKeeps, DiesKeeps
<1>3. ASSUME NEW d \in Dispatchers, NEW t \in Tasks, Invoke(d, t)
      PROVE  Inv'
  BY <1>3, ClaimRaisesKeeps, ClaimKeeps, LaunchKeeps, PlanKeeps, ReviewPlanKeeps, ImplementKeeps,
     ReviewImplementationKeeps, FinishBlockedKeeps, CompleteKeeps, RecordFindingKeeps,
     RecordEvidenceKeeps, HandOverKeeps DEF Invoke
<1>4. ASSUME NEW t \in Tasks, LeaseExpires(t) \/ OtherClaims(t) \/ OtherFinishes(t)
      PROVE  Inv'
  BY <1>4, LeasesKeep
<1>5. ASSUME NEW d \in Dispatchers, NEW t \in Tasks, NEW s \in {"done", "blocked"}, Reconcile(d, t, s)
      PROVE  Inv'
  BY <1>5, ReconcileKeeps
<1> QED BY <1>1, <1>2, <1>3, <1>4, <1>5 DEF Next

LEMMA Invariance == Spec => []Inv
BY InvInit, InvNext, PTL DEF Spec

\* Every variable keeps its type.
THEOREM TypeCorrect == Spec => []TypeOK
<1>1. Inv => TypeOK
  BY DEF Inv
<1> QED BY <1>1, Invariance, PTL

\* Whatever Copilot worker a task is handed over by as done has been through
\* both reviews, and a rejection is on record before its task leaves the
\* worker: finalize_spawn_completion writes the finding first.
THEOREM ReviewsBeforeDone == Spec => []ReviewedBeforeDone
<1>1. Inv => ReviewedBeforeDone
  BY DEF Inv, ReviewedBeforeDone, Sound, Approved, Rejected, Recorded, Reviewed
<1> QED BY <1>1, Invariance, PTL

\* A call that has returned holds no lease, save under a pending handoff or a
\* claim whose answer was lost: every claimed invocation is finished on every
\* path through dispatch_spawn_many.
THEOREM HoldsNothing == Spec => []NothingHeldOnReturn
<1>1. ASSUME Inv, NEW d \in Dispatchers, NEW t \in Tasks, mode[d] = "returned", holder[t] = d
      PROVE  \/ \E s \in {"done", "blocked"} : << d, t, "handoff", s >> \in ledger
             \/ inv[d][t].lost
  <2>1. Stage(d, t) \in {"out", "over"}
    BY <1>1 DEF Inv, Called, Alive
  <2> QED BY <1>1, <2>1 DEF Inv, Sound, Holding
<1>2. Inv => NothingHeldOnReturn
  BY <1>1 DEF NothingHeldOnReturn
<1> QED BY <1>2, Invariance, PTL

\* "completed" means that every selected task was handed over as done, in the
\* database, and that the ledger keeps nothing of the call.
THEOREM CompletesTruly == Spec => []CompletedIsTrue
<1>1. ASSUME Inv, NEW d \in Dispatchers, report[d] = "completed", NEW t \in Selected(d)
      PROVE  handoff[d][t] = "done" /\ ~\E e \in ledger : e[1] = d /\ e[2] = t
  <2>1. t \in Tasks /\ Stage(d, t) # "out" /\ Called(d)
    BY <1>1 DEF Inv, Selected
  <2>2. Stage(d, t) = "over" /\ inv[d][t].item.execution = "completed"
    BY <1>1, <2>1 DEF Called, Alive
  <2>3. handoff[d][t] = "done" /\ Clean(d, t)
    BY <1>1, <2>1, <2>2 DEF Inv, Sound, Accounted
  <2>4. ASSUME NEW e \in ledger, e[1] = d, e[2] = t PROVE FALSE
    <3>1. e \in Dispatchers \X Tasks \X Kinds \X Contents
      BY <1>1 DEF Inv, TypeOK, Kinds, Contents
    <3>2. e = << d, t, e[3], e[4] >> /\ e[3] \in Kinds /\ e[4] \in Contents
      BY <2>4, <3>1
    <3> QED BY <2>3, <3>2 DEF Clean
  <2> QED BY <2>3, <2>4
<1>2. Inv => CompletedIsTrue
  BY <1>1 DEF CompletedIsTrue
<1> QED BY <1>2, Invariance, PTL
=============================================================================
