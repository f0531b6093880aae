-------------------------- MODULE TaskGraph_proofs --------------------------
(***************************************************************************)
(* Proofs about TaskGraph, for any number of planners, workers, plans and   *)
(* crashes.                                                                *)
(*                                                                         *)
(* The idempotency record of a key is what keeps planners apart: until the  *)
(* first commit there is no task of the key, and from then on every planner *)
(* is told the same id.  Only two planners between lookup and commit of the *)
(* same key can do otherwise, and then the key is in raced.                 *)
(***************************************************************************)
EXTENDS TaskGraph, FiniteSetTheorems, TLAPS

\* A planner in a plan is at one of its tasks, and has an id for all before it.
InPlan ==
    \A p \in Planners :
        /\ pc[p] # "idle" => job[p] # Nil
        /\ pc[p] \in {"lookup", "insert"} => job[p].at \in DOMAIN job[p].plan.order
        /\ pc[p] \in {"link", "close"} => job[p].at = Len(job[p].plan.order) + 1
        /\ pc[p] = "close" => job[p].holder # Nil
        /\ job[p] # Nil => \A n \in DOMAIN job[p].plan.order :
                              n < job[p].at => job[p].ids[job[p].plan.order[n]] # Nil

\* Ids that are kept anywhere are of tasks that exist, under the key they are kept for.
Named(j) == /\ \A k \in Keys : j.ids[k] # Nil => j.ids[k] \in TasksOf(k)
            /\ j.holder # Nil => j.holder \in Rows
Kept ==
    /\ \A p \in Planners : job[p] # Nil => Named(job[p])
    /\ \A w \in Workers : seen[w] \subseteq Rows /\ (holds[w] # Nil => holds[w] \in Rows)
    /\ memo[Placeholder] # Nil => memo[Placeholder].id \in Rows

\* The record of a key and its tasks come together.
Recorded ==
    \A k \in Keys : IF memo[k] = Nil THEN TasksOf(k) = {} ELSE memo[k].id \in TasksOf(k)

\* Between lookup and commit of a key that is not raced, a planner is alone.
Alone ==
    \A p \in Planners : pc[p] = "insert" /\ Key(p) \notin raced =>
        /\ memo[Key(p)] = Nil
        /\ \A q \in Planners : pc[q] = "insert" /\ Key(q) = Key(p) => q = p

Unique == \A k \in Keys \ raced : \A i, j \in TasksOf(k) : i = j

\* What was published is stored, task by task and edge by edge.
Stored ==
    \A j \in published :
        /\ Named(j)
        /\ \A k \in Range(j.plan.order) : j.ids[k] # Nil
        /\ \A n \in j.plan.needs : << j.ids[n[1]], j.ids[n[2]] >> \in edges

Inv == TypeOK /\ InPlan /\ Kept /\ Recorded /\ Alone /\ Unique /\ Stored

-----------------------------------------------------------------------------

\* The content of a plan is of its keys, and so are its dependencies.
LEMMA PlanTypes ==
    ASSUME NEW g \in Plans
    PROVE  /\ g.order \in Seq(Keys) /\ Range(g.order) \subseteq Keys
           /\ \A k \in Range(g.order) : g.text[k] \in Texts
           /\ \A n \in g.needs : n[1] \in Range(g.order) /\ n[2] \in Range(g.order)
<1>1. g.order \in Seq(Keys) /\ DOMAIN g.text = Range(g.order) /\ IsAccepted(g)
  BY ProposalsAreAccepted
<1>2. Range(g.order) \subseteq Keys
  BY <1>1 DEF Range
<1>3. \A k \in Range(g.order) : g.text[k] \in Texts
  BY <1>1 DEF Texts, Range
<1> QED BY <1>1, <1>2, <1>3 DEF IsAccepted

LEMMA ProposalTypes == \A p \in Planners : Proposals[p] \subseteq Plans
BY ProposalsAreAccepted DEF Plans, Range

\* A planner at a task has its key and its content.
LEMMA KeyTypes ==
    ASSUME TypeOK, InPlan, NEW p \in Planners, pc[p] \in {"lookup", "insert"}
    PROVE  /\ job[p] \in Jobs /\ Key(p) \in Keys /\ Key(p) \in Range(job[p].plan.order)
           /\ Text(p) \in Texts
<1>1. job[p] \in Jobs /\ job[p].at \in DOMAIN job[p].plan.order
  BY DEF TypeOK, InPlan
<1>2. Key(p) \in Range(job[p].plan.order)
  BY <1>1 DEF Key, Range
<1> QED BY <1>1, <1>2, PlanTypes DEF Text, Jobs

\* Tasks come and change their status; no key is taken from them.
Grows == \A i \in Ids : task[i] # Nil => task'[i] # Nil /\ task'[i].key = task[i].key

LEMMA GrowsTasks ==
    ASSUME Grows
    PROVE  Rows \subseteq Rows' /\ \A k : TasksOf(k) \subseteq TasksOf(k)'
BY DEF Grows, Rows, TasksOf

LEMMA GrowsNames == ASSUME Grows, NEW j, Named(j) PROVE Named(j)'
BY GrowsTasks DEF Named

\* Where no task comes, the keys keep the tasks they have.
LEMMA SameTasks ==
    ASSUME Grows, \A i \in Ids : task'[i] # Nil => task[i] # Nil
    PROVE  \A k : TasksOf(k)' = TasksOf(k)
BY DEF Grows, TasksOf, Rows

\* The parts of the invariant that only speak of tables.
LEMMA TablesStay ==
    ASSUME Inv, Grows, \A i \in Ids : task'[i] # Nil => task[i] # Nil,
           \A k \in Keys : memo'[k] = memo[k], raced \subseteq raced', edges \subseteq edges'
    PROVE  /\ Recorded' /\ Unique'
           /\ \A j : Named(j) => Named(j)'
           /\ published' = published => Stored'
<1>1. \A k : TasksOf(k)' = TasksOf(k)
  BY SameTasks
<1>2. Recorded' /\ Unique'
  BY <1>1 DEF Inv, Recorded, Unique
<1>3. \A j : Named(j) => Named(j)'
  BY GrowsNames
<1> QED BY <1>2, <1>3 DEF Inv, Stored

-----------------------------------------------------------------------------
(* Planners. *)

LEMMA InvInit == Init => Inv
<1> SUFFICES ASSUME Init PROVE Inv
  OBVIOUS
<1>1. TypeOK
  BY DEF Init, TypeOK, TaskRows, Statuses
<1>2. InPlan /\ Alone
  BY DEF Init, InPlan, Alone
<1>3. \A k \in Keys : TasksOf(k) = {}
  BY ProposalsAreAccepted DEF Init, TasksOf, Rows
<1>4. Kept
  BY DEF Init, Kept
<1> QED BY <1>1, <1>2, <1>3, <1>4 DEF Init, Inv, Recorded, Unique, Stored

LEMMA BeginKeeps ==
    ASSUME Inv, NEW p \in Planners, NEW g \in Plans, NEW holder \in Ids \cup {Nil},
           holder # Nil => holder \in Rows, Begin(p, g, holder)
    PROVE  Inv'
<1> DEFINE new == [plan |-> g, at |-> 1, ids |-> [k \in Keys |-> Nil], holder |-> holder]
<1>1. new \in Jobs
  BY DEF Jobs
<1>2. /\ pc' = [pc EXCEPT ![p] = IF g.order = << >> THEN "link" ELSE "lookup"]
      /\ job' = [job EXCEPT ![p] = new]
      /\ UNCHANGED << tables, work, history >>
  BY DEF Begin, Become
<1>3. TypeOK'
  BY <1>1, <1>2 DEF Inv, TypeOK, tables, work, history
<1>4. InPlan'
  <2>1. g.order \in Seq(Keys)
    BY PlanTypes
  <2> QED BY <1>1, <1>2, <2>1, NilIsNothing DEF Inv, TypeOK, InPlan
<1>5. Grows /\ \A i \in Ids : task'[i] = task[i]
  BY <1>2 DEF Grows, tables
<1>6. Kept'
  <2>1. Named(new)
    BY DEF Named
  <2>2. \A j : Named(j)' <=> Named(j)
    BY <1>2 DEF Named, TasksOf, Rows, tables
  <2>3. \A q \in Planners : job'[q] # Nil => Named(job[q])'
    BY <1>2, <2>1, <2>2 DEF Inv, Kept, TypeOK, Named, TasksOf, Rows, tables
  <2> QED BY <1>2, <2>3 DEF Inv, Kept, Rows, tables, work
<1>7. Alone'
  BY <1>2 DEF Inv, Alone, TypeOK, Key, tables, history
<1>8. Recorded' /\ Unique' /\ Stored'
  BY <1>2, <1>5, TablesStay DEF tables, history
<1> QED BY <1>3, <1>4, <1>6, <1>7, <1>8 DEF Inv

\* The next task, with the id of the one the planner was at.
LEMMA NextTaskTypes ==
    ASSUME TypeOK, InPlan, NEW p \in Planners, pc[p] \in {"lookup", "insert"}, NEW id \in Ids,
           NextTask(p, id)
    PROVE  /\ pc' \in [Planners -> {"idle", "lookup", "insert", "link", "close"}]
           /\ job' \in [Planners -> Jobs \cup {Nil}]
           /\ pc'[p] \in {"lookup", "link"}
           /\ \A q \in Planners \ {p} : pc'[q] = pc[q] /\ job'[q] = job[q]
           /\ job'[p].plan = job[p].plan /\ job'[p].holder = job[p].holder
           /\ job'[p].ids = [job[p].ids EXCEPT ![Key(p)] = id]
           /\ InPlan'
<1> DEFINE j == job[p]
           new == [j EXCEPT !.at = @ + 1, !.ids = [j.ids EXCEPT ![Key(p)] = id]]
<1>1. j \in Jobs /\ Key(p) \in Keys /\ j.at \in DOMAIN j.plan.order /\ j # Nil
  BY KeyTypes DEF InPlan
<1>2. j.plan.order \in Seq(Keys)
  BY <1>1, PlanTypes DEF Jobs
<1>3. /\ pc' = [pc EXCEPT ![p] = IF j.at = Len(j.plan.order) THEN "link" ELSE "lookup"]
      /\ job' = [job EXCEPT ![p] = new]
  BY DEF NextTask, Become
<1>4. /\ new \in Jobs /\ new.plan = j.plan /\ new.holder = j.holder /\ new.at = j.at + 1
      /\ new.ids = [j.ids EXCEPT ![Key(p)] = id]
  <2>1. j.at \in Nat
    BY <1>1, <1>2
  <2>2. [j.ids EXCEPT ![Key(p)] = id] \in [Keys -> Ids \cup {Nil}]
    BY <1>1 DEF Jobs
  <2>3. [j EXCEPT !.at = @ + 1] \in Jobs
    BY <1>1, <2>1 DEF Jobs
  <2>4. new = [[j EXCEPT !.at = @ + 1] EXCEPT !.ids = [j.ids EXCEPT ![Key(p)] = id]]
    OBVIOUS
  <2>5. new \in Jobs
    BY <2>2, <2>3, <2>4 DEF Jobs
  <2> QED BY <1>1, <2>5 DEF Jobs
<1>5. job'[p] = new /\ \A q \in Planners \ {p} : pc'[q] = pc[q] /\ job'[q] = job[q]
  BY <1>3 DEF TypeOK
<1>6. \A n \in DOMAIN new.plan.order : n < new.at => new.ids[new.plan.order[n]] # Nil
  <2> SUFFICES ASSUME NEW n \in DOMAIN j.plan.order, n < j.at + 1
               PROVE  new.ids[j.plan.order[n]] # Nil
    BY <1>4
  <2>1. n \in Nat /\ j.at \in Nat /\ j.plan.order[n] \in Keys /\ j.ids \in [Keys -> Ids \cup {Nil}]
    BY <1>1, <1>2 DEF Jobs
  <2>2. CASE n = j.at
    BY <1>1, <1>4, <2>1, <2>2, NilIsNothing DEF Key
  <2>3. CASE n < j.at
    <3>1. j.ids[j.plan.order[n]] # Nil
      BY <1>1, <2>3 DEF InPlan
    <3> QED BY <1>4, <2>1, <3>1, NilIsNothing
  <2> QED BY <2>1, <2>2, <2>3
<1>7. InPlan'
  <2> SUFFICES ASSUME NEW q \in Planners
               PROVE  /\ pc'[q] # "idle" => job'[q] # Nil
                      /\ pc'[q] \in {"lookup", "insert"} => job'[q].at \in DOMAIN job'[q].plan.order
                      /\ pc'[q] \in {"link", "close"} => job'[q].at = Len(job'[q].plan.order) + 1
                      /\ pc'[q] = "close" => job'[q].holder # Nil
                      /\ job'[q] # Nil => \A n \in DOMAIN job'[q].plan.order :
                            n < job'[q].at => job'[q].ids[job'[q].plan.order[n]] # Nil
    BY DEF InPlan
  <2>1. CASE q = p
    <3>1. job'[p] # Nil
      BY <1>4, <1>5, NilIsNothing
    <3>2. pc'[p] = IF j.at = Len(j.plan.order) THEN "link" ELSE "lookup"
      BY <1>3 DEF TypeOK
    <3>3. j.at \in 1..Len(j.plan.order) /\ Len(j.plan.order) \in Nat
          /\ DOMAIN j.plan.order = 1..Len(j.plan.order)
      BY <1>1, <1>2
    <3>4. job'[p].at = j.at + 1 /\ job'[p].plan = j.plan
      BY <1>4, <1>5
    <3>5. \A n \in DOMAIN job'[q].plan.order :
             n < job'[q].at => job'[q].ids[job'[q].plan.order[n]] # Nil
      BY <1>5, <1>6, <2>1
    <3> QED BY <2>1, <3>1, <3>2, <3>3, <3>4, <3>5
  <2>2. CASE q # p
    BY <1>5, <2>2 DEF InPlan
  <2> QED BY <2>1, <2>2
<1>8. job' \in [Planners -> Jobs \cup {Nil}] /\ pc' \in [Planners -> {"idle", "lookup", "insert", "link", "close"}]
      /\ pc'[p] \in {"lookup", "link"}
  BY <1>3, <1>4 DEF TypeOK
<1> QED BY <1>4, <1>5, <1>7, <1>8

\* A planner leaves its plan.
LEMMA LeavePlan ==
    ASSUME TypeOK, InPlan, NEW p \in Planners, Become(p, "idle", Nil)
    PROVE  /\ pc' \in [Planners -> {"idle", "lookup", "insert", "link", "close"}]
           /\ job' \in [Planners -> Jobs \cup {Nil}]
           /\ pc'[p] = "idle" /\ job'[p] = Nil
           /\ \A q \in Planners \ {p} : pc'[q] = pc[q] /\ job'[q] = job[q]
           /\ InPlan'
BY DEF Become, TypeOK, InPlan

LEMMA CrashKeeps == ASSUME Inv, NEW p \in Planners, Crash(p) PROVE Inv'
<1>1. TypeOK /\ InPlan /\ Become(p, "idle", Nil) /\ UNCHANGED << tables, work, history >>
  BY DEF Inv, Crash
<1>2. /\ pc'[p] = "idle" /\ job'[p] = Nil
      /\ \A q \in Planners \ {p} : pc'[q] = pc[q] /\ job'[q] = job[q]
  BY <1>1, LeavePlan
<1>3. TypeOK' /\ InPlan'
  BY <1>1, LeavePlan DEF TypeOK, tables, work, history
<1>4. Alone'
  BY <1>1, <1>2 DEF Inv, Alone, Key, tables, history
<1>5. Grows /\ \A i \in Ids : task'[i] = task[i]
  BY <1>1 DEF Grows, tables
<1>6. Recorded' /\ Unique' /\ Stored' /\ \A j : Named(j) => Named(j)'
  BY <1>1, <1>5, TablesStay DEF tables, history
<1>7. Kept'
  BY <1>1, <1>2, <1>6 DEF Inv, Kept, Rows, tables, work
<1> QED BY <1>3, <1>4, <1>6, <1>7 DEF Inv

LEMMA LookupKeeps == ASSUME Inv, NEW p \in Planners, LookupTask(p) PROVE Inv'
<1>1. /\ TypeOK /\ InPlan /\ Kept /\ Recorded /\ Alone /\ pc[p] = "lookup"
      /\ UNCHANGED << tables, work, published >>
  BY DEF Inv, LookupTask
<1>2. job[p] \in Jobs /\ job[p] # Nil /\ Key(p) \in Keys
  BY <1>1, KeyTypes DEF InPlan
<1>3. Grows /\ \A i \in Ids : task'[i] = task[i]
  BY <1>1 DEF Grows, tables
<1>4. raced \subseteq raced' => Recorded' /\ Unique' /\ Stored' /\ \A j : Named(j) => Named(j)'
  BY <1>1, <1>3, TablesStay DEF tables
<1>5. \A k : TasksOf(k)' = TasksOf(k)
  BY <1>3, SameTasks
<1>6. CASE memo[Key(p)] # Nil /\ NextTask(p, memo[Key(p)].id) /\ UNCHANGED raced
  <2>1. memo[Key(p)].id \in Ids /\ memo[Key(p)].id \in TasksOf(Key(p))
    BY <1>1, <1>2, <1>6 DEF TypeOK, Recorded, Outcomes
  <2>2. /\ pc' \in [Planners -> {"idle", "lookup", "insert", "link", "close"}]
        /\ job' \in [Planners -> Jobs \cup {Nil}]
        /\ pc'[p] \in {"lookup", "link"}
        /\ \A q \in Planners \ {p} : pc'[q] = pc[q] /\ job'[q] = job[q]
        /\ job'[p].holder = job[p].holder
        /\ job'[p].ids = [job[p].ids EXCEPT ![Key(p)] = memo[Key(p)].id]
        /\ InPlan'
    BY <1>1, <1>6, <2>1, NextTaskTypes
  <2>3. TypeOK'
    BY <1>1, <1>6, <2>2 DEF TypeOK, tables, work
  <2>4. Named(job'[p])
    BY <1>1, <1>2, <2>1, <2>2 DEF Kept, Named, Jobs
  <2>5. Kept'
    BY <1>1, <1>4, <1>6, <2>2, <2>4 DEF Kept, Rows, tables, work
  <2>6. Alone'
    BY <1>1, <1>6, <2>2 DEF Alone, Key, tables
  <2> QED BY <1>4, <1>6, <2>2, <2>3, <2>5, <2>6 DEF Inv
<1>7. CASE Become(p, "idle", Nil) /\ UNCHANGED raced
  <2>1. /\ pc'[p] = "idle" /\ job'[p] = Nil
        /\ \A q \in Planners \ {p} : pc'[q] = pc[q] /\ job'[q] = job[q]
    BY <1>1, <1>7, LeavePlan
  <2>2. TypeOK' /\ InPlan'
    BY <1>1, <1>7, LeavePlan DEF TypeOK, tables, work
  <2>3. Alone'
    BY <1>1, <1>7, <2>1 DEF Alone, Key, tables
  <2>4. Kept'
    BY <1>1, <1>4, <1>7, <2>1 DEF Kept, Rows, tables, work
  <2> QED BY <1>4, <1>7, <2>2, <2>3, <2>4 DEF Inv
<1>8. CASE /\ memo[Key(p)] = Nil /\ pc' = [pc EXCEPT ![p] = "insert"] /\ UNCHANGED job
           /\ raced' = IF \E q \in Planners \ {p} : pc[q] = "insert" /\ Key(q) = Key(p)
                       THEN raced \cup {Key(p)} ELSE raced
  <2>1. \A q \in Planners : Key(q)' = Key(q)
    BY <1>8 DEF Key
  <2>2. TypeOK' /\ InPlan'
    BY <1>1, <1>2, <1>8 DEF TypeOK, InPlan, tables, work
  <2>3. Alone'
    <3> SUFFICES ASSUME NEW q \in Planners, pc'[q] = "insert", Key(q) \notin raced'
                 PROVE  /\ memo[Key(q)] = Nil
                        /\ \A r \in Planners : pc'[r] = "insert" /\ Key(r) = Key(q) => r = q
      BY <1>1, <2>1 DEF Alone, tables
    <3>1. CASE q = p
      BY <1>1, <1>8, <3>1 DEF TypeOK
    <3>2. CASE q # p
      <4>1. pc[q] = "insert" /\ Key(q) \notin raced /\ Key(q) # Key(p)
        BY <1>1, <1>8, <3>2 DEF TypeOK
      <4> QED BY <1>1, <1>8, <4>1 DEF Alone, TypeOK
    <3> QED BY <3>1, <3>2
  <2>4. Kept'
    BY <1>1, <1>4, <1>8 DEF Kept, Rows, tables, work
  <2> QED BY <1>4, <1>8, <2>2, <2>3, <2>4 DEF Inv
<1> QED BY <1>6, <1>7, <1>8 DEF LookupTask

LEMMA InsertKeeps == ASSUME Inv, NEW p \in Planners, NEW id \in Ids, InsertTask(p, id) PROVE Inv'
<1> DEFINE new == [key |-> Key(p), status |-> "ready"]
           outcome == [text |-> Text(p), id |-> id]
<1>1. /\ TypeOK /\ InPlan /\ Kept /\ Recorded /\ Alone /\ Unique /\ Stored /\ pc[p] = "insert"
      /\ task[id] = Nil /\ task' = [task EXCEPT ![id] = new]
      /\ memo' = IF memo[Key(p)] # Nil THEN memo ELSE [memo EXCEPT ![Key(p)] = outcome]
      /\ NextTask(p, id) /\ UNCHANGED << edges, work, history >>
  BY DEF Inv, InsertTask
<1>2. /\ job[p] \in Jobs /\ job[p] # Nil /\ Key(p) \in Keys /\ Text(p) \in Texts
      /\ new \in TaskRows /\ outcome \in Outcomes /\ new # Nil /\ outcome # Nil
  BY <1>1, KeyTypes, NilIsNothing DEF InPlan, TaskRows, Statuses, Outcomes
<1>3. /\ pc' \in [Planners -> {"idle", "lookup", "insert", "link", "close"}]
      /\ job' \in [Planners -> Jobs \cup {Nil}]
      /\ pc'[p] \in {"lookup", "link"}
      /\ \A q \in Planners \ {p} : pc'[q] = pc[q] /\ job'[q] = job[q]
      /\ job'[p].holder = job[p].holder
      /\ job'[p].ids = [job[p].ids EXCEPT ![Key(p)] = id]
      /\ InPlan'
  BY <1>1, NextTaskTypes
<1>4. task'[id] = new /\ \A i \in Ids \ {id} : task'[i] = task[i]
  BY <1>1 DEF TypeOK
<1>5. Grows
  BY <1>1, <1>4 DEF Grows
<1>6. /\ \A k : TasksOf(k)' = IF k = Key(p) THEN TasksOf(k) \cup {id} ELSE TasksOf(k)
      /\ Rows \subseteq Rows' /\ \A k : TasksOf(k) \subseteq TasksOf(k)'
  BY <1>1, <1>2, <1>4, <1>5, GrowsTasks DEF TasksOf, Rows
<1>7. TypeOK'
  BY <1>1, <1>2, <1>3 DEF TypeOK, work, history
<1>8. \A j : Named(j) => Named(j)'
  BY <1>5, GrowsNames
<1>9. Kept'
  <2>1. Named(job[p])
    BY <1>1, <1>2 DEF Kept
  <2>2. Named(job[p])'
    <3>1. job[p].ids \in [Keys -> Ids \cup {Nil}]
      BY <1>2 DEF Jobs
    <3> QED BY <1>2, <1>3, <1>6, <2>1, <3>1 DEF Named
  <2>3. \A q \in Planners : job'[q] # Nil => Named(job[q])'
    BY <1>1, <1>3, <1>6, <2>2 DEF Kept, Named
  <2>4. memo'[Placeholder] = memo[Placeholder]
    BY <1>1, <1>2, ProposalsAreAccepted DEF TypeOK
  <2> QED BY <1>1, <1>6, <2>3, <2>4 DEF Kept, work
<1>10. Recorded'
  <2> SUFFICES ASSUME NEW k \in Keys
               PROVE  IF memo'[k] = Nil THEN TasksOf(k)' = {} ELSE memo'[k].id \in TasksOf(k)'
    BY DEF Recorded
  <2>1. CASE k = Key(p)
    <3>1. CASE memo[k] = Nil
      BY <1>1, <1>2, <1>6, <2>1, <3>1 DEF TypeOK
    <3>2. CASE memo[k] # Nil
      BY <1>1, <1>6, <2>1, <3>2 DEF Recorded
    <3> QED BY <3>1, <3>2
  <2>2. CASE k # Key(p)
    BY <1>1, <1>2, <1>6, <2>2 DEF Recorded, TypeOK
  <2> QED BY <2>1, <2>2
<1>11. Alone'
  <2> SUFFICES ASSUME NEW q \in Planners, pc'[q] = "insert", Key(q)' \notin raced
               PROVE  /\ memo'[Key(q)'] = Nil
                      /\ \A r \in Planners : pc'[r] = "insert" /\ Key(r)' = Key(q)' => r = q
    BY <1>1 DEF Alone, history
  <2>1. q # p /\ pc[q] = "insert" /\ \A r \in Planners \ {p} : Key(r)' = Key(r) /\ pc'[r] = pc[r]
    BY <1>3 DEF Key
  <2>2. Key(q) # Key(p) /\ memo[Key(q)] = Nil
    BY <1>1, <2>1 DEF Alone
  <2>3. memo'[Key(q)] = Nil
    BY <1>1, <2>2 DEF TypeOK
  <2> QED BY <1>1, <1>3, <2>1, <2>3 DEF Alone
<1>12. Unique'
  <2> SUFFICES ASSUME NEW k \in Keys \ raced, NEW i \in TasksOf(k)', NEW j \in TasksOf(k)'
               PROVE  i = j
    BY <1>1 DEF Unique, history
  <2>1. CASE k = Key(p)
    <3>1. TasksOf(k) = {}
      BY <1>1, <2>1 DEF Alone, Recorded
    <3> QED BY <1>6, <2>1, <3>1
  <2>2. CASE k # Key(p)
    BY <1>1, <1>6, <2>2 DEF Unique
  <2> QED BY <2>1, <2>2
<1>13. Stored'
  BY <1>1, <1>8 DEF Stored, history
<1> QED BY <1>3, <1>7, <1>9, <1>10, <1>11, <1>12, <1>13 DEF Inv

LEMMA LinkKeeps == ASSUME Inv, NEW p \in Planners, LinkTasks(p) PROVE Inv'
<1> DEFINE j == job[p]
           label == IF j.holder = Nil THEN "idle" ELSE "close"
           record == IF j.holder = Nil THEN Nil ELSE j
<1>1. /\ TypeOK /\ InPlan /\ Kept /\ Alone /\ Stored /\ pc[p] = "link"
      /\ edges' = edges \cup Links(j) /\ published' = published \cup {j}
      /\ UNCHANGED << task, memo, work, raced >>
  BY DEF Inv, LinkTasks
<1>2. pc' = [pc EXCEPT ![p] = label] /\ job' = [job EXCEPT ![p] = record]
  BY DEF LinkTasks, Become
<1>3. j \in Jobs /\ j # Nil /\ Named(j) /\ j.at = Len(j.plan.order) + 1 /\ j.plan.order \in Seq(Keys)
  BY <1>1, PlanTypes DEF TypeOK, InPlan, Kept, Jobs
<1>4. \A k \in Range(j.plan.order) : j.ids[k] # Nil /\ j.ids[k] \in Ids
  <2> SUFFICES ASSUME NEW n \in DOMAIN j.plan.order
               PROVE  j.ids[j.plan.order[n]] # Nil /\ j.ids[j.plan.order[n]] \in Ids
    BY DEF Range
  <2>1. n < j.at
    BY <1>3
  <2>2. j.plan.order[n] \in Keys /\ j.ids \in [Keys -> Ids \cup {Nil}]
    BY <1>3 DEF Jobs
  <2> QED BY <1>1, <1>3, <2>1, <2>2 DEF InPlan
<1>5. Links(j) \subseteq Ids \X Ids
  <2>1. j.plan \in Plans
    BY <1>3 DEF Jobs
  <2> QED BY <1>4, <2>1, PlanTypes DEF Links
<1>6. \A q \in Planners \ {p} : pc'[q] = pc[q] /\ job'[q] = job[q]
  BY <1>2
<1>7. TypeOK'
  BY <1>1, <1>2, <1>3, <1>5 DEF TypeOK, work
<1>8. InPlan'
  BY <1>1, <1>2, <1>3, <1>6 DEF TypeOK, InPlan
<1>9. Grows /\ \A i \in Ids : task'[i] = task[i]
  BY <1>1 DEF Grows
<1>10. Recorded' /\ Unique' /\ \A x : Named(x) => Named(x)'
  BY <1>1, <1>9, TablesStay
<1>11. Kept'
  <2>1. \A q \in Planners : job'[q] # Nil => Named(job[q])'
    BY <1>1, <1>2, <1>3, <1>6 DEF Kept, TypeOK, Named, TasksOf, Rows
  <2> QED BY <1>1, <2>1 DEF Kept, Rows, work
<1>12. Alone'
  BY <1>1, <1>2, <1>6 DEF Alone, Key, TypeOK
<1>13. Stored'
  <2> SUFFICES ASSUME NEW x \in published'
               PROVE  /\ Named(x)'
                      /\ \A k \in Range(x.plan.order) : x.ids[k] # Nil
                      /\ \A n \in x.plan.needs : << x.ids[n[1]], x.ids[n[2]] >> \in edges'
    BY DEF Stored
  <2>1. CASE x \in published
    BY <1>1, <1>10, <2>1 DEF Stored
  <2>2. CASE x = j
    BY <1>1, <1>3, <1>4, <1>10, <2>2 DEF Links
  <2> QED BY <1>1, <2>1, <2>2
<1> QED BY <1>7, <1>8, <1>10, <1>11, <1>12, <1>13 DEF Inv

LEMMA CloseKeeps == ASSUME Inv, NEW p \in Planners, ClosePlaceholder(p) PROVE Inv'
<1> DEFINE holder == job[p].holder
<1>1. /\ TypeOK /\ InPlan /\ Kept /\ Alone /\ pc[p] = "close" /\ Become(p, "idle", Nil)
      /\ UNCHANGED << edges, work, history >>
  BY DEF Inv, ClosePlaceholder
<1>2. job[p] \in Jobs /\ job[p] # Nil /\ holder \in Ids /\ task[holder] \in TaskRows /\ holder \in Rows
  BY <1>1 DEF TypeOK, InPlan, Kept, Named, Jobs, Rows
<1>3. \/ UNCHANGED << task, memo >>
      \/ /\ task' = [task EXCEPT ![holder].status = "done"]
         /\ memo' = [memo EXCEPT ![Placeholder] = [text |-> Nil, id |-> holder]]
  BY DEF ClosePlaceholder
<1>4. [text |-> Nil, id |-> holder] \in Outcomes
  BY <1>2 DEF Outcomes
<1>5. [task[holder] EXCEPT !.status = "done"] \in TaskRows
      /\ [task[holder] EXCEPT !.status = "done"].key = task[holder].key
  BY <1>2 DEF TaskRows, Statuses
<1>6. /\ pc'[p] = "idle" /\ job'[p] = Nil /\ InPlan'
      /\ pc' \in [Planners -> {"idle", "lookup", "insert", "link", "close"}]
      /\ job' \in [Planners -> Jobs \cup {Nil}]
      /\ \A q \in Planners \ {p} : pc'[q] = pc[q] /\ job'[q] = job[q]
  BY <1>1, LeavePlan
<1>7. TypeOK'
  BY <1>1, <1>3, <1>4, <1>5, <1>6 DEF TypeOK, work, history
<1>8. Grows /\ \A i \in Ids : task'[i] # Nil => task[i] # Nil
  BY <1>1, <1>2, <1>3, <1>5, NilIsNothing DEF Grows, TypeOK, Rows
<1>9. (\A k \in Keys : memo'[k] = memo[k])
      /\ (memo'[Placeholder] = memo[Placeholder] \/ memo'[Placeholder].id = holder)
  BY <1>1, <1>3, ProposalsAreAccepted DEF TypeOK
<1>10. Recorded' /\ Unique' /\ Stored' /\ \A j : Named(j) => Named(j)'
  BY <1>1, <1>8, <1>9, TablesStay DEF history
<1>11. Kept'
  BY <1>1, <1>2, <1>6, <1>8, <1>9, <1>10, GrowsTasks DEF Kept, work
<1>12. Alone'
  <2>1. \A q \in Planners : pc'[q] = "insert" => q # p /\ Key(q)' = Key(q) /\ Key(q) \in Keys
    BY <1>1, <1>6, KeyTypes DEF Key
  <2> QED BY <1>1, <1>6, <1>9, <2>1 DEF Alone, history
<1> QED BY <1>6, <1>7, <1>10, <1>11, <1>12 DEF Inv

-----------------------------------------------------------------------------
(* Workers. *)

\* A step of a worker leaves the planners and the records alone.
LEMMA WorkerStep ==
    ASSUME Inv, TypeOK', Grows, \A i \in Ids : task'[i] # Nil => task[i] # Nil,
           UNCHANGED << edges, memo, pc, job, history >>,
           \A w \in Workers : seen'[w] \subseteq Rows /\ (holds'[w] # Nil => holds'[w] \in Rows)
    PROVE  Inv'
<1>1. Recorded' /\ Unique' /\ Stored' /\ \A j : Named(j) => Named(j)'
  BY TablesStay DEF history
<1>2. Kept'
  BY <1>1, GrowsTasks DEF Inv, Kept
<1>3. InPlan' /\ Alone'
  BY DEF Inv, InPlan, Alone, Key, history
<1> QED BY <1>1, <1>2, <1>3 DEF Inv

LEMMA ListKeeps == ASSUME Inv, NEW w \in Workers, GetClaimableTasks(w) PROVE Inv'
<1>1. /\ TypeOK /\ Kept /\ seen' = [seen EXCEPT ![w] = Claimable]
      /\ UNCHANGED << tables, pc, job, holds, history >>
  BY DEF Inv, GetClaimableTasks
<1>2. Claimable \subseteq Rows /\ Rows \subseteq Ids
  BY DEF Claimable, Rows
<1>3. TypeOK'
  BY <1>1, <1>2 DEF TypeOK, tables, history
<1>4. \A x \in Workers : seen'[x] \subseteq Rows /\ (holds'[x] # Nil => holds'[x] \in Rows)
  BY <1>1, <1>2 DEF TypeOK, Kept
<1>5. Grows /\ (\A i \in Ids : task'[i] # Nil => task[i] # Nil)
      /\ UNCHANGED << edges, memo, pc, job, history >>
  BY <1>1 DEF Grows, tables
<1> QED BY <1>3, <1>4, <1>5, WorkerStep

\* A task that exists takes another status.
LEMMA StatusStep ==
    ASSUME Inv, NEW i \in Rows, NEW status \in Statuses, task' = [task EXCEPT ![i].status = status]
    PROVE  /\ task' \in [Ids -> TaskRows \cup {Nil}] /\ Grows
           /\ \A x \in Ids : task'[x] # Nil => task[x] # Nil
<1>1. TypeOK /\ i \in Ids /\ task[i] \in TaskRows
  BY DEF Inv, TypeOK, Rows
<1>2. /\ [task[i] EXCEPT !.status = status] \in TaskRows
      /\ [task[i] EXCEPT !.status = status].key = task[i].key
  BY <1>1 DEF TaskRows
<1> QED BY <1>1, <1>2, NilIsNothing DEF TypeOK, Grows

LEMMA ClaimKeeps == ASSUME Inv, NEW w \in Workers, NEW i \in Ids, ClaimTask(w, i) PROVE Inv'
<1>1. /\ TypeOK /\ Kept /\ i \in seen[w] /\ task' = [task EXCEPT ![i].status = "claimed"]
      /\ holds' = [holds EXCEPT ![w] = i] /\ UNCHANGED << edges, memo, pc, job, seen, history >>
  BY DEF Inv, ClaimTask
<1>2. i \in Rows
  BY <1>1 DEF Kept
<1>3. /\ task' \in [Ids -> TaskRows \cup {Nil}] /\ Grows
      /\ \A x \in Ids : task'[x] # Nil => task[x] # Nil
  BY <1>1, <1>2, StatusStep DEF Statuses
<1>4. TypeOK'
  BY <1>1, <1>3 DEF TypeOK, history
<1>5. \A x \in Workers : seen'[x] \subseteq Rows /\ (holds'[x] # Nil => holds'[x] \in Rows)
  BY <1>1, <1>2 DEF TypeOK, Kept
<1> QED BY <1>1, <1>3, <1>4, <1>5, WorkerStep

LEMMA LeaveKeeps ==
    ASSUME Inv, NEW w \in Workers, holds[w] # Nil, NEW status \in Statuses, LeaveTask(w, status)
    PROVE  Inv'
<1>1. /\ TypeOK /\ Kept /\ task' = [task EXCEPT ![holds[w]].status = status]
      /\ holds' = [holds EXCEPT ![w] = Nil] /\ seen' = [seen EXCEPT ![w] = {}]
      /\ UNCHANGED << edges, memo, pc, job, history >>
  BY DEF Inv, LeaveTask
<1>2. holds[w] \in Rows
  BY <1>1 DEF Kept
<1>3. /\ task' \in [Ids -> TaskRows \cup {Nil}] /\ Grows
      /\ \A x \in Ids : task'[x] # Nil => task[x] # Nil
  BY <1>1, <1>2, StatusStep
<1>4. TypeOK'
  BY <1>1, <1>3 DEF TypeOK, history
<1>5. \A x \in Workers : seen'[x] \subseteq Rows /\ (holds'[x] # Nil => holds'[x] \in Rows)
  BY <1>1 DEF TypeOK, Kept
<1> QED BY <1>1, <1>3, <1>4, <1>5, WorkerStep

LEMMA WorkerKeeps ==
    ASSUME Inv, NEW w \in Workers, FinishTask(w) \/ LoseTask(w)
    PROVE  Inv'
<1>1. holds[w] # Nil /\ holds[w] \in Rows /\ task[holds[w]] \in TaskRows
  BY DEF Inv, Kept, TypeOK, Rows, FinishTask, LoseTask
<1>2. task[holds[w]].status \in Statuses
  BY <1>1 DEF TaskRows
<1>3. PICK status \in Statuses : LeaveTask(w, status)
  BY <1>2 DEF FinishTask, LoseTask, Statuses
<1> QED BY <1>1, <1>3, LeaveKeeps

-----------------------------------------------------------------------------

LEMMA InvNext == Inv /\ [Next]_vars => Inv'
<1> SUFFICES ASSUME Inv, [Next]_vars PROVE Inv'
  OBVIOUS
<1>1. CASE UNCHANGED vars
  BY <1>1 DEF Inv, vars, tables, work, history, TypeOK, InPlan, Kept, Named, Recorded, Alone, Unique,
              Stored, Key, TasksOf, Rows
<1>2. ASSUME NEW p \in Planners, NEW g \in Proposals[p], CreateTaskGraph(p, g) \/ ApplyTaskGraph(p, g)
      PROVE  Inv'
  <2>1. g \in Plans
    BY ProposalTypes
  <2>2. PICK holder \in Ids \cup {Nil} : (holder # Nil => holder \in Rows) /\ Begin(p, g, holder)
    <3>1. CASE CreateTaskGraph(p, g)
      BY <3>1 DEF CreateTaskGraph
    <3>2. CASE ApplyTaskGraph(p, g)
      BY <3>2 DEF ApplyTaskGraph, Placeholders, TasksOf, Rows
    <3> QED BY <1>2, <3>1, <3>2
  <2> QED BY <2>1, <2>2, BeginKeeps
<1>3. ASSUME NEW p \in Planners, PlannerStep(p) PROVE Inv'
  BY <1>3, LookupKeeps, InsertKeeps, LinkKeeps, CloseKeeps DEF PlannerStep
<1> QED BY <1>1, <1>2, <1>3, CrashKeeps, ListKeeps, ClaimKeeps, WorkerKeeps DEF Next

\* Tables, plans and what workers hold are well typed in every state.
THEOREM TypeCorrect == Spec => []TypeOK
<1>1. Inv => TypeOK
  BY DEF Inv
<1> QED BY <1>1, InvInit, InvNext, PTL DEF Spec

\* However many planners create, retry and crash, a key has one task, unless two
\* of them looked it up before either had committed.
THEOREM CreatesOnce == Spec => []OneTaskPerKey
<1>1. Unique => OneTaskPerKey
  <2> SUFFICES ASSUME Unique, NEW k \in Keys \ raced PROVE Cardinality(TasksOf(k)) <= 1
    BY DEF OneTaskPerKey
  <2>1. CASE TasksOf(k) = {}
    BY <2>1, FS_EmptySet
  <2>2. CASE \E i : TasksOf(k) = {i}
    <3>1. Cardinality(TasksOf(k)) = 1
      BY <2>2, FS_Singleton, Zenon
    <3> QED BY <3>1
  <2>3. TasksOf(k) = {} \/ \E i : TasksOf(k) = {i}
    BY DEF Unique
  <2> QED BY <2>1, <2>2, <2>3
<1>2. Inv => Unique
  BY DEF Inv
<1> QED BY <1>1, <1>2, InvInit, InvNext, PTL DEF Spec

\* A plan that was reported created binds the tasks of its keys, for any plans.
THEOREM GatesAsPublished == Spec => []PublishedPlanGates
<1>1. Inv => PublishedPlanGates
  <2> SUFFICES ASSUME Inv, NEW j \in published, NEW n \in j.plan.needs, {n[1], n[2]} \cap raced = {}
               PROVE  TasksOf(n[1]) \X TasksOf(n[2]) \subseteq edges
    BY DEF PublishedPlanGates
  <2>1. /\ n[1] \in Keys \ raced /\ n[2] \in Keys \ raced
        /\ n[1] \in Range(j.plan.order) /\ n[2] \in Range(j.plan.order)
    <3>1. j.plan \in Plans
      BY DEF Inv, TypeOK, Jobs
    <3> QED BY <3>1, PlanTypes
  <2>2. j.ids[n[1]] \in TasksOf(n[1]) /\ j.ids[n[2]] \in TasksOf(n[2])
        /\ << j.ids[n[1]], j.ids[n[2]] >> \in edges
    BY <2>1 DEF Inv, Stored, Named
  <2>3. TasksOf(n[1]) = {j.ids[n[1]]} /\ TasksOf(n[2]) = {j.ids[n[2]]}
    BY <2>1, <2>2 DEF Inv, Unique
  <2> QED BY <2>2, <2>3
<1> QED BY <1>1, InvInit, InvNext, PTL DEF Spec
=============================================================================
