------------------------ MODULE Reservations_proofs ------------------------
(* Proofs about Reservations, for every value of its constants. *)
EXTENDS Reservations, TLAPS

\* A session that is in its call has one.
Calling == \A s \in Sessions : pc[s] # "idle" => call[s] \in Calls

\* Only an open row is locked: the transaction that expires it is still to end.
LockedIsOpen == \A i \in Ids : lock[i] # Nil => IsOpen(i)

\* What was committed at the check and still matches at this instant was found.
Found ==
    \A s \in Sessions : pc[s] = "decide" => \A i \in known[s] :
        /\ row[i] # Nil
        /\ \A n \in call[s].names : IsActive(i, clock) /\ Matches(i, n) => i \in conflicts[s]

Typed == TypeOK /\ Calling /\ LockedIsOpen

-----------------------------------------------------------------------------
(* What the helpers do to the rows and the events. *)

\* Closing rows keeps the table well typed, and changes nothing else of them.
LEMMA Closes ==
    ASSUME Typed, NEW S \in SUBSET Ids, \A i \in S : IsOpen(i)
    PROVE  /\ CloseAll(S) \in [Ids -> Rows \cup {Nil}]
           /\ \A i \in S : CloseAll(S)[i] # Nil /\ ~CloseAll(S)[i].open
           /\ \A i \in S : /\ CloseAll(S)[i].name = row[i].name
                           /\ CloseAll(S)[i].qualified = row[i].qualified
           /\ \A i \in Ids \ S : CloseAll(S)[i] = row[i]
<1>1. \A i \in S : row[i] \in Rows
  BY DEF Typed, TypeOK, IsOpen
<1>2. \A i \in S : [row[i] EXCEPT !.open = FALSE] \in Rows
  BY <1>1 DEF Rows
<1> QED BY <1>1, <1>2, ReservationNil DEF Typed, TypeOK, CloseAll, Rows

\* One event for each row of a set.
LEMMA Logs ==
    ASSUME TypeOK, NEW S \in SUBSET Ids, NEW event \in {"released", "expired"}
    PROVE  /\ LogAll(S, event) \in [Ids -> [released : Nat, expired : Nat]]
           /\ \A i \in S : LogAll(S, event)[i].released + LogAll(S, event)[i].expired
                              = ended[i].released + ended[i].expired + 1
           /\ \A i \in Ids \ S : LogAll(S, event)[i] = ended[i]
<1>1. CASE event = "released"
  BY <1>1 DEF TypeOK, LogAll
<1>2. CASE event = "expired"
  BY <1>2 DEF TypeOK, LogAll
<1> QED BY <1>1, <1>2

\* Where a session leaves its call, it holds no lock and no call.
LEMMA Leaves ==
    ASSUME Typed, NEW s \in Sessions, Leave(s)
    PROVE  /\ lock' \in [Ids -> Sessions \cup {Nil}]
           /\ \A i \in Ids : lock'[i] # Nil => lock[i] # Nil /\ lock[i] # s
           /\ pc' \in [Sessions -> {"idle", "decide", "insert"}]
           /\ pc'[s] = "idle" /\ \A r \in Sessions \ {s} : pc'[r] = pc[r] /\ call'[r] = call[r]
                                   /\ conflicts'[r] = conflicts[r] /\ known'[r] = known[r]
           /\ call' \in [Sessions -> Calls \cup {Nil}]
           /\ now' \in [Sessions -> 0..MaxClock]
           /\ conflicts' \in [Sessions -> SUBSET Ids]
           /\ known' \in [Sessions -> SUBSET Ids]
BY ReservationBounds DEF Typed, TypeOK, Leave

LEMMA ExpiringOpen == ASSUME Typed, NEW s \in Sessions
                      PROVE  Expiring(s) \in SUBSET Ids /\ \A i \in Expiring(s) : IsOpen(i)
BY ReservationNil DEF Typed, Expiring, LockedIsOpen

LEMMA OverdueOpen == Overdue(clock) \in SUBSET Ids /\ \A i \in Overdue(clock) : IsOpen(i)
BY DEF Overdue, IsOverdue

LEMMA SelectionsAreIds == \A ids \in Selections : ids \in SUBSET Ids
BY DEF Selections

LEMMA Expiries == \A instant \in 0..MaxClock, ttl \in TTLs : ExpiryOf(instant, ttl) \in Nat \cup {Nil}
BY ReservationBounds DEF ExpiryOf

-----------------------------------------------------------------------------
(* The type invariant, the end of reservations and the check of the policy. *)

\* Rows end with one event each, or stay as they were.
Ends(S, event) ==
    /\ ended' = LogAll(S, event)
    /\ \A i \in S : IsOpen(i) /\ row'[i] # Nil /\ ~row'[i].open
    /\ \A i \in Ids \ S : \/ row'[i] = row[i]
                          \/ row[i] = Nil /\ row'[i] # Nil /\ row'[i].open
                          \/ IsOpen(i) /\ row'[i] # Nil /\ row'[i].open

\* Every row stays in the table under its names, and none is active again.
Stays ==
    \A i \in Ids : row[i] # Nil => /\ row'[i] # Nil /\ row'[i].name = row[i].name
                                   /\ row'[i].qualified = row[i].qualified
                                   /\ IsActive(i, clock)' => IsActive(i, clock)

LEMMA EndsOnce ==
    ASSUME Typed, OneEndingEvent, NEW S \in SUBSET Ids, NEW event \in {"released", "expired"},
           Ends(S, event)
    PROVE  OneEndingEvent'
<1> SUFFICES ASSUME NEW i \in Ids
             PROVE  ended'[i].released + ended'[i].expired
                       = IF row'[i] # Nil /\ ~row'[i].open THEN 1 ELSE 0
  BY DEF OneEndingEvent
<1>1. TypeOK /\ ended[i].released + ended[i].expired = IF row[i] # Nil /\ ~row[i].open THEN 1 ELSE 0
  BY DEF OneEndingEvent, Typed
<1>2. CASE i \in S
  BY <1>1, <1>2, Logs DEF Ends, IsOpen
<1>3. CASE i \notin S
  <2>1. ended'[i] = ended[i]
    BY <1>1, <1>3, Logs DEF Ends
  <2> QED BY <1>1, <1>3, <2>1 DEF Ends, IsOpen
<1> QED BY <1>2, <1>3

LEMMA FoundStays ==
    ASSUME Typed, Found, Stays,
           \A s \in Sessions : pc'[s] = "decide" =>
               pc[s] = "decide" /\ call'[s] = call[s] /\ known'[s] = known[s]
               /\ conflicts'[s] = conflicts[s]
    PROVE  Found'
<1> SUFFICES ASSUME NEW s \in Sessions, pc'[s] = "decide", NEW i \in known'[s]
             PROVE  /\ row'[i] # Nil
                    /\ \A n \in call'[s].names :
                          IsActive(i, clock)' /\ Matches(i, n)' => i \in conflicts'[s]
  BY DEF Found
<1>1. i \in known[s] /\ i \in Ids /\ pc[s] = "decide" /\ call'[s] = call[s] /\ conflicts'[s] = conflicts[s]
  BY DEF Typed, TypeOK
<1>2. row[i] # Nil
  BY <1>1 DEF Found
<1>3. \A n : Matches(i, n)' => Matches(i, n)
  BY <1>1, <1>2 DEF Stays, Matches
<1> QED BY <1>1, <1>2, <1>3 DEF Found, Stays

\* A step that closes open rows, and changes no call.
LEMMA ClosingStep ==
    ASSUME Typed, NEW S \in SUBSET Ids, NEW event \in {"released", "expired"},
           \A i \in S : IsOpen(i), row' = CloseAll(S), ended' = LogAll(S, event), clock' = clock
    PROVE  row' \in [Ids -> Rows \cup {Nil}] /\ ended' \in [Ids -> [released : Nat, expired : Nat]]
           /\ Ends(S, event) /\ Stays
<1>1. row' \in [Ids -> Rows \cup {Nil}]
  BY Closes
<1>2. ended' \in [Ids -> [released : Nat, expired : Nat]]
  BY Logs DEF Typed
<1>3. Ends(S, event)
  BY Closes DEF Ends
<1>4. Stays
  BY Closes DEF Stays, IsActive, IsOverdue, IsOpen
<1> QED BY <1>1, <1>2, <1>3, <1>4

Inv == Typed /\ OneEndingEvent /\ Found

LEMMA InvInit == Init => Inv
BY ReservationBounds DEF Init, Inv, Typed, TypeOK, Calling, LockedIsOpen, OneEndingEvent, Found

LEMMA CheckKeeps == ASSUME Inv, NEW s \in Sessions, NEW c \in Calls, Check(s, c) PROVE Inv'
<1>1. TypeOK'
  BY DEF Inv, Typed, TypeOK, Check, ConflictsOf
<1>2. Calling'
  BY DEF Inv, Typed, TypeOK, Check, Calling
<1>3. LockedIsOpen'
  BY OverdueOpen DEF Inv, Typed, TypeOK, Check, LockedIsOpen, IsOpen
<1>4. OneEndingEvent'
  BY DEF Inv, Check, OneEndingEvent
<1>5. ASSUME NEW r \in Sessions, pc'[r] = "decide", NEW i \in known'[r]
      PROVE  /\ row'[i] # Nil
             /\ \A n \in call'[r].names : IsActive(i, clock)' /\ Matches(i, n)' => i \in conflicts'[r]
  <2>1. CASE r = s
    <3>1. i \in Ids /\ row[i] # Nil /\ call'[r] = c /\ conflicts'[r] = ConflictsOf(c.names, clock)
      BY <1>5, <2>1 DEF Inv, Typed, TypeOK, Check
    <3> QED BY <3>1 DEF Check, ConflictsOf, IsActive, IsOverdue, IsOpen, Matches
  <2>2. CASE r # s
    <3>1. /\ pc[r] = "decide" /\ i \in known[r] /\ call'[r] = call[r]
          /\ conflicts'[r] = conflicts[r]
      BY <1>5, <2>2 DEF Inv, Typed, TypeOK, Check
    <3> QED BY <3>1 DEF Inv, Found, Check, IsActive, IsOverdue, IsOpen, Matches
  <2> QED BY <2>1, <2>2
<1>6. Found'
  BY <1>5 DEF Found
<1> QED BY <1>1, <1>2, <1>3, <1>4, <1>6 DEF Inv, Typed

LEMMA RefuseKeeps == ASSUME Inv, NEW s \in Sessions, Refuse(s) PROVE Inv'
<1> DEFINE S == Expiring(s)
<1>1. Typed /\ S \in SUBSET Ids /\ \A i \in S : IsOpen(i)
  BY ExpiringOpen DEF Inv
<1>2. row' = CloseAll(S) /\ ended' = LogAll(S, "expired") /\ clock' = clock /\ policy' = policy /\ Leave(s)
  BY DEF Refuse
<1>3. row' \in [Ids -> Rows \cup {Nil}] /\ ended' \in [Ids -> [released : Nat, expired : Nat]]
      /\ Ends(S, "expired") /\ Stays
  BY <1>1, <1>2, ClosingStep
<1>4. TypeOK'
  BY <1>1, <1>2, <1>3, Leaves DEF Typed, TypeOK
<1>5. Calling'
  BY <1>1, <1>2, Leaves DEF Typed, Calling
<1>6. LockedIsOpen'
  BY <1>1, <1>2, Leaves, Closes DEF Typed, LockedIsOpen, Expiring, IsOpen
<1>7. OneEndingEvent'
  BY <1>1, <1>3, EndsOnce DEF Inv
<1>8. Found'
  BY <1>1, <1>2, <1>3, Leaves, FoundStays DEF Inv
<1> QED BY <1>4, <1>5, <1>6, <1>7, <1>8 DEF Inv, Typed

LEMMA ProceedKeeps == ASSUME Inv, NEW s \in Sessions, Proceed(s) PROVE Inv'
<1>1. TypeOK' /\ Calling'
  BY DEF Inv, Typed, TypeOK, Calling, Proceed
<1>2. LockedIsOpen' /\ OneEndingEvent'
  BY DEF Inv, Typed, LockedIsOpen, IsOpen, OneEndingEvent, Proceed
<1>3. Found'
  BY DEF Inv, Typed, TypeOK, Found, Proceed, IsActive, IsOverdue, IsOpen, Matches
<1> QED BY <1>1, <1>2, <1>3 DEF Inv, Typed

LEMMA InsertKeeps ==
    ASSUME Inv, NEW s \in Sessions, pc[s] = "insert", NEW idOf \in [call[s].names -> Ids],
           Insert(s, idOf)
    PROVE  Inv'
<1> DEFINE S == Expiring(s)
           new == {idOf[n] : n \in call[s].names}
           nameOf(i) == CHOOSE n \in call[s].names : idOf[n] = i
           made(i) == [name |-> nameOf(i), qualified |-> Qualified[nameOf(i)],
                       agent |-> call[s].agent, expires |-> ExpiryOf(now[s], call[s].ttl),
                       open |-> TRUE, override |-> call[s].override]
<1>1. Typed /\ S \in SUBSET Ids /\ \A i \in S : IsOpen(i)
  BY ExpiringOpen DEF Inv
<1>2. call[s] \in Calls /\ now[s] \in 0..MaxClock
  BY <1>1 DEF Typed, TypeOK, Calling
<1>3. /\ \A i \in new : row[i] = Nil
      /\ row' = [i \in Ids |-> IF i \in new THEN made(i) ELSE CloseAll(S)[i]]
      /\ ended' = LogAll(S, "expired") /\ clock' = clock /\ policy' = policy /\ Leave(s)
  BY DEF Insert
<1>4. \A i \in new : i \in Ids \ S /\ made(i) \in Rows /\ made(i).open
  <2> TAKE i \in new
  <2>1. i \in Ids /\ i \notin S
    BY <1>1, <1>3 DEF IsOpen
  <2>2. nameOf(i) \in call[s].names
    OBVIOUS
  <2>3. nameOf(i) \in Names /\ Qualified[nameOf(i)] \in Names \cup {Nil}
    BY <1>2, <2>2, ReservationNames DEF Calls
  <2>4. ExpiryOf(now[s], call[s].ttl) \in Nat \cup {Nil}
    BY <1>2, Expiries DEF Calls
  <2> HIDE DEF nameOf
  <2>5. made(i) \in Rows /\ made(i).open
    BY <1>2, <2>3, <2>4 DEF Calls, Rows
  <2> QED BY <2>1, <2>5
<1> HIDE DEF made, new
<1>5. \A i \in new : row'[i] = made(i) /\ row'[i] # Nil
  BY <1>3, <1>4, ReservationNil
<1>6. \A i \in Ids \ new : row'[i] = CloseAll(S)[i]
  BY <1>3
<1>7. row' \in [Ids -> Rows \cup {Nil}]
  BY <1>1, <1>3, <1>4, Closes
<1>8. ended' \in [Ids -> [released : Nat, expired : Nat]]
  BY <1>1, <1>3, Logs DEF Typed
<1>9. Ends(S, "expired")
  BY <1>1, <1>3, <1>4, <1>5, <1>6, Closes DEF Ends
<1>10. Stays
  BY <1>1, <1>3, <1>5, <1>6, Closes DEF Stays, IsActive, IsOverdue, IsOpen
<1>11. TypeOK'
  BY <1>1, <1>3, <1>7, <1>8, Leaves DEF Typed, TypeOK
<1>12. Calling'
  BY <1>1, <1>3, Leaves DEF Typed, Calling
<1>13. LockedIsOpen'
  BY <1>1, <1>3, <1>5, <1>6, Leaves, Closes DEF Typed, LockedIsOpen, Expiring, IsOpen
<1>14. OneEndingEvent'
  BY <1>1, <1>9, EndsOnce DEF Inv
<1>15. Found'
  BY <1>1, <1>3, <1>10, Leaves, FoundStays DEF Inv
<1> QED BY <1>11, <1>12, <1>13, <1>14, <1>15 DEF Inv, Typed

LEMMA AbortKeeps == ASSUME Inv, NEW s \in Sessions, Abort(s) PROVE Inv'
<1>1. Typed /\ Leave(s) /\ row' = row /\ ended' = ended /\ clock' = clock /\ policy' = policy
  BY DEF Inv, Abort
<1>2. TypeOK' /\ Calling'
  BY <1>1, Leaves DEF Typed, TypeOK, Calling
<1>3. LockedIsOpen' /\ OneEndingEvent'
  BY <1>1, Leaves DEF Inv, Typed, LockedIsOpen, IsOpen, OneEndingEvent
<1>4. Stays
  BY <1>1 DEF Stays, IsActive, IsOverdue, IsOpen
<1>5. Found'
  BY <1>1, <1>4, Leaves, FoundStays DEF Inv
<1> QED BY <1>2, <1>3, <1>5 DEF Inv, Typed

\* A release, a renewal or a sweep: rows are closed, some are given more time.
LEMMA RowStep ==
    ASSUME Inv, NEW S \in SUBSET Ids, NEW event \in {"released", "expired"},
           Unlocked(S), row' \in [Ids -> Rows \cup {Nil}], ended' \in [Ids -> [released : Nat, expired : Nat]],
           Ends(S, event), Stays, UNCHANGED << clock, policy, lock, pc, call, now, conflicts, known >>
    PROVE  Inv'
<1>1. TypeOK' /\ Calling'
  BY DEF Inv, Typed, TypeOK, Calling
<1>2. LockedIsOpen'
  BY DEF Inv, Typed, LockedIsOpen, Unlocked, Ends, IsOpen
<1>3. OneEndingEvent'
  BY EndsOnce DEF Inv
<1>4. Found'
  BY FoundStays DEF Inv
<1> QED BY <1>1, <1>2, <1>3, <1>4 DEF Inv, Typed

LEMMA ReleaseKeeps ==
    ASSUME Inv, NEW ids \in Selections, NEW a \in Agents \cup {Nil}, Release(ids, a) PROVE Inv'
<1> DEFINE S == Target(ids, a)
<1>1. Typed /\ S \in SUBSET Ids /\ \A i \in S : IsOpen(i)
  BY SelectionsAreIds DEF Inv, Target
<1>2. /\ Unlocked(S) /\ row' = CloseAll(S) /\ ended' = LogAll(S, "released")
      /\ UNCHANGED << clock, policy, lock, pc, call, now, conflicts, known >>
  BY DEF Release
<1>3. row' \in [Ids -> Rows \cup {Nil}] /\ ended' \in [Ids -> [released : Nat, expired : Nat]]
      /\ Ends(S, "released") /\ Stays
  BY <1>1, <1>2, ClosingStep
<1> QED BY <1>1, <1>2, <1>3, RowStep

LEMMA RenewKeeps ==
    ASSUME Inv, NEW ids \in Selections, NEW a \in Agents \cup {Nil}, NEW ttl \in TTLs, Renew(ids, a, ttl)
    PROVE  Inv'
<1> DEFINE S == Overdue(clock)
           more == Target(ids, a) \ S
           later(i) == [row[i] EXCEPT !.expires = ExpiryOf(clock, ttl)]
<1>1. Typed /\ S \in SUBSET Ids /\ \A i \in S : IsOpen(i)
  BY OverdueOpen DEF Inv
<1>2. /\ Unlocked(S) /\ row' = [i \in Ids |-> IF i \in more THEN later(i) ELSE CloseAll(S)[i]]
      /\ ended' = LogAll(S, "expired")
      /\ UNCHANGED << clock, policy, lock, pc, call, now, conflicts, known >>
  BY DEF Renew, Unlocked
<1>3. \A i \in more : /\ i \in Ids \ S /\ IsActive(i, clock) /\ IsOpen(i) /\ later(i) \in Rows
                      /\ later(i).open /\ later(i).name = row[i].name
                      /\ later(i).qualified = row[i].qualified
  <2> TAKE i \in more
  <2>1. i \in Ids \ S /\ IsOpen(i) /\ row[i] \in Rows
    BY <1>1, SelectionsAreIds DEF Target, Typed, TypeOK, IsOpen
  <2>2. IsActive(i, clock)
    BY <2>1 DEF Overdue, IsActive
  <2>3. ExpiryOf(clock, ttl) \in Nat \cup {Nil}
    BY <1>1, Expiries DEF Typed, TypeOK
  <2> QED BY <2>1, <2>2, <2>3 DEF Rows, IsOpen
<1> HIDE DEF later, more, S
<1>4. \A i \in more : row'[i] = later(i) /\ row'[i] # Nil
  BY <1>2, <1>3, ReservationNil
<1>5. \A i \in Ids \ more : row'[i] = CloseAll(S)[i]
  BY <1>2
<1>6. row' \in [Ids -> Rows \cup {Nil}]
  BY <1>1, <1>2, <1>3, Closes
<1>7. ended' \in [Ids -> [released : Nat, expired : Nat]]
  BY <1>1, <1>2, Logs DEF Typed
<1>8. Ends(S, "expired")
  BY <1>1, <1>2, <1>3, <1>4, <1>5, Closes DEF Ends
<1>9. Stays
  BY <1>1, <1>2, <1>3, <1>4, <1>5, Closes DEF Stays, IsActive, IsOverdue, IsOpen
<1> QED BY <1>1, <1>2, <1>6, <1>7, <1>8, <1>9, RowStep

LEMMA SweepKeeps == ASSUME Inv, Sweep PROVE Inv'
<1> DEFINE S == Overdue(clock)
<1>1. Typed /\ S \in SUBSET Ids /\ \A i \in S : IsOpen(i)
  BY OverdueOpen DEF Inv
<1>2. /\ Unlocked(S) /\ row' = CloseAll(S) /\ ended' = LogAll(S, "expired")
      /\ UNCHANGED << clock, policy, lock, pc, call, now, conflicts, known >>
  BY DEF Sweep
<1> HIDE DEF S
<1>3. row' \in [Ids -> Rows \cup {Nil}] /\ ended' \in [Ids -> [released : Nat, expired : Nat]]
      /\ Ends(S, "expired") /\ Stays
  BY <1>1, <1>2, ClosingStep
<1> QED BY <1>1, <1>2, <1>3, RowStep

\* Time ends activity, it never restores it.
LEMMA QuietKeeps ==
    ASSUME Inv, clock' \in 0..MaxClock, clock <= clock', policy' \in Policies,
           UNCHANGED << row, lock, ended, pc, call, now, conflicts, known >>
    PROVE  Inv'
<1>1. TypeOK' /\ Calling' /\ LockedIsOpen' /\ OneEndingEvent'
  BY DEF Inv, Typed, TypeOK, Calling, LockedIsOpen, IsOpen, OneEndingEvent
<1>2. \A i \in Ids : IsActive(i, clock)' => IsActive(i, clock)
  <2> SUFFICES ASSUME NEW i \in Ids, IsActive(i, clock)' PROVE IsActive(i, clock)
    OBVIOUS
  <2>1. IsOpen(i) /\ (row[i].expires = Nil \/ ~(row[i].expires <= clock'))
    BY DEF IsActive, IsOverdue, IsOpen
  <2>2. row[i].expires = Nil \/ row[i].expires \in Nat
    BY <2>1 DEF Inv, Typed, TypeOK, IsOpen, Rows
  <2>3. clock \in Nat /\ clock' \in Nat
    BY ReservationBounds DEF Inv, Typed, TypeOK
  <2>4. row[i].expires = Nil \/ ~(row[i].expires <= clock)
    BY <2>1, <2>2, <2>3
  <2> QED BY <2>1, <2>4 DEF IsActive, IsOverdue
<1>3. Stays
  BY <1>2 DEF Stays
<1>4. Found'
  BY <1>3, FoundStays DEF Inv
<1> QED BY <1>1, <1>4 DEF Inv, Typed

LEMMA InvNext == Inv /\ [Next]_vars => Inv'
<1> SUFFICES ASSUME Inv, [Next]_vars PROVE Inv'
  OBVIOUS
<1>1. clock \in 0..MaxClock /\ policy \in Policies
  BY DEF Inv, Typed, TypeOK
<1>2. CASE UNCHANGED vars
  BY <1>1, <1>2, QuietKeeps, ReservationBounds DEF vars
<1>3. ASSUME NEW p \in Policies, SetPolicy(p) PROVE Inv'
  BY <1>1, <1>3, QuietKeeps, ReservationBounds DEF SetPolicy
<1>4. CASE Tick
  BY <1>1, <1>4, QuietKeeps, ReservationBounds DEF Tick
<1> QED BY <1>2, <1>3, <1>4, CheckKeeps, RefuseKeeps, ProceedKeeps, InsertKeeps, AbortKeeps,
           ReleaseKeeps, RenewKeeps, SweepKeeps DEF Next

\* The tables, the calls and what they remember are well typed in every state.
THEOREM TypeCorrect == Spec => []TypeOK
<1>1. Inv => TypeOK
  BY DEF Inv, Typed
<1> QED BY <1>1, InvInit, InvNext, PTL DEF Spec

\* However checks, inserts, releases, renewals, sweeps and lost connections
\* interleave, an ended reservation has one ending event, an open one none.
THEOREM EndsWithOneEvent == Spec => []OneEndingEvent
<1>1. Inv => OneEndingEvent
  BY DEF Inv
<1> QED BY <1>1, InvInit, InvNext, PTL DEF Spec

\* A reservation a strict policy lets pass collides with none its check could see,
\* however many sessions reserve, renew and release while it decides.
THEOREM PassesNoKnownConflict == Spec => NoKnownConflict
<1> DEFINE A == \A s \in Sessions :
                   pc[s] = "decide" /\ pc'[s] = "insert" /\ policy = "strict" =>
                       \A i \in known[s], n \in call[s].names :
                           ~(IsActive(i, clock) /\ Matches(i, n))
<1>1. Inv /\ [Next]_vars => [A]_vars
  <2> SUFFICES ASSUME Inv, Next, NEW s \in Sessions, pc[s] = "decide", pc'[s] = "insert",
                      policy = "strict"
               PROVE  \A i \in known[s], n \in call[s].names : ~(IsActive(i, clock) /\ Matches(i, n))
    OBVIOUS
  <2>1. TypeOK /\ Found
    BY DEF Inv, Typed
  <2>2. PICK r \in Sessions : Proceed(r)
    <3>1. ASSUME NEW r \in Sessions, Refuse(r) \/ Abort(r) \/ \E c \in Calls : Check(r, c) PROVE FALSE
      BY <2>1, <3>1 DEF TypeOK, Refuse, Abort, Check, Leave
    <3>2. ASSUME NEW r \in Sessions, pc[r] = "insert", NEW idOf \in [call[r].names -> Ids], Insert(r, idOf)
          PROVE  FALSE
      BY <2>1, <3>2 DEF TypeOK, Insert, Leave
    <3>3. pc' # pc
      OBVIOUS
    <3> QED BY <3>1, <3>2, <3>3 DEF Next, Release, Renew, Sweep, SetPolicy, Tick
  <2>3. r = s /\ ~Blocks(conflicts[s], call[s].override)
    BY <2>1, <2>2 DEF TypeOK, Proceed
  <2>4. conflicts[s] = {}
    BY <2>3 DEF Blocks
  <2> QED BY <2>1, <2>4 DEF Found
<1>2. Spec => [][A]_vars
  BY <1>1, InvInit, InvNext, PTL DEF Spec
<1> QED BY <1>2 DEF NoKnownConflict
=============================================================================
