---------------------------- MODULE Reservations ----------------------------
(***************************************************************************)
(* File and symbol reservations of src/geond/storage/repository.py.  A      *)
(* reservation is advisory, forbidden or allowed with a reason, depending   *)
(* on the workspace's conflict policy; the policy is applied by reading the *)
(* active reservations first and inserting afterwards, and no constraint of *)
(* the tables stands behind it.                                            *)
(*                                                                         *)
(* One module serves both tables: a symbol reservation also carries the     *)
(* qualified name its symbol resolved to, a file reservation has none       *)
(* (Qualified maps every path to Nil).  reserve_files and reserve_symbols   *)
(* run at the grain of their statements, several connections at once:       *)
(*   check   cleanup_expired_reservations, then the SELECT of conflicts     *)
(*   decide  the SELECT of the policy, and its verdict                      *)
(*   insert  upsert_agent, one INSERT per requested name, COMMIT            *)
(* The rows the cleanup expires stay locked until the transaction ends.     *)
(* Releases, renewals, sweeps and policy changes are single UPDATEs or lock *)
(* all they change before anything else can see it: one step each.          *)
(***************************************************************************)
EXTENDS Integers, FiniteSets

CONSTANTS
    Sessions,   \* database connections
    Agents,     \* agent names
    Names,      \* file paths, or symbol names
    Qualified,  \* the qualified name a symbol resolves to, Nil for a file
    Ids,        \* reservation ids the INSERTs may draw
    Policies,   \* the conflict policies the workspace may be given
    TTLs,       \* lifetimes callers ask for; Nil asks for no expiry
    MaxClock,   \* last instant of the clock (a bound)
    Nil         \* SQL NULL, an absent row, a missing argument

AllPolicies == {"advisory", "strict", "override-with-reason"}

ASSUME ReservationBounds ==
    MaxClock \in Nat /\ TTLs \subseteq Nat \cup {Nil} /\ Policies \subseteq AllPolicies
ASSUME ReservationNames == Qualified \in [Names -> Names \cup {Nil}]

VARIABLES
    clock,     \* wall clock of the database server
    policy,    \* reservation_conflict_policy of the workspace
    row,       \* the reservation table
    lock,      \* the transaction whose cleanup is expiring the row, or Nil
    ended,     \* reservation_events: "released" and "expired" events per reservation
    pc,        \* what each session does next
    call,      \* its reserve call
    now,       \* now() of its transaction
    conflicts, \* the conflicts its check found
    known      \* history: the reservations committed when its check ran

vars == << clock, policy, row, lock, ended, pc, call, now, conflicts, known >>

Rows  == [name : Names, qualified : Names \cup {Nil}, agent : Agents,
          expires : Nat \cup {Nil}, open : BOOLEAN, override : BOOLEAN]
Calls == [agent : Agents, names : (SUBSET Names) \ {{}}, ttl : TTLs, override : BOOLEAN]
ASSUME ReservationNil == Nil \notin Rows \cup Sessions

TypeOK ==
    /\ clock \in 0..MaxClock
    /\ policy \in Policies
    /\ row \in [Ids -> Rows \cup {Nil}]
    /\ lock \in [Ids -> Sessions \cup {Nil}]
    /\ ended \in [Ids -> [released : Nat, expired : Nat]]
    /\ pc \in [Sessions -> {"idle", "decide", "insert"}]
    /\ call \in [Sessions -> Calls \cup {Nil}]
    /\ now \in [Sessions -> 0..MaxClock]
    /\ conflicts \in [Sessions -> SUBSET Ids]
    /\ known \in [Sessions -> SUBSET Ids]

Init ==
    /\ clock = 0
    /\ policy \in Policies
    /\ row = [i \in Ids |-> Nil]
    /\ lock = [i \in Ids |-> Nil]
    /\ ended = [i \in Ids |-> [released |-> 0, expired |-> 0]]
    /\ pc = [s \in Sessions |-> "idle"]
    /\ call = [s \in Sessions |-> Nil]
    /\ now = [s \in Sessions |-> 0]
    /\ conflicts = [s \in Sessions |-> {}]
    /\ known = [s \in Sessions |-> {}]

-----------------------------------------------------------------------------
(* Rows. *)

IsOpen(i) == row[i] # Nil /\ row[i].open

IsOverdue(i, instant) ==
    IsOpen(i) /\ row[i].expires # Nil /\ row[i].expires <= instant

\* released_at IS NULL AND (expires_at IS NULL OR expires_at > now()).
IsActive(i, instant) == IsOpen(i) /\ ~IsOverdue(i, instant)

\* The row a request for `name` matches: symbol = name OR qualified_name = name.
Matches(i, name) == row[i].name = name \/ row[i].qualified = name

Overdue(instant) == {i \in Ids : IsOverdue(i, instant)}

Unlocked(ids) == \A i \in ids : lock[i] = Nil

CloseAll(ids) == [i \in Ids |-> IF i \in ids THEN [row[i] EXCEPT !.open = FALSE] ELSE row[i]]

LogAll(ids, event) == [i \in Ids |-> IF i \in ids THEN [ended[i] EXCEPT ![event] = @ + 1]
                                     ELSE ended[i]]

ExpiryOf(instant, ttl) == IF ttl = Nil THEN Nil ELSE instant + ttl

-----------------------------------------------------------------------------
(* reserve_files, reserve_symbols. *)

\* The rows the check of session s is expiring.
Expiring(s) == {i \in Ids : lock[i] = s}

Leave(s) ==
    /\ lock' = [i \in Ids |-> IF lock[i] = s THEN Nil ELSE lock[i]]
    /\ pc' = [pc EXCEPT ![s] = "idle"]
    /\ call' = [call EXCEPT ![s] = Nil]
    /\ now' = [now EXCEPT ![s] = 0]
    /\ conflicts' = [conflicts EXCEPT ![s] = {}]
    /\ known' = [known EXCEPT ![s] = {}]

\* Fault: only the name a reservation was made under is compared.
ConflictsAsWritten(names, instant) ==
    {i \in Ids : IsActive(i, instant) /\ row[i].name \in names}

\* active_file_reservations, active_symbol_reservations.
ConflictsOf(names, instant) ==
    {i \in Ids : IsActive(i, instant) /\ \E n \in names : Matches(i, n)}

Check(s, c) ==
    /\ pc[s] = "idle"
    /\ Unlocked(Overdue(clock))
    /\ lock' = [i \in Ids |-> IF i \in Overdue(clock) THEN s ELSE lock[i]]
    /\ call' = [call EXCEPT ![s] = c]
    /\ now' = [now EXCEPT ![s] = clock]
    /\ conflicts' = [conflicts EXCEPT ![s] = ConflictsOf(c.names, clock)]
    /\ known' = [known EXCEPT ![s] = {i \in Ids : row[i] # Nil}]
    /\ pc' = [pc EXCEPT ![s] = "decide"]
    /\ UNCHANGED << clock, policy, row, ended >>

\* reservation_policy_block_reason.
Blocks(found, override) ==
    /\ found # {}
    /\ \/ policy = "strict"
       \/ policy = "override-with-reason" /\ ~override

\* Blocked: the cleanup is committed, nothing is reserved.
Refuse(s) ==
    /\ pc[s] = "decide"
    /\ Blocks(conflicts[s], call[s].override)
    /\ row' = CloseAll(Expiring(s))
    /\ ended' = LogAll(Expiring(s), "expired")
    /\ Leave(s)
    /\ UNCHANGED << clock, policy >>

Proceed(s) ==
    /\ pc[s] = "decide"
    /\ ~Blocks(conflicts[s], call[s].override)
    /\ pc' = [pc EXCEPT ![s] = "insert"]
    /\ UNCHANGED << clock, policy, row, lock, ended, call, now, conflicts, known >>

\* idOf: the id drawn for each requested name.
Insert(s, idOf) ==
    LET new == {idOf[n] : n \in call[s].names}
        nameOf(i) == CHOOSE n \in call[s].names : idOf[n] = i
    IN  /\ pc[s] = "insert"
        /\ \A i \in new : row[i] = Nil
        /\ \A m, n \in call[s].names : idOf[m] = idOf[n] => m = n
        /\ row' = [i \in Ids |->
                      IF i \in new
                      THEN [name |-> nameOf(i), qualified |-> Qualified[nameOf(i)],
                            agent |-> call[s].agent, expires |-> ExpiryOf(now[s], call[s].ttl),
                            open |-> TRUE, override |-> call[s].override]
                      ELSE CloseAll(Expiring(s))[i]]
        /\ ended' = LogAll(Expiring(s), "expired")
        /\ Leave(s)
        /\ UNCHANGED << clock, policy >>

\* The connection is lost, or the bound on ids is reached: the transaction aborts.
Abort(s) ==
    /\ pc[s] # "idle"
    /\ Leave(s)
    /\ UNCHANGED << clock, policy, row, ended >>

-----------------------------------------------------------------------------
(* The other operations. *)

\* The open rows a release or a renewal names: one id, or every row of a name,
\* and only those of `agent` when the caller gives one.
Target(ids, agent) == {i \in ids : IsOpen(i) /\ agent \in {Nil, row[i].agent}}

\* Fault: rows already released are released again.
ReleaseAgain(ids, agent) ==
    LET target == {i \in ids : row[i] # Nil} IN
    /\ target # {} /\ Unlocked(target)
    /\ row' = CloseAll(target)
    /\ ended' = LogAll(target, "released")
    /\ UNCHANGED << clock, policy, lock, pc, call, now, conflicts, known >>

\* release_reservation, release_symbol_reservation: no expiry test.
Release(ids, agent) ==
    LET target == Target(ids, agent) IN
    /\ target # {}
    /\ Unlocked(target)
    /\ row' = CloseAll(target)
    /\ ended' = LogAll(target, "released")
    /\ UNCHANGED << clock, policy, lock, pc, call, now, conflicts, known >>

\* renew_reservation, renew_symbol_reservation: the cleanup first.
Renew(ids, agent, ttl) ==
    LET overdue == Overdue(clock)
        renewed == Target(ids, agent) \ overdue
    IN  /\ overdue \cup renewed # {}
        /\ Unlocked(overdue \cup renewed)
        /\ row' = [i \in Ids |-> IF i \in renewed
                                 THEN [row[i] EXCEPT !.expires = ExpiryOf(clock, ttl)]
                                 ELSE CloseAll(overdue)[i]]
        /\ ended' = LogAll(overdue, "expired")
        /\ UNCHANGED << clock, policy, lock, pc, call, now, conflicts, known >>

\* cleanup_expired_reservations_for_workspace.
Sweep ==
    /\ Overdue(clock) # {}
    /\ Unlocked(Overdue(clock))
    /\ row' = CloseAll(Overdue(clock))
    /\ ended' = LogAll(Overdue(clock), "expired")
    /\ UNCHANGED << clock, policy, lock, pc, call, now, conflicts, known >>

\* set_workspace_coordination_policy.
SetPolicy(p) ==
    /\ policy # p
    /\ policy' = p
    /\ UNCHANGED << clock, row, lock, ended, pc, call, now, conflicts, known >>

Tick ==
    /\ clock < MaxClock
    /\ clock' = clock + 1
    /\ UNCHANGED << policy, row, lock, ended, pc, call, now, conflicts, known >>

\* By id, or by name (and qualified name).
Selections ==
    {{i} : i \in Ids} \cup {{i \in Ids : row[i] # Nil /\ Matches(i, n)} : n \in Names}

Next ==
    \/ \E s \in Sessions :
          \/ \E c \in Calls : Check(s, c)
          \/ Refuse(s)
          \/ Proceed(s)
          \/ pc[s] = "insert" /\ \E idOf \in [call[s].names -> Ids] : Insert(s, idOf)
          \/ Abort(s)
    \/ \E ids \in Selections, a \in Agents \cup {Nil} :
          \/ Release(ids, a)
          \/ \E ttl \in TTLs : Renew(ids, a, ttl)
    \/ Sweep
    \/ \E p \in Policies : SetPolicy(p)
    \/ Tick

Spec == Init /\ [][Next]_vars

-----------------------------------------------------------------------------
(* Properties. *)

\* A reservation that a strict policy lets pass does not collide, when that is
\* decided, with any reservation committed before its check: what the check
\* found free is not revived by a renewal that slips in between, and no
\* override lets it pass (reserve_files, renew_reservation).
NoKnownConflict ==
    [][\A s \in Sessions :
          pc[s] = "decide" /\ pc'[s] = "insert" /\ policy = "strict" =>
              \A i \in known[s], n \in call[s].names :
                  ~(IsActive(i, clock) /\ Matches(i, n))]_vars

\* The append-only audit trail tells a deliberate release from an expiry: each
\* ended reservation has exactly one ending event, an open one has none.
OneEndingEvent ==
    \A i \in Ids :
        ended[i].released + ended[i].expired = IF row[i] # Nil /\ ~row[i].open THEN 1 ELSE 0

=============================================================================
