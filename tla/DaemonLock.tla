----------------------------- MODULE DaemonLock -----------------------------
(***************************************************************************)
(* The scheduler daemon of a workspace (src/geond_orchestrator/             *)
(* orchestrator_daemon.py) and the lock file meant to keep a second one     *)
(* out.  The lock is read, then written; it carries an expiry that is set   *)
(* once and never renewed, whatever the cycles take; releasing it is again  *)
(* a read followed by an unlink.  write_text truncates the file before it   *)
(* writes, and a reader that meets the empty file takes it for no lock.     *)
(*                                                                         *)
(* A daemon here is one run of `daemon once|run --execute`, with an id of   *)
(* its own; started again it is another daemon.                             *)
(***************************************************************************)
EXTENDS Integers, FiniteSets

CONSTANTS
    Daemons,
    TTL,      \* max(120, 2 * interval) seconds, in ticks
    MaxClock, \* a bound
    Torn,     \* the truncated file
    NoFile

ASSUME LockTimes == TTL \in Nat \ {0} /\ MaxClock \in Nat

\* The two values that stand for no lock are none.
ASSUME NoLocks == {Torn, NoFile} \cap [owner : Daemons, expires : Nat] = {}

VARIABLES
    clock,
    file,     \* the lock file: a lock, Torn, or NoFile
    doing,    \* what each daemon does next
    now,      \* the instant acquire_lock took
    detached, \* daemons writing to a file unlinked under them
    raced,    \* history: two daemons were between reading and writing the lock
    late      \* history: the labels daemons were at with their lock expired

daemonVars == << clock, file, doing, now, detached, raced, late >>

Locks == [owner : Daemons, expires : Nat]

Acquiring == {"truncate", "write"}
Working   == {"drain", "sleep"}
Leaving   == {"release", "unlink"}
Active    == Acquiring \cup Working \cup Leaving

DaemonTypeOK ==
    /\ clock \in 0..MaxClock
    /\ file \in Locks \cup {Torn, NoFile}
    /\ doing \in [Daemons -> {"start", "done"} \cup Active]
    /\ now \in [Daemons -> 0..MaxClock]
    /\ detached \subseteq Daemons
    /\ raced \in BOOLEAN
    /\ late \subseteq Active

DaemonInit ==
    /\ clock = 0
    /\ file = NoFile
    /\ doing = [d \in Daemons |-> "start"]
    /\ now = [d \in Daemons |-> 0]
    /\ detached = {}
    /\ raced = FALSE
    /\ late = {}

Do(d, label) == doing' = [doing EXCEPT ![d] = label]

IsLock == file \notin {Torn, NoFile}

-----------------------------------------------------------------------------
(* acquire_lock. *)

\* Fault: the comparison with the clock is the wrong way round.
HeldBackwards == IsLock /\ file.expires < clock

Held == IsLock /\ file.expires > clock

ReadLock(d) ==
    /\ doing[d] = "start"
    /\ \/ Held /\ Do(d, "done") /\ UNCHANGED << now, raced >>     \* DAEMON_LOCK_HELD
       \/ /\ ~Held
          /\ Do(d, "truncate")
          /\ now' = [now EXCEPT ![d] = clock]
          /\ raced' = (raced \/ \E e \in Daemons : doing[e] \in Acquiring)
    /\ UNCHANGED << clock, file, detached, late >>

Truncate(d) ==
    /\ doing[d] = "truncate"
    /\ file' = Torn
    /\ Do(d, "write")
    /\ UNCHANGED << clock, now, detached, raced, late >>

WriteLock(d) ==
    /\ doing[d] = "write"
    /\ file' = IF d \in detached THEN file ELSE [owner |-> d, expires |-> now[d] + TTL]
    /\ detached' = detached \ {d}
    /\ Do(d, "drain")
    /\ UNCHANGED << clock, now, raced, late >>

-----------------------------------------------------------------------------
(* run_daemon_loop. *)

\* A cycle (budget report, drain) is over: sleep until the next, or stop.
EndCycle(d) ==
    /\ doing[d] = "drain"
    /\ Do(d, "sleep") \/ Do(d, "release")
    /\ UNCHANGED << clock, file, now, detached, raced, late >>

StartCycle(d) ==
    /\ doing[d] = "sleep"
    /\ Do(d, "drain")
    /\ UNCHANGED << clock, file, now, detached, raced, late >>

\* release_lock: only a lock of this daemon is removed, expired or not.
ReadOwn(d) ==
    /\ doing[d] = "release"
    /\ \/ /\ IsLock /\ file.owner = d
          /\ Do(d, "unlink")
          /\ late' = late \cup (IF Held THEN {} ELSE {"unlink"})
       \/ /\ ~(IsLock /\ file.owner = d)
          /\ Do(d, "done")
          /\ UNCHANGED late
    /\ UNCHANGED << clock, file, now, detached, raced >>

Unlink(d) ==
    /\ doing[d] = "unlink"
    /\ file' = NoFile
    /\ detached' = detached \cup {e \in Daemons : doing[e] = "write"}
    /\ Do(d, "done")
    /\ UNCHANGED << clock, now, raced, late >>

\* Killed: the lock file stays.
Crash(d) ==
    /\ doing[d] \notin {"start", "done"}
    /\ Do(d, "done")
    /\ detached' = detached \ {d}
    /\ UNCHANGED << clock, file, now, raced, late >>

Tick ==
    /\ clock < MaxClock
    /\ clock' = clock + 1
    /\ late' = late \cup {doing[d] : d \in {e \in Daemons : doing[e] \in Active /\ now[e] + TTL <= clock + 1}}
    /\ UNCHANGED << file, doing, now, detached, raced >>

DaemonNext ==
    \/ Tick
    \/ \E d \in Daemons :
          \/ ReadLock(d) \/ Truncate(d) \/ WriteLock(d)
          \/ EndCycle(d) \/ StartCycle(d)
          \/ ReadOwn(d) \/ Unlink(d)
          \/ Crash(d)

DaemonSpec == DaemonInit /\ [][DaemonNext]_daemonVars

-----------------------------------------------------------------------------
(* Properties. *)

AtWork(d) == doing[d] \in Working

\* One daemon at a time drains the workspace's queue, as long as no two were
\* acquiring the lock at once and none outlived its lock.
ExclusiveDrain ==
    ~raced /\ late = {} => \A d, e \in Daemons : AtWork(d) /\ AtWork(e) => d = e

\* A daemon that leaves, even one that outlived its lock, does not take away
\* another's, as long as no two were acquiring at once and no lock expired
\* between the two steps of its release.
UnlinksOwn ==
    [][~raced /\ "unlink" \notin late =>
          \A d \in Daemons : doing[d] = "unlink" /\ doing'[d] = "done" /\ IsLock /\ file' = NoFile =>
              file.owner = d]_daemonVars
=============================================================================
