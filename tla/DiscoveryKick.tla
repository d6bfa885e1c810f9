--------------------------- MODULE DiscoveryKick ---------------------------
(***************************************************************************)
(* The on-demand search of app/discovery.py: a request may start one       *)
(* discovery pass for its user (kick), guarded by a lock, a cool-down and   *)
(* a cap on how many run at once, while the scheduler sweeps every user     *)
(* with a pass of its own (run_all) that takes no part in that guard.       *)
(*                                                                         *)
(* What a pass does to the database is module DiscoveryTick; here a pass    *)
(* only starts and ends.  Wall-clock time is abstracted to membership of    *)
(* "cooling": the users whose last pass ended less than _COOLDOWN_SEC ago.  *)
(***************************************************************************)
EXTENDS Naturals, FiniteSets

CONSTANTS User,          \* accounts
          MaxConcurrent, \* _MAX_CONCURRENT
          MaxWaiting,    \* bound: requests waiting for the lock
          NoUser         \* the sweep is between two users

ASSUME KickAssumption ==
  /\ MaxConcurrent \in Nat
  /\ MaxWaiting \in Nat
  /\ NoUser \notin User
  /\ IsFiniteSet(User)

VARIABLES profiled,  \* users with a search profile (job_search_profile)
          knocking,  \* requests past the profile check, waiting for _kick_lock
          running,   \* _running: the users the Apply tab shows as searching
          cooling,   \* users whose _finished_ts is younger than the cool-down
          launching, \* kicks that left the lock, their thread not started yet
          ticking,   \* kicked passes under way, per user
          sweepLeft, \* users run_all has still to visit
          sweeping   \* the user run_all is ticking, or NoUser

kickVars == <<profiled, knocking, running, cooling, launching, ticking,
              sweepLeft, sweeping>>

Request == [user : User, force : BOOLEAN]

KickTypeOK ==
  /\ profiled \subseteq User
  /\ knocking \subseteq Request
  /\ running \subseteq User
  /\ cooling \subseteq User
  /\ launching \in [User -> Nat]
  /\ ticking \in [User -> Nat]
  /\ sweepLeft \subseteq User
  /\ sweeping \in User \cup {NoUser}

NoPass == [u \in User |-> 0]

KickInit ==
  /\ profiled = {}
  /\ knocking = {}
  /\ running = {}
  /\ cooling = {}
  /\ launching = NoPass
  /\ ticking = NoPass
  /\ sweepLeft = {}
  /\ sweeping = NoUser

-----------------------------------------------------------------------------
(* The search profile is written by setup and by chat; an empty one counts  *)
(* as none.                                                                 *)

SaveProfile(u) ==
  /\ profiled' = profiled \cup {u}
  /\ UNCHANGED <<knocking, running, cooling, launching, ticking, sweepLeft,
                 sweeping>>

EmptyProfile(u) ==
  /\ profiled' = profiled \ {u}
  /\ UNCHANGED <<knocking, running, cooling, launching, ticking, sweepLeft,
                 sweeping>>

(* kick, up to the lock: has_profile is read before the lock is taken.      *)
KickAsk(u, force) ==
  /\ u \in profiled
  /\ Cardinality(knocking) < MaxWaiting
  /\ knocking' = knocking \cup {[user |-> u, force |-> force]}
  /\ UNCHANGED <<profiled, running, cooling, launching, ticking, sweepLeft,
                 sweeping>>

(* Mutated forms of Refused: the cap tested too late, and "force" passing    *)
(* every guard, not the cool-down alone.                                    *)
RefusedLate(r) ==
  \/ r.user \in running
  \/ ~r.force /\ r.user \in cooling
  \/ Cardinality(running) > MaxConcurrent

RefusedUnlessForced(r) ==
  /\ ~r.force
  /\ r.user \in running \cup cooling \/ Cardinality(running) >= MaxConcurrent

(* Why the locked section of kick turns a request away.                     *)
Refused(r) ==
  \/ r.user \in running                           \* already_running
  \/ ~r.force /\ r.user \in cooling               \* cooldown
  \/ Cardinality(running) >= MaxConcurrent        \* busy

KickRefused(r) ==
  /\ r \in knocking
  /\ Refused(r)
  /\ knocking' = knocking \ {r}
  /\ UNCHANGED <<profiled, running, cooling, launching, ticking, sweepLeft,
                 sweeping>>

KickClaim(r) ==
  /\ r \in knocking
  /\ ~Refused(r)
  /\ knocking' = knocking \ {r}
  /\ running' = running \cup {r.user}
  /\ launching' = [launching EXCEPT ![r.user] = @ + 1]
  /\ UNCHANGED <<profiled, cooling, ticking, sweepLeft, sweeping>>

StartThread(u) ==
  /\ launching[u] > 0
  /\ launching' = [launching EXCEPT ![u] = @ - 1]
  /\ ticking' = [ticking EXCEPT ![u] = @ + 1]
  /\ UNCHANGED <<profiled, knocking, running, cooling, sweepLeft, sweeping>>

(* Mutated form of FinishPass: a pass that raised leaves its user marked as  *)
(* running.                                                                *)
FinishPassNoFinally(u) ==
  /\ ticking[u] > 0
  /\ ticking' = [ticking EXCEPT ![u] = @ - 1]
  /\ cooling' = cooling \cup {u}
  /\ running' \in {running, running \ {u}}
  /\ UNCHANGED <<profiled, knocking, launching, sweepLeft, sweeping>>

(* _run_kicked_tick: whether the pass returned or raised, the "finally"     *)
(* clears the user and stamps the finish time.                              *)
FinishPass(u) ==
  /\ ticking[u] > 0
  /\ ticking' = [ticking EXCEPT ![u] = @ - 1]
  /\ running' = running \ {u}
  /\ cooling' = cooling \cup {u}
  /\ UNCHANGED <<profiled, knocking, launching, sweepLeft, sweeping>>

CooldownEnds(u) ==
  /\ u \in cooling
  /\ cooling' = cooling \ {u}
  /\ UNCHANGED <<profiled, knocking, running, launching, ticking, sweepLeft,
                 sweeping>>

-----------------------------------------------------------------------------
(* scheduler.discovery_tick -> run_all.  APScheduler runs one instance of    *)
(* the job at a time; each user's exceptions are swallowed.                 *)

(* all_discovery_users: a profile, or a tracked board. *)
SweepBegin(tracking) ==
  /\ sweepLeft = {} /\ sweeping = NoUser
  /\ sweepLeft' = profiled \cup tracking
  /\ UNCHANGED <<profiled, knocking, running, cooling, launching, ticking,
                 sweeping>>

SweepUser(u) ==
  /\ sweeping = NoUser
  /\ u \in sweepLeft
  /\ sweepLeft' = sweepLeft \ {u}
  /\ sweeping' = u
  /\ UNCHANGED <<profiled, knocking, running, cooling, launching, ticking>>

SweepUserDone ==
  /\ sweeping # NoUser
  /\ sweeping' = NoUser
  /\ UNCHANGED <<profiled, knocking, running, cooling, launching, ticking,
                 sweepLeft>>

(* The process dies (deploy, out of memory) and restarts: module state and   *)
(* daemon threads are gone, the profile is in the database.                 *)
Crash ==
  /\ knocking' = {}
  /\ running' = {}
  /\ cooling' = {}
  /\ launching' = NoPass
  /\ ticking' = NoPass
  /\ sweepLeft' = {}
  /\ sweeping' = NoUser
  /\ UNCHANGED profiled

KickNext ==
  \/ \E u \in User :
       \/ SaveProfile(u) \/ EmptyProfile(u)
       \/ \E force \in BOOLEAN : KickAsk(u, force)
       \/ StartThread(u) \/ FinishPass(u) \/ CooldownEnds(u)
       \/ SweepUser(u)
  \/ \E r \in Request : KickRefused(r) \/ KickClaim(r)
  \/ SweepUserDone \/ \E tracking \in SUBSET User : SweepBegin(tracking)
  \/ Crash

(* The handler that left the lock starts its thread, and a pass ends: every  *)
(* fetch in it has a timeout and every failure is caught.                   *)
Fairness == \A u \in User : WF_kickVars(StartThread(u)) /\ WF_kickVars(FinishPass(u))

KickSpec == KickInit /\ [][KickNext]_kickVars /\ Fairness

-----------------------------------------------------------------------------
InFlight(u) == launching[u] + ticking[u]

(* A user never has two kicked passes, and a kicked pass is always visible:  *)
(* the "searching" flag of /apply/data is up for as long as its pass lives,  *)
(* whatever requests, finishing passes and crashes interleave.              *)
OneKickedPass ==
  \A u \in User : InFlight(u) <= 1 /\ (InFlight(u) = 1 <=> u \in running)

(* No burst of requests from any number of users has more than               *)
(* _MAX_CONCURRENT kicked passes alive at once, threads not yet started      *)
(* included.                                                                *)
KickedPassesBounded ==
  Cardinality({u \in User : InFlight(u) > 0}) <= MaxConcurrent

(* The Apply tab polls while "searching" is up: it always comes down again.  *)
SearchEnds == \A u \in User : u \in running ~> u \notin running
=============================================================================
