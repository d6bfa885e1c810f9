------------------------------ MODULE JobPilot ------------------------------
(***************************************************************************)
(* The life of a posting: the event loop's handlers, the /apply/data         *)
(* requests and the discovery passes, sharing one user's tables, in a        *)
(* process that may die between any two transactions and start again.       *)
(***************************************************************************)
EXTENDS EventLoop, ApplyDataRefresh, DiscoveryTick

VARIABLE lost \* history: postings whose "applied" mark was overwritten, or
              \* whose handler died after logging and before marking

vars == <<tables, loopVars, loopHistory, refreshVars, tickVars, told, lost>>

TypeOK ==
  /\ TablesTypeOK /\ LoopTypeOK /\ RefreshTypeOK /\ TickTypeOK
  /\ lost \subseteq Posting

Init ==
  /\ TablesInit /\ LoopInit /\ RefreshInit /\ TickInit
  /\ lost = {}

-----------------------------------------------------------------------------
Unmarked == {p \in Posting : status[p] = "applied" /\ status'[p] # "applied"}

HalfFiled ==
  {p \in Posting : p = target /\ step \in {"match", "mark"} /\ status[p] # "applied"}

LoopActs ==
  /\ LoopStep
  /\ lost' = lost \cup Unmarked
  /\ UNCHANGED <<refreshVars, tickVars, told>>

RefreshActs ==
  /\ RefreshStep
  /\ lost' = lost \cup Unmarked
  /\ UNCHANGED <<loopVars, loopHistory, tickVars, told>>

PassActs(t) ==
  /\ PassStep(t)
  /\ lost' = lost \cup Unmarked
  /\ UNCHANGED <<loopVars, loopHistory, refreshVars>>

TimePasses(p) ==
  /\ SnoozeExpires(p)
  /\ UNCHANGED <<loopVars, loopHistory, refreshVars, tickVars, told, lost>>

(* A database error, say: chat.complete apologises, a route answers 500. *)
HandlerFails ==
  /\ step # "idle"
  /\ LoopStops
  /\ lost' = lost \cup HalfFiled
  /\ UNCHANGED <<tables, refreshVars, tickVars, told>>

(* A deploy or an out-of-memory kill.  The tables survive; the handler in    *)
(* progress, the request threads and the passes do not.                     *)
Crash ==
  /\ LoopStops /\ RefreshCrash /\ TickCrash
  /\ lost' = lost \cup HalfFiled
  /\ UNCHANGED tables

Next ==
  \/ LoopActs
  \/ RefreshActs
  \/ \E t \in Ticker : PassActs(t)
  \/ \E p \in Posting : TimePasses(p)
  \/ HandlerFails
  \/ Crash

(* Time passes, and the scheduler's interval job keeps running passes; every *)
(* fetch in a pass has a timeout and its exceptions are caught.              *)
SchedulerFairness ==
  /\ \A t \in Ticker : WF_vars(PassActs(t))
  /\ \A p \in Posting : WF_vars(TimePasses(p))

Spec == Init /\ [][Next]_vars

FairSpec == Spec /\ SchedulerFairness

-----------------------------------------------------------------------------
(* Safety.                                                                  *)

(* A posting is announced at most once, ever: two passes over the same       *)
(* boards, a crash and a re-run included.                                    *)
ToldAtMostOnce == \A p \in Posting : told[p] <= 1

(* A posting is called applied only if an application for it, or for a       *)
(* description that covers it, was really logged at some time: no crash, race *)
(* or match hides a job behind an application that never existed.            *)
AppliedIsBacked ==
  \A p \in Posting :
    status[p] = "applied" => \E j \in logged : j = p \/ <<j, p>> \in Covers

(* The Filed button logs a job a second time only after its "applied" mark   *)
(* was overwritten, or a crash fell between logging and marking.             *)
FiledAgainOnlyIfLost == \A p \in Posting : filed[p] > 1 => p \in lost

(* A posting comes (back) to the review queue only by being discovered or    *)
(* when a snooze ends: one the user passed on, filed or saw closed is never  *)
(* re-queued by a later pass that finds it on the boards again.              *)
QueuedOnlyFromSnoozeOrDiscovery ==
  [][\A p \in Posting :
       status'[p] = "queued" /\ status[p] # "queued"
         => ~Stored(p) \/ p \in Expired]_vars

(* Announcements implement the abstract feed.                               *)
Feed == INSTANCE MatchFeed WITH
          Item <- Posting,
          stored <- {p \in Posting : Stored(p)},
          announced <- told

FeedRefined == Feed!FeedSpec

-----------------------------------------------------------------------------
(* Liveness.                                                                *)

(* No posting sleeps for ever: a snooze whose wake-up time has passed, or was *)
(* never written, is over after some later pass (or the user renews it).     *)
Overdue(p) == status[p] = "snoozed" /\ snooze[p] # "later"

OverdueSnoozeEnds == \A p \in Posting : Overdue(p) ~> ~Overdue(p)

=============================================================================
