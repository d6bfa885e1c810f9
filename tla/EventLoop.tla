----------------------------- MODULE EventLoop -----------------------------
(***************************************************************************)
(* The "async def" handlers of app/main.py and the chat operations of        *)
(* app/engine.py and app/jobs_review.py on postings.  They run on one event  *)
(* loop and await nothing between reading the request and returning, so one  *)
(* handler runs at a time; but each of its transactions commits on its own,  *)
(* and the threads of ApplyDataRefresh and DiscoveryTick run in between.     *)
(* A handler is therefore a short program: "step" names its next transaction.*)
(***************************************************************************)
EXTENDS JobTables

CONSTANTS NoJob  \* the loop is not working on any job

ASSUME LoopAssumption == NoJob \notin Job

VARIABLES handler,  \* the handler being run, or "none"
          step,     \* its next transaction, or "idle"
          target,   \* the posting (or the description) it works on
          pending,  \* postings it has still to mark, stage or seed
          filed,    \* history: Filed handlers that logged an application
          logged    \* history: descriptions an application ever had

loopVars == <<handler, step, target, pending>>
loopHistory == <<filed, logged>>

Handlers == {"filed", "apply_job", "review", "manual", "pass", "snooze",
             "save_link", "queue_bulk", "track"}
Steps == {"create", "match", "mark", "submit", "unstage", "dismiss", "sleep",
          "stage", "stage_all", "seed_all"}

LoopTypeOK ==
  /\ handler \in Handlers \cup {"none"}
  /\ step \in Steps \cup {"idle"}
  /\ target \in Job \cup {NoJob}
  /\ pending \subseteq Posting
  /\ filed \in [Posting -> Often]
  /\ logged \subseteq Job

LoopInit ==
  /\ handler = "none" /\ step = "idle" /\ target = NoJob /\ pending = {}
  /\ filed = [p \in Posting |-> 0]
  /\ logged = {}

Begin(h, s, j) ==
  /\ step = "idle"
  /\ handler' = h /\ step' = s /\ target' = j /\ pending' = {}
  /\ UNCHANGED loopHistory

GoTo(s) ==
  /\ step' = s
  /\ UNCHANGED <<handler, target, pending, loopHistory>>

Return ==
  /\ handler' = "none" /\ step' = "idle" /\ target' = NoJob /\ pending' = {}
  /\ UNCHANGED loopHistory

(* A handler with one transaction. *)
AtOnce == step = "idle" /\ UNCHANGED <<loopVars, loopHistory>>

-----------------------------------------------------------------------------
(* Logging an application.  Four handlers do it: the phone's Filed button,    *)
(* "apply 12" in chat, "apply" during a review, and "applied to X" in chat    *)
(* (which names a job in words, not a posting).                              *)

(* Mutated forms of FiledRead: the duplicate test dropped; the posting marked *)
(* and the application never logged.                                        *)
FiledReadAlways(p) ==
  /\ Stored(p) /\ Room(p)
  /\ Begin("filed", "create", p)
  /\ UNCHANGED tables

FiledReadUnlogged(p) ==
  /\ Stored(p) /\ Room(p)
  /\ Begin("filed", "mark", p)
  /\ UNCHANGED tables

(* POST /apply/applied: the posting's status decides whether this Filed is a  *)
(* second tap.                                                              *)
FiledRead(p) ==
  /\ Stored(p) /\ Room(p)
  /\ Begin("filed", IF status[p] = "applied" THEN "mark" ELSE "create", p)
  /\ UNCHANGED tables

(* _do_apply_job: by id any stored posting, by company an open one. *)
ApplyJobRead(p) ==
  /\ Stored(p) /\ status[p] # "applied" /\ Room(p)
  /\ Begin("apply_job", "create", p)
  /\ UNCHANGED tables

(* continue_review on "apply": the posting at the head of the review queue. *)
ReviewApplyRead(p) ==
  /\ p \in ReviewQueue /\ Room(p)
  /\ Begin("review", "create", p)
  /\ UNCHANGED tables

(* _do_apply, and _do_update for a job not on file. *)
LogByChat(j) ==
  /\ Room(j)
  /\ Begin("manual", "create", j)
  /\ UNCHANGED tables

Create ==
  /\ step = "create"
  /\ InsertApplication(target)
  /\ step' = "match"
  /\ filed' = IF handler = "filed" THEN [filed EXCEPT ![target] = Again(@)] ELSE filed
  /\ logged' = logged \cup {target}
  /\ UNCHANGED <<handler, target, pending>>

(* mark_matching_postings_applied: one SELECT, then one UPDATE per match. *)
Match ==
  /\ step = "match"
  /\ step' = "mark"
  /\ pending' = OpenMatches(target)
  /\ UNCHANGED <<handler, target, loopHistory, tables>>

MarkMatch(p) ==
  /\ step = "mark" /\ p \in pending
  /\ MarkPosting(p, "applied")
  /\ pending' = pending \ {p}
  /\ UNCHANGED <<handler, step, target, loopHistory>>

(* Chat logged a job, no posting: what is left touches no posting. *)
LogDone ==
  /\ step = "mark" /\ pending = {} /\ handler = "manual"
  /\ Return
  /\ UNCHANGED tables

MarkTarget ==
  /\ step = "mark" /\ pending = {} /\ handler # "manual"
  /\ MarkPosting(target, "applied")
  /\ IF handler = "filed" THEN GoTo("submit") ELSE Return

Submit ==
  /\ step = "submit"
  /\ MarkQueueItem(target, "submitted")
  /\ Return

-----------------------------------------------------------------------------
(* Passing on a posting, and hiding it for a while.                         *)

(* POST /apply/pass and POST /apply/snooze unstage first. *)
PassRead(p) == Stored(p) /\ Begin("pass", "unstage", p) /\ UNCHANGED tables
SnoozeRead(p) == Stored(p) /\ Begin("snooze", "unstage", p) /\ UNCHANGED tables

Unstage ==
  /\ step = "unstage"
  /\ UnstagePosting(target)
  /\ GoTo(IF handler = "pass" THEN "dismiss" ELSE "sleep")

PassDismiss == step = "dismiss" /\ MarkPosting(target, "dismissed") /\ Return

SnoozeSleep == step = "sleep" /\ SnoozePosting(target) /\ Return

(* Chat: "dismiss 12", "snooze 12", "skip" and "dismiss all" in a review.    *)
(* An id names any posting, whatever its status.                            *)
DismissJob(p) == Stored(p) /\ AtOnce /\ MarkPosting(p, "dismissed")
SnoozeJob(p) == Stored(p) /\ AtOnce /\ SnoozePosting(p)
ReviewSkip(p) == p \in ReviewQueue /\ AtOnce /\ MarkPosting(p, "dismissed")
DismissAll == AtOnce /\ DismissAllQueued

(* "any new jobs" in chat wakes first. *)
JobsWake == AtOnce /\ WakeSnoozed

-----------------------------------------------------------------------------
(* The apply queue.                                                         *)

Stage(p) == Stored(p) /\ AtOnce /\ StagePosting(p)
Remove(p) == AtOnce /\ UnstagePosting(p)
MarkItem(p, s) == AtOnce /\ MarkQueueItem(p, s)

(* _do_queue_bulk: the top of the review queue that is not staged yet. *)
QueueBulk(S) ==
  /\ S # {} /\ S \subseteq ReviewQueue \ Staged
  /\ step = "idle"
  /\ handler' = "queue_bulk" /\ step' = "stage_all" /\ target' = NoJob
  /\ pending' = S
  /\ UNCHANGED <<loopHistory, tables>>

StageNext(p) ==
  /\ step = "stage_all" /\ p \in pending
  /\ StagePosting(p)
  /\ IF pending = {p} THEN Return
     ELSE pending' = pending \ {p} /\ UNCHANGED <<handler, step, target, loopHistory>>

(* save_pasted_job: store (or find) the posting, then stage it. *)
SaveLink(p) ==
  /\ Begin("save_link", "stage", p)
  /\ SavePosting(p, "queued")

SaveLinkStage == step = "stage" /\ StagePosting(target) /\ Return

-----------------------------------------------------------------------------
(* Tracking a board: the board is tracked (any tick may fetch it) before      *)
(* seed_board fetches its roles and stores them one by one as seen.          *)
Track(S) ==
  /\ S # {} /\ S \subseteq {p \in Posting : ~Stored(p)}
  /\ step = "idle"
  /\ handler' = "track" /\ step' = "seed_all" /\ target' = NoJob
  /\ pending' = S
  /\ UNCHANGED <<loopHistory, tables>>

SeedNext(p) ==
  /\ step = "seed_all" /\ p \in pending
  /\ SavePosting(p, "seeded")
  /\ IF pending = {p} THEN Return
     ELSE pending' = pending \ {p} /\ UNCHANGED <<handler, step, target, loopHistory>>

-----------------------------------------------------------------------------
(* Tracker edits: /apply/applications/delete and edit, chat delete and edit, *)
(* undo of a logged application.  None looks at the postings.               *)
DeleteRow(j) == AtOnce /\ DeleteApplication(j)
EditRow(j, k) ==
  /\ step = "idle"
  /\ EditApplication(j, k)
  /\ logged' = logged \cup {k}
  /\ UNCHANGED <<loopVars, filed>>

-----------------------------------------------------------------------------
LoopStep ==
  \/ \E p \in Posting :
       \/ FiledRead(p) \/ ApplyJobRead(p) \/ ReviewApplyRead(p) \/ MarkMatch(p)
       \/ PassRead(p) \/ SnoozeRead(p)
       \/ DismissJob(p) \/ SnoozeJob(p) \/ ReviewSkip(p)
       \/ Stage(p) \/ Remove(p) \/ \E s \in QueueStatus : MarkItem(p, s)
       \/ StageNext(p) \/ SaveLink(p) \/ SeedNext(p)
  \/ \E j \in Job : LogByChat(j) \/ DeleteRow(j) \/ \E k \in Job : EditRow(j, k)
  \/ \E S \in SUBSET Posting : QueueBulk(S) \/ Track(S)
  \/ Create \/ Match \/ LogDone \/ MarkTarget \/ Submit
  \/ Unstage \/ PassDismiss \/ SnoozeSleep \/ DismissAll \/ JobsWake
  \/ SaveLinkStage

(* The handler raises, or the process dies: what it committed stays. *)
LoopStops == Return
=============================================================================
