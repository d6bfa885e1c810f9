----------------------------- MODULE JobTables -----------------------------
(***************************************************************************)
(* One user's rows in job_postings, apply_queue and applications, and the   *)
(* transactions app/jobstore.py, app/apply_queue.py and app/store.py run on *)
(* them.  Every operator below is one "with connect()" block: the unit that *)
(* is atomic, and between two of which any other thread may run.            *)
(*                                                                         *)
(* A posting row is never deleted, so "absent" means never stored.  The     *)
(* time in snoozed_until is abstracted to whether it has passed.            *)
(* applications is the number of rows per job description: a description is *)
(* what create_application is given (a company and a role).                 *)
(***************************************************************************)
EXTENDS Naturals

CONSTANTS Posting,  \* postings the sources can produce: (source, external_id)
          Job,      \* company and role descriptions an application can carry
          Covers,   \* posting_match.matches_application, as a relation
          MaxApps   \* bound: application rows per description

(* A posting's own company and title are a description too.  Covers need not *)
(* be reflexive: a posting without a title is matched by nothing.            *)
ASSUME TablesAssumption ==
  /\ Posting \subseteq Job
  /\ Covers \subseteq Job \X Posting
  /\ MaxApps \in Nat

VARIABLES status,  \* job_postings.status, or "absent"
          snooze,  \* job_postings.snoozed_until: NULL, to come, or passed
          queue,   \* apply_queue.status, or "out" when there is no row
          apps     \* applications, counted per description

tables == <<status, snooze, queue, apps>>

Status == {"seeded", "new", "queued", "alerted", "applied", "dismissed",
           "snoozed", "closed"}
QueueStatus == {"staged", "ready", "submitted"}

TablesTypeOK ==
  /\ status \in [Posting -> Status \cup {"absent"}]
  /\ snooze \in [Posting -> {"null", "later", "due"}]
  /\ queue \in [Posting -> QueueStatus \cup {"out"}]
  /\ apps \in [Job -> Nat]

(* Histories count to two: what matters is whether something happened again. *)
Often == 0..2
Again(n) == IF n < 2 THEN n + 1 ELSE n

TablesInit ==
  /\ status = [p \in Posting |-> "absent"]
  /\ snooze = [p \in Posting |-> "null"]
  /\ queue = [p \in Posting |-> "out"]
  /\ apps = [j \in Job |-> 0]

-----------------------------------------------------------------------------
(* Reads.                                                                   *)

Stored(p) == status[p] # "absent"

(* posting_match.user_already_applied_to *)
AlreadyApplied(p) == \E j \in Job : apps[j] > 0 /\ <<j, p>> \in Covers

(* jobstore.list_review_queue *)
ReviewQueue == {p \in Posting : status[p] = "queued" /\ ~AlreadyApplied(p)}

(* apply_queue.list_queue: rows of any posting, whatever its status. *)
Staged == {p \in Posting : queue[p] # "out" /\ Stored(p)}

(* What /apply/data returns as "queue": the rows not submitted yet. *)
ReadyList == {p \in Staged : queue[p] # "submitted"}

(* The SELECT of jobstore.mark_matching_postings_applied. *)
OpenMatches(j) ==
  {p \in Posting : status[p] \in {"queued", "alerted", "new"}
                   /\ <<j, p>> \in Covers}

-----------------------------------------------------------------------------
(* Transactions on job_postings.                                            *)

(* Mutated form of SavePosting: INSERT OR REPLACE. *)
SavePostingReplacing(p, s) ==
  /\ status' = [status EXCEPT ![p] = s]
  /\ snooze' = [snooze EXCEPT ![p] = "null"]
  /\ UNCHANGED <<queue, apps>>

(* INSERT OR IGNORE on the (user, source, external_id) unique index. *)
SavePosting(p, s) ==
  /\ status' = [status EXCEPT ![p] = IF Stored(p) THEN @ ELSE s]
  /\ UNCHANGED <<snooze, queue, apps>>

(* An UPDATE by id, whatever the status was. *)
MarkPosting(p, s) ==
  /\ status' = [status EXCEPT ![p] = IF Stored(p) THEN s ELSE @]
  /\ snooze' = [snooze EXCEPT ![p] = "null"]
  /\ UNCHANGED <<queue, apps>>

(* Mutated form of SnoozePosting: the wake-up time is not written. *)
SnoozePostingForever(p) ==
  /\ status' = [status EXCEPT ![p] = IF Stored(p) THEN "snoozed" ELSE @]
  /\ UNCHANGED <<snooze, queue, apps>>

SnoozePosting(p) ==
  /\ status' = [status EXCEPT ![p] = IF Stored(p) THEN "snoozed" ELSE @]
  /\ snooze' = [snooze EXCEPT ![p] = IF Stored(p) THEN "later" ELSE @]
  /\ UNCHANGED <<queue, apps>>

Expired == {p \in Posting : status[p] = "snoozed" /\ snooze[p] = "due"}

WakeSnoozed ==
  /\ status' = [p \in Posting |-> IF p \in Expired THEN "queued" ELSE status[p]]
  /\ snooze' = [p \in Posting |-> IF p \in Expired THEN "null" ELSE snooze[p]]
  /\ UNCHANGED <<queue, apps>>

DismissAllQueued ==
  /\ status' = [p \in Posting |->
                  IF status[p] = "queued" THEN "dismissed" ELSE status[p]]
  /\ UNCHANGED <<snooze, queue, apps>>

(* Time passes the snooze's end. *)
SnoozeExpires(p) ==
  /\ snooze[p] = "later"
  /\ snooze' = [snooze EXCEPT ![p] = "due"]
  /\ UNCHANGED <<status, queue, apps>>

-----------------------------------------------------------------------------
(* Transactions on apply_queue.                                             *)

(* INSERT OR IGNORE, after get_posting found the posting. *)
StagePosting(p) ==
  /\ queue' = [queue EXCEPT ![p] = IF Stored(p) /\ @ = "out" THEN "staged" ELSE @]
  /\ UNCHANGED <<status, snooze, apps>>

UnstagePosting(p) ==
  /\ queue' = [queue EXCEPT ![p] = "out"]
  /\ UNCHANGED <<status, snooze, apps>>

(* UPDATE: no effect without a row. *)
MarkQueueItem(p, s) ==
  /\ queue' = [queue EXCEPT ![p] = IF @ = "out" THEN @ ELSE s]
  /\ UNCHANGED <<status, snooze, apps>>

-----------------------------------------------------------------------------
(* Transactions on applications.                                            *)

(* The bound: a handler that will insert starts only while there is room. *)
Room(j) == apps[j] < MaxApps

(* The INSERTs of create_application; what it does to the postings afterwards *)
(* is in transactions of its own.                                            *)
InsertApplication(j) ==
  /\ apps' = [apps EXCEPT ![j] = @ + 1]
  /\ UNCHANGED <<status, snooze, queue>>

(* Mutated form of DeleteApplication: a row already gone is deleted again. *)
DeleteApplicationBlind(j) ==
  /\ apps' = [apps EXCEPT ![j] = @ - 1]
  /\ UNCHANGED <<status, snooze, queue>>

(* The posting's status stays what it was. *)
DeleteApplication(j) ==
  /\ apps[j] > 0
  /\ apps' = [apps EXCEPT ![j] = @ - 1]
  /\ UNCHANGED <<status, snooze, queue>>

(* A corrected company or role: no posting is matched again. *)
EditApplication(j, k) ==
  /\ apps[j] > 0 /\ j # k /\ Room(k)
  /\ apps' = [apps EXCEPT ![j] = @ - 1, ![k] = @ + 1]
  /\ UNCHANGED <<status, snooze, queue>>
=============================================================================
