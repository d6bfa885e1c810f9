--------------------------- MODULE DiscoveryTick ---------------------------
(***************************************************************************)
(* discovery._tick for one user: wake snoozes, gather unseen postings, score *)
(* them, store each, stage the best and tell the user.  A pass may run in a  *)
(* kick thread and in the scheduler's thread at the same time, so several    *)
(* Tickers share the tables.  Sources, gates, ranking and scores are open:   *)
(* any set of unseen postings may be gathered and any of them may be good.   *)
(***************************************************************************)
EXTENDS JobTables, FiniteSets

CONSTANTS Ticker,     \* threads that may run a pass
          Mode,       \* job_alert_mode: "digest", "instant" or "silent"
          MaxScored,  \* job_max_scored_per_tick
          AutoStage,  \* job_auto_queue_threshold > 0
          NoCandidate \* the save loop is between two postings

ASSUME TickAssumption ==
  /\ Mode \in {"digest", "instant", "silent"}
  /\ MaxScored \in Nat
  /\ AutoStage \in BOOLEAN
  /\ NoCandidate \notin Posting

VARIABLES tpc,       \* where each pass is
          fresh,     \* scored postings it has still to store
          candidate, \* the posting being stored
          covered,   \* what user_already_applied_to said of it
          batch,     \* notify_batch
          strong,    \* auto_stage_ids not staged yet
          told       \* history: messages that announced a posting

tickVars == <<tpc, fresh, candidate, covered, batch, strong>>

TickTypeOK ==
  /\ tpc \in [Ticker -> {"idle", "gather", "save", "stage", "tell"}]
  /\ fresh \in [Ticker -> SUBSET Posting]
  /\ candidate \in [Ticker -> Posting \cup {NoCandidate}]
  /\ covered \in [Ticker -> BOOLEAN]
  /\ batch \in [Ticker -> SUBSET Posting]
  /\ strong \in [Ticker -> SUBSET Posting]
  /\ told \in [Posting -> Often]

TickInit ==
  /\ tpc = [t \in Ticker |-> "idle"]
  /\ fresh = [t \in Ticker |-> {}]
  /\ candidate = [t \in Ticker |-> NoCandidate]
  /\ covered = [t \in Ticker |-> FALSE]
  /\ batch = [t \in Ticker |-> {}]
  /\ strong = [t \in Ticker |-> {}]
  /\ told = [p \in Posting |-> 0]

TickWake(t) ==
  /\ tpc[t] = "idle"
  /\ WakeSnoozed
  /\ tpc' = [tpc EXCEPT ![t] = "gather"]
  /\ UNCHANGED <<fresh, candidate, covered, batch, strong, told>>

(* posting_exists filters what is stored; the cap bounds what is scored.     *)
(* Nothing is stored until every posting of the pass has its score.         *)
TickGather(t, S) ==
  /\ tpc[t] = "gather"
  /\ \A p \in S : ~Stored(p)
  /\ Cardinality(S) <= MaxScored
  /\ tpc' = [tpc EXCEPT ![t] = IF S = {} THEN "idle" ELSE "save"]
  /\ fresh' = [fresh EXCEPT ![t] = S]
  /\ UNCHANGED <<candidate, covered, batch, strong, told, tables>>

TickJudge(t, p) ==
  /\ tpc[t] = "save" /\ candidate[t] = NoCandidate /\ p \in fresh[t]
  /\ candidate' = [candidate EXCEPT ![t] = p]
  /\ covered' = [covered EXCEPT ![t] = AlreadyApplied(p)]
  /\ fresh' = [fresh EXCEPT ![t] = @ \ {p}]
  /\ UNCHANGED <<tpc, batch, strong, told, tables>>

SavedStatus(t, good) ==
  IF covered[t] THEN "applied"
  ELSE IF ~good THEN "new"
  ELSE IF Mode = "instant" THEN "alerted" ELSE "queued"

(* "if row is None or not good: continue" - a posting another pass stored    *)
(* first is that pass's to announce.                                        *)
NewMatch(t, good) == good /\ ~covered[t] /\ ~Stored(candidate[t])

(* "best": the score also reaches the auto-stage threshold.                  *)
TickSave(t, good, best) ==
  LET p == candidate[t]
      new == IF NewMatch(t, good) THEN {p} ELSE {}
  IN  /\ tpc[t] = "save" /\ p # NoCandidate
      /\ SavePosting(p, SavedStatus(t, good))
      /\ batch' = [batch EXCEPT ![t] = @ \cup new]
      /\ strong' = [strong EXCEPT ![t] = IF best /\ AutoStage THEN @ \cup new ELSE @]
      /\ candidate' = [candidate EXCEPT ![t] = NoCandidate]
      /\ covered' = [covered EXCEPT ![t] = FALSE]
      /\ UNCHANGED <<tpc, fresh, told>>

TickSaved(t) ==
  /\ tpc[t] = "save" /\ candidate[t] = NoCandidate /\ fresh[t] = {}
  /\ tpc' = [tpc EXCEPT ![t] = "stage"]
  /\ UNCHANGED <<fresh, candidate, covered, batch, strong, told, tables>>

(* A stage that raises is logged and the next one tried. *)
TickStage(t, p) ==
  /\ tpc[t] = "stage" /\ p \in strong[t]
  /\ StagePosting(p) \/ UNCHANGED tables
  /\ strong' = [strong EXCEPT ![t] = @ \ {p}]
  /\ UNCHANGED <<tpc, fresh, candidate, covered, batch, told>>

TickStaged(t) ==
  /\ tpc[t] = "stage" /\ strong[t] = {}
  /\ tpc' = [tpc EXCEPT ![t] = IF batch[t] = {} \/ Mode = "silent" THEN "idle" ELSE "tell"]
  /\ batch' = [batch EXCEPT ![t] = IF Mode = "silent" THEN {} ELSE @]
  /\ UNCHANGED <<fresh, candidate, covered, strong, told, tables>>

(* One message: in digest mode about the whole batch, in instant mode about  *)
(* one posting.  A send that raises is logged and not tried again.  (The push *)
(* that follows repeats the same batch as a banner and changes none of this.)*)
Messages(t) == IF Mode = "digest" THEN {batch[t]} ELSE {{p} : p \in batch[t]}

(* Mutated form of TickTell: a batch is sent again until a send succeeds,     *)
(* although the failed one may have arrived.                                *)
TickTellAgain(t, sent) ==
  /\ tpc[t] = "tell"
  /\ \E about \in Messages(t) :
       /\ batch' = [batch EXCEPT ![t] = IF sent THEN @ \ about ELSE @]
       /\ told' = [p \in Posting |-> IF p \in about THEN Again(told[p]) ELSE told[p]]
       /\ tpc' = [tpc EXCEPT ![t] = IF sent /\ batch[t] = about THEN "idle" ELSE "tell"]
  /\ UNCHANGED <<fresh, candidate, covered, strong, tables>>

TickTell(t, sent) ==
  /\ tpc[t] = "tell"
  /\ \E about \in Messages(t) :
       /\ batch' = [batch EXCEPT ![t] = @ \ about]
       /\ told' = [p \in Posting |-> IF sent /\ p \in about THEN Again(told[p]) ELSE told[p]]
       /\ tpc' = [tpc EXCEPT ![t] = IF batch[t] = about THEN "idle" ELSE "tell"]
  /\ UNCHANGED <<fresh, candidate, covered, strong, tables>>

(* An exception anywhere in the pass ends it; what it committed stays. *)
TickFails(t) ==
  /\ tpc[t] # "idle"
  /\ tpc' = [tpc EXCEPT ![t] = "idle"]
  /\ fresh' = [fresh EXCEPT ![t] = {}]
  /\ candidate' = [candidate EXCEPT ![t] = NoCandidate]
  /\ covered' = [covered EXCEPT ![t] = FALSE]
  /\ batch' = [batch EXCEPT ![t] = {}]
  /\ strong' = [strong EXCEPT ![t] = {}]
  /\ UNCHANGED <<told, tables>>

PassStep(t) ==
  \/ TickFails(t)
  \/ TickWake(t) \/ TickSaved(t) \/ TickStaged(t)
  \/ \E S \in SUBSET Posting : TickGather(t, S)
  \/ \E p \in Posting : TickJudge(t, p) \/ TickStage(t, p)
  \/ \E good, best \in BOOLEAN : TickSave(t, good, best)
  \/ \E sent \in BOOLEAN : TickTell(t, sent)

TickCrash ==
  /\ tpc' = [t \in Ticker |-> "idle"]
  /\ fresh' = [t \in Ticker |-> {}]
  /\ candidate' = [t \in Ticker |-> NoCandidate]
  /\ covered' = [t \in Ticker |-> FALSE]
  /\ batch' = [t \in Ticker |-> {}]
  /\ strong' = [t \in Ticker |-> {}]
  /\ UNCHANGED told
=============================================================================
