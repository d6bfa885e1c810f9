--------------------------- MODULE JobPilotProofs ---------------------------
(***************************************************************************)
(* For any postings, descriptions, requests and passes: the safety theorems  *)
(* of JobPilot.  The plan: each transaction keeps the tables "orderly" (types *)
(* hold, no posting is forgotten, and one is queued only when it is new or   *)
(* its snooze ends); each step of the loop, of a request or of a pass runs   *)
(* one transaction or none; the invariants then need only what a step does   *)
(* outside the tables and which postings it may call applied.                *)
(***************************************************************************)
EXTENDS JobPilot, TLAPS

(* What every step does to the tables, as an action. *)
Orderly ==
  /\ TablesTypeOK'
  /\ \A p \in Posting : Stored(p) => Stored(p)'
  /\ \A p \in Posting :
       status'[p] = "queued" /\ status[p] # "queued"
         => ~Stored(p) \/ p \in Expired

(* No posting becomes applied. *)
NoneApplied ==
  \A p \in Posting : status'[p] = "applied" => status[p] = "applied"

(* Only p may become applied, and then only if "allowed". *)
OnlyApplied(p, allowed) ==
  \A q \in Posting : status'[q] = "applied" => status[q] = "applied" \/ (q = p /\ allowed)

-----------------------------------------------------------------------------
(* The transactions, one at a time.                                         *)

LEMMA IdleOrderly ==
  ASSUME TablesTypeOK, UNCHANGED tables
  PROVE  Orderly /\ NoneApplied
BY DEF TablesTypeOK, tables, Orderly, NoneApplied, Stored

LEMMA SavePostingOrderly ==
  ASSUME TablesTypeOK, NEW p, NEW s \in Status, SavePosting(p, s)
  PROVE  Orderly /\ OnlyApplied(p, s = "applied")
BY DEF TablesTypeOK, SavePosting, Orderly, OnlyApplied, Stored, Status

LEMMA SavePostingStores ==
  ASSUME TablesTypeOK, NEW p \in Posting, NEW s \in Status, SavePosting(p, s)
  PROVE  Stored(p)' /\ (~Stored(p) => status'[p] = s)
BY DEF TablesTypeOK, SavePosting, Stored, Status

LEMMA MarkPostingOrderly ==
  ASSUME TablesTypeOK, NEW p, NEW s \in Status \ {"queued"}, MarkPosting(p, s)
  PROVE  Orderly /\ OnlyApplied(p, s = "applied")
BY DEF TablesTypeOK, MarkPosting, Orderly, OnlyApplied, Stored, Status

LEMMA SnoozePostingOrderly ==
  ASSUME TablesTypeOK, NEW p, SnoozePosting(p)
  PROVE  Orderly /\ NoneApplied
BY DEF TablesTypeOK, SnoozePosting, Orderly, NoneApplied, Stored, Status

LEMMA WakeSnoozedOrderly ==
  ASSUME TablesTypeOK, WakeSnoozed
  PROVE  Orderly /\ NoneApplied
BY DEF TablesTypeOK, WakeSnoozed, Expired, Orderly, NoneApplied, Stored, Status

LEMMA DismissAllOrderly ==
  ASSUME TablesTypeOK, DismissAllQueued
  PROVE  Orderly /\ NoneApplied
BY DEF TablesTypeOK, DismissAllQueued, Orderly, NoneApplied, Stored, Status

LEMMA SnoozeExpiresOrderly ==
  ASSUME TablesTypeOK, NEW p \in Posting, SnoozeExpires(p)
  PROVE  Orderly /\ NoneApplied
BY DEF TablesTypeOK, SnoozeExpires, Orderly, NoneApplied, Stored

LEMMA QueueOrderly ==
  ASSUME TablesTypeOK, NEW p,
         \/ StagePosting(p) \/ UnstagePosting(p)
         \/ \E s \in QueueStatus : MarkQueueItem(p, s)
  PROVE  Orderly /\ NoneApplied
<1>1. CASE StagePosting(p)
  BY <1>1 DEF TablesTypeOK, StagePosting, QueueStatus, Orderly, NoneApplied, Stored
<1>2. CASE UnstagePosting(p)
  BY <1>2 DEF TablesTypeOK, UnstagePosting, Orderly, NoneApplied, Stored
<1>3. ASSUME NEW s \in QueueStatus, MarkQueueItem(p, s)
      PROVE  Orderly /\ NoneApplied
  BY <1>3 DEF TablesTypeOK, MarkQueueItem, Orderly, NoneApplied, Stored
<1> QED BY <1>1, <1>2, <1>3

LEMMA ApplicationsOrderly ==
  ASSUME TablesTypeOK, NEW j \in Job,
         \/ InsertApplication(j) \/ DeleteApplication(j)
         \/ \E k \in Job : EditApplication(j, k)
  PROVE  Orderly /\ NoneApplied
<1>1. CASE InsertApplication(j)
  BY <1>1 DEF TablesTypeOK, InsertApplication, Orderly, NoneApplied, Stored
<1>2. CASE DeleteApplication(j)
  BY <1>2 DEF TablesTypeOK, DeleteApplication, Orderly, NoneApplied, Stored
<1>3. ASSUME NEW k \in Job, EditApplication(j, k)
      PROVE  Orderly /\ NoneApplied
  BY <1>3 DEF TablesTypeOK, EditApplication, Orderly, NoneApplied, Stored
<1> QED BY <1>1, <1>2, <1>3

-----------------------------------------------------------------------------
(* The steps, each with its transaction.                                    *)

(* The loop inserts applications only for descriptions. *)
CreatesForJob == step = "create" => target \in Job

(* The postings a loop step may call applied: its matches, and its target. *)
LoopApplies ==
  \A p \in Posting :
    status'[p] = "applied" /\ status[p] # "applied"
      => step = "mark" /\ (p \in pending \/ (p = target /\ handler # "manual"))

LEMMA LoopTables ==
  ASSUME TypeOK, CreatesForJob, LoopStep
  PROVE  Orderly /\ LoopApplies
<1> USE DEF TypeOK
<1>1. ASSUME UNCHANGED tables PROVE Orderly /\ LoopApplies
  BY <1>1, IdleOrderly DEF NoneApplied, LoopApplies
<1>2. ASSUME NEW p,
             \/ StagePosting(p) \/ UnstagePosting(p)
             \/ \E s \in QueueStatus : MarkQueueItem(p, s)
      PROVE  Orderly /\ LoopApplies
  BY <1>2, QueueOrderly DEF NoneApplied, LoopApplies
<1>3. ASSUME NEW p, NEW s \in {"dismissed", "seeded", "queued"},
             (MarkPosting(p, s) /\ s = "dismissed") \/ SavePosting(p, s)
      PROVE  Orderly /\ LoopApplies
  BY <1>3, MarkPostingOrderly, SavePostingOrderly DEF OnlyApplied, LoopApplies, Status
<1>4. ASSUME NEW p \in Posting
      PROVE  /\ FiledRead(p) \/ ApplyJobRead(p) \/ ReviewApplyRead(p)
                 \/ PassRead(p) \/ SnoozeRead(p) => Orderly /\ LoopApplies
             /\ MarkMatch(p) => Orderly /\ LoopApplies
             /\ DismissJob(p) \/ ReviewSkip(p) => Orderly /\ LoopApplies
             /\ SnoozeJob(p) => Orderly /\ LoopApplies
             /\ Stage(p) \/ Remove(p) \/ StageNext(p) => Orderly /\ LoopApplies
             /\ \A s \in QueueStatus : MarkItem(p, s) => Orderly /\ LoopApplies
             /\ SaveLink(p) \/ SeedNext(p) => Orderly /\ LoopApplies
  <2>1. FiledRead(p) \/ ApplyJobRead(p) \/ ReviewApplyRead(p)
        \/ PassRead(p) \/ SnoozeRead(p) => UNCHANGED tables
    BY DEF FiledRead, ApplyJobRead, ReviewApplyRead, PassRead, SnoozeRead
  <2>2. ASSUME MarkMatch(p) PROVE Orderly /\ LoopApplies
    BY <2>2, MarkPostingOrderly DEF MarkMatch, OnlyApplied, LoopApplies, Status
  <2>3. DismissJob(p) \/ ReviewSkip(p) => MarkPosting(p, "dismissed")
    BY DEF DismissJob, ReviewSkip
  <2>4. ASSUME SnoozeJob(p) PROVE Orderly /\ LoopApplies
    BY <2>4, SnoozePostingOrderly DEF SnoozeJob, NoneApplied, LoopApplies
  <2>5. Stage(p) \/ Remove(p) \/ StageNext(p) => StagePosting(p) \/ UnstagePosting(p)
    BY DEF Stage, Remove, StageNext
  <2>6. \A s \in QueueStatus : MarkItem(p, s) => MarkQueueItem(p, s)
    BY DEF MarkItem
  <2>7. SaveLink(p) \/ SeedNext(p) => SavePosting(p, "queued") \/ SavePosting(p, "seeded")
    BY DEF SaveLink, SeedNext
  <2> QED BY <1>1, <1>2, <1>3, <2>1, <2>2, <2>3, <2>4, <2>5, <2>6, <2>7
<1>5. ASSUME NEW j \in Job
      PROVE  /\ LogByChat(j) => Orderly /\ LoopApplies
             /\ DeleteRow(j) => Orderly /\ LoopApplies
             /\ \A k \in Job : EditRow(j, k) => Orderly /\ LoopApplies
  <2>1. LogByChat(j) => UNCHANGED tables
    BY DEF LogByChat
  <2>2. ASSUME DeleteApplication(j) \/ \E k \in Job : EditApplication(j, k)
        PROVE  Orderly /\ LoopApplies
    BY <2>2, ApplicationsOrderly DEF NoneApplied, LoopApplies
  <2> QED BY <1>1, <2>1, <2>2 DEF DeleteRow, EditRow
<1>6. ASSUME NEW S PROVE QueueBulk(S) \/ Track(S) => Orderly /\ LoopApplies
  BY <1>1 DEF QueueBulk, Track
<1>7. ASSUME Create PROVE Orderly /\ LoopApplies
  <2>1. target \in Job /\ InsertApplication(target)
    BY <1>7 DEF Create, CreatesForJob
  <2> QED BY <2>1, ApplicationsOrderly DEF NoneApplied, LoopApplies
<1>8. Match \/ LogDone => UNCHANGED tables
  BY DEF Match, LogDone
<1>9. ASSUME MarkTarget PROVE Orderly /\ LoopApplies
  BY <1>9, MarkPostingOrderly DEF MarkTarget, OnlyApplied, LoopApplies, Status
<1>10. ASSUME Submit \/ Unstage \/ SaveLinkStage PROVE Orderly /\ LoopApplies
  BY <1>10, <1>2 DEF Submit, Unstage, SaveLinkStage, QueueStatus
<1>11. ASSUME PassDismiss PROVE Orderly /\ LoopApplies
  BY <1>11, <1>3 DEF PassDismiss
<1>12. ASSUME SnoozeSleep PROVE Orderly /\ LoopApplies
  BY <1>12, SnoozePostingOrderly DEF SnoozeSleep, NoneApplied, LoopApplies
<1>13. ASSUME DismissAll \/ JobsWake PROVE Orderly /\ LoopApplies
  BY <1>13, DismissAllOrderly, WakeSnoozedOrderly
     DEF DismissAll, JobsWake, NoneApplied, LoopApplies
<1> QED
  BY <1>1, <1>4, <1>5, <1>6, <1>7, <1>8, <1>9, <1>10, <1>11, <1>12, <1>13 DEF LoopStep

LEMMA RefreshTables ==
  ASSUME TypeOK, RefreshStep
  PROVE  Orderly /\ NoneApplied
<1> USE DEF TypeOK
<1>1. ASSUME NEW p PROVE LinkDies(p) => UNCHANGED tables
  BY DEF LinkDies
<1>2. ASSUME NEW r
      PROVE  RefreshList(r) \/ RefreshDone(r) \/ (\E p : RefreshKeep(r, p))
               => UNCHANGED tables
  BY DEF RefreshList, RefreshDone, RefreshKeep
<1>3. ASSUME NEW r, RefreshWake(r) PROVE Orderly /\ NoneApplied
  BY <1>3, WakeSnoozedOrderly DEF RefreshWake
<1>4. ASSUME NEW r, RefreshUnstage(r) PROVE Orderly /\ NoneApplied
  BY <1>4, QueueOrderly DEF RefreshUnstage
<1>5. ASSUME NEW r, NEW p, RefreshClose(r, p) PROVE Orderly /\ NoneApplied
  BY <1>5, MarkPostingOrderly DEF RefreshClose, OnlyApplied, NoneApplied, Status
<1> QED BY <1>1, <1>2, <1>3, <1>4, <1>5, IdleOrderly DEF RefreshStep

(* The posting a pass may call applied: one it found covered. *)
PassApplies(t) ==
  \A p \in Posting :
    status'[p] = "applied" /\ status[p] # "applied" => p = candidate[t] /\ covered[t]

LEMMA PassTables ==
  ASSUME TypeOK, NEW t \in Ticker, PassStep(t)
  PROVE  Orderly /\ PassApplies(t)
<1> USE DEF TypeOK
<1>1. ASSUME UNCHANGED tables PROVE Orderly /\ PassApplies(t)
  BY <1>1, IdleOrderly DEF NoneApplied, PassApplies
<1>2. TickFails(t) \/ TickSaved(t) \/ TickStaged(t) => UNCHANGED tables
  BY DEF TickFails, TickSaved, TickStaged
<1>3. ASSUME TickWake(t) PROVE Orderly /\ PassApplies(t)
  BY <1>3, WakeSnoozedOrderly DEF TickWake, NoneApplied, PassApplies
<1>4. ASSUME NEW S PROVE TickGather(t, S) => UNCHANGED tables
  BY DEF TickGather
<1>5. ASSUME NEW p PROVE TickJudge(t, p) => UNCHANGED tables
  BY DEF TickJudge
<1>6. ASSUME NEW p, TickStage(t, p) PROVE Orderly /\ PassApplies(t)
  BY <1>6, <1>1, QueueOrderly DEF TickStage, NoneApplied, PassApplies
<1>7. ASSUME NEW good \in BOOLEAN, NEW best \in BOOLEAN, TickSave(t, good, best)
      PROVE  Orderly /\ PassApplies(t)
  <2>1. /\ SavePosting(candidate[t], SavedStatus(t, good))
        /\ SavedStatus(t, good) \in Status
        /\ SavedStatus(t, good) = "applied" => covered[t]
    BY <1>7 DEF TickSave, SavedStatus, Status
  <2> QED BY <2>1, SavePostingOrderly DEF OnlyApplied, PassApplies
<1>8. ASSUME NEW sent PROVE TickTell(t, sent) => UNCHANGED tables
  BY DEF TickTell
<1> QED BY <1>1, <1>2, <1>3, <1>4, <1>5, <1>6, <1>7, <1>8 DEF PassStep

-----------------------------------------------------------------------------
(* Type correctness.                                                        *)

TypeInv == TypeOK /\ CreatesForJob

LEMMA LoopTypes ==
  ASSUME TypeInv, LoopStep
  PROVE  LoopTypeOK' /\ CreatesForJob'
<1> USE DEF TypeInv, TypeOK, LoopTypeOK, CreatesForJob, Handlers, Steps,
            Begin, GoTo, Return, loopHistory
<1>1. ASSUME AtOnce PROVE LoopTypeOK' /\ CreatesForJob'
  BY <1>1 DEF AtOnce, loopVars
<1>2. ASSUME NEW p \in Posting
      PROVE  /\ FiledRead(p) \/ ApplyJobRead(p) \/ ReviewApplyRead(p) \/ PassRead(p)
                \/ SnoozeRead(p) \/ SaveLink(p) => LoopTypeOK' /\ CreatesForJob'
             /\ MarkMatch(p) => LoopTypeOK' /\ CreatesForJob'
             /\ DismissJob(p) \/ SnoozeJob(p) \/ ReviewSkip(p) \/ Stage(p) \/ Remove(p)
                \/ (\E s \in QueueStatus : MarkItem(p, s)) => AtOnce
             /\ StageNext(p) \/ SeedNext(p) => LoopTypeOK' /\ CreatesForJob'
  <2>1. FiledRead(p) \/ ApplyJobRead(p) \/ ReviewApplyRead(p) \/ PassRead(p)
        \/ SnoozeRead(p) \/ SaveLink(p) => LoopTypeOK' /\ CreatesForJob'
    BY TablesAssumption DEF FiledRead, ApplyJobRead, ReviewApplyRead, PassRead,
                            SnoozeRead, SaveLink
  <2>2. MarkMatch(p) => LoopTypeOK' /\ CreatesForJob'
    BY DEF MarkMatch
  <2>3. DismissJob(p) \/ SnoozeJob(p) \/ ReviewSkip(p) \/ Stage(p) \/ Remove(p)
        \/ (\E s \in QueueStatus : MarkItem(p, s)) => AtOnce
    BY DEF DismissJob, SnoozeJob, ReviewSkip, Stage, Remove, MarkItem
  <2>4. StageNext(p) \/ SeedNext(p) => LoopTypeOK' /\ CreatesForJob'
    BY DEF StageNext, SeedNext
  <2> QED BY <2>1, <2>2, <2>3, <2>4
<1>3. ASSUME NEW j \in Job
      PROVE  /\ LogByChat(j) => LoopTypeOK' /\ CreatesForJob'
             /\ DeleteRow(j) => AtOnce
             /\ \A k \in Job : EditRow(j, k) => LoopTypeOK' /\ CreatesForJob'
  BY DEF LogByChat, DeleteRow, EditRow, loopVars
<1>4. ASSUME NEW S \in SUBSET Posting, QueueBulk(S) \/ Track(S)
      PROVE  LoopTypeOK' /\ CreatesForJob'
  BY <1>4 DEF QueueBulk, Track
<1>5. ASSUME Create PROVE LoopTypeOK' /\ CreatesForJob'
  <2>1. \A n \in Often : Again(n) \in Often
    BY DEF Often, Again
  <2>2. filed' \in [Posting -> Often]
    BY <1>5, <2>1 DEF Create
  <2> QED BY <1>5, <2>2 DEF Create
<1>6. ASSUME Match PROVE LoopTypeOK' /\ CreatesForJob'
  BY <1>6 DEF Match, OpenMatches
<1>7. ASSUME LogDone \/ MarkTarget \/ Submit \/ SaveLinkStage
      PROVE  LoopTypeOK' /\ CreatesForJob'
  BY <1>7 DEF LogDone, MarkTarget, Submit, SaveLinkStage
<1>8. ASSUME Unstage \/ PassDismiss \/ SnoozeSleep PROVE LoopTypeOK' /\ CreatesForJob'
  BY <1>8 DEF Unstage, PassDismiss, SnoozeSleep
<1>9. DismissAll \/ JobsWake => AtOnce
  BY DEF DismissAll, JobsWake
<1> QED
  BY <1>1, <1>2, <1>3, <1>4, <1>5, <1>6, <1>7, <1>8, <1>9 DEF LoopStep

LEMMA RefreshTypes ==
  ASSUME TypeOK, RefreshStep
  PROVE  RefreshTypeOK'
<1> USE DEF TypeOK, RefreshTypeOK
<1>1. ASSUME NEW p \in Posting, LinkDies(p) PROVE RefreshTypeOK'
  BY <1>1 DEF LinkDies
<1>2. ASSUME NEW r \in Refresher
      PROVE  RefreshWake(r) \/ RefreshUnstage(r) \/ RefreshDone(r) => RefreshTypeOK'
  BY DEF RefreshWake, RefreshUnstage, RefreshDone
<1>3. ASSUME NEW r \in Refresher, RefreshList(r) PROVE RefreshTypeOK'
  <2>1. \A shown \in Shortlists : shown \subseteq Posting
    BY DEF Shortlists, Staged, ReviewQueue
  <2> QED BY <1>3, <2>1 DEF RefreshList
<1>4. ASSUME NEW r \in Refresher, NEW p \in Posting
      PROVE  RefreshKeep(r, p) \/ RefreshClose(r, p) => RefreshTypeOK'
  BY DEF RefreshKeep, RefreshClose
<1> QED BY <1>1, <1>2, <1>3, <1>4 DEF RefreshStep

LEMMA PassTypes ==
  ASSUME TypeOK, NEW t \in Ticker, PassStep(t)
  PROVE  TickTypeOK'
<1> USE DEF TypeOK, TickTypeOK
<1>1. TickFails(t) \/ TickWake(t) \/ TickSaved(t) \/ TickStaged(t) => TickTypeOK'
  BY DEF TickFails, TickWake, TickSaved, TickStaged
<1>2. ASSUME NEW S \in SUBSET Posting, TickGather(t, S) PROVE TickTypeOK'
  BY <1>2 DEF TickGather
<1>3. ASSUME NEW p \in Posting PROVE TickJudge(t, p) \/ TickStage(t, p) => TickTypeOK'
  <2>1. ASSUME TickJudge(t, p) PROVE covered' \in [Ticker -> BOOLEAN]
    <3>1. AlreadyApplied(p) \in BOOLEAN
      BY DEF AlreadyApplied
    <3>2. covered' = [covered EXCEPT ![t] = AlreadyApplied(p)]
      BY <2>1 DEF TickJudge
    <3> QED BY <3>1, <3>2, Zenon
  <2>2. TickJudge(t, p) => TickTypeOK'
    BY <2>1 DEF TickJudge
  <2>3. TickStage(t, p) => TickTypeOK'
    BY DEF TickStage
  <2> QED BY <2>2, <2>3
<1>4. ASSUME NEW good \in BOOLEAN, NEW best \in BOOLEAN, TickSave(t, good, best)
      PROVE  TickTypeOK'
  <2>1. candidate[t] \in Posting
    BY <1>4 DEF TickSave
  <2> QED BY <1>4, <2>1 DEF TickSave
<1>5. ASSUME NEW sent \in BOOLEAN, TickTell(t, sent) PROVE TickTypeOK'
  <2>1. \A n \in Often : Again(n) \in Often
    BY DEF Often, Again
  <2>2. told' \in [Posting -> Often]
    BY <1>5, <2>1 DEF TickTell
  <2> QED BY <1>5, <2>2 DEF TickTell
<1> QED BY <1>1, <1>2, <1>3, <1>4, <1>5 DEF PassStep

LEMMA TypeInitial == Init => TypeInv
BY DEF Init, TablesInit, LoopInit, RefreshInit, TickInit, TypeInv, TypeOK,
       CreatesForJob, TablesTypeOK, LoopTypeOK, RefreshTypeOK, TickTypeOK, Often

(* One step of the whole system: the tables stay orderly and typed. *)
LEMMA TypeStep ==
  ASSUME TypeInv, [Next]_vars
  PROVE  TypeInv' /\ Orderly
<1> USE DEF TypeInv
<1>1. CASE LoopActs
  <2>1. Orderly /\ LoopTypeOK' /\ CreatesForJob'
    BY <1>1, LoopTables, LoopTypes DEF LoopActs
  <2>2. RefreshTypeOK' /\ TickTypeOK' /\ lost' \subseteq Posting
    BY <1>1 DEF LoopActs, TypeOK, RefreshTypeOK, TickTypeOK, refreshVars, tickVars, Unmarked
  <2> QED BY <2>1, <2>2 DEF TypeOK, Orderly
<1>2. CASE RefreshActs
  <2>1. Orderly /\ RefreshTypeOK'
    BY <1>2, RefreshTables, RefreshTypes DEF RefreshActs
  <2>2. LoopTypeOK' /\ CreatesForJob' /\ TickTypeOK' /\ lost' \subseteq Posting
    BY <1>2 DEF RefreshActs, TypeOK, LoopTypeOK, CreatesForJob, TickTypeOK, loopVars,
                loopHistory, tickVars, Unmarked
  <2> QED BY <2>1, <2>2 DEF TypeOK, Orderly
<1>3. ASSUME NEW t \in Ticker, PassActs(t) PROVE TypeInv' /\ Orderly
  <2>1. Orderly /\ TickTypeOK'
    BY <1>3, PassTables, PassTypes DEF PassActs
  <2>2. LoopTypeOK' /\ CreatesForJob' /\ RefreshTypeOK' /\ lost' \subseteq Posting
    BY <1>3 DEF PassActs, TypeOK, LoopTypeOK, CreatesForJob, RefreshTypeOK, loopVars,
                loopHistory, refreshVars, Unmarked
  <2> QED BY <2>1, <2>2 DEF TypeOK, Orderly
<1>4. ASSUME NEW p \in Posting, TimePasses(p) PROVE TypeInv' /\ Orderly
  <2>1. Orderly
    BY <1>4, SnoozeExpiresOrderly DEF TimePasses, TypeOK
  <2> QED
    BY <1>4, <2>1 DEF TimePasses, Orderly, TypeOK, LoopTypeOK, CreatesForJob,
       RefreshTypeOK, TickTypeOK, loopVars, loopHistory, refreshVars, tickVars
<1>5. ASSUME HandlerFails \/ Crash PROVE TypeInv' /\ Orderly
  <2>1. Orderly
    BY <1>5, IdleOrderly DEF HandlerFails, Crash, TypeOK
  <2>2. LoopTypeOK' /\ CreatesForJob' /\ lost' \subseteq Posting
    BY <1>5 DEF HandlerFails, Crash, LoopStops, Return, loopHistory, TypeOK, LoopTypeOK,
                CreatesForJob, Handlers, Steps, HalfFiled
  <2>3. CASE HandlerFails
    BY <2>3, <2>1, <2>2 DEF HandlerFails, Orderly, TypeOK, RefreshTypeOK, TickTypeOK,
                            refreshVars, tickVars
  <2>4. CASE Crash
    BY <2>4, <2>1, <2>2 DEF Crash, RefreshCrash, TickCrash, Orderly, TypeOK,
                            RefreshTypeOK, TickTypeOK
  <2> QED BY <1>5, <2>3, <2>4
<1>6. CASE UNCHANGED vars
  <2>1. Orderly
    BY <1>6, IdleOrderly DEF vars, TypeOK
  <2> QED
    BY <1>6, <2>1 DEF vars, Orderly, TypeOK, LoopTypeOK, CreatesForJob,
       RefreshTypeOK, TickTypeOK, loopVars, loopHistory, refreshVars, tickVars
<1> QED BY <1>1, <1>2, <1>3, <1>4, <1>5, <1>6 DEF Next

LEMMA TypeInvariant == Spec => []TypeInv
<1>1. TypeInv /\ [Next]_vars => TypeInv'
  BY TypeStep
<1> QED BY TypeInitial, <1>1, PTL DEF Spec

(* Every variable keeps to its type, whatever runs beside what. *)
THEOREM TypeCorrect == Spec => []TypeOK
<1>1. TypeInv => TypeOK
  BY DEF TypeInv
<1> QED BY TypeInvariant, <1>1, PTL

-----------------------------------------------------------------------------
(* A posting returns to the review queue only when its snooze ends.          *)

(* No handler, request or pass re-queues a posting the user is done with:     *)
(* it becomes queued when it is first stored, or when a snooze ends.         *)
THEOREM DoneIsDone == Spec => QueuedOnlyFromSnoozeOrDiscovery
<1>1. TypeInv /\ [Next]_vars
        => [\A p \in Posting :
              status'[p] = "queued" /\ status[p] # "queued"
                => ~Stored(p) \/ p \in Expired]_vars
  BY TypeStep DEF Orderly
<1> QED
  BY TypeInvariant, <1>1, PTL DEF Spec, QueuedOnlyFromSnoozeOrDiscovery

-----------------------------------------------------------------------------
(* Announcements.  What a pass still has to announce is stored, has not been  *)
(* announced and is in no other pass's batch; so is safe from a second pass. *)

AnnounceInv ==
  /\ \A p \in Posting : told[p] <= 1 /\ (told[p] > 0 => Stored(p))
  /\ \A t \in Ticker : \A p \in batch[t] : Stored(p) /\ told[p] = 0
  /\ \A t, u \in Ticker : t # u => batch[t] \cap batch[u] = {}

LEMMA AnnounceInitial == Init => AnnounceInv
BY DEF Init, TickInit, AnnounceInv

(* A step that leaves told alone and no batch larger preserves the invariant. *)
LEMMA QuietStep ==
  ASSUME TypeInv, AnnounceInv, Orderly, told' = told,
         \A t \in Ticker : batch'[t] \subseteq batch[t]
  PROVE  AnnounceInv'
<1>1. \A t \in Ticker : batch[t] \subseteq Posting
  BY DEF TypeInv, TypeOK, TickTypeOK
<1> QED BY <1>1 DEF Orderly, AnnounceInv

LEMMA PassAnnounces ==
  ASSUME TypeInv, AnnounceInv, Orderly, NEW t \in Ticker, PassStep(t)
  PROVE  AnnounceInv'
<1> USE DEF TypeInv, TypeOK, TickTypeOK
<1>1. ASSUME TickFails(t) \/ TickWake(t) \/ TickSaved(t) \/ TickStaged(t)
      PROVE  AnnounceInv'
  <2>1. told' = told /\ \A u \in Ticker : batch'[u] \subseteq batch[u]
    BY <1>1 DEF TickFails, TickWake, TickSaved, TickStaged
  <2> QED BY <2>1, QuietStep
<1>2. ASSUME NEW S, TickGather(t, S) PROVE AnnounceInv'
  BY <1>2, QuietStep DEF TickGather
<1>3. ASSUME NEW p, TickJudge(t, p) \/ TickStage(t, p) PROVE AnnounceInv'
  BY <1>3, QuietStep DEF TickJudge, TickStage
<1>4. ASSUME NEW good \in BOOLEAN, NEW best \in BOOLEAN, TickSave(t, good, best)
      PROVE  AnnounceInv'
  <2>1. PICK p \in Posting :
          p = candidate[t] /\ SavePosting(p, SavedStatus(t, good)) /\ told' = told
    BY <1>4 DEF TickSave
  <2>2. SavedStatus(t, good) \in Status
    BY DEF SavedStatus, Status
  <2>3. Stored(p)'
    BY <2>1, <2>2, SavePostingStores
  <2>4. CASE NewMatch(t, good)
    <3>1. ~Stored(p) /\ batch' = [batch EXCEPT ![t] = @ \cup {p}]
      BY <1>4, <2>1, <2>4 DEF TickSave, NewMatch
    <3>2. told[p] = 0 /\ \A u \in Ticker : p \notin batch[u]
      BY <2>1, <3>1 DEF AnnounceInv, Often
    <3> QED BY <2>1, <2>3, <3>1, <3>2 DEF Orderly, AnnounceInv
  <2>5. CASE ~NewMatch(t, good)
    <3>1. batch' = batch
      BY <1>4, <2>5 DEF TickSave
    <3> QED BY <2>1, <3>1, QuietStep
  <2> QED BY <2>4, <2>5
<1>5. ASSUME NEW sent \in BOOLEAN, TickTell(t, sent) PROVE AnnounceInv'
  <2>1. PICK about \in Messages(t) :
          /\ batch' = [batch EXCEPT ![t] = @ \ about]
          /\ told' = [p \in Posting |->
                        IF sent /\ p \in about THEN Again(told[p]) ELSE told[p]]
    BY <1>5 DEF TickTell
  <2>2. about \subseteq batch[t]
    BY DEF Messages
  <2>3. \A p \in about : told[p] = 0 /\ Again(told[p]) = 1
    <3>1. Again(0) = 1
      BY DEF Again
    <3> QED BY <2>2, <3>1 DEF AnnounceInv
  <2>4. \A p \in Posting : Stored(p)' = Stored(p)
    BY <1>5 DEF TickTell, tables, Stored
  <2> QED BY <2>1, <2>2, <2>3, <2>4 DEF AnnounceInv
<1> QED BY <1>1, <1>2, <1>3, <1>4, <1>5 DEF PassStep

LEMMA AnnounceStep ==
  ASSUME TypeInv, AnnounceInv, [Next]_vars
  PROVE  AnnounceInv'
<1>1. Orderly
  BY TypeStep
<1>2. ASSUME told' = told /\ batch' = batch PROVE AnnounceInv'
  BY <1>1, <1>2, QuietStep
<1>3. LoopActs \/ RefreshActs \/ (\E p \in Posting : TimePasses(p)) \/ HandlerFails
      \/ UNCHANGED vars => told' = told /\ batch' = batch
  BY DEF LoopActs, RefreshActs, TimePasses, HandlerFails, vars, tickVars
<1>4. ASSUME NEW t \in Ticker, PassActs(t) PROVE AnnounceInv'
  BY <1>1, <1>4, PassAnnounces DEF PassActs
<1>5. CASE Crash
  BY <1>1, <1>5, QuietStep DEF Crash, TickCrash
<1> QED BY <1>2, <1>3, <1>4, <1>5 DEF Next

LEMMA AnnounceInvariant == Spec => []AnnounceInv
<1>1. TypeInv /\ AnnounceInv /\ [Next]_vars => AnnounceInv'
  BY AnnounceStep
<1> QED BY TypeInvariant, AnnounceInitial, <1>1, PTL DEF Spec

(* However many passes run at once, and whenever the process dies, no posting *)
(* is announced twice.                                                      *)
THEOREM NeverToldTwice == Spec => []ToldAtMostOnce
<1>1. AnnounceInv => ToldAtMostOnce
  BY DEF AnnounceInv, ToldAtMostOnce
<1> QED BY AnnounceInvariant, <1>1, PTL

LEMMA FeedInitial == Init => Feed!FeedInit
BY DEF Init, TablesInit, TickInit, Stored, Feed!FeedInit

LEMMA FeedStep ==
  ASSUME TypeInv, AnnounceInv, [Next]_vars
  PROVE  [Feed!FeedNext]_(Feed!feedVars)
<1> DEFINE stored == {p \in Posting : Stored(p)}
           newly == {p \in Posting : ~Stored(p) /\ Stored(p)'}
<1>1. Orderly
  BY TypeStep
<1>2. ASSUME told' = told PROVE [Feed!FeedNext]_(Feed!feedVars)
  <2>1. stored' = stored \cup newly
    BY <1>1 DEF Orderly
  <2>2. newly \in SUBSET Posting
    OBVIOUS
  <2>3. Feed!Store(newly)
    BY <1>2, <2>1 DEF Feed!Store
  <2> QED BY <2>2, <2>3 DEF Feed!FeedNext
<1>3. LoopActs \/ RefreshActs \/ (\E p \in Posting : TimePasses(p)) \/ HandlerFails
      \/ Crash \/ UNCHANGED vars => told' = told
  BY DEF LoopActs, RefreshActs, TimePasses, HandlerFails, Crash, TickCrash, vars
<1>4. ASSUME NEW t \in Ticker, PassActs(t) PROVE [Feed!FeedNext]_(Feed!feedVars)
  <2>1. told' = told \/ \E sent \in BOOLEAN : TickTell(t, sent)
    BY <1>4 DEF PassActs, PassStep, TickFails, TickWake, TickSaved, TickStaged,
                TickGather, TickJudge, TickStage, TickSave
  <2>2. ASSUME NEW sent \in BOOLEAN, TickTell(t, sent)
        PROVE  [Feed!FeedNext]_(Feed!feedVars)
    <3>1. PICK about \in Messages(t) :
            told' = [p \in Posting |->
                       IF sent /\ p \in about THEN Again(told[p]) ELSE told[p]]
      BY <2>2 DEF TickTell
    <3> DEFINE S == IF sent THEN about ELSE {}
    <3>2. about \subseteq batch[t] /\ batch[t] \subseteq Posting
      BY DEF Messages, TypeInv, TypeOK, TickTypeOK
    <3>3. S \in SUBSET Posting /\ S \subseteq stored /\ \A p \in S : told[p] = 0
      BY <3>2 DEF AnnounceInv
    <3>4. told' = [p \in Posting |-> IF p \in S THEN 1 ELSE told[p]]
      BY <3>1, <3>3 DEF Again
    <3>5. stored' = stored
      BY <2>2 DEF TickTell, tables, Stored
    <3>6. Feed!Announce(S)
      BY <3>3, <3>4, <3>5 DEF Feed!Announce
    <3> QED BY <3>3, <3>6 DEF Feed!FeedNext
  <2> QED BY <1>2, <2>1, <2>2
<1> QED BY <1>2, <1>3, <1>4 DEF Next

(* JobPilot implements MatchFeed: announced after being stored, at most once, *)
(* and never forgotten, for any number of passes and postings.               *)
THEOREM ImplementsFeed == Spec => FeedRefined
<1>1. TypeInv /\ AnnounceInv /\ [Next]_vars => [Feed!FeedNext]_(Feed!feedVars)
  BY FeedStep
<1> QED
  BY TypeInvariant, AnnounceInvariant, FeedInitial, <1>1, PTL
     DEF Spec, FeedRefined, Feed!FeedSpec

-----------------------------------------------------------------------------
(* Applications.  The loop calls applied only what the description it logged  *)
(* covers, a pass only what some application covered when it looked; and     *)
(* every application on file was logged, or corrected, under its description. *)

Backed(p) == \E j \in logged : j = p \/ <<j, p>> \in Covers

LoopBacked ==
  /\ \A j \in Job : apps[j] > 0 => j \in logged
  /\ step = "match" => target \in logged
  /\ step = "mark" => \A p \in pending : Backed(p)
  /\ step = "mark" /\ handler # "manual" => Backed(target)

BackInv ==
  /\ AppliedIsBacked
  /\ LoopBacked
  /\ \A t \in Ticker : candidate[t] # NoCandidate /\ covered[t] => Backed(candidate[t])

LEMMA BackInitial == Init => BackInv
BY DEF Init, TablesInit, LoopInit, TickInit, BackInv, AppliedIsBacked, LoopBacked

LEMMA LoopBacks ==
  ASSUME TypeInv, BackInv, LoopStep
  PROVE  logged \subseteq logged' /\ LoopBacked'
<1> USE DEF LoopBacked, Backed, Begin, GoTo, Return, loopHistory
<1> DEFINE Goal == logged \subseteq logged' /\ LoopBacked'
<1>1. ASSUME AtOnce, apps' = apps PROVE Goal
  BY <1>1 DEF BackInv, AtOnce, loopVars
<1>2. ASSUME NEW p \in Posting
      PROVE  /\ FiledRead(p) => Goal
             /\ ApplyJobRead(p) \/ ReviewApplyRead(p) \/ PassRead(p) \/ SnoozeRead(p) => Goal
             /\ SaveLink(p) => Goal
             /\ MarkMatch(p) => Goal
             /\ DismissJob(p) \/ SnoozeJob(p) \/ ReviewSkip(p) \/ Stage(p) \/ Remove(p)
                \/ (\E s \in QueueStatus : MarkItem(p, s)) => AtOnce /\ apps' = apps
             /\ StageNext(p) \/ SeedNext(p) => Goal
  <2>1. FiledRead(p) => Goal
    BY DEF BackInv, AppliedIsBacked, FiledRead, tables
  <2>2. ApplyJobRead(p) \/ ReviewApplyRead(p) \/ PassRead(p) \/ SnoozeRead(p) => Goal
    BY DEF BackInv, ApplyJobRead, ReviewApplyRead, PassRead, SnoozeRead, tables
  <2>3. SaveLink(p) => Goal
    BY DEF BackInv, SaveLink, SavePosting
  <2>4. MarkMatch(p) => Goal
    BY DEF BackInv, MarkMatch, MarkPosting
  <2>5. DismissJob(p) \/ SnoozeJob(p) \/ ReviewSkip(p) \/ Stage(p) \/ Remove(p)
        \/ (\E s \in QueueStatus : MarkItem(p, s)) => AtOnce /\ apps' = apps
    BY DEF DismissJob, SnoozeJob, ReviewSkip, Stage, Remove, MarkItem, MarkPosting,
           SnoozePosting, StagePosting, UnstagePosting, MarkQueueItem
  <2>6. StageNext(p) \/ SeedNext(p) => Goal
    BY DEF BackInv, StageNext, SeedNext, StagePosting, SavePosting
  <2> QED BY <2>1, <2>2, <2>3, <2>4, <2>5, <2>6
<1>3. ASSUME NEW j \in Job
      PROVE  /\ LogByChat(j) => Goal
             /\ DeleteRow(j) => Goal
             /\ \A k \in Job : EditRow(j, k) => Goal
  <2>1. LogByChat(j) => Goal
    BY DEF BackInv, LogByChat, tables
  <2>2. DeleteRow(j) => Goal
    BY DEF BackInv, DeleteRow, DeleteApplication, AtOnce, loopVars, TypeInv, TypeOK, TablesTypeOK
  <2>3. ASSUME NEW k \in Job, EditRow(j, k) PROVE Goal
    BY <2>3 DEF BackInv, EditRow, EditApplication, loopVars, TypeInv, TypeOK, TablesTypeOK
  <2> QED BY <2>1, <2>2, <2>3
<1>4. ASSUME NEW S, QueueBulk(S) \/ Track(S) PROVE Goal
  BY <1>4 DEF BackInv, QueueBulk, Track, tables
<1>5. ASSUME Create PROVE Goal
  <2>1. target \in Job /\ apps' = [apps EXCEPT ![target] = @ + 1]
    BY <1>5 DEF Create, InsertApplication, TypeInv, CreatesForJob
  <2>2. \A j \in Job : apps'[j] > 0 => apps[j] > 0 \/ j = target
    BY <2>1 DEF TypeInv, TypeOK, TablesTypeOK
  <2> QED BY <1>5, <2>2 DEF BackInv, Create
<1>6. ASSUME Match PROVE Goal
  BY <1>6 DEF BackInv, Match, OpenMatches, tables
<1>7. ASSUME LogDone \/ MarkTarget \/ Submit PROVE Goal
  BY <1>7 DEF BackInv, LogDone, MarkTarget, Submit, MarkPosting, MarkQueueItem, tables
<1>8. ASSUME Unstage \/ PassDismiss \/ SnoozeSleep \/ SaveLinkStage PROVE Goal
  BY <1>8 DEF BackInv, Unstage, PassDismiss, SnoozeSleep, SaveLinkStage, UnstagePosting,
              MarkPosting, SnoozePosting, StagePosting
<1>9. DismissAll \/ JobsWake => AtOnce /\ apps' = apps
  BY DEF DismissAll, JobsWake, DismissAllQueued, WakeSnoozed
<1> QED
  BY <1>1, <1>2, <1>3, <1>4, <1>5, <1>6, <1>7, <1>8, <1>9 DEF LoopStep

(* No request and no pass touches the applications. *)
LEMMA ThreadsKeepApplications ==
  ASSUME TypeOK, RefreshStep \/ \E t \in Ticker : PassStep(t)
  PROVE  apps' = apps
<1>1. ASSUME RefreshStep PROVE apps' = apps
  BY <1>1 DEF RefreshStep, LinkDies, RefreshWake, RefreshList, RefreshKeep, RefreshClose,
              RefreshUnstage, RefreshDone, tables, WakeSnoozed, MarkPosting, UnstagePosting
<1>2. ASSUME NEW t \in Ticker, PassStep(t) PROVE apps' = apps
  BY <1>2 DEF PassStep, TickFails, TickWake, TickSaved, TickStaged, TickGather, TickJudge,
              TickStage, TickSave, TickTell, tables, WakeSnoozed, SavePosting, StagePosting
<1> QED BY <1>1, <1>2

LEMMA PassBacks ==
  ASSUME TypeInv, BackInv, logged' = logged, NEW t \in Ticker, PassStep(t)
  PROVE  \A u \in Ticker : candidate'[u] # NoCandidate /\ covered'[u] => Backed(candidate[u])'
<1> DEFINE Goal == \A u \in Ticker :
                     candidate'[u] # NoCandidate /\ covered'[u] => Backed(candidate[u])'
<1> USE DEF Backed, TypeInv, TypeOK, TickTypeOK
<1>1. ASSUME TickFails(t) \/ TickWake(t) \/ TickSaved(t) \/ TickStaged(t) PROVE Goal
  BY <1>1 DEF BackInv, TickFails, TickWake, TickSaved, TickStaged
<1>2. ASSUME NEW S, TickGather(t, S) PROVE Goal
  BY <1>2 DEF BackInv, TickGather
<1>3. ASSUME NEW p \in Posting, TickJudge(t, p) PROVE Goal
  <2>1. AlreadyApplied(p) => \E j \in logged : <<j, p>> \in Covers
    BY DEF AlreadyApplied, BackInv, LoopBacked
  <2>2. AlreadyApplied(p) \in BOOLEAN
    BY DEF AlreadyApplied
  <2>3. /\ candidate' = [candidate EXCEPT ![t] = p]
        /\ covered' = [covered EXCEPT ![t] = AlreadyApplied(p)]
    BY <1>3 DEF TickJudge
  <2>4. covered'[t] = AlreadyApplied(p)
    BY <2>2, <2>3, Zenon
  <2>5. \A u \in Ticker : u # t => covered'[u] = covered[u] /\ candidate'[u] = candidate[u]
    BY <2>3, Zenon
  <2> QED BY <2>1, <2>3, <2>4, <2>5 DEF BackInv
<1>4. ASSUME NEW p, TickStage(t, p) PROVE Goal
  BY <1>4 DEF BackInv, TickStage
<1>5. ASSUME NEW good, NEW best, TickSave(t, good, best) PROVE Goal
  BY <1>5 DEF BackInv, TickSave
<1>6. ASSUME NEW sent, TickTell(t, sent) PROVE Goal
  BY <1>6 DEF BackInv, TickTell
<1> QED BY <1>1, <1>2, <1>3, <1>4, <1>5, <1>6 DEF PassStep

LEMMA BackStep ==
  ASSUME TypeInv, BackInv, [Next]_vars
  PROVE  BackInv'
<1> USE DEF TypeInv
<1>1. CASE LoopActs
  <2>1. LoopApplies /\ logged \subseteq logged' /\ LoopBacked'
    BY <1>1, LoopTables, LoopBacks DEF LoopActs
  <2>2. AppliedIsBacked'
    BY <2>1 DEF LoopApplies, BackInv, LoopBacked, AppliedIsBacked, Backed
  <2>3. candidate' = candidate /\ covered' = covered
    BY <1>1 DEF LoopActs, tickVars
  <2> QED BY <2>1, <2>2, <2>3 DEF BackInv, Backed
<1>2. ASSUME NoneApplied, apps' = apps, UNCHANGED <<loopVars, loopHistory>>
      PROVE  AppliedIsBacked' /\ LoopBacked'
  BY <1>2 DEF NoneApplied, loopVars, loopHistory, BackInv, LoopBacked, AppliedIsBacked, Backed
<1>3. ASSUME RefreshActs \/ (\E p \in Posting : TimePasses(p)) \/ UNCHANGED vars
      PROVE  BackInv'
  <2>1. NoneApplied /\ apps' = apps /\ UNCHANGED <<loopVars, loopHistory>>
    <3>1. ASSUME RefreshActs PROVE NoneApplied /\ apps' = apps
      BY <3>1, RefreshTables, ThreadsKeepApplications DEF RefreshActs
    <3>2. ASSUME NEW p \in Posting, TimePasses(p) PROVE NoneApplied /\ apps' = apps
      BY <3>2, SnoozeExpiresOrderly DEF TimePasses, SnoozeExpires, TypeOK
    <3>3. ASSUME UNCHANGED vars PROVE NoneApplied /\ apps' = apps
      BY <3>3, IdleOrderly DEF vars, tables, TypeOK
    <3> QED BY <1>3, <3>1, <3>2, <3>3 DEF RefreshActs, TimePasses, vars
  <2>2. candidate' = candidate /\ covered' = covered /\ logged' = logged
    BY <1>3 DEF RefreshActs, TimePasses, vars, tickVars, loopHistory
  <2> QED BY <1>2, <2>1, <2>2 DEF BackInv, Backed
<1>4. ASSUME NEW t \in Ticker, PassActs(t) PROVE BackInv'
  <2>1. PassStep(t) /\ UNCHANGED <<loopVars, loopHistory>>
    BY <1>4 DEF PassActs
  <2>2. PassApplies(t) /\ apps' = apps
    BY <2>1, PassTables, ThreadsKeepApplications
  <2>3. AppliedIsBacked'
    BY <2>1, <2>2, TickAssumption
       DEF loopHistory, PassApplies, BackInv, AppliedIsBacked, Backed
  <2>4. LoopBacked'
    BY <2>1, <2>2 DEF loopVars, loopHistory, BackInv, LoopBacked, Backed
  <2>5. logged' = logged
    BY <2>1 DEF loopHistory
  <2> QED BY <2>1, <2>3, <2>4, <2>5, PassBacks DEF BackInv
<1>5. ASSUME HandlerFails \/ Crash PROVE BackInv'
  <2>1. NoneApplied /\ apps' = apps
    BY <1>5, IdleOrderly DEF HandlerFails, Crash, tables, TypeOK
  <2>2. /\ logged' = logged /\ step' = "idle"
        /\ \/ candidate' = candidate /\ covered' = covered
           \/ \A t \in Ticker : candidate'[t] = NoCandidate
    BY <1>5 DEF HandlerFails, Crash, LoopStops, TickCrash, Return, loopHistory, tickVars
  <2> QED
    BY <2>1, <2>2 DEF NoneApplied, BackInv, LoopBacked, AppliedIsBacked, Backed
<1> QED BY <1>1, <1>3, <1>4, <1>5 DEF Next

LEMMA BackInvariant == Spec => []BackInv
<1>1. TypeInv /\ BackInv /\ [Next]_vars => BackInv'
  BY BackStep
<1> QED BY TypeInvariant, BackInitial, <1>1, PTL DEF Spec

(* No posting is called applied unless an application that covers it was      *)
(* logged, for any descriptions and any matching relation between them.      *)
THEOREM AppliedNeedsApplication == Spec => []AppliedIsBacked
<1>1. BackInv => AppliedIsBacked
  BY DEF BackInv
<1> QED BY BackInvariant, <1>1, PTL

-----------------------------------------------------------------------------
(* The Filed button.  While a filing is on its way to the mark, or once the   *)
(* posting carries the mark, the next Filed sees it or waits for the loop; so *)
(* the invariant says where an unlost filing is recorded.                    *)

FilingInProgress(p) == handler = "filed" /\ target = p /\ step \in {"match", "mark"}

FiledInv ==
  /\ \A p \in Posting :
       filed[p] > 0 /\ p \notin lost => status[p] = "applied" \/ FilingInProgress(p)
  /\ handler = "filed" /\ step = "create" /\ target \notin lost => filed[target] = 0
  /\ handler = "filed" /\ step # "idle" => target \in Posting /\ Stored(target)
  /\ FiledAgainOnlyIfLost

LEMMA FiledInitial == Init => FiledInv
BY DEF Init, LoopInit, FiledInv, FiledAgainOnlyIfLost

(* What keeps the mark or records its loss keeps the invariant, as long as    *)
(* the loop does not move.                                                  *)
LEMMA UnfiledStep ==
  ASSUME FiledInv, TypeInv, Orderly, filed' = filed, lost' = lost \cup Unmarked,
         \/ handler' = handler /\ step' = step /\ target' = target
         \/ handler' # "filed" /\ (handler # "filed" \/ step = "idle")
  PROVE  FiledInv'
BY DEF FiledInv, Orderly, Unmarked, FilingInProgress, FiledAgainOnlyIfLost,
       TypeInv, TypeOK, LoopTypeOK

LEMMA LoopFiles ==
  ASSUME TypeInv, FiledInv, Orderly, LoopStep, lost' = lost \cup Unmarked
  PROVE  FiledInv'
<1> USE DEF Begin, GoTo, Return, loopHistory
<1>1. ASSUME filed' = filed,
             \/ handler' = handler /\ step' = step /\ target' = target
             \/ handler' # "filed" /\ (handler # "filed" \/ step = "idle")
      PROVE  FiledInv'
  BY <1>1, UnfiledStep
<1>2. ASSUME NEW p \in Posting
      PROVE  /\ FiledRead(p) => FiledInv'
             /\ ApplyJobRead(p) \/ ReviewApplyRead(p) \/ PassRead(p) \/ SnoozeRead(p)
                \/ SaveLink(p) => FiledInv'
             /\ MarkMatch(p) \/ DismissJob(p) \/ SnoozeJob(p) \/ ReviewSkip(p)
                \/ Stage(p) \/ Remove(p) \/ (\E s \in QueueStatus : MarkItem(p, s))
                => FiledInv'
             /\ StageNext(p) \/ SeedNext(p) => FiledInv'
  <2>1. ASSUME FiledRead(p) PROVE FiledInv'
    <3>1. /\ step = "idle" /\ Stored(p) /\ tables' = tables
          /\ handler' = "filed" /\ target' = p /\ filed' = filed
          /\ step' = IF status[p] = "applied" THEN "mark" ELSE "create"
      BY <2>1 DEF FiledRead
    <3>2. lost' = lost /\ status' = status
      BY <3>1 DEF Unmarked, tables
    <3>3. status[p] # "applied" /\ p \notin lost => filed[p] = 0
      BY <3>1 DEF FiledInv, FilingInProgress, TypeInv, TypeOK, LoopTypeOK, Often
    <3> QED
      BY <3>1, <3>2, <3>3 DEF FiledInv, FilingInProgress, FiledAgainOnlyIfLost, Stored
  <2>2. ApplyJobRead(p) \/ ReviewApplyRead(p) \/ PassRead(p) \/ SnoozeRead(p)
        \/ SaveLink(p) => FiledInv'
    BY <1>1 DEF ApplyJobRead, ReviewApplyRead, PassRead, SnoozeRead, SaveLink
  <2>3. MarkMatch(p) \/ DismissJob(p) \/ SnoozeJob(p) \/ ReviewSkip(p)
        \/ Stage(p) \/ Remove(p) \/ (\E s \in QueueStatus : MarkItem(p, s)) => FiledInv'
    BY <1>1 DEF MarkMatch, DismissJob, SnoozeJob, ReviewSkip, Stage, Remove, MarkItem,
                AtOnce, loopVars
  <2>4. ASSUME StageNext(p) \/ SeedNext(p) PROVE FiledInv'
    <3>1. CASE handler' = handler /\ step' = step /\ target' = target
      BY <2>4, <3>1, <1>1 DEF StageNext, SeedNext
    <3>2. CASE ~(handler' = handler /\ step' = step /\ target' = target)
      <4>1. /\ step \in {"stage_all", "seed_all"} /\ filed' = filed
            /\ handler' = "none" /\ step' = "idle"
        BY <2>4, <3>2 DEF StageNext, SeedNext
      <4> QED
        BY <4>1 DEF FiledInv, FilingInProgress, FiledAgainOnlyIfLost, Unmarked
    <3> QED BY <3>1, <3>2
  <2> QED BY <2>1, <2>2, <2>3, <2>4
<1>3. ASSUME NEW j \in Job
      PROVE  LogByChat(j) \/ DeleteRow(j) \/ (\E k \in Job : EditRow(j, k)) => FiledInv'
  BY <1>1 DEF LogByChat, DeleteRow, EditRow, AtOnce, loopVars
<1>4. ASSUME NEW S, QueueBulk(S) \/ Track(S) PROVE FiledInv'
  BY <1>4, <1>1 DEF QueueBulk, Track
<1>5. ASSUME Create PROVE FiledInv'
  <2>1. CASE handler = "filed"
    <3>1. /\ step = "create" /\ step' = "match" /\ handler' = handler /\ target' = target
          /\ filed' = [filed EXCEPT ![target] = Again(@)] /\ status' = status
      BY <1>5, <2>1 DEF Create, InsertApplication
    <3>2. lost' = lost
      BY <3>1 DEF Unmarked
    <3>3. Again(0) = 1
      BY DEF Again
    <3>4. target \in Posting /\ Stored(target) /\ (target \notin lost => filed[target] = 0)
      BY <2>1, <3>1 DEF FiledInv
    <3>5. filed'[target] = Again(filed[target]) /\ filed \in [Posting -> Often]
      BY <3>1, <3>4 DEF TypeInv, TypeOK, LoopTypeOK
    <3> QED
      BY <2>1, <3>1, <3>2, <3>3, <3>4, <3>5
         DEF FiledInv, FilingInProgress, FiledAgainOnlyIfLost, Stored
  <2>2. CASE handler # "filed"
    BY <1>5, <2>2, <1>1 DEF Create
  <2> QED BY <2>1, <2>2
<1>6. ASSUME Match PROVE FiledInv'
  <2>1. /\ step = "match" /\ step' = "mark" /\ handler' = handler /\ target' = target
        /\ filed' = filed /\ status' = status
    BY <1>6 DEF Match, tables
  <2> QED
    BY <2>1 DEF FiledInv, FilingInProgress, FiledAgainOnlyIfLost, Stored, Unmarked
<1>7. ASSUME MarkTarget PROVE FiledInv'
  <2>1. CASE handler = "filed"
    <3>1. /\ step = "mark" /\ step' = "submit" /\ handler' = handler /\ target' = target
          /\ filed' = filed /\ MarkPosting(target, "applied")
      BY <1>7, <2>1 DEF MarkTarget
    <3>2. target \in Posting /\ Stored(target)
      BY <2>1, <3>1 DEF FiledInv
    <3>3. status'[target] = "applied" /\ Stored(target)'
      BY <3>1, <3>2 DEF MarkPosting, Stored, TypeInv, TypeOK, TablesTypeOK
    <3>4. \A p \in Posting : status[p] = "applied" => status'[p] = "applied"
      BY <3>1 DEF MarkPosting, TypeInv, TypeOK, TablesTypeOK
    <3> QED
      BY <2>1, <3>1, <3>2, <3>3, <3>4
         DEF FiledInv, FilingInProgress, FiledAgainOnlyIfLost, Unmarked
  <2>2. CASE handler # "filed"
    BY <1>7, <2>2, <1>1 DEF MarkTarget
  <2> QED BY <2>1, <2>2
<1>8. ASSUME LogDone \/ Submit \/ PassDismiss \/ SnoozeSleep \/ SaveLinkStage PROVE FiledInv'
  <2>1. /\ step # "idle" /\ step' = "idle" /\ handler' = "none" /\ filed' = filed
        /\ handler = "filed" => step \notin {"match", "mark"}
    BY <1>8 DEF LogDone, Submit, PassDismiss, SnoozeSleep, SaveLinkStage
  <2> QED
    BY <2>1 DEF FiledInv, FilingInProgress, FiledAgainOnlyIfLost, Unmarked
<1>9. ASSUME Unstage PROVE FiledInv'
  <2>1. /\ step = "unstage" /\ step' \in {"dismiss", "sleep"} /\ handler' = handler
        /\ target' = target /\ filed' = filed /\ status' = status
    BY <1>9 DEF Unstage, UnstagePosting
  <2> QED
    BY <2>1 DEF FiledInv, FilingInProgress, FiledAgainOnlyIfLost, Unmarked, Stored
<1>10. DismissAll \/ JobsWake => FiledInv'
  BY <1>1 DEF DismissAll, JobsWake, AtOnce, loopVars
<1> QED
  BY <1>2, <1>3, <1>4, <1>5, <1>6, <1>7, <1>8, <1>9, <1>10 DEF LoopStep

LEMMA FiledStep ==
  ASSUME TypeInv, FiledInv, [Next]_vars
  PROVE  FiledInv'
<1>1. Orderly
  BY TypeStep
<1>2. CASE LoopActs
  BY <1>1, <1>2, LoopFiles DEF LoopActs
<1>3. ASSUME RefreshActs \/ \E t \in Ticker : PassActs(t) PROVE FiledInv'
  BY <1>1, <1>3, UnfiledStep DEF RefreshActs, PassActs, loopVars, loopHistory
<1>4. ASSUME (\E p \in Posting : TimePasses(p)) \/ UNCHANGED vars PROVE FiledInv'
  <2>1. lost' = lost /\ Unmarked = {} /\ UNCHANGED <<loopVars, loopHistory>>
    BY <1>4 DEF TimePasses, SnoozeExpires, vars, tables, Unmarked
  <2>2. lost' = lost \cup Unmarked
    BY <2>1
  <2> QED BY <1>1, <2>1, <2>2, UnfiledStep DEF loopVars, loopHistory
<1>5. ASSUME HandlerFails \/ Crash PROVE FiledInv'
  <2>1. /\ handler' = "none" /\ step' = "idle" /\ filed' = filed /\ status' = status
        /\ lost' = lost \cup HalfFiled
    BY <1>5 DEF HandlerFails, Crash, LoopStops, Return, loopHistory, tables
  <2> QED
    BY <2>1 DEF FiledInv, FilingInProgress, FiledAgainOnlyIfLost, HalfFiled
<1> QED BY <1>2, <1>3, <1>4, <1>5 DEF Next

LEMMA FiledInvariant == Spec => []FiledInv
<1>1. TypeInv /\ FiledInv /\ [Next]_vars => FiledInv'
  BY FiledStep
<1> QED BY TypeInvariant, FiledInitial, <1>1, PTL DEF Spec

(* Filed twice, logged once, unless the mark was lost to another thread, to   *)
(* the user or to a failure.                                                  *)
THEOREM FiledTwiceOnlyIfLost == Spec => []FiledAgainOnlyIfLost
<1>1. FiledInv => FiledAgainOnlyIfLost
  BY DEF FiledInv
<1> QED BY FiledInvariant, <1>1, PTL
=============================================================================
