------------------------------ MODULE Timeline ------------------------------
(***************************************************************************)
(* One user's applications, their event timeline and the single undo row    *)
(* (app/store.py), changed by chat (app/engine.py), which records how to     *)
(* undo what it did, and by the phone (app/main.py), which does not.         *)
(*                                                                         *)
(* All of it runs on the event loop, one handler at a time, but a chat       *)
(* handler is several transactions: the change itself, the undo row, and for *)
(* "undo" one for each thing put back.  A handler that raises, or a process  *)
(* that dies, leaves those that committed.                                  *)
(*                                                                         *)
(* Event ids and timestamps both come from "clock": ids are AUTOINCREMENT    *)
(* and no two changes share a moment.  What each application is a record of  *)
(* (company, role, applied_at) is one value of Detail.  Which application a   *)
(* message names is left open.                                              *)
(***************************************************************************)
EXTENDS Naturals, FiniteSets

CONSTANTS App,      \* application ids, never reused (AUTOINCREMENT)
          Stage,    \* CANONICAL_STATUSES and free text
          Closed,   \* _TERMINAL
          Applied,  \* the stage of a new application
          Detail,   \* company, role and applied_at
          MaxTime   \* bound: changes

ASSUME TimelineAssumption ==
  /\ Closed \subseteq Stage
  /\ Applied \in Stage \ Closed
  /\ Detail # {}
  /\ MaxTime \in Nat

VARIABLES app,     \* applications: a function on the rows there are
          used,    \* ids given out so far
          events,  \* application_events of type status, note and edit
          clock,
          undo,    \* undo_log: the row, or NoUndo
          step,    \* what the running chat handler does next, or "idle"
          work,    \* what it will record, or is undoing
          left,    \* applications it has still to change, or to put back
          half,    \* applications half put back
          goal,    \* the stage and detail it sets
          born,    \* history: the stage an application was created with
          overruled, \* history: applications an undo put back to a stage older
                   \* than the last their timeline had
          torn     \* history: events an undo cut half-way left behind

appTables == <<app, used, events, clock, born>>
handler == <<step, work, left, half, goal>>
history == <<overruled, torn>>
timelineVars == <<appTables, undo, handler, history>>

Time == 0..MaxTime
Row == [status : Stage, detail : Detail, updated : Time, nudge : Time]
Event == [id : Time, app : App, type : {"status", "note", "edit"},
          stage : Stage, by : {"chat", "phone"}]
Change == [app : App, before : Row, event : Time]
Kind == {"apply", "status", "note", "edit", "delete"}
Undo == [kind : Kind, changes : SUBSET Change]
NoUndo == [kind |-> "none", changes |-> {}]

Live == DOMAIN app

TypeOK ==
  /\ used \subseteq App /\ Live \subseteq used
  /\ app \in [Live -> Row]
  /\ events \subseteq Event
  /\ clock \in Time
  /\ undo \in Undo \cup {NoUndo}
  /\ step \in {"idle", "change", "record", "undo"}
  /\ work \in Undo \cup {NoUndo}
  /\ left \subseteq App /\ half \subseteq App
  /\ goal \in [stage : Stage, detail : Detail]
  /\ born \in [App -> Stage]
  /\ overruled \subseteq App /\ torn \subseteq Time

AnyGoal == [stage |-> Applied, detail |-> CHOOSE d \in Detail : TRUE]

Init ==
  /\ app = [a \in {} |-> AnyGoal] /\ used = {} /\ events = {} /\ clock = 0
  /\ undo = NoUndo
  /\ step = "idle" /\ work = NoUndo /\ left = {} /\ half = {} /\ goal = AnyGoal
  /\ born = [a \in App |-> Applied]
  /\ overruled = {} /\ torn = {}

-----------------------------------------------------------------------------
(* Transactions of app/store.py.  Each change takes the next moment.        *)

Now == clock + 1

Tick == clock < MaxTime /\ clock' = Now

(* _next_followup: 0 stands for NULL, t for "some days after t". *)
Nudge(s, t) == IF s \in Closed THEN 0 ELSE t

NewRow(s, d) == [status |-> s, detail |-> d, updated |-> Now, nudge |-> Nudge(s, Now)]

(* Mutated form of CreateApplication: no AUTOINCREMENT, so an id comes back.  *)
CreateApplicationReusing(a, s, d) ==
  /\ a \notin Live /\ Tick
  /\ app' = [b \in Live \cup {a} |-> IF b = a THEN NewRow(s, d) ELSE app[b]]
  /\ born' = [born EXCEPT ![a] = s]
  /\ UNCHANGED <<used, events>>

CreateApplication(a, s, d) ==
  /\ a \notin used /\ Tick
  /\ app' = [b \in Live \cup {a} |-> IF b = a THEN NewRow(s, d) ELSE app[b]]
  /\ used' = used \cup {a}
  /\ born' = [born EXCEPT ![a] = s]
  /\ UNCHANGED events

Record(a, type, s, by) ==
  events' = events \cup {[id |-> Now, app |-> a, type |-> type, stage |-> s, by |-> by]}

UpdateStatus(a, s, by) ==
  /\ a \in Live /\ Tick
  /\ app' = [app EXCEPT ![a].status = s, ![a].updated = Now, ![a].nudge = Nudge(s, Now)]
  /\ Record(a, "status", s, by)
  /\ UNCHANGED <<used, born>>

AddNote(a) ==
  /\ a \in Live /\ Tick
  /\ app' = [app EXCEPT ![a].updated = Now, ![a].nudge = Nudge(app[a].status, Now)]
  /\ Record(a, "note", app[a].status, "chat")
  /\ UNCHANGED <<used, born>>

EditDetail(a, d, by) ==
  /\ a \in Live /\ Tick
  /\ app' = [app EXCEPT ![a].detail = d, ![a].updated = Now]
  /\ Record(a, "edit", app[a].status, by)
  /\ UNCHANGED <<used, born>>

(* Events go with their application (ON DELETE CASCADE). *)
DeleteRow(a) ==
  /\ app' = [b \in Live \ {a} |-> app[b]]
  /\ events' = {e \in events : e.app # a}
  /\ UNCHANGED <<used, clock, born>>

(* The columns each kind of undo passes to restore_application, which can     *)
(* not write next_follow_up_at (_RESTORABLE).                               *)
PutBack(row, kind, before) ==
  [row EXCEPT !.updated = before.updated,
              !.status = IF kind = "status" THEN before.status ELSE row.status,
              !.detail = IF kind = "edit" THEN before.detail ELSE row.detail]

(* restore_application: an UPDATE by id; a row deleted since stays deleted.  *)
RestoreRow(kind, c) ==
  /\ app' = [a \in Live |-> IF a = c.app THEN PutBack(app[a], kind, c.before) ELSE app[a]]
  /\ UNCHANGED <<used, events, clock, born>>

(* Mutated form of DropEvent: the event is not found. *)
DropNothing(c) == UNCHANGED appTables

DropEvent(c) ==
  /\ events' = {e \in events : e.id # c.event}
  /\ UNCHANGED <<app, used, clock, born>>

(* Mutated form of LastEvent: the first event of the type, not the last. *)
FirstEvent(a, type) ==
  LET ids == {e.id : e \in {f \in events : f.app = a /\ f.type = type}}
  IN CHOOSE i \in ids \cup {0} : ids = {} \/ (i \in ids /\ \A j \in ids : i <= j)

(* last_event_id: ORDER BY id DESC LIMIT 1; 0 stands for None. *)
LastEvent(a, type) ==
  LET ids == {e.id : e \in {f \in events : f.app = a /\ f.type = type}}
  IN CHOOSE i \in ids \cup {0} : ids = {} \/ (i \in ids /\ \A j \in ids : j <= i)

-----------------------------------------------------------------------------
(* Chat: the change, then the undo row.                                     *)

Idle == step = "idle"

(* The bound: a handler starts while there is time for its changes. *)
Begin(s, kind, S, g) ==
  /\ Idle
  /\ kind = "delete" \/ clock + Cardinality(S) <= MaxTime
  /\ step' = s /\ work' = [kind |-> kind, changes |-> {}] /\ left' = S
  /\ half' = {} /\ goal' = g
  /\ UNCHANGED <<appTables, undo, history>>

Return ==
  /\ step' = "idle" /\ work' = NoUndo /\ left' = {} /\ half' = {} /\ goal' = AnyGoal

Goal(s, d) == [stage |-> s, detail |-> d]

(* _do_apply, _do_apply_job, and _do_update of a job not on file. *)
ChatApply(a, s, d) ==
  /\ a \notin used
  /\ Begin("change", "apply", {a}, Goal(s, d))

(* _do_update, _do_note, _apply_edit and _do_delete: the application named. *)
ChatUpdate(a, s) == a \in Live /\ Begin("change", "status", {a}, [AnyGoal EXCEPT !.stage = s])
ChatNote(a) == a \in Live /\ Begin("change", "note", {a}, AnyGoal)
ChatEdit(a, d) == a \in Live /\ Begin("change", "edit", {a}, [AnyGoal EXCEPT !.detail = d])
ChatDelete(a) == a \in Live /\ Begin("change", "delete", {a}, AnyGoal)

(* _bulk_matches: open applications at a stage, or at any, untouched since a  *)
(* moment.  They are matched when the user says yes: there may be none left. *)
BulkMatches(from, cutoff) ==
  {a \in Live : app[a].status \in from \ Closed /\ app[a].updated <= cutoff}

ChatBulk(from, cutoff, s) ==
  LET S == BulkMatches(from, cutoff)
  IN Begin(IF S = {} THEN "record" ELSE "change", "status", S, [AnyGoal EXCEPT !.stage = s])

Filter == {Stage} \cup {{s} : s \in Stage}

Perform(a) ==
  \/ work.kind = "apply" /\ CreateApplication(a, goal.stage, goal.detail)
  \/ work.kind = "status" /\ UpdateStatus(a, goal.stage, "chat")
  \/ work.kind = "note" /\ AddNote(a)
  \/ work.kind = "edit" /\ EditDetail(a, goal.detail, "chat")
  \/ work.kind = "delete" /\ DeleteRow(a)

(* What the undo row will say of a change; its event is looked up later.     *)
Snapshot(a) ==
  [app |-> a, event |-> 0,
   before |-> IF a \in Live THEN app[a]
              ELSE [status |-> goal.stage, detail |-> goal.detail,
                    updated |-> 0, nudge |-> 0]]

MakeChange(a) ==
  /\ step = "change" /\ a \in left
  /\ Perform(a)
  /\ work' = [work EXCEPT !.changes = @ \cup {Snapshot(a)}]
  /\ left' = left \ {a}
  /\ step' = IF left = {a} THEN "record" ELSE "change"
  /\ UNCHANGED <<undo, half, goal, history>>

(* record_undo overwrites the user's row. *)
RecordUndo ==
  /\ step = "record"
  /\ undo' = [work EXCEPT !.changes =
                {[c EXCEPT !.event = LastEvent(c.app, work.kind)] : c \in @}]
  /\ Return
  /\ UNCHANGED <<appTables, history>>

-----------------------------------------------------------------------------
(* _do_undo.                                                                *)

UndoNothing == Idle /\ undo = NoUndo /\ UNCHANGED timelineVars

(* A tombstone is only cleared. *)
UndoTombstone ==
  /\ Idle /\ undo.kind = "delete"
  /\ undo' = NoUndo
  /\ UNCHANGED <<appTables, handler, history>>

UndoRead ==
  /\ undo.kind \in Kind \ {"delete"}
  /\ Idle
  /\ step' = "undo" /\ work' = undo /\ left' = {c.app : c \in undo.changes}
  /\ UNCHANGED <<appTables, undo, half, goal, history>>

UndoApply(a) ==
  /\ step = "undo" /\ work.kind = "apply" /\ a \in left
  /\ DeleteRow(a)
  /\ left' = left \ {a}
  /\ UNCHANGED <<undo, step, work, half, goal, history>>

(* A status event came after the one with id i. *)
Newer(a, i) == \E e \in events : e.app = a /\ e.type = "status" /\ e.id > i

Overrules(c) ==
  /\ work.kind = "status" /\ c.app \in Live
  /\ Newer(c.app, c.event) /\ app[c.app].status # c.before.status

(* A note's event is dropped before the row is restored, the others' after. *)
PutBackFirst(c) ==
  /\ step = "undo" /\ work.kind # "apply"
  /\ c \in work.changes /\ c.app \in left /\ half = {}
  /\ IF work.kind = "note" THEN DropEvent(c) ELSE RestoreRow(work.kind, c)
  /\ left' = left \ {c.app} /\ half' = {c.app}
  /\ overruled' = IF Overrules(c) THEN overruled \cup {c.app} ELSE overruled
  /\ UNCHANGED <<undo, step, work, goal, torn>>

PutBackSecond(c) ==
  /\ step = "undo" /\ c \in work.changes /\ c.app \in half
  /\ IF work.kind = "note" THEN RestoreRow(work.kind, c) ELSE DropEvent(c)
  /\ half' = {}
  /\ UNCHANGED <<undo, step, work, left, goal, history>>

UndoDone ==
  /\ step = "undo" /\ left = {} /\ half = {}
  /\ undo' = NoUndo
  /\ Return
  /\ UNCHANGED <<appTables, history>>

-----------------------------------------------------------------------------
(* The phone, and an application logged by the Apply tab or in a review:    *)
(* none of them touches the undo row.                                      *)

PhoneFile(a, d) ==
  /\ Idle /\ CreateApplication(a, Applied, d)
  /\ UNCHANGED <<undo, handler, history>>

PhoneStatus(a, s) ==
  /\ Idle /\ UpdateStatus(a, s, "phone")
  /\ UNCHANGED <<undo, handler, history>>

PhoneEdit(a, d) ==
  /\ Idle /\ EditDetail(a, d, "phone")
  /\ UNCHANGED <<undo, handler, history>>

PhoneDelete(a) ==
  /\ Idle /\ a \in Live /\ DeleteRow(a)
  /\ UNCHANGED <<undo, handler, history>>

(* A handler raises, or the process dies. *)
Stop ==
  /\ ~Idle
  /\ Return
  /\ torn' = torn \cup {c.event : c \in {d \in work.changes : d.app \in half}}
  /\ UNCHANGED <<appTables, undo, overruled>>

-----------------------------------------------------------------------------
ChatStep ==
  \/ \E a \in App, s \in Stage, d \in Detail : ChatApply(a, s, d)
  \/ \E a \in App, s \in Stage : ChatUpdate(a, s)
  \/ \E a \in App, d \in Detail : ChatEdit(a, d)
  \/ \E a \in App : ChatNote(a) \/ ChatDelete(a) \/ MakeChange(a) \/ UndoApply(a)
  \/ \E from \in Filter, cutoff \in Time, s \in Stage : ChatBulk(from, cutoff, s)
  \/ \E c \in work.changes : PutBackFirst(c) \/ PutBackSecond(c)
  \/ RecordUndo \/ UndoNothing \/ UndoTombstone \/ UndoRead \/ UndoDone

PhoneStep ==
  \/ \E a \in App, s \in Stage : PhoneStatus(a, s)
  \/ \E a \in App, d \in Detail : PhoneFile(a, d) \/ PhoneEdit(a, d)
  \/ \E a \in App : PhoneDelete(a)

Next == ChatStep \/ PhoneStep \/ Stop

Spec == Init /\ [][Next]_timelineVars

-----------------------------------------------------------------------------
StatusEvents(a) == {e \in events : e.app = a /\ e.type = "status"}

(* The event a's timeline ends with, if any. *)
IsLast(e) == \A f \in StatusEvents(e.app) : f.id <= e.id

Told(a) ==
  IF StatusEvents(a) = {} THEN app[a].status = born[a]
  ELSE \E e \in StatusEvents(a) : IsLast(e) /\ app[a].status = e.stage

(* store.restore_application: "the timeline reads as if nothing happened".    *)
(* An application stands at the stage its timeline ends with, through every   *)
(* change, bulk change and undo, except while its stage is being put back,   *)
(* while the timeline ends with an event that an undo cut half-way has still  *)
(* to erase, and after an undo that put back a stage older than the phone's. *)
StatusFollowsTimeline ==
  \A a \in Live \ overruled :
    \/ Told(a)
    \/ work.kind = "status" /\ a \in half
    \/ \E e \in StatusEvents(a) : IsLast(e) /\ e.id \in torn

(* An undo erases the event its own action wrote and no other: what the       *)
(* phone wrote goes only with its application.                              *)
PhoneEventsStay ==
  [][\A e \in events \ events' : e.by = "phone" => e.app \notin Live']_timelineVars
=============================================================================
