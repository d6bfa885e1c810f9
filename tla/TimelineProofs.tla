--------------------------- MODULE TimelineProofs ---------------------------
(***************************************************************************)
(* Proofs about Timeline: its types, that an undo erases no event the phone   *)
(* wrote, and that an application stands at the stage its timeline ends with. *)
(*                                                                         *)
(* What one handler finds by last_event_id is the event it has just written, *)
(* since no other handler ran in between; the undo row keeps its id, and ids  *)
(* are never given out again.  The stage the row would put back is the one    *)
(* the timeline told before that event, and nothing written or erased since   *)
(* changes what came before it.                                            *)
(***************************************************************************)
EXTENDS Timeline, TLAPS

USE TimelineAssumption DEF Time

TablesOK ==
  /\ used \subseteq App /\ Live \subseteq used
  /\ app \in [Live -> Row]
  /\ events \subseteq Event
  /\ clock \in Time
  /\ born \in [App -> Stage]

HandlerOK ==
  /\ undo \in Undo \cup {NoUndo}
  /\ step \in {"idle", "change", "record", "undo"}
  /\ work \in Undo \cup {NoUndo}
  /\ left \subseteq App /\ half \subseteq App
  /\ goal \in [stage : Stage, detail : Detail]

HistoryOK == overruled \subseteq App /\ torn \subseteq Time

(* Ids come from the clock, and no two events share one. *)
Ids ==
  /\ \A e \in events : 0 < e.id /\ e.id <= clock
  /\ \A e, f \in events : e.id = f.id => e = f

(* The events an undo row names are of the past, and chat wrote them. *)
Own(u) ==
  \A c \in u.changes :
    c.event <= clock /\ \A e \in events : e.id = c.event => e.by = "chat"

Evented == {"status", "note", "edit"}

(* The last event of a type an application has is chat's. *)
LastIsChats(a, type) ==
  \E e \in events :
    /\ e.app = a /\ e.type = type /\ e.by = "chat"
    /\ \A f \in events : f.app = a /\ f.type = type => f.id <= e.id

(* What the running handler changed so far ends its timeline. *)
Written ==
  step \in {"change", "record"} /\ work.kind \in Evented =>
    \A c \in work.changes : LastIsChats(c.app, work.kind)

IInv ==
  /\ TablesOK /\ HandlerOK /\ HistoryOK
  /\ Ids /\ Own(undo) /\ Own(work) /\ Written

(* What every transaction does to the tables: types are kept, the clock does  *)
(* not go back, an event that was not there has an id of its own.            *)
Orderly ==
  /\ TablesOK' /\ Ids'
  /\ clock <= clock'
  /\ \A e \in events' : e \in events \/ e.id > clock

-----------------------------------------------------------------------------
(* The transactions of app/store.py. *)

(* A new row keeps the types, and no event is written or lost. *)
LEMMA CreateOrderly ==
  ASSUME TablesOK, Ids, NEW a \in App, NEW s \in Stage, NEW d \in Detail,
         CreateApplication(a, s, d)
  PROVE  Orderly /\ events' = events
<1>1. NewRow(s, d) \in Row
  BY DEF NewRow, Nudge, Row, Tick, Now, TablesOK, CreateApplication
<1>2. app' \in [Live' -> Row] /\ Live' = Live \cup {a}
  BY <1>1 DEF CreateApplication, TablesOK, Live
<1>3. TablesOK'
  BY <1>2 DEF CreateApplication, TablesOK, Tick, Now
<1> QED BY <1>3 DEF CreateApplication, Orderly, Ids, Tick, Now, TablesOK, Event

(* A recorded event is new and is its type's last for its application. *)
LEMMA RecordOrderly ==
  ASSUME TablesOK, Ids, NEW a \in App, NEW type \in Evented, NEW s \in Stage,
         NEW by \in {"chat", "phone"}, Tick, Record(a, type, s, by)
  PROVE  /\ events' \subseteq Event /\ Ids'
         /\ clock <= clock' /\ clock' \in Time
         /\ events \subseteq events'
         /\ \A e \in events' : e \in events \/ e.id > clock
         /\ by = "chat" => LastIsChats(a, type)'
         /\ \A b \in App, t \in Evented : b # a /\ LastIsChats(b, t) => LastIsChats(b, t)'
<1> DEFINE n == [id |-> Now, app |-> a, type |-> type, stage |-> s, by |-> by]
<1>1. n \in Event /\ n.id = clock + 1 /\ clock' = clock + 1 /\ clock \in Nat
  BY DEF Event, Evented, Tick, Now, TablesOK
<1>2. events' = events \cup {n}
  BY DEF Record
<1>3. events' \subseteq Event
  BY <1>1, <1>2 DEF TablesOK
<1>4. \A e \in events : e.id \in Nat /\ 0 < e.id /\ e.id <= clock
  BY DEF TablesOK, Event, Ids
<1>5. Ids'
  BY <1>1, <1>2, <1>4 DEF Ids
<1>6. clock <= clock' /\ clock' \in Time
  BY <1>1 DEF Tick, Now
<1>7. \A e \in events' : e \in events \/ e.id > clock
  BY <1>1, <1>2
<1>8. by = "chat" => LastIsChats(a, type)'
  <2> SUFFICES ASSUME by = "chat" PROVE LastIsChats(a, type)'
    OBVIOUS
  <2>1. n.app = a /\ n.type = type /\ n.by = "chat" /\ n \in events'
    BY <1>2
  <2>2. \A f \in events' : f.id <= n.id
    BY <1>1, <1>2, <1>4
  <2> QED BY <2>1, <2>2 DEF LastIsChats
<1>9. ASSUME NEW b \in App, NEW t \in Evented, b # a, LastIsChats(b, t)
      PROVE  LastIsChats(b, t)'
  BY <1>2, <1>9 DEF LastIsChats
<1> QED BY <1>2, <1>3, <1>5, <1>6, <1>7, <1>8, <1>9

(* The three changes that write an event. *)
LEMMA ChangeOrderly ==
  ASSUME TablesOK, Ids, NEW a \in App, NEW s \in Stage, NEW d \in Detail,
         NEW by \in {"chat", "phone"}, NEW type \in Evented,
         \/ type = "status" /\ UpdateStatus(a, s, by)
         \/ type = "note" /\ by = "chat" /\ AddNote(a)
         \/ type = "edit" /\ EditDetail(a, d, by)
  PROVE  /\ Orderly /\ events \subseteq events'
         /\ by = "chat" => LastIsChats(a, type)'
         /\ \A b \in App, t \in Evented : b # a /\ LastIsChats(b, t) => LastIsChats(b, t)'
<1>1. a \in Live /\ Tick /\ Now \in Time /\ UNCHANGED <<used, born>>
  BY DEF UpdateStatus, AddNote, EditDetail, Tick, Now, TablesOK
<1>2. app[a] \in Row
  BY <1>1 DEF TablesOK
<1>3. PICK r \in Stage : Record(a, type, r, by)
  BY <1>2 DEF UpdateStatus, AddNote, EditDetail, Row
<1>4. app' \in [Live -> Row] /\ Live' = Live
  <2>1. CASE UpdateStatus(a, s, by)
    BY <2>1, <1>1, <1>2 DEF UpdateStatus, Row, Nudge, TablesOK, Live
  <2>2. CASE AddNote(a)
    BY <2>2, <1>1, <1>2 DEF AddNote, Row, Nudge, TablesOK, Live
  <2>3. CASE EditDetail(a, d, by)
    BY <2>3, <1>1, <1>2 DEF EditDetail, Row, TablesOK, Live
  <2> QED BY <2>1, <2>2, <2>3
<1>5. /\ events' \subseteq Event /\ Ids'
      /\ clock <= clock' /\ clock' \in Time
      /\ events \subseteq events'
      /\ \A e \in events' : e \in events \/ e.id > clock
      /\ by = "chat" => LastIsChats(a, type)'
      /\ \A b \in App, t \in Evented : b # a /\ LastIsChats(b, t) => LastIsChats(b, t)'
  BY <1>1, <1>3, RecordOrderly
<1>6. TablesOK'
  BY <1>1, <1>4, <1>5 DEF TablesOK
<1> QED BY <1>5, <1>6 DEF Orderly

(* A deleted row takes its events with it and no other. *)
LEMMA DeleteOrderly ==
  ASSUME TablesOK, Ids, NEW a \in App, DeleteRow(a)
  PROVE  /\ Orderly
         /\ \A e \in events \ events' : e.app \notin Live'
<1>1. Live' = Live \ {a} /\ app' \in [Live' -> Row]
  BY DEF DeleteRow, TablesOK, Live
<1> QED BY <1>1 DEF DeleteRow, TablesOK, Orderly, Ids

(* Putting a row back touches no event. *)
LEMMA RestoreOrderly ==
  ASSUME TablesOK, Ids, NEW kind, NEW c \in Change, RestoreRow(kind, c)
  PROVE  Orderly /\ events' = events
<1>1. c.before \in Row /\ c.app \in App
  BY DEF Change
<1>2. \A a \in Live : PutBack(app[a], kind, c.before) \in Row
  BY <1>1 DEF PutBack, Row, TablesOK
<1>3. app' \in [Live -> Row] /\ Live' = Live
  BY <1>2 DEF RestoreRow, TablesOK, Live
<1> QED BY <1>3 DEF RestoreRow, TablesOK, Orderly, Ids

(* Dropping an event keeps the others. *)
LEMMA DropOrderly ==
  ASSUME TablesOK, Ids, NEW c \in Change, DropEvent(c)
  PROVE  Orderly /\ \A e \in events \ events' : e.id = c.event
<1>1. Live' = Live
  BY DEF DropEvent, Live
<1> QED BY <1>1 DEF DropEvent, TablesOK, Orderly, Ids

(* What a row names stays chat's and of the past. *)
LEMMA OwnKept ==
  ASSUME NEW u \in Undo \cup {NoUndo}, TablesOK, Own(u), Orderly
  PROVE  Own(u)'
<1>1. \A c \in u.changes : c.event \in Nat
  BY DEF Undo, NoUndo, Change
<1>2. clock \in Nat /\ clock' \in Nat /\ \A e \in events' : e.id \in Nat
  BY DEF TablesOK, Orderly, Event
<1> QED BY <1>1, <1>2 DEF Own, Orderly

-----------------------------------------------------------------------------
(* What last_event_id returns. *)

LEMMA LastEventFound ==
  ASSUME TablesOK, Ids, NEW a, NEW type,
         NEW e \in events, e.app = a, e.type = type,
         \A f \in events : f.app = a /\ f.type = type => f.id <= e.id
  PROVE  LastEvent(a, type) = e.id
<1> DEFINE ids == {g.id : g \in {f \in events : f.app = a /\ f.type = type}}
           IsLastId(i) == ids = {} \/ (i \in ids /\ \A j \in ids : j <= i)
<1>1. ids \subseteq Nat /\ e.id \in ids /\ \A j \in ids : j <= e.id
  BY DEF TablesOK, Event
<1>2. \A i \in ids \cup {0} : IsLastId(i) => i = e.id
  BY <1>1
<1>3. \E i \in ids \cup {0} : IsLastId(i)
  BY <1>1
<1> HIDE DEF ids
<1>4. LastEvent(a, type) = CHOOSE i \in ids \cup {0} : IsLastId(i)
  BY DEF LastEvent, ids
<1> QED BY <1>2, <1>3, <1>4

LEMMA LastEventNone ==
  ASSUME NEW a, NEW type, \A e \in events : e.type # type
  PROVE  LastEvent(a, type) = 0
<1>1. {g.id : g \in {f \in events : f.app = a /\ f.type = type}} = {}
  OBVIOUS
<1> QED BY <1>1 DEF LastEvent

-----------------------------------------------------------------------------
(* The handlers' steps. *)

LEMMA InitInv == Init => IInv
<1> SUFFICES ASSUME Init PROVE IInv
  OBVIOUS
<1>1. TablesOK /\ Ids
  BY DEF Init, TablesOK, Live, Ids
<1>2. AnyGoal \in [stage : Stage, detail : Detail]
  BY DEF AnyGoal
<1>3. HandlerOK /\ HistoryOK
  BY <1>2 DEF Init, HandlerOK, HistoryOK
<1>4. Own(undo) /\ Own(work) /\ Written
  BY DEF Init, Own, NoUndo, Written
<1> QED BY <1>1, <1>3, <1>4 DEF IInv

(* A step that leaves the tables alone. *)
LEMMA Untouched ==
  ASSUME IInv, UNCHANGED appTables
  PROVE  Orderly /\ \A u \in Undo \cup {NoUndo} : Own(u) => Own(u)'
<1>1. Orderly
  BY DEF IInv, TablesOK, Ids, Orderly, appTables, Live
<1> QED BY <1>1, OwnKept DEF IInv

(* A handler starts: nothing to record yet. *)
LEMMA BeginInv ==
  ASSUME IInv, NEW s \in {"change", "record"}, NEW kind \in Kind, NEW S \in SUBSET App,
         NEW g \in [stage : Stage, detail : Detail], Begin(s, kind, S, g)
  PROVE  IInv'
<1>1. UNCHANGED <<appTables, undo, history>>
  BY DEF Begin
<1>2. Orderly /\ Own(undo)'
  BY <1>1, Untouched DEF IInv, HandlerOK
<1>3. HandlerOK' /\ HistoryOK'
  BY DEF Begin, IInv, HandlerOK, HistoryOK, Undo, history
<1>4. Own(work)' /\ Written'
  BY DEF Begin, Own, Written
<1> QED BY <1>1, <1>2, <1>3, <1>4 DEF IInv, Orderly

(* A handler ends or is cut. *)
LEMMA ReturnInv ==
  ASSUME IInv, Return, UNCHANGED appTables, HistoryOK',
         undo' \in Undo \cup {NoUndo}, Own(undo)'
  PROVE  IInv'
<1>1. AnyGoal \in [stage : Stage, detail : Detail]
  BY DEF AnyGoal
<1>2. HandlerOK'
  BY <1>1 DEF Return, HandlerOK
<1>3. Own(work)' /\ Written'
  BY DEF Return, Own, Written, NoUndo
<1> QED BY <1>2, <1>3, Untouched DEF IInv, Orderly

(* A transaction of a handler that is not changing anything to record. *)
LEMMA TablesStepInv ==
  ASSUME IInv, Orderly, UNCHANGED <<undo, work>>,
         step \in {"idle", "undo"}, HandlerOK', HistoryOK', step' = step
  PROVE  IInv'
<1>1. Own(undo)' /\ Own(work)'
  <2>1. Own(undo) /\ Own(work) /\ undo \in Undo \cup {NoUndo} /\ work \in Undo \cup {NoUndo}
    BY DEF IInv, HandlerOK
  <2>2. \A u \in Undo \cup {NoUndo} : Own(u) => Own(u)'
    BY OwnKept DEF IInv
  <2> QED BY <2>1, <2>2 DEF Own
<1>2. Written'
  BY DEF Written
<1> QED BY <1>1, <1>2 DEF IInv, Orderly

(* The kind of change is named by a constant, so that it can be primed. *)
LEMMA MakeChangeOrderly ==
  ASSUME IInv, NEW a \in App, MakeChange(a), NEW k, k = work.kind
  PROVE  /\ Orderly
         /\ k \in Evented =>
              /\ LastIsChats(a, k)'
              /\ \A b \in App : b # a /\ LastIsChats(b, k) => LastIsChats(b, k)'
<1>1. TablesOK /\ Ids /\ goal \in [stage : Stage, detail : Detail]
  BY DEF IInv, HandlerOK
<1>2. k \in Kind
  BY DEF IInv, HandlerOK, MakeChange, Perform, Kind
<1>3. CASE k = "apply"
  BY <1>3, <1>1, CreateOrderly DEF MakeChange, Perform, Evented
<1>4. CASE k = "delete"
  BY <1>4, <1>1, DeleteOrderly DEF MakeChange, Perform, Evented
<1>5. CASE k \in Evented
  <2>1. /\ goal.stage \in Stage /\ goal.detail \in Detail
        /\ \/ k = "status" /\ UpdateStatus(a, goal.stage, "chat")
           \/ k = "note" /\ AddNote(a)
           \/ k = "edit" /\ EditDetail(a, goal.detail, "chat")
    BY <1>1, <1>5 DEF MakeChange, Perform, Evented
  <2>2. \A s \in Stage, d \in Detail :
          \/ k = "status" /\ UpdateStatus(a, s, "chat")
          \/ k = "note" /\ AddNote(a)
          \/ k = "edit" /\ EditDetail(a, d, "chat")
          => /\ Orderly /\ LastIsChats(a, k)'
             /\ \A b \in App, t \in Evented : b # a /\ LastIsChats(b, t) => LastIsChats(b, t)'
    BY <1>1, <1>5, ChangeOrderly
  <2> QED BY <1>5, <2>1, <2>2
<1> QED BY <1>2, <1>3, <1>4, <1>5 DEF Kind, Evented

LEMMA MakeChangeInv ==
  ASSUME IInv, NEW a \in App, MakeChange(a)
  PROVE  IInv'
<1> DEFINE n == Snapshot(a)
<1>1. TablesOK /\ Ids /\ goal \in [stage : Stage, detail : Detail]
  BY DEF IInv, HandlerOK
<1>2. work \in Undo /\ step = "change"
  BY DEF IInv, HandlerOK, MakeChange, Perform, NoUndo
<1>3. n \in Change /\ n.app = a /\ n.event = 0
  <2>1. a \in Live => app[a] \in Row
    BY <1>1 DEF TablesOK
  <2>2. (IF a \in Live THEN app[a]
         ELSE [status |-> goal.stage, detail |-> goal.detail, updated |-> 0, nudge |-> 0]) \in Row
    BY <1>1, <2>1 DEF Row
  <2> QED BY <2>2 DEF Snapshot, Change
<1>k. PICK k : k = work.kind
  OBVIOUS
<1>4. /\ Orderly
      /\ k \in Evented =>
           /\ LastIsChats(a, k)'
           /\ \A b \in App : b # a /\ LastIsChats(b, k) => LastIsChats(b, k)'
  BY <1>k, MakeChangeOrderly
<1>5. work' = [work EXCEPT !.changes = @ \cup {n}] /\ UNCHANGED <<undo, half, goal, history>>
  BY DEF MakeChange
<1>6. work' \in Undo /\ work'.kind = work.kind /\ work'.changes = work.changes \cup {n}
  BY <1>2, <1>3, <1>5 DEF Undo
<1>7. HandlerOK' /\ HistoryOK'
  BY <1>5, <1>6 DEF MakeChange, IInv, HandlerOK, HistoryOK, history
<1>8. Own(undo)' /\ Own(work)'
  <2>1. \A u \in Undo \cup {NoUndo} : Own(u) => Own(u)'
    BY <1>1, <1>4, OwnKept
  <2>2. Own(undo)'
    BY <2>1, <1>5 DEF IInv, HandlerOK, Own
  <2>3. \A c \in work.changes :
          c.event <= clock' /\ \A e \in events' : e.id = c.event => e.by = "chat"
    BY <2>1, <1>2 DEF IInv, Own
  <2>4. n.event <= clock' /\ \A e \in events' : e.id # n.event
    BY <1>3, <1>4 DEF Orderly, Ids, TablesOK, Event
  <2> QED BY <1>6, <2>2, <2>3, <2>4 DEF Own
<1>9. Written'
  <2> SUFFICES ASSUME k \in Evented, NEW c \in work'.changes
               PROVE  LastIsChats(c.app, k)'
    BY <1>6, <1>k DEF Written
  <2> DEFINE b == c.app
  <2>1. CASE b = a
    BY <2>1, <1>4
  <2>2. CASE b # a
    <3>1. c \in work.changes /\ b \in App
      BY <2>2, <1>2, <1>3, <1>6 DEF Undo, Change
    <3>2. LastIsChats(b, k)
      BY <3>1, <1>2, <1>k DEF IInv, Written
    <3> QED BY <2>2, <3>1, <3>2, <1>4
  <2> QED BY <2>1, <2>2
<1> QED BY <1>4, <1>7, <1>8, <1>9 DEF IInv, Orderly

(* The row written is sound: the event it names is the handler's own. *)
LEMMA RecordUndoInv ==
  ASSUME IInv, RecordUndo
  PROVE  IInv'
<1> DEFINE Named(c) == [c EXCEPT !.event = LastEvent(c.app, work.kind)]
<1>1. undo' = [work EXCEPT !.changes = {Named(c) : c \in work.changes}]
  BY DEF RecordUndo
<1>2. ASSUME NEW c \in work.changes
      PROVE  /\ LastEvent(c.app, work.kind) \in Time
             /\ LastEvent(c.app, work.kind) <= clock
             /\ \A e \in events : e.id = LastEvent(c.app, work.kind) => e.by = "chat"
  <2>1. work \in Undo /\ c \in Change
    BY DEF IInv, HandlerOK, NoUndo, Undo
  <2>2. CASE work.kind \in Evented
    <3>1. PICK e \in events :
            /\ e.app = c.app /\ e.type = work.kind /\ e.by = "chat"
            /\ \A f \in events : f.app = c.app /\ f.type = work.kind => f.id <= e.id
      BY <2>2 DEF IInv, Written, RecordUndo, LastIsChats
    <3>2. LastEvent(c.app, work.kind) = e.id
      BY <3>1, LastEventFound DEF IInv
    <3>3. e.id \in Time /\ e.id <= clock /\ \A f \in events : f.id = e.id => f = e
      BY DEF IInv, TablesOK, Ids, Event
    <3> QED BY <3>1, <3>2, <3>3
  <2>3. CASE work.kind \notin Evented
    <3>1. \A e \in events : e.type # work.kind
      BY <2>3 DEF IInv, TablesOK, Event, Evented
    <3>2. LastEvent(c.app, work.kind) = 0
      BY <3>1, LastEventNone
    <3> QED BY <3>2 DEF IInv, Ids, TablesOK, Event
  <2> QED BY <2>2, <2>3
<1>3. undo' \in Undo \cup {NoUndo}
  <2>1. CASE work \in Undo
    <3>1. \A c \in work.changes : c \in Change
      BY <2>1 DEF Undo
    <3>2. \A c \in work.changes : Named(c) \in Change
      BY <1>2, <3>1 DEF Change
    <3> QED BY <2>1, <1>1, <3>2 DEF Undo
  <2>2. CASE work = NoUndo
    BY <2>2, <1>1 DEF NoUndo
  <2> QED BY <2>1, <2>2 DEF IInv, HandlerOK
<1>4. Own(undo)'
  <2>1. UNCHANGED <<clock, events>>
    BY DEF RecordUndo, appTables
  <2>2. \A c \in work.changes : Named(c).event = LastEvent(c.app, work.kind)
    BY DEF IInv, HandlerOK, Undo, NoUndo, Change
  <2>3. undo'.changes = {Named(c) : c \in work.changes}
    BY <1>1 DEF IInv, HandlerOK, Undo, NoUndo
  <2> QED BY <1>2, <2>1, <2>2, <2>3 DEF Own
<1> QED BY <1>3, <1>4, ReturnInv DEF RecordUndo, IInv, HistoryOK, history

(* Reading, reversing and clearing the row. *)
LEMMA UndoRowInv ==
  ASSUME IInv, UndoTombstone \/ UndoRead \/ UndoDone
  PROVE  IInv'
<1>0. Own(NoUndo)'
  BY DEF Own, NoUndo
<1>1. CASE UndoTombstone
  <2>1. Orderly /\ Own(work)'
    BY <1>1, Untouched DEF UndoTombstone, IInv, HandlerOK, handler, Own
  <2>2. HandlerOK' /\ HistoryOK' /\ Written' /\ Own(undo)'
    BY <1>1, <1>0 DEF UndoTombstone, IInv, HandlerOK, HistoryOK, Written, handler, history,
                      Idle, Own
  <2> QED BY <2>1, <2>2 DEF IInv, Orderly
<1>2. CASE UndoRead
  <2>1. undo \in Undo
    BY <1>2 DEF UndoRead, IInv, HandlerOK, NoUndo, Kind
  <2>2. Orderly /\ Own(undo)' /\ Own(work)'
    BY <1>2, Untouched DEF UndoRead, IInv, HandlerOK, Own
  <2>3. \A c \in undo.changes : c.app \in App
    BY <2>1 DEF Undo, Change
  <2>4. HandlerOK' /\ HistoryOK' /\ Written'
    BY <1>2, <2>1, <2>3 DEF UndoRead, IInv, HandlerOK, HistoryOK, Written, history
  <2> QED BY <2>2, <2>4 DEF IInv, Orderly
<1>3. CASE UndoDone
  BY <1>3, <1>0, ReturnInv DEF UndoDone, IInv, HistoryOK, history, Own
<1> QED BY <1>1, <1>2, <1>3

LEMMA UndoApplyInv ==
  ASSUME IInv, NEW a \in App, UndoApply(a)
  PROVE  IInv'
<1>1. Orderly
  BY DeleteOrderly DEF UndoApply, IInv
<1>2. HandlerOK' /\ HistoryOK'
  BY DEF UndoApply, IInv, HandlerOK, HistoryOK, history
<1> QED BY <1>1, <1>2, TablesStepInv DEF UndoApply

(* A change that is being undone is one of the row's. *)
LEMMA UndoneChange ==
  ASSUME IInv, NEW c \in work.changes
  PROVE  c \in Change
BY DEF IInv, HandlerOK, Undo, NoUndo

LEMMA PutBackInv ==
  ASSUME IInv, NEW c \in work.changes, PutBackFirst(c) \/ PutBackSecond(c)
  PROVE  IInv'
<1>1. c \in Change /\ c.app \in App
  BY UndoneChange DEF Change
<1>2. Orderly
  <2>1. RestoreRow(work.kind, c) => Orderly
    BY <1>1, RestoreOrderly DEF IInv
  <2>2. DropEvent(c) => Orderly
    BY <1>1, DropOrderly DEF IInv
  <2> QED BY <2>1, <2>2 DEF PutBackFirst, PutBackSecond
<1>3. HandlerOK' /\ HistoryOK'
  BY <1>1 DEF PutBackFirst, PutBackSecond, IInv, HandlerOK, HistoryOK, history
<1> QED BY <1>2, <1>3, TablesStepInv DEF PutBackFirst, PutBackSecond

LEMMA PhoneInv ==
  ASSUME IInv, PhoneStep
  PROVE  IInv'
<1>1. UNCHANGED <<undo, handler, history>> /\ Idle
  BY DEF PhoneStep, PhoneStatus, PhoneFile, PhoneEdit, PhoneDelete, history
<1>2. Orderly
  <2>1. ASSUME NEW a \in App, NEW s \in Stage, PhoneStatus(a, s) PROVE Orderly
    <3>1. UpdateStatus(a, s, "phone") /\ "status" \in Evented /\ \E d : d \in Detail
      BY <2>1 DEF PhoneStatus, Evented
    <3> QED BY <3>1, ChangeOrderly DEF IInv
  <2>2. ASSUME NEW a \in App, NEW d \in Detail, PhoneFile(a, d) PROVE Orderly
    BY <2>2, CreateOrderly DEF PhoneFile, IInv
  <2>3. ASSUME NEW a \in App, NEW d \in Detail, PhoneEdit(a, d) PROVE Orderly
    <3>1. EditDetail(a, d, "phone") /\ "edit" \in Evented /\ Applied \in Stage
      BY <2>3 DEF PhoneEdit, Evented
    <3> QED BY <3>1, ChangeOrderly DEF IInv
  <2>4. ASSUME NEW a \in App, PhoneDelete(a) PROVE Orderly
    BY <2>4, DeleteOrderly DEF PhoneDelete, IInv
  <2> QED BY <2>1, <2>2, <2>3, <2>4 DEF PhoneStep
<1>3. HandlerOK' /\ HistoryOK'
  BY <1>1 DEF IInv, HandlerOK, HistoryOK, handler, history
<1> QED BY <1>1, <1>2, <1>3, TablesStepInv DEF Idle, handler

(* What a cut undo leaves behind is an event of its row. *)
LEMMA StopInv ==
  ASSUME IInv, Stop
  PROVE  IInv'
<1>1. \A c \in work.changes : c.event \in Time
  BY UndoneChange DEF Change
<1>2. HistoryOK'
  BY <1>1 DEF Stop, IInv, HistoryOK
<1>3. Own(undo)' /\ undo' \in Undo \cup {NoUndo}
  BY Untouched DEF Stop, IInv, HandlerOK, Own
<1> QED BY <1>2, <1>3, ReturnInv DEF Stop

LEMMA ChatBeginInv ==
  ASSUME IInv,
         \/ \E a \in App, s \in Stage, d \in Detail : ChatApply(a, s, d)
         \/ \E a \in App, s \in Stage : ChatUpdate(a, s)
         \/ \E a \in App, d \in Detail : ChatEdit(a, d)
         \/ \E a \in App : ChatNote(a) \/ ChatDelete(a)
         \/ \E from \in Filter, cutoff \in Time, s \in Stage : ChatBulk(from, cutoff, s)
  PROVE  IInv'
<1>1. /\ AnyGoal \in [stage : Stage, detail : Detail]
      /\ \A s \in Stage : [AnyGoal EXCEPT !.stage = s] \in [stage : Stage, detail : Detail]
      /\ \A d \in Detail : [AnyGoal EXCEPT !.detail = d] \in [stage : Stage, detail : Detail]
      /\ \A s \in Stage, d \in Detail : Goal(s, d) \in [stage : Stage, detail : Detail]
  BY DEF AnyGoal, Goal
<1>2. \A from, cutoff : BulkMatches(from, cutoff) \subseteq App
  BY DEF BulkMatches, IInv, TablesOK
<1>3. CASE \E from \in Filter, cutoff \in Time, s \in Stage : ChatBulk(from, cutoff, s)
  <2>1. PICK from \in Filter, cutoff \in Time, s \in Stage : ChatBulk(from, cutoff, s)
    BY <1>3
  <2>2. \E p \in {"change", "record"} :
          Begin(p, "status", BulkMatches(from, cutoff), [AnyGoal EXCEPT !.stage = s])
    BY <2>1 DEF ChatBulk
  <2> QED BY <1>1, <1>2, <2>2, BeginInv DEF Kind
<1>4. CASE ~ \E from \in Filter, cutoff \in Time, s \in Stage : ChatBulk(from, cutoff, s)
  <2>1. \E kind \in Kind, S \in SUBSET App, g \in [stage : Stage, detail : Detail] :
          Begin("change", kind, S, g)
    BY <1>1, <1>4 DEF ChatApply, ChatUpdate, ChatEdit, ChatNote, ChatDelete, Kind
  <2> QED BY <2>1, BeginInv
<1> QED BY <1>3, <1>4

LEMMA StepInv == IInv /\ [Next]_timelineVars => IInv'
<1> SUFFICES ASSUME IInv, [Next]_timelineVars PROVE IInv'
  OBVIOUS
<1>1. CASE ChatStep
  <2>1. CASE UndoNothing
    BY <2>1 DEF UndoNothing, timelineVars, appTables, handler, history, IInv, TablesOK,
                HandlerOK, HistoryOK, Ids, Own, Written, LastIsChats, Live
  <2> QED BY <1>1, <2>1, ChatBeginInv, MakeChangeInv, RecordUndoInv, UndoRowInv,
             UndoApplyInv, PutBackInv DEF ChatStep
<1>2. CASE PhoneStep
  BY <1>2, PhoneInv
<1>3. CASE Stop
  BY <1>3, StopInv
<1>4. CASE UNCHANGED timelineVars
  BY <1>4 DEF timelineVars, appTables, handler, history, IInv, TablesOK, HandlerOK,
              HistoryOK, Ids, Own, Written, LastIsChats, Live
<1> QED BY <1>1, <1>2, <1>3, <1>4 DEF Next

(* Every variable keeps its type, for any number of applications, stages,     *)
(* handlers cut half-way and changes by the phone.                          *)
THEOREM TypeCorrect == Spec => []TypeOK
<1>1. IInv => TypeOK
  BY DEF IInv, TablesOK, HandlerOK, HistoryOK, TypeOK
<1> QED BY <1>1, InitInv, StepInv, PTL DEF Spec

(* What the phone wrote to a timeline leaves it only with the application,    *)
(* whatever chat undoes and wherever an undo is cut.                        *)
THEOREM PhoneEventsKept == Spec => PhoneEventsStay
<1> DEFINE Spared == \A e \in events \ events' : e.by = "phone" => e.app \notin Live'
<1>1. IInv /\ [Next]_timelineVars => [Spared]_timelineVars
  <2> SUFFICES ASSUME IInv, Next PROVE Spared
    OBVIOUS
  <2>1. ASSUME NEW a \in App, DeleteRow(a) PROVE Spared
    BY <2>1, DeleteOrderly DEF IInv
  <2>2. ASSUME NEW c \in work.changes, DropEvent(c) PROVE Spared
    <3>1. \A e \in events \ events' : e.id = c.event
      BY <2>2 DEF DropEvent
    <3>2. \A e \in events : e.id = c.event => e.by = "chat"
      BY DEF IInv, Own
    <3> QED BY <3>1, <3>2
  <2>3. CASE events \subseteq events'
    BY <2>3
  <2>4. ASSUME NEW a \in App, MakeChange(a) PROVE Spared
    <3>1. events \subseteq events' \/ DeleteRow(a)
      BY <2>4 DEF MakeChange, Perform, CreateApplication, UpdateStatus, AddNote,
                  EditDetail, Record
    <3> QED BY <3>1, <2>1, <2>3
  <2>5. ASSUME NEW c \in work.changes, PutBackFirst(c) \/ PutBackSecond(c) PROVE Spared
    <3>1. events \subseteq events' \/ DropEvent(c)
      BY <2>5 DEF PutBackFirst, PutBackSecond, RestoreRow
    <3> QED BY <3>1, <2>2, <2>3
  <2>6. CASE PhoneStep
    <3>1. events \subseteq events' \/ \E a \in App : DeleteRow(a)
      BY <2>6 DEF PhoneStep, PhoneStatus, PhoneFile, PhoneEdit, PhoneDelete,
                  CreateApplication, UpdateStatus, EditDetail, Record
    <3> QED BY <3>1, <2>1, <2>3
  <2>7. CASE Stop
    BY <2>7, <2>3 DEF Stop, appTables
  <2>8. CASE ChatStep
    <3>1. ASSUME NEW a \in App, UndoApply(a) PROVE Spared
      BY <3>1, <2>1 DEF UndoApply
    <3>2. CASE RecordUndo \/ UndoNothing \/ UndoTombstone \/ UndoRead \/ UndoDone
      BY <3>2, <2>3 DEF RecordUndo, UndoNothing, UndoTombstone, UndoRead, UndoDone,
                        appTables, timelineVars
    <3>3. CASE \/ \E a \in App, s \in Stage, d \in Detail : ChatApply(a, s, d)
               \/ \E a \in App, s \in Stage : ChatUpdate(a, s)
               \/ \E a \in App, d \in Detail : ChatEdit(a, d)
               \/ \E a \in App : ChatNote(a) \/ ChatDelete(a)
               \/ \E from \in Filter, cutoff \in Time, s \in Stage :
                    ChatBulk(from, cutoff, s)
      BY <3>3, <2>3 DEF ChatApply, ChatUpdate, ChatEdit, ChatNote, ChatDelete, ChatBulk,
                        Begin, appTables
    <3> QED BY <2>8, <2>4, <2>5, <3>1, <3>2, <3>3 DEF ChatStep
  <2> QED BY <2>6, <2>7, <2>8 DEF Next
<1> QED BY <1>1, InitInv, StepInv, PTL DEF Spec, PhoneEventsStay

-----------------------------------------------------------------------------
(* An application stands where its timeline says.  The undo row remembers the   *)
(* stage that the timeline told before the event it names, and nothing that    *)
(* comes after that event changes what came before it.                       *)

(* What a set of an application's status events says its stage is: the stage   *)
(* of the last, whatever an undo cut half-way has still to erase, or the one    *)
(* it was created with.                                                    *)
Reads(a, S, s) ==
  IF S = {} THEN s = born[a]
  ELSE \E e \in S : (\A f \in S : f.id <= e.id) /\ (s = e.stage \/ e.id \in torn)

Stands(a) == Reads(a, StatusEvents(a), app[a].status)

(* What it said before the event with id i. *)
Past(a, i) == {e \in StatusEvents(a) : e.id < i}

Attached == \A e \in events : e.app \in Live

(* An undo names each application once, and the event of its own change. *)
OncePerApp(u) ==
  /\ \A c \in u.changes : c.app \in used
  /\ \A c, d \in u.changes : c.app = d.app => c = d

Names(u) ==
  \A c \in u.changes, e \in events : e.id = c.event => e.app = c.app /\ e.type = u.kind

(* What it would put back is what the timeline said before that event. *)
Remembers(u) ==
  u.kind = "status" =>
    \A c \in u.changes :
      c.app \in Live \ overruled => Reads(c.app, Past(c.app, c.event), c.before.status)

(* So does what a running handler is about to record. *)
Recording ==
  step \in {"change", "record"} =>
    /\ \A c \in work.changes : c.app \notin left
    /\ work.kind = "status" =>
         \A c \in work.changes :
           c.app \in Live \ overruled =>
             \E e \in StatusEvents(c.app) :
               IsLast(e) /\ Reads(c.app, Past(c.app, e.id), c.before.status)

Stepping ==
  /\ step = "idle" => work = NoUndo
  /\ step = "change" /\ work.kind # "apply" => left \subseteq used
  /\ step = "undo" => work = undo
  /\ step # "undo" => half = {}
  /\ \A a, b \in half : a = b

(* Between the two halves of putting it back, an application stands where the  *)
(* row says, unless its timeline has gone on.                                *)
HalfWay(a) ==
  \E c \in work.changes :
    /\ c.app = a
    /\ IF Newer(a, c.event) THEN Stands(a) ELSE app[a].status = c.before.status

StandsOrHalfWay ==
  \A a \in Live \ overruled :
    IF work.kind = "status" /\ a \in half THEN HalfWay(a) ELSE Stands(a)

StageInv ==
  /\ Attached /\ Stepping
  /\ OncePerApp(undo) /\ OncePerApp(work)
  /\ Names(undo) /\ Remembers(undo)
  /\ Recording /\ StandsOrHalfWay

(* What the timeline says of b, and where b stands, are left alone. *)
Same(b) ==
  /\ StatusEvents(b)' = StatusEvents(b)
  /\ app'[b].status = app[b].status /\ born'[b] = born[b]

(* A transaction that tells something new of a, if of any, and drops nothing    *)
(* another application's timeline said.                                     *)
TellsOf(a) ==
  /\ Attached' /\ used \subseteq used'
  /\ \A b \in Live' : b # a => b \in Live /\ Same(b)
  /\ \A b \in Live' \cap used : b \in Live /\ born'[b] = born[b]
  /\ \A b \in Live' \cap Live, i \in Time : i <= clock => Past(b, i)' = Past(b, i)

HistoryGrows == torn \subseteq torn' /\ overruled \subseteq overruled'

LEMMA ReadsKept ==
  ASSUME NEW a, NEW S, NEW s, Reads(a, S, s), born'[a] = born[a], torn \subseteq torn'
  PROVE  Reads(a, S, s)'
BY DEF Reads

LEMMA StandsKept ==
  ASSUME NEW b, Stands(b), Same(b), torn \subseteq torn'
  PROVE  Stands(b)'
<1>1. PICK S : S = StatusEvents(b)
  OBVIOUS
<1>2. PICK s : s = app[b].status
  OBVIOUS
<1>3. Reads(b, S, s)'
  BY <1>1, <1>2, ReadsKept DEF Stands, Same
<1>4. S = StatusEvents(b)' /\ s = app'[b].status
  BY <1>1, <1>2 DEF Same
<1> QED BY <1>3, <1>4 DEF Stands, Reads

(* What an undo row says holds while nothing it names is erased. *)
LEMMA RowKept ==
  ASSUME IInv, Orderly, HistoryGrows, NEW a, TellsOf(a),
         NEW u \in Undo \cup {NoUndo}, Own(u), OncePerApp(u)
  PROVE  /\ OncePerApp(u)'
         /\ Names(u) => Names(u)'
         /\ Remembers(u) => Remembers(u)'
<1>1. OncePerApp(u)'
  BY DEF OncePerApp, TellsOf
<1>2. ASSUME Names(u) PROVE Names(u)'
  <2> SUFFICES ASSUME NEW c \in u.changes, NEW e \in events', e.id = c.event
               PROVE  e.app = c.app /\ e.type = u.kind
    BY DEF Names
  <2>1. c.event \in Nat /\ clock \in Nat /\ c.event <= clock
    BY DEF Own, Undo, NoUndo, Change, IInv, TablesOK
  <2>2. e \in events
    BY <2>1 DEF Orderly
  <2> QED BY <1>2, <2>2 DEF Names
<1>3. ASSUME Remembers(u) PROVE Remembers(u)'
  <2> SUFFICES ASSUME u.kind = "status", NEW c \in u.changes, c.app \in Live' \ overruled'
               PROVE  Reads(c.app, Past(c.app, c.event), c.before.status)'
    BY DEF Remembers
  <2>1. c.event \in Time /\ c.event <= clock
    BY DEF Own, Undo, NoUndo, Change
  <2>2. c.app \in Live \ overruled /\ born'[c.app] = born[c.app]
    BY DEF OncePerApp, TellsOf, HistoryGrows
  <2>3. PICK S : S = Past(c.app, c.event)
    OBVIOUS
  <2>4. Past(c.app, c.event)' = S
    BY <2>1, <2>2, <2>3 DEF TellsOf
  <2>5. Reads(c.app, S, c.before.status)
    BY <1>3, <2>2, <2>3 DEF Remembers
  <2>6. Reads(c.app, S, c.before.status)'
    BY <2>2, <2>5, ReadsKept DEF HistoryGrows
  <2> QED BY <2>4, <2>6 DEF Reads
<1> QED BY <1>1, <1>2, <1>3

-----------------------------------------------------------------------------
(* What each transaction tells. *)

LEMMA NothingTold ==
  ASSUME UNCHANGED appTables, Attached, NEW a
  PROVE  TellsOf(a) /\ \A b \in Live' : b \in Live /\ Same(b)
BY DEF appTables, Attached, TellsOf, Same, StatusEvents, Past, Live

LEMMA CreateTells ==
  ASSUME TablesOK, Attached, NEW a \in App, NEW s \in Stage, NEW d \in Detail,
         CreateApplication(a, s, d)
  PROVE  TellsOf(a) /\ Stands(a)' /\ a \in used'
<1>1. Live' = Live \cup {a} /\ events' = events /\ used' = used \cup {a}
  BY DEF CreateApplication, Live
<1>2. a \notin Live /\ a \notin used /\ born' = [born EXCEPT ![a] = s]
  BY DEF CreateApplication, TablesOK
<1>3. app'[a].status = s /\ born'[a] = s
  BY <1>2 DEF CreateApplication, NewRow, TablesOK
<1>4. StatusEvents(a)' = {}
  BY <1>1, <1>2 DEF StatusEvents, Attached
<1>5. Stands(a)'
  BY <1>3, <1>4 DEF Stands, Reads
<1>6. \A b \in Live' : b # a => b \in Live /\ app'[b] = app[b] /\ born'[b] = born[b]
  BY <1>1, <1>2 DEF CreateApplication, TablesOK
<1>7. \A b : StatusEvents(b)' = StatusEvents(b)
  BY <1>1 DEF StatusEvents
<1>8. \A b, i : Past(b, i)' = Past(b, i)
  BY <1>7 DEF Past
<1>9. Attached'
  BY <1>1 DEF Attached
<1> QED BY <1>1, <1>2, <1>5, <1>6, <1>7, <1>8, <1>9 DEF TellsOf, Same

(* A change that writes an event: a status event is the last and tells the     *)
(* stage, what came before it is all there was.                              *)
LEMMA ChangeTells ==
  ASSUME TablesOK, Ids, Attached, NEW a \in App, NEW s \in Stage, NEW d \in Detail,
         NEW by \in {"chat", "phone"}, NEW type \in Evented,
         \/ type = "status" /\ UpdateStatus(a, s, by)
         \/ type = "note" /\ by = "chat" /\ AddNote(a)
         \/ type = "edit" /\ EditDetail(a, d, by)
  PROVE  /\ TellsOf(a) /\ a \in Live /\ Live' = Live
         /\ type # "status" => Same(a)
         /\ type = "status" =>
              /\ Stands(a)'
              /\ born'[a] = born[a]
              /\ \E e \in events' : /\ e \in StatusEvents(a)' /\ IsLast(e)'
                                    /\ Past(a, e.id)' = StatusEvents(a)
<1>1. a \in Live /\ Tick /\ UNCHANGED <<used, born>> /\ app[a] \in Row
  BY DEF UpdateStatus, AddNote, EditDetail, TablesOK
<1>2. Live' = Live /\ \A b \in Live : b # a => app'[b] = app[b]
  BY <1>1 DEF UpdateStatus, AddNote, EditDetail, TablesOK, Live
<1>3. IF type = "status" THEN app'[a].status = s ELSE app'[a].status = app[a].status
  <2>0. app \in [Live -> Row] /\ a \in DOMAIN app
    BY <1>1 DEF TablesOK, Live
  <2>1. ASSUME UpdateStatus(a, s, by) PROVE app'[a].status = s
    <3>1. app' = [app EXCEPT ![a].status = s, ![a].updated = Now, ![a].nudge = Nudge(s, Now)]
      BY <2>1 DEF UpdateStatus
    <3>2. app'[a] = [app[a] EXCEPT !.status = s, !.updated = Now, !.nudge = Nudge(s, Now)]
      BY <2>0, <3>1
    <3> QED BY <1>1, <3>2 DEF Row
  <2>2. ASSUME AddNote(a) PROVE app'[a].status = app[a].status
    <3>1. app' = [app EXCEPT ![a].updated = Now, ![a].nudge = Nudge(app[a].status, Now)]
      BY <2>2 DEF AddNote
    <3>2. app'[a] = [app[a] EXCEPT !.updated = Now, !.nudge = Nudge(app[a].status, Now)]
      BY <2>0, <3>1
    <3> QED BY <1>1, <3>2 DEF Row
  <2>3. ASSUME EditDetail(a, d, by) PROVE app'[a].status = app[a].status
    <3>1. app' = [app EXCEPT ![a].detail = d, ![a].updated = Now]
      BY <2>3 DEF EditDetail
    <3>2. app'[a] = [app[a] EXCEPT !.detail = d, !.updated = Now]
      BY <2>0, <3>1
    <3> QED BY <1>1, <3>2 DEF Row
  <2> QED BY <2>1, <2>2, <2>3
<1>4. PICK r \in Stage : Record(a, type, r, by) /\ (type = "status" => r = s)
  BY <1>1 DEF UpdateStatus, AddNote, EditDetail, Row
<1>n. PICK n : n = [id |-> Now, app |-> a, type |-> type, stage |-> r, by |-> by]
  OBVIOUS
<1>5. /\ n.id = clock + 1 /\ n.app = a /\ n.type = type /\ n.stage = r
      /\ clock \in Nat
      /\ events' = events \cup {n}
  BY <1>4, <1>n DEF Record, Now, TablesOK
<1>6. \A e \in events : e.id \in Nat /\ e.id <= clock
  BY DEF TablesOK, Event, Ids
<1>7. \A b : b # a \/ type # "status" => StatusEvents(b)' = StatusEvents(b)
  BY <1>5 DEF StatusEvents
<1>8. \A b, i : i \in Time /\ i <= clock => Past(b, i)' = Past(b, i)
  BY <1>5, <1>6 DEF Past, StatusEvents
<1>9. Attached'
  BY <1>1, <1>2, <1>5 DEF Attached
<1>10. TellsOf(a)
  BY <1>1, <1>2, <1>7, <1>8, <1>9 DEF TellsOf, Same
<1>11. type # "status" => Same(a)
  BY <1>1, <1>3, <1>7 DEF Same
<1>12. ASSUME type = "status"
       PROVE  /\ Stands(a)'
              /\ \E e \in events' : /\ e \in StatusEvents(a)' /\ IsLast(e)'
                                    /\ Past(a, e.id)' = StatusEvents(a)
  <2>1. StatusEvents(a)' = StatusEvents(a) \cup {n}
    BY <1>5, <1>12 DEF StatusEvents
  <2>2. \A f \in StatusEvents(a) : f.id \in Nat /\ f.id < n.id
    BY <1>5, <1>6 DEF StatusEvents
  <2>3. \A f \in StatusEvents(a)' : f.id <= n.id
    BY <1>5, <2>1, <2>2
  <2>4. app'[a].status = n.stage
    BY <1>3, <1>4, <1>5, <1>12
  <2>5. Stands(a)'
    BY <2>1, <2>3, <2>4 DEF Stands, Reads
  <2>6. IsLast(n)'
    BY <1>5, <2>3 DEF IsLast
  <2>7. Past(a, n.id)' = StatusEvents(a)
    BY <1>5, <2>1, <2>2 DEF Past
  <2> QED BY <1>5, <2>1, <2>5, <2>6, <2>7
<1> QED BY <1>1, <1>2, <1>10, <1>11, <1>12

LEMMA DeleteTells ==
  ASSUME TablesOK, Attached, NEW a, DeleteRow(a)
  PROVE  TellsOf(a) /\ a \notin Live'
<1>1. /\ Live' = Live \ {a} /\ events' = {e \in events : e.app # a}
      /\ UNCHANGED <<used, clock, born>>
      /\ \A b \in Live' : app'[b] = app[b]
  BY DEF DeleteRow, Live
<1>2. \A b : b # a => StatusEvents(b)' = StatusEvents(b)
  BY <1>1 DEF StatusEvents
<1>3. \A b, i : b # a => Past(b, i)' = Past(b, i)
  BY <1>2 DEF Past
<1> QED BY <1>1, <1>2, <1>3 DEF Attached, TellsOf, Same

(* Putting a row back moves it to another stage only for a status change. *)
LEMMA RestoreTells ==
  ASSUME TablesOK, Attached, NEW k, NEW c \in Change, RestoreRow(k, c)
  PROVE  /\ TellsOf(c.app) /\ Live' = Live
         /\ k # "status" => \A b \in Live : Same(b)
         /\ k = "status" /\ c.app \in Live => app'[c.app].status = c.before.status
         /\ \A b : StatusEvents(b)' = StatusEvents(b) /\ born'[b] = born[b]
         /\ \A b, i : Past(b, i)' = Past(b, i) /\ Newer(b, i)' = Newer(b, i)
<1>1. /\ Live' = Live /\ UNCHANGED <<used, events, clock, born>>
      /\ \A b \in Live : app'[b] = IF b = c.app THEN PutBack(app[b], k, c.before) ELSE app[b]
  BY DEF RestoreRow, Live
<1>2. \A b : StatusEvents(b)' = StatusEvents(b)
  BY <1>1 DEF StatusEvents
<1>3. \A b, i : Past(b, i)' = Past(b, i) /\ Newer(b, i)' = Newer(b, i)
  BY <1>1, <1>2 DEF Past, Newer
<1>4. \A b \in Live : PutBack(app[b], k, c.before).status =
                        IF k = "status" THEN c.before.status ELSE app[b].status
  BY DEF PutBack, TablesOK, Row
<1>5. k # "status" => \A b \in Live : Same(b)
  BY <1>1, <1>2, <1>4 DEF Same
<1>6. \A b \in Live : b # c.app => Same(b)
  BY <1>1, <1>2 DEF Same
<1>7. TellsOf(c.app)
  BY <1>1, <1>3, <1>6 DEF Attached, TellsOf
<1> QED BY <1>1, <1>2, <1>3, <1>4, <1>5, <1>7

(* The event dropped is the one its undo names. *)
LEMMA DropTells ==
  ASSUME TablesOK, Attached, NEW u, Names(u), NEW c \in u.changes, DropEvent(c)
  PROVE  /\ Attached' /\ Live' = Live /\ UNCHANGED <<used, born, app>>
         /\ \A b : u.kind # "status" \/ b # c.app => StatusEvents(b)' = StatusEvents(b)
         /\ StatusEvents(c.app)' = {e \in StatusEvents(c.app) : e.id # c.event}
<1>1. /\ events' = {e \in events : e.id # c.event} /\ UNCHANGED <<app, used, clock, born>>
      /\ Live' = Live
  BY DEF DropEvent, Live
<1>2. \A e \in events : e.id = c.event => e.app = c.app /\ e.type = u.kind
  BY DEF Names
<1> QED BY <1>1, <1>2 DEF Attached, StatusEvents

-----------------------------------------------------------------------------
(* The handlers' steps again. *)

LEMMA StageInit == Init => StageInv
<1> SUFFICES ASSUME Init PROVE StageInv
  OBVIOUS
<1>1. Attached /\ Stepping /\ Recording
  BY DEF Init, Attached, Stepping, Recording, NoUndo
<1>2. OncePerApp(undo) /\ OncePerApp(work) /\ Names(undo) /\ Remembers(undo)
  BY DEF Init, OncePerApp, Names, Remembers, NoUndo
<1>3. StandsOrHalfWay
  BY DEF Init, StandsOrHalfWay, Live
<1> QED BY <1>1, <1>2, <1>3 DEF StageInv

(* An empty row says nothing. *)
LEMMA NoUndoSound == OncePerApp(NoUndo)' /\ Names(NoUndo)' /\ Remembers(NoUndo)'
BY DEF OncePerApp, Names, Remembers, NoUndo

LEMMA UndoRowKept ==
  ASSUME IInv, StageInv, Orderly, HistoryGrows, NEW a, TellsOf(a), UNCHANGED undo
  PROVE  OncePerApp(undo)' /\ Names(undo)' /\ Remembers(undo)'
<1>1. PICK u : u = undo
  OBVIOUS
<1>2. u \in Undo \cup {NoUndo} /\ Own(u) /\ OncePerApp(u) /\ Names(u) /\ Remembers(u)
  BY <1>1 DEF IInv, HandlerOK, StageInv
<1>3. OncePerApp(u)' /\ Names(u)' /\ Remembers(u)'
  BY <1>2, RowKept
<1>4. u = undo'
  BY <1>1
<1> QED BY <1>3, <1>4 DEF OncePerApp, Names, Remembers

(* Applications that nothing new is told of stand as they stood. *)
LEMMA OthersStand ==
  ASSUME StageInv, NEW a, TellsOf(a), HistoryGrows, half = {} \/ work.kind # "status",
         NEW b \in Live' \ overruled', b # a \/ Same(a), b # a \/ a \in Live
  PROVE  Stands(b)'
<1>1. b \in Live \ overruled /\ Same(b)
  BY DEF TellsOf, HistoryGrows
<1>2. Stands(b)
  BY <1>1 DEF StageInv, StandsOrHalfWay
<1> QED BY <1>1, <1>2, StandsKept DEF HistoryGrows

(* A step that leaves the tables alone, and no application half put back. *)
LEMMA AllStand ==
  ASSUME StageInv, UNCHANGED <<appTables, history>>, half = {} \/ work.kind # "status"
  PROVE  Attached' /\ \A b \in Live' \ overruled' : Stands(b)'
<1>1. \A a : TellsOf(a) /\ \A b \in Live' : b \in Live /\ Same(b)
  BY NothingTold DEF StageInv
<1>2. HistoryGrows
  BY DEF HistoryGrows, history
<1> QED BY <1>1, <1>2, OthersStand DEF TellsOf

LEMMA BeginStage ==
  ASSUME IInv, StageInv, NEW s \in {"change", "record"}, NEW kind \in Kind, NEW S \in SUBSET App,
         NEW g, Begin(s, kind, S, g), kind # "apply" => S \subseteq used
  PROVE  StageInv'
<1>1. /\ step = "idle" /\ step' = s /\ work' = [kind |-> kind, changes |-> {}] /\ left' = S
      /\ half' = {} /\ UNCHANGED <<appTables, undo, history>>
  BY DEF Begin, Idle
<1>2. half = {}
  BY <1>1 DEF StageInv, Stepping
<1>3. Attached' /\ \A b \in Live' \ overruled' : Stands(b)'
  BY <1>1, <1>2, AllStand
<1>4. OncePerApp(undo)' /\ Names(undo)' /\ Remembers(undo)'
  <2>1. \A a : TellsOf(a)
    BY <1>1, NothingTold DEF StageInv
  <2>2. Orderly /\ HistoryGrows
    BY <1>1, Untouched DEF HistoryGrows, history
  <2> QED BY <1>1, <2>1, <2>2, UndoRowKept
<1>5. Stepping'
  BY <1>1 DEF Stepping, appTables
<1>6. OncePerApp(work)' /\ Recording'
  BY <1>1 DEF OncePerApp, Recording
<1>7. StandsOrHalfWay'
  BY <1>1, <1>3 DEF StandsOrHalfWay
<1> QED BY <1>3, <1>4, <1>5, <1>6, <1>7 DEF StageInv

LEMMA ChatBeginStage ==
  ASSUME IInv, StageInv,
         \/ \E a \in App, s \in Stage, d \in Detail : ChatApply(a, s, d)
         \/ \E a \in App, s \in Stage : ChatUpdate(a, s)
         \/ \E a \in App, d \in Detail : ChatEdit(a, d)
         \/ \E a \in App : ChatNote(a) \/ ChatDelete(a)
         \/ \E from \in Filter, cutoff \in Time, s \in Stage : ChatBulk(from, cutoff, s)
  PROVE  StageInv'
<1>1. Live \subseteq used /\ used \subseteq App
  BY DEF IInv, TablesOK
<1>2. \A from, cutoff : BulkMatches(from, cutoff) \subseteq Live
  BY DEF BulkMatches
<1>3. CASE \E from \in Filter, cutoff \in Time, s \in Stage : ChatBulk(from, cutoff, s)
  <2>1. PICK from \in Filter, cutoff \in Time, s \in Stage : ChatBulk(from, cutoff, s)
    BY <1>3
  <2>2. \E p \in {"change", "record"}, S \in SUBSET App : \E g :
          Begin(p, "status", S, g) /\ S \subseteq used
    BY <2>1, <1>1, <1>2 DEF ChatBulk
  <2> QED BY <2>2, BeginStage DEF Kind
<1>4. ASSUME NEW a \in App, NEW s \in Stage, NEW d \in Detail, ChatApply(a, s, d) PROVE StageInv'
  <2>1. Begin("change", "apply", {a}, Goal(s, d))
    BY <1>4 DEF ChatApply
  <2> QED BY <2>1, BeginStage DEF Kind
<1>5. ASSUME NEW a \in App, NEW kind \in Kind, NEW g, a \in Live, Begin("change", kind, {a}, g)
      PROVE  StageInv'
  BY <1>1, <1>5, BeginStage
<1>6. ASSUME NEW a \in App, ChatNote(a) \/ ChatDelete(a) PROVE StageInv'
  <2>1. a \in Live /\ \E kind \in {"note", "delete"} : Begin("change", kind, {a}, AnyGoal)
    BY <1>6 DEF ChatNote, ChatDelete
  <2> QED BY <2>1, <1>5 DEF Kind
<1>7. ASSUME NEW a \in App, NEW s \in Stage, ChatUpdate(a, s) PROVE StageInv'
  BY <1>5, <1>7 DEF ChatUpdate, Kind
<1>8. ASSUME NEW a \in App, NEW d \in Detail, ChatEdit(a, d) PROVE StageInv'
  BY <1>5, <1>8 DEF ChatEdit, Kind
<1> QED BY <1>3, <1>4, <1>6, <1>7, <1>8

(* One application changed by chat. *)
LEMMA MakeChangeTells ==
  ASSUME IInv, StageInv, NEW a \in App, MakeChange(a)
  PROVE  /\ TellsOf(a) /\ a \in used'
         /\ a \in Live' \ overruled => Stands(a)'
         /\ work.kind = "status" =>
              /\ a \in Live
              /\ born'[a] = born[a]
              /\ \E e \in events' : /\ e \in StatusEvents(a)' /\ IsLast(e)'
                                    /\ Past(a, e.id)' = StatusEvents(a)
<1>1. /\ TablesOK /\ Ids /\ Attached /\ half = {}
      /\ goal.stage \in Stage /\ goal.detail \in Detail
      /\ work.kind # "apply" => a \in used
  BY DEF IInv, HandlerOK, StageInv, Stepping, MakeChange
<1>2. HistoryGrows /\ UNCHANGED history
  BY DEF MakeChange, HistoryGrows, history
<1>3. CASE work.kind = "apply"
  <2>1. CreateApplication(a, goal.stage, goal.detail)
    BY <1>3 DEF MakeChange, Perform
  <2>2. \A s \in Stage, d \in Detail :
          CreateApplication(a, s, d) => TellsOf(a) /\ Stands(a)' /\ a \in used'
    BY <1>1, CreateTells
  <2> QED BY <1>1, <1>3, <2>1, <2>2
<1>4. CASE work.kind = "delete"
  <2>1. DeleteRow(a)
    BY <1>4 DEF MakeChange, Perform
  <2> QED BY <1>1, <1>4, <2>1, DeleteTells DEF TellsOf
<1>5. CASE work.kind \in Evented
  <2>k. PICK k : k = work.kind
    OBVIOUS
  <2>1. \/ k = "status" /\ UpdateStatus(a, goal.stage, "chat")
        \/ k = "note" /\ AddNote(a)
        \/ k = "edit" /\ EditDetail(a, goal.detail, "chat")
    BY <1>5, <2>k DEF MakeChange, Perform, Evented
  <2>2. \A s \in Stage, d \in Detail :
          \/ k = "status" /\ UpdateStatus(a, s, "chat")
          \/ k = "note" /\ AddNote(a)
          \/ k = "edit" /\ EditDetail(a, d, "chat")
          => /\ TellsOf(a) /\ a \in Live
             /\ k # "status" => Same(a)
             /\ k = "status" =>
                  /\ Stands(a)'
                  /\ born'[a] = born[a]
                  /\ \E e \in events' : /\ e \in StatusEvents(a)' /\ IsLast(e)'
                                        /\ Past(a, e.id)' = StatusEvents(a)
    BY <1>1, <1>5, <2>k, ChangeTells
  <2>3. /\ TellsOf(a) /\ a \in Live
        /\ k # "status" => Same(a)
        /\ k = "status" =>
             /\ Stands(a)'
             /\ born'[a] = born[a]
             /\ \E e \in events' : /\ e \in StatusEvents(a)' /\ IsLast(e)'
                                   /\ Past(a, e.id)' = StatusEvents(a)
    BY <1>1, <2>1, <2>2
  <2>4. ASSUME a \in Live' \ overruled, k # "status" PROVE Stands(a)'
    BY <1>1, <1>2, <2>3, <2>4, OthersStand DEF history
  <2>5. a \in used'
    BY <1>1, <1>5, <2>3 DEF TellsOf, Evented
  <2> QED BY <2>k, <2>3, <2>4, <2>5
<1>6. work.kind \in Kind
  BY DEF IInv, HandlerOK, MakeChange, Perform, Kind
<1> QED BY <1>3, <1>4, <1>5, <1>6 DEF Kind, Evented

LEMMA MakeChangeStage ==
  ASSUME IInv, StageInv, NEW a \in App, MakeChange(a)
  PROVE  StageInv'
<1>n. PICK n : n = Snapshot(a)
  OBVIOUS
<1>1. /\ step = "change" /\ a \in left /\ left' = left \ {a}
      /\ step' \in {"change", "record"}
      /\ UNCHANGED <<undo, half, goal, history>>
      /\ work' = [work EXCEPT !.changes = @ \cup {n}]
  BY <1>n DEF MakeChange
<1>2. work \in Undo /\ half = {}
  BY <1>1 DEF IInv, HandlerOK, MakeChange, Perform, NoUndo, StageInv, Stepping
<1>3. work'.kind = work.kind /\ work'.changes = work.changes \cup {n}
  BY <1>1, <1>2 DEF Undo
<1>4. n.app = a /\ (a \in Live => n.before = app[a])
  BY <1>n DEF Snapshot
<1>5. /\ TellsOf(a) /\ a \in used'
      /\ a \in Live' \ overruled => Stands(a)'
      /\ work.kind = "status" =>
           /\ a \in Live
           /\ born'[a] = born[a]
           /\ \E e \in events' : /\ e \in StatusEvents(a)' /\ IsLast(e)'
                                 /\ Past(a, e.id)' = StatusEvents(a)
  BY MakeChangeTells
<1>6. HistoryGrows /\ overruled' = overruled
  BY <1>1 DEF HistoryGrows, history
<1>7. Orderly
  BY MakeChangeOrderly
<1>8. OncePerApp(undo)' /\ Names(undo)' /\ Remembers(undo)'
  BY <1>1, <1>5, <1>6, <1>7, UndoRowKept
<1>9. \A c \in work.changes : c.app \in used /\ c.app \notin left /\ c.app # a
  BY <1>1 DEF StageInv, OncePerApp, Recording
<1>10. OncePerApp(work)'
  <2>1. \A c, d \in work.changes : c.app = d.app => c = d
    BY DEF StageInv, OncePerApp
  <2> QED BY <1>3, <1>4, <1>5, <1>9, <2>1 DEF OncePerApp, TellsOf
<1>11. Stepping'
  BY <1>1, <1>2, <1>3, <1>5 DEF Stepping, StageInv, TellsOf
<1>12. Recording'
  <2>1. \A c \in work'.changes : c.app \notin left'
    BY <1>1, <1>3, <1>4, <1>9
  <2>2. ASSUME work.kind = "status", NEW c \in work'.changes, c.app \in Live' \ overruled'
        PROVE  \E e \in StatusEvents(c.app)' :
                 IsLast(e)' /\ Reads(c.app, Past(c.app, e.id), c.before.status)'
    <3>1. CASE c = n
      <4>1. PICK e \in events' : /\ e \in StatusEvents(a)' /\ IsLast(e)'
                                 /\ Past(a, e.id)' = StatusEvents(a)
        BY <1>5, <2>2
      <4>2. PICK S : S = StatusEvents(a)
        OBVIOUS
      <4>3. PICK s : s = app[a].status
        OBVIOUS
      <4>4. a \in Live /\ c.app = a /\ c.before.status = s
        BY <1>4, <1>5, <2>2, <3>1, <4>3
      <4>5. Stands(a)
        BY <1>2, <1>6, <2>2, <4>4 DEF StageInv, StandsOrHalfWay
      <4>6. Reads(a, S, s)
        BY <4>2, <4>3, <4>5 DEF Stands
      <4>7. Reads(a, S, s)'
        BY <1>5, <1>6, <2>2, <4>6, ReadsKept DEF HistoryGrows
      <4>8. S = Past(a, e.id)'
        BY <4>1, <4>2
      <4>9. Reads(c.app, Past(c.app, e.id), c.before.status)'
        BY <4>4, <4>7, <4>8 DEF Reads
      <4> QED BY <4>1, <4>4, <4>9
    <3>2. CASE c \in work.changes
      <4>1. c.app # a /\ c.app \in Live \ overruled /\ Same(c.app)
        BY <1>5, <1>6, <1>9, <2>2, <3>2 DEF TellsOf
      <4>2. PICK e \in StatusEvents(c.app) :
              IsLast(e) /\ Reads(c.app, Past(c.app, e.id), c.before.status)
        BY <1>1, <2>2, <3>2, <4>1 DEF StageInv, Recording
      <4>3. e \in events /\ e.app = c.app /\ e.id \in Time /\ e.id <= clock
        BY <4>2 DEF StatusEvents, IInv, TablesOK, Ids, Event
      <4>4. PICK S : S = Past(c.app, e.id)
        OBVIOUS
      <4>5. Past(c.app, e.id)' = S
        BY <1>5, <2>2, <4>1, <4>3, <4>4 DEF TellsOf
      <4>6. Reads(c.app, S, c.before.status)'
        BY <1>6, <4>1, <4>2, <4>4, ReadsKept DEF HistoryGrows, Same
      <4>7. Reads(c.app, Past(c.app, e.id), c.before.status)'
        BY <4>5, <4>6 DEF Reads
      <4>8. e \in StatusEvents(c.app)' /\ IsLast(e)'
        BY <4>1, <4>2, <4>3 DEF Same, IsLast
      <4> QED BY <4>7, <4>8
    <3> QED BY <1>3, <2>2, <3>1, <3>2
  <2> QED BY <1>3, <2>1, <2>2 DEF Recording
<1>13. StandsOrHalfWay'
  <2>1. ASSUME NEW b \in Live' \ overruled', b # a PROVE Stands(b)'
    BY <1>2, <1>5, <1>6, <2>1, OthersStand
  <2> QED BY <1>1, <1>2, <1>5, <1>6, <2>1 DEF StandsOrHalfWay
<1> QED BY <1>5, <1>8, <1>10, <1>11, <1>12, <1>13 DEF StageInv, TellsOf

-----------------------------------------------------------------------------
(* last_event_id finds the event of the handler's own change, or nothing.    *)
LEMMA LastEventNames ==
  ASSUME IInv, step = "record", NEW c \in work.changes,
         NEW e \in events, e.id = LastEvent(c.app, work.kind)
  PROVE  e.app = c.app /\ e.type = work.kind
<1>1. CASE work.kind \in Evented
  <2>1. PICK f \in events :
          /\ f.app = c.app /\ f.type = work.kind /\ f.by = "chat"
          /\ \A g \in events : g.app = c.app /\ g.type = work.kind => g.id <= f.id
    BY <1>1 DEF IInv, Written, LastIsChats
  <2>2. e.id = f.id
    BY <2>1, LastEventFound DEF IInv
  <2> QED BY <2>1, <2>2 DEF IInv, Ids
<1>2. CASE work.kind \notin Evented
  <2>1. \A f \in events : f.type # work.kind
    BY <1>2 DEF IInv, TablesOK, Event, Evented
  <2>2. e.id = 0
    BY <2>1, LastEventNone
  <2> QED BY <2>2 DEF IInv, Ids, TablesOK, Event
<1> QED BY <1>1, <1>2

(* The row recorded remembers what the timelines said. *)
LEMMA RecordUndoStage ==
  ASSUME IInv, StageInv, RecordUndo
  PROVE  StageInv'
<1> DEFINE Named(c) == [c EXCEPT !.event = LastEvent(c.app, work.kind)]
<1>1. /\ step = "record" /\ step' = "idle" /\ work' = NoUndo /\ left' = {} /\ half' = {}
      /\ undo' = [work EXCEPT !.changes = {Named(c) : c \in work.changes}]
      /\ UNCHANGED <<appTables, history>>
  BY DEF RecordUndo, Return
<1>2. half = {}
  BY <1>1 DEF StageInv, Stepping
<1>3. Attached' /\ \A b \in Live' \ overruled' : Stands(b)'
  BY <1>1, <1>2, AllStand
<1>4. undo'.kind = work.kind /\ undo'.changes = {Named(c) : c \in work.changes}
  BY <1>1 DEF IInv, HandlerOK, Undo, NoUndo
<1>5. \A c \in work.changes : /\ Named(c).app = c.app /\ Named(c).before = c.before
                              /\ Named(c).event = LastEvent(c.app, work.kind)
  BY UndoneChange DEF Change
<1> HIDE DEF Named
<1>6. OncePerApp(undo)'
  BY <1>1, <1>4, <1>5 DEF StageInv, OncePerApp, appTables
<1>7. Names(undo)'
  BY <1>1, <1>4, <1>5, LastEventNames DEF Names, appTables
<1>8. Remembers(undo)'
  <2> SUFFICES ASSUME work.kind = "status", NEW c \in work.changes,
                      c.app \in Live \ overruled
               PROVE  Reads(c.app, Past(c.app, LastEvent(c.app, work.kind)), c.before.status)
    BY <1>1, <1>4, <1>5 DEF Remembers, Reads, Past, StatusEvents, Live, appTables, history
  <2>1. PICK e \in StatusEvents(c.app) :
          IsLast(e) /\ Reads(c.app, Past(c.app, e.id), c.before.status)
    BY <1>1 DEF StageInv, Recording
  <2>2. LastEvent(c.app, work.kind) = e.id
    <3>1. /\ e \in events /\ e.app = c.app /\ e.type = work.kind
          /\ \A f \in events : f.app = c.app /\ f.type = work.kind => f.id <= e.id
      BY <2>1 DEF StatusEvents, IsLast
    <3> QED BY <3>1, LastEventFound DEF IInv
  <2> QED BY <2>1, <2>2
<1>9. Stepping' /\ OncePerApp(work)' /\ Recording'
  BY <1>1, NoUndoSound DEF Stepping, OncePerApp, NoUndo, Recording
<1>10. StandsOrHalfWay'
  BY <1>1, <1>3 DEF StandsOrHalfWay
<1> QED BY <1>3, <1>6, <1>7, <1>8, <1>9, <1>10 DEF StageInv

(* Reading, reversing and clearing the row. *)
LEMMA UndoRowStage ==
  ASSUME IInv, StageInv, UndoTombstone \/ UndoRead \/ UndoDone
  PROVE  StageInv'
<1>1. UNCHANGED <<appTables, history>> /\ half = {} /\ half' = {}
  BY DEF UndoTombstone, UndoRead, UndoDone, Return, Idle, StageInv, Stepping, handler
<1>2. Attached' /\ \A b \in Live' \ overruled' : Stands(b)'
  BY <1>1, AllStand
<1>3. StandsOrHalfWay'
  BY <1>1, <1>2 DEF StandsOrHalfWay
<1>4. CASE UndoTombstone \/ UndoDone
  <2>1. undo' = NoUndo /\ work' = NoUndo /\ step' = "idle"
    BY <1>4 DEF UndoTombstone, UndoDone, Return, Idle, StageInv, Stepping, handler
  <2>2. OncePerApp(undo)' /\ Names(undo)' /\ Remembers(undo)' /\ OncePerApp(work)'
    BY <2>1, NoUndoSound DEF OncePerApp, Names, Remembers, NoUndo
  <2>3. Stepping' /\ Recording'
    BY <1>1, <2>1 DEF Stepping, Recording
  <2> QED BY <1>2, <1>3, <2>2, <2>3 DEF StageInv
<1>5. CASE UndoRead
  <2>1. undo' = undo /\ work' = undo /\ step' = "undo"
    BY <1>5 DEF UndoRead
  <2>2. OncePerApp(undo)' /\ Names(undo)' /\ Remembers(undo)'
    <3>1. \A a : TellsOf(a)
      BY <1>1, NothingTold DEF StageInv
    <3>2. Orderly /\ HistoryGrows
      BY <1>1, Untouched DEF HistoryGrows, history
    <3> QED BY <2>1, <3>1, <3>2, UndoRowKept
  <2>3. OncePerApp(work)'
    BY <2>1, <2>2 DEF OncePerApp
  <2>4. Stepping' /\ Recording'
    BY <1>1, <2>1 DEF Stepping, Recording
  <2> QED BY <1>2, <1>3, <2>2, <2>3, <2>4 DEF StageInv
<1> QED BY <1>4, <1>5

(* A transaction of an undo that erases nothing another row could name. *)
LEMMA UndoingStage ==
  ASSUME IInv, StageInv, Orderly, HistoryGrows, NEW a, TellsOf(a),
         step = "undo", UNCHANGED <<undo, step, work>>,
         \A b, c \in half' : b = c, StandsOrHalfWay'
  PROVE  StageInv'
<1>1. OncePerApp(undo)' /\ Names(undo)' /\ Remembers(undo)'
  BY UndoRowKept
<1>2. work' = undo'
  BY DEF StageInv, Stepping
<1>3. OncePerApp(work)'
  BY <1>1, <1>2 DEF OncePerApp
<1>4. Stepping' /\ Recording'
  BY <1>2 DEF Stepping, Recording
<1> QED BY <1>1, <1>3, <1>4 DEF StageInv, TellsOf

LEMMA UndoApplyStage ==
  ASSUME IInv, StageInv, NEW a \in App, UndoApply(a)
  PROVE  StageInv'
<1>1. TablesOK /\ Ids /\ Attached /\ DeleteRow(a) /\ work.kind = "apply" /\ step = "undo"
  BY DEF IInv, StageInv, UndoApply
<1>2. UNCHANGED <<undo, step, work, half, goal, history>>
  BY DEF UndoApply
<1>3. Orderly /\ TellsOf(a) /\ a \notin Live'
  BY <1>1, DeleteOrderly, DeleteTells
<1>4. HistoryGrows
  BY <1>2 DEF HistoryGrows, history
<1>5. \A b \in Live' \ overruled' : Stands(b)'
  BY <1>1, <1>3, <1>4, OthersStand
<1>6. StandsOrHalfWay'
  BY <1>1, <1>2, <1>5 DEF StandsOrHalfWay
<1>7. \A b, c \in half' : b = c
  BY <1>2 DEF StageInv, Stepping
<1> QED BY <1>1, <1>2, <1>3, <1>4, <1>6, <1>7, UndoingStage

(* Half of putting one back: a note's event goes, or the row is restored.     *)
LEMMA PutBackFirstStage ==
  ASSUME IInv, StageInv, NEW c \in work.changes, PutBackFirst(c)
  PROVE  StageInv'
<1>1. c \in Change /\ TablesOK /\ Ids /\ Attached
  BY UndoneChange DEF IInv, StageInv
<1>2. /\ step = "undo" /\ half = {} /\ half' = {c.app}
      /\ UNCHANGED <<undo, step, work, goal, torn>>
      /\ IF work.kind = "note" THEN DropEvent(c) ELSE RestoreRow(work.kind, c)
      /\ overruled' = IF Overrules(c) THEN overruled \cup {c.app} ELSE overruled
  BY DEF PutBackFirst
<1>3. HistoryGrows
  BY <1>2 DEF HistoryGrows
<1>k. PICK k : k = work.kind
  OBVIOUS
<1>4. \A a, b \in half' : a = b
  BY <1>2
<1>5. CASE k = "note"
  <2>1. DropEvent(c) /\ Names(work)
    BY <1>2, <1>5, <1>k DEF StageInv, Stepping, Names
  <2>2. PICK u : u = work
    OBVIOUS
  <2>3. /\ Attached' /\ Live' = Live /\ UNCHANGED <<used, born, app>>
        /\ \A b : StatusEvents(b)' = StatusEvents(b)
    BY <1>1, <1>5, <1>k, <2>1, <2>2, DropTells
  <2>4. \A b \in Live : Same(b)
    BY <2>3 DEF Same
  <2>5. TellsOf(c.app)
    BY <2>3, <2>4 DEF TellsOf, Past
  <2>6. Orderly
    BY <1>1, <2>1, DropOrderly
  <2>7. \A b \in Live' \ overruled' : Stands(b)'
    BY <1>2, <1>3, <2>3, <2>4, <2>5, OthersStand
  <2>8. StandsOrHalfWay'
    BY <1>2, <1>5, <1>k, <2>7 DEF StandsOrHalfWay
  <2> QED BY <1>2, <1>3, <1>4, <2>5, <2>6, <2>8, UndoingStage
<1>6. CASE k # "note"
  <2>1. RestoreRow(k, c)
    BY <1>2, <1>6, <1>k
  <2>2. Orderly
    BY <1>1, <2>1, RestoreOrderly
  <2>3. /\ TellsOf(c.app) /\ Live' = Live
        /\ k # "status" => \A b \in Live : Same(b)
        /\ k = "status" /\ c.app \in Live => app'[c.app].status = c.before.status
        /\ \A b : StatusEvents(b)' = StatusEvents(b) /\ born'[b] = born[b]
        /\ \A b, i : Past(b, i)' = Past(b, i) /\ Newer(b, i)' = Newer(b, i)
    BY <1>1, <2>1, RestoreTells
  <2>4. ASSUME NEW b \in Live' \ overruled', b # c.app \/ k # "status" PROVE Stands(b)'
    BY <1>2, <1>3, <2>3, <2>4, OthersStand
  <2>5. ASSUME c.app \in Live' \ overruled', k = "status" PROVE HalfWay(c.app)'
    <3>1. c.app \in Live \ overruled /\ ~Overrules(c)
      BY <1>2, <1>3, <2>3, <2>5 DEF HistoryGrows
    <3>2. c \in work'.changes
      BY <1>2
    <3>3. CASE Newer(c.app, c.event)
      <4>1. app[c.app].status = c.before.status
        BY <1>k, <2>5, <3>1, <3>3 DEF Overrules
      <4>2. Same(c.app)
        BY <2>3, <2>5, <3>1, <4>1 DEF Same
      <4>3. Stands(c.app)'
        BY <1>2, <1>3, <2>3, <2>5, <3>1, <4>2, OthersStand
      <4>4. Newer(c.app, c.event)'
        BY <2>3, <3>3
      <4> QED BY <3>2, <4>3, <4>4 DEF HalfWay
    <3>4. CASE ~Newer(c.app, c.event)
      <4>1. ~Newer(c.app, c.event)'
        BY <2>3, <3>4
      <4>2. app'[c.app].status = c.before.status
        BY <2>3, <2>5, <3>1
      <4> QED BY <3>2, <4>1, <4>2 DEF HalfWay
    <3> QED BY <3>3, <3>4
  <2>6. StandsOrHalfWay'
    BY <1>2, <1>k, <2>4, <2>5 DEF StandsOrHalfWay
  <2> QED BY <1>2, <1>3, <1>4, <2>2, <2>3, <2>6, UndoingStage
<1> QED BY <1>5, <1>6

(* Where a status change half undone stands once its event is gone: where its  *)
(* timeline has gone on to, or where it stood before that event.              *)
LEMMA ErasedStands ==
  ASSUME IInv, StageInv, step = "undo", work.kind = "status", NEW c \in work.changes,
         c.app \in half, c.app \in Live \ overruled, DropEvent(c), UNCHANGED torn
  PROVE  Stands(c.app)'
<1>1. c \in Change /\ TablesOK /\ Attached /\ Names(work) /\ Remembers(work)
  BY UndoneChange DEF IInv, StageInv, Stepping, Names, Remembers
<1>2. PICK u : u = work
  OBVIOUS
<1>3. /\ UNCHANGED <<born, app>>
      /\ StatusEvents(c.app)' = {e \in StatusEvents(c.app) : e.id # c.event}
  BY <1>1, <1>2, DropTells
<1>4. PICK b : b = c.app
  OBVIOUS
<1>5. c.event \in Nat /\ \A e \in StatusEvents(b) : e.id \in Nat /\ e \in events
  BY <1>1 DEF Change, TablesOK, Event, StatusEvents
<1>6. IF Newer(b, c.event) THEN Stands(b) ELSE app[b].status = c.before.status
  BY <1>4 DEF StageInv, StandsOrHalfWay, HalfWay, OncePerApp
<1>7. CASE Newer(b, c.event)
  <2>1. PICK n \in StatusEvents(b) : n.id > c.event
    BY <1>7 DEF Newer, StatusEvents
  <2>2. PICK e \in StatusEvents(b) : /\ \A f \in StatusEvents(b) : f.id <= e.id
                                     /\ app[b].status = e.stage \/ e.id \in torn
    BY <1>6, <1>7, <2>1 DEF Stands, Reads
  <2>3. e.id # c.event
    BY <1>5, <2>1, <2>2
  <2> QED BY <1>3, <1>4, <2>2, <2>3 DEF Stands, Reads
<1>8. CASE ~Newer(b, c.event)
  <2>1. \A e \in StatusEvents(b) : ~(e.id > c.event)
    BY <1>8 DEF Newer, StatusEvents
  <2>2. \A e \in StatusEvents(b) : e.id # c.event <=> e.id < c.event
    BY <1>5, <2>1
  <2>3. Past(b, c.event) = {e \in StatusEvents(b) : e.id # c.event}
    BY <2>2 DEF Past
  <2>4. PICK S : S = Past(b, c.event)
    OBVIOUS
  <2>5. Reads(b, S, c.before.status)
    BY <1>1, <1>4, <2>4 DEF Remembers
  <2>6. Reads(b, S, c.before.status)'
    BY <1>3, <2>5, ReadsKept
  <2>7. S = StatusEvents(b)' /\ app'[b].status = c.before.status
    BY <1>3, <1>4, <1>6, <1>8, <2>3, <2>4
  <2> QED BY <1>4, <2>6, <2>7 DEF Stands, Reads
<1> QED BY <1>7, <1>8

(* The other half: the row, or the event of the change undone.               *)
LEMMA PutBackSecondStage ==
  ASSUME IInv, StageInv, NEW c \in work.changes, PutBackSecond(c)
  PROVE  StageInv'
<1>1. c \in Change /\ TablesOK /\ Ids /\ Attached
  BY UndoneChange DEF IInv, StageInv
<1>2. /\ step = "undo" /\ c.app \in half /\ half' = {}
      /\ UNCHANGED <<undo, step, work, goal, history>>
      /\ IF work.kind = "note" THEN RestoreRow(work.kind, c) ELSE DropEvent(c)
  BY DEF PutBackSecond
<1>3. HistoryGrows /\ torn' = torn /\ overruled' = overruled
  BY <1>2 DEF HistoryGrows, history
<1>k. PICK k : k = work.kind
  OBVIOUS
<1>4. \A a, b \in half' : a = b
  BY <1>2
<1>5. CASE k = "note"
  <2>1. RestoreRow(k, c)
    BY <1>2, <1>5, <1>k
  <2>2. Orderly
    BY <1>1, <2>1, RestoreOrderly
  <2>3. TellsOf(c.app) /\ Live' = Live /\ \A b \in Live : Same(b)
    BY <1>1, <1>5, <2>1, RestoreTells
  <2>4. \A b \in Live' \ overruled' : Stands(b)'
    BY <1>3, <1>5, <1>k, <2>3, OthersStand
  <2>5. StandsOrHalfWay'
    BY <1>2, <2>4 DEF StandsOrHalfWay
  <2> QED BY <1>2, <1>3, <1>4, <2>2, <2>3, <2>5, UndoingStage
<1>6. CASE k # "note"
  <2>u. PICK u : u = work
    OBVIOUS
  <2>1. DropEvent(c) /\ Names(u) /\ Remembers(u) /\ OncePerApp(u) /\ c \in u.changes /\ u = undo
    BY <1>2, <1>6, <1>k, <2>u DEF StageInv, Stepping
  <2>2. /\ Attached' /\ Live' = Live /\ UNCHANGED <<used, born, app>>
        /\ \A b : k # "status" \/ b # c.app => StatusEvents(b)' = StatusEvents(b)
        /\ StatusEvents(c.app)' = {e \in StatusEvents(c.app) : e.id # c.event}
    BY <1>1, <1>k, <2>u, <2>1, DropTells
  <2>3. Orderly
    BY <1>1, <2>1, DropOrderly
  <2>4. \A b \in Live : k # "status" \/ b # c.app => Same(b)
    BY <2>2 DEF Same
  <2>5. CASE k # "status"
    <3>1. TellsOf(c.app)
      BY <2>2, <2>4, <2>5 DEF TellsOf, Past
    <3>2. \A b \in Live' \ overruled' : Stands(b)'
      BY <1>3, <1>k, <2>2, <2>4, <2>5, <3>1, OthersStand
    <3>3. StandsOrHalfWay'
      BY <1>2, <3>2 DEF StandsOrHalfWay
    <3> QED BY <1>2, <1>3, <1>4, <2>3, <3>1, <3>3, UndoingStage
  <2>6. CASE k = "status"
    <3>1. OncePerApp(u)'
      BY <2>1, <2>2 DEF OncePerApp
    <3>2. Names(u)'
      BY <2>1 DEF Names, DropEvent
    <3>3. Remembers(u)'
      <4> SUFFICES ASSUME NEW d \in u.changes, d.app \in Live \ overruled
                   PROVE  Reads(d.app, Past(d.app, d.event), d.before.status)'
        BY <1>3, <2>2 DEF Remembers
      <4>1. PICK S : S = Past(d.app, d.event)
        OBVIOUS
      <4>2. Reads(d.app, S, d.before.status)
        BY <1>k, <2>u, <2>1, <2>6, <4>1 DEF Remembers
      <4>3. Reads(d.app, S, d.before.status)'
        BY <1>3, <2>2, <4>2, ReadsKept
      <4>4. S = Past(d.app, d.event)'
        <5>1. CASE d.app # c.app
          BY <2>2, <4>1, <5>1 DEF Past
        <5>2. CASE d.app = c.app
          <6>1. d = c
            BY <2>1, <5>2 DEF OncePerApp
          <6>2. c.event \in Nat
            BY <1>1 DEF Change
          <6> QED BY <2>2, <4>1, <6>1, <6>2 DEF Past
        <5> QED BY <5>1, <5>2
      <4> QED BY <4>3, <4>4 DEF Reads
    <3>4. u = undo' /\ u = work'
      BY <1>2, <2>u, <2>1
    <3>5. /\ OncePerApp(undo)' /\ Names(undo)' /\ Remembers(undo)' /\ OncePerApp(work)'
      BY <3>1, <3>2, <3>3, <3>4 DEF OncePerApp, Names, Remembers
    <3>6. Stepping' /\ Recording'
      BY <1>2, <3>4 DEF Stepping, Recording
    <3>7. ASSUME NEW b \in Live' \ overruled' PROVE Stands(b)'
      <4>1. b \in Live \ overruled
        BY <1>3, <2>2
      <4>2. CASE b = c.app
        BY <1>2, <1>3, <1>k, <2>1, <2>6, <4>1, <4>2, ErasedStands
      <4>3. CASE b # c.app
        <5>1. b \notin half
          BY <1>2, <4>3 DEF StageInv, Stepping
        <5>2. Stands(b)
          BY <4>1, <5>1 DEF StageInv, StandsOrHalfWay
        <5> QED BY <1>3, <2>4, <4>1, <4>3, <5>2, StandsKept
      <4> QED BY <4>2, <4>3
    <3>8. StandsOrHalfWay'
      BY <1>2, <3>7 DEF StandsOrHalfWay
    <3> QED BY <2>2, <3>5, <3>6, <3>8 DEF StageInv
  <2> QED BY <2>5, <2>6
<1> QED BY <1>5, <1>6

(* The phone writes between handlers, and leaves the row alone. *)
LEMMA PhoneStage ==
  ASSUME IInv, StageInv, PhoneStep
  PROVE  StageInv'
<1>1. UNCHANGED <<undo, handler, history>> /\ step = "idle"
  BY DEF PhoneStep, PhoneStatus, PhoneFile, PhoneEdit, PhoneDelete, history, Idle
<1>2. TablesOK /\ Ids /\ Attached /\ half = {} /\ work = NoUndo
  BY <1>1 DEF IInv, StageInv, Stepping
<1>3. HistoryGrows /\ overruled' = overruled
  BY <1>1 DEF HistoryGrows, history
<1>4. \E a \in App : Orderly /\ TellsOf(a) /\ (a \in Live' \ overruled => Stands(a)')
  <2>1. ASSUME NEW a \in App, NEW s \in Stage, PhoneStatus(a, s)
        PROVE  Orderly /\ TellsOf(a) /\ Stands(a)'
    <3>1. UpdateStatus(a, s, "phone") /\ "status" \in Evented /\ \E d : d \in Detail
      BY <2>1 DEF PhoneStatus, Evented
    <3> QED BY <1>2, <3>1, ChangeOrderly, ChangeTells
  <2>2. ASSUME NEW a \in App, NEW d \in Detail, PhoneFile(a, d)
        PROVE  Orderly /\ TellsOf(a) /\ Stands(a)'
    BY <1>2, <2>2, CreateOrderly, CreateTells DEF PhoneFile
  <2>3. ASSUME NEW a \in App, NEW d \in Detail, PhoneEdit(a, d)
        PROVE  Orderly /\ TellsOf(a) /\ (a \in Live' \ overruled => Stands(a)')
    <3>1. EditDetail(a, d, "phone") /\ "edit" \in Evented /\ Applied \in Stage
      BY <2>3 DEF PhoneEdit, Evented
    <3>2. Orderly /\ TellsOf(a) /\ a \in Live /\ Same(a)
      BY <1>2, <3>1, ChangeOrderly, ChangeTells
    <3> QED BY <1>2, <1>3, <3>2, OthersStand
  <2>4. ASSUME NEW a \in App, PhoneDelete(a)
        PROVE  Orderly /\ TellsOf(a) /\ a \notin Live'
    BY <1>2, <2>4, DeleteOrderly, DeleteTells DEF PhoneDelete
  <2> QED BY <2>1, <2>2, <2>3, <2>4 DEF PhoneStep
<1>5. PICK a \in App : Orderly /\ TellsOf(a) /\ (a \in Live' \ overruled => Stands(a)')
  BY <1>4
<1>6. OncePerApp(undo)' /\ Names(undo)' /\ Remembers(undo)'
  BY <1>1, <1>3, <1>5, UndoRowKept
<1>7. Stepping' /\ OncePerApp(work)' /\ Recording'
  BY <1>1, <1>2, NoUndoSound DEF handler, Stepping, OncePerApp, NoUndo, Recording
<1>8. \A b \in Live' \ overruled' : Stands(b)'
  BY <1>2, <1>3, <1>5, OthersStand
<1>9. StandsOrHalfWay'
  BY <1>1, <1>2, <1>8 DEF StandsOrHalfWay, handler
<1> QED BY <1>5, <1>6, <1>7, <1>9 DEF StageInv, TellsOf

(* A cut leaves the application it was putting back with an event too many, or  *)
(* where the row says.                                                     *)
LEMMA StopStage ==
  ASSUME IInv, StageInv, Stop
  PROVE  StageInv'
<1>1. /\ step' = "idle" /\ work' = NoUndo /\ left' = {} /\ half' = {}
      /\ UNCHANGED <<appTables, undo, overruled>>
      /\ torn' = torn \cup {c.event : c \in {d \in work.changes : d.app \in half}}
  BY DEF Stop, Return
<1>2. HistoryGrows
  BY <1>1 DEF HistoryGrows
<1>3. \A a : TellsOf(a) /\ \A b \in Live' : b \in Live /\ Same(b)
  BY <1>1, NothingTold DEF StageInv
<1>4. OncePerApp(undo)' /\ Names(undo)' /\ Remembers(undo)'
  BY <1>1, <1>2, <1>3, Untouched, UndoRowKept
<1>5. Stepping' /\ OncePerApp(work)' /\ Recording'
  BY <1>1, NoUndoSound DEF Stepping, OncePerApp, NoUndo, Recording
<1>6. ASSUME NEW b \in Live' \ overruled' PROVE Stands(b)'
  <2>1. b \in Live \ overruled /\ Same(b)
    BY <1>1, <1>3
  <2>2. CASE Stands(b)
    BY <1>2, <2>1, <2>2, StandsKept DEF HistoryGrows
  <2>3. CASE ~Stands(b)
    <3>1. work.kind = "status" /\ b \in half /\ HalfWay(b)
      BY <2>1, <2>3 DEF StageInv, StandsOrHalfWay
    <3>2. PICK c \in work.changes :
            c.app = b /\ ~Newer(b, c.event) /\ app[b].status = c.before.status
      BY <2>3, <3>1 DEF HalfWay
    <3>3. c.event \in torn'
      BY <1>1, <3>1, <3>2
    <3>4. c.event \in Nat /\ \A e \in StatusEvents(b) : e.id \in Nat /\ e.id <= c.event
      <4>1. c.event \in Nat
        BY UndoneChange DEF Change
      <4>2. \A e \in StatusEvents(b) : e.id \in Nat /\ ~(e.id > c.event)
        BY <3>2 DEF Newer, StatusEvents, IInv, TablesOK, Event
      <4> QED BY <4>1, <4>2
    <3>5. CASE \E e \in StatusEvents(b) : e.id = c.event
      <4>1. PICK e \in StatusEvents(b) : e.id = c.event
        BY <3>5
      <4>2. e \in StatusEvents(b)' /\ \A f \in StatusEvents(b)' : f.id <= e.id
        BY <2>1, <3>4, <4>1 DEF Same
      <4> QED BY <3>3, <4>1, <4>2 DEF Stands, Reads
    <3>6. CASE ~ \E e \in StatusEvents(b) : e.id = c.event
      <4>1. Past(b, c.event) = StatusEvents(b)
        BY <3>4, <3>6 DEF Past
      <4>2. Reads(b, Past(b, c.event), c.before.status)
        BY <2>1, <3>1, <3>2 DEF StageInv, Stepping, Remembers
      <4>3. Stands(b)
        BY <3>2, <4>1, <4>2 DEF Stands
      <4> QED BY <2>3, <4>3
    <3> QED BY <3>5, <3>6
  <2> QED BY <2>2, <2>3
<1>7. StandsOrHalfWay'
  BY <1>1, <1>6 DEF StandsOrHalfWay
<1> QED BY <1>3, <1>4, <1>5, <1>7 DEF StageInv, TellsOf

LEMMA StageStep == IInv /\ StageInv /\ [Next]_timelineVars => StageInv'
<1> SUFFICES ASSUME IInv, StageInv, [Next]_timelineVars PROVE StageInv'
  OBVIOUS
<1>1. CASE UNCHANGED timelineVars
  BY <1>1 DEF timelineVars, appTables, handler, history, StageInv, Attached, Stepping,
              OncePerApp, Names, Remembers, Recording, StandsOrHalfWay, HalfWay, Newer,
              Stands, Reads, Past, IsLast, StatusEvents, Live
<1>2. CASE ChatStep
  <2>1. CASE UndoNothing
    BY <2>1, <1>1 DEF UndoNothing
  <2> QED BY <1>2, <2>1, ChatBeginStage, MakeChangeStage, RecordUndoStage, UndoRowStage,
             UndoApplyStage, PutBackFirstStage, PutBackSecondStage DEF ChatStep
<1>3. CASE PhoneStep
  BY <1>3, PhoneStage
<1>4. CASE Stop
  BY <1>4, StopStage
<1> QED BY <1>1, <1>2, <1>3, <1>4 DEF Next

(* An application stands at the stage its timeline ends with, whatever chat and  *)
(* the phone change between them, however many applications a bulk change      *)
(* moves, and wherever the handler that undoes it stops.                     *)
THEOREM StatusFollows == Spec => []StatusFollowsTimeline
<1>1. IInv /\ StageInv => StatusFollowsTimeline
  BY DEF StageInv, StandsOrHalfWay, Stands, Reads, StatusFollowsTimeline, Told, IsLast,
         StatusEvents
<1> QED BY <1>1, InitInv, StepInv, StageInit, StageStep, PTL DEF Spec
=============================================================================
