----------------------------- MODULE Reminders -----------------------------
(***************************************************************************)
(* Follow-up reminders and the heads-up of a deadline: chat records them     *)
(* (app/engine.py, app/deadlines.py), and delivery loops ship those that are *)
(* due (app/reminders.py): the scheduler's job, of which APScheduler runs one *)
(* instance at a time, and "python -m app.scheduler" in a process of its own. *)
(*                                                                         *)
(* A delivery appends to the chat transcript, composes the notification (it  *)
(* reads the user's name), sends the push, then marks the row sent: steps     *)
(* that fail one by one.  remind_at is abstracted to whether it has passed.  *)
(***************************************************************************)
EXTENDS Naturals

CONSTANTS Reminder,  \* rows that may be recorded
          HeadsUp,   \* those a deadline records for the day before it
          Loop,      \* delivery loops
          NoReminder,
          MaxFaults  \* bound: failed statements and process deaths

ASSUME RemindersAssumption ==
  /\ HeadsUp \subseteq Reminder
  /\ NoReminder \notin Reminder
  /\ MaxFaults \in Nat

VARIABLES status,   \* reminders.status, or "absent"
          due,      \* rows whose remind_at has passed
          calendar, \* deadlines recorded, named by their heads-up
          recording,\* deadline recorded, its heads-up not yet
          lpc,      \* where each loop is
          batch,    \* rows it listed and has still to send
          current,  \* the row it is sending
          shown,    \* history: times a reminder was put in the transcript
          cut,      \* history: rows whose delivery was cut short, or that two
                    \* loops had listed at once
          halfMade, \* history: deadlines whose heads-up was never recorded
          faults

handlerVars == <<calendar, recording, halfMade>>
loopVars == <<lpc, batch, current>>
reminderVars == <<status, due, handlerVars, loopVars, shown, cut, faults>>

TypeOK ==
  /\ status \in [Reminder -> {"absent", "pending", "sent"}]
  /\ due \subseteq Reminder
  /\ calendar \subseteq HeadsUp
  /\ recording \in HeadsUp \cup {NoReminder}
  /\ lpc \in [Loop -> {"idle", "next", "notify", "mark"}]
  /\ batch \in [Loop -> SUBSET Reminder]
  /\ current \in [Loop -> Reminder \cup {NoReminder}]
  /\ shown \in [Reminder -> 0..2]
  /\ cut \subseteq Reminder
  /\ halfMade \subseteq HeadsUp
  /\ faults \in Nat

Init ==
  /\ status = [m \in Reminder |-> "absent"]
  /\ due = {} /\ calendar = {} /\ recording = NoReminder
  /\ lpc = [l \in Loop |-> "idle"]
  /\ batch = [l \in Loop |-> {}]
  /\ current = [l \in Loop |-> NoReminder]
  /\ shown = [m \in Reminder |-> 0]
  /\ cut = {} /\ halfMade = {} /\ faults = 0

(* Histories count to two. *)
Again(n) == IF n < 2 THEN n + 1 ELSE n

Fault == faults < MaxFaults /\ faults' = faults + 1

-----------------------------------------------------------------------------
(* Chat, on the event loop: one handler at a time.                          *)

(* create_reminder; "asap" is due at once, and so is the heads-up of a        *)
(* deadline less than a day away.                                           *)
Record(m, soon) ==
  /\ status[m] = "absent"
  /\ status' = [status EXCEPT ![m] = "pending"]
  /\ due' = IF soon THEN due \cup {m} ELSE due

(* _do_remind -> schedule_for_company *)
Remind(m, soon) ==
  /\ recording = NoReminder /\ m \notin HeadsUp
  /\ Record(m, soon)
  /\ UNCHANGED <<handlerVars, loopVars, shown, cut, faults>>

(* Mutated form of AddDeadline: no heads-up follows. *)
AddDeadlineAlone(m) ==
  /\ recording = NoReminder /\ m \in HeadsUp \ calendar
  /\ calendar' = calendar \cup {m}
  /\ UNCHANGED <<status, due, recording, halfMade, loopVars, shown, cut, faults>>

(* _do_deadline and _maybe_deadline_from_update -> create_deadline: the       *)
(* deadline is committed before its heads-up is recorded.                   *)
AddDeadline(m) ==
  /\ recording = NoReminder /\ m \in HeadsUp \ calendar
  /\ calendar' = calendar \cup {m}
  /\ recording' = m
  /\ UNCHANGED <<status, due, halfMade, loopVars, shown, cut, faults>>

AddHeadsUp(soon) ==
  /\ recording # NoReminder
  /\ Record(recording, soon)
  /\ recording' = NoReminder
  /\ UNCHANGED <<calendar, halfMade, loopVars, shown, cut, faults>>

AbandonHeadsUp ==
  /\ recording # NoReminder
  /\ halfMade' = halfMade \cup {recording}
  /\ recording' = NoReminder
  /\ UNCHANGED calendar

HeadsUpFails ==
  /\ Fault /\ AbandonHeadsUp
  /\ UNCHANGED <<status, due, loopVars, shown, cut>>

TimePasses(m) ==
  /\ status[m] = "pending" /\ m \notin due
  /\ due' = due \cup {m}
  /\ UNCHANGED <<status, handlerVars, loopVars, shown, cut, faults>>

-----------------------------------------------------------------------------
(* deliver_due_reminders.                                                   *)

Held(l) == batch[l] \cup ({current[l]} \ {NoReminder})

Due == {m \in due : status[m] = "pending"}

ListDue(l) ==
  /\ lpc[l] = "idle" /\ Due # {}
  /\ batch' = [batch EXCEPT ![l] = Due]
  /\ lpc' = [lpc EXCEPT ![l] = "next"]
  /\ cut' = cut \cup {m \in Due : \E k \in Loop \ {l} : m \in Held(k)}
  /\ UNCHANGED <<status, due, handlerVars, current, shown, faults>>

(* AppSender.send: the transcript.  A failure to append is logged, and the    *)
(* send goes on.                                                            *)
Append(l, m, landed) ==
  /\ lpc[l] = "next" /\ m \in batch[l]
  /\ batch' = [batch EXCEPT ![l] = @ \ {m}]
  /\ current' = [current EXCEPT ![l] = m]
  /\ lpc' = [lpc EXCEPT ![l] = "notify"]
  /\ IF landed
       THEN shown' = [shown EXCEPT ![m] = Again(@)] /\ UNCHANGED faults
       ELSE Fault /\ UNCHANGED shown
  /\ UNCHANGED <<status, due, handlerVars, cut>>

(* The notification is composed; the push itself never raises. *)
Notify(l) ==
  /\ lpc[l] = "notify"
  /\ lpc' = [lpc EXCEPT ![l] = "mark"]
  /\ UNCHANGED <<status, due, handlerVars, batch, current, shown, cut, faults>>

(* Mutated form of NotifyFails: the failed row is given up. *)
NotifyFailsForGood(l) ==
  /\ lpc[l] = "notify" /\ Fault
  /\ status' = [status EXCEPT ![current[l]] = "absent"]
  /\ lpc' = [lpc EXCEPT ![l] = "next"]
  /\ current' = [current EXCEPT ![l] = NoReminder]
  /\ cut' = cut \cup {current[l]}
  /\ UNCHANGED <<due, handlerVars, batch, shown>>

(* Composing it raises: "leaving pending", on with the next row. *)
NotifyFails(l) ==
  /\ lpc[l] = "notify" /\ Fault
  /\ lpc' = [lpc EXCEPT ![l] = "next"]
  /\ current' = [current EXCEPT ![l] = NoReminder]
  /\ cut' = cut \cup {current[l]}
  /\ UNCHANGED <<status, due, handlerVars, batch, shown>>

(* Mutated form of MarkSent: the row is not marked. *)
MarkSentNot(l) ==
  /\ lpc[l] = "mark"
  /\ lpc' = [lpc EXCEPT ![l] = "next"]
  /\ current' = [current EXCEPT ![l] = NoReminder]
  /\ UNCHANGED <<status, due, handlerVars, batch, shown, cut, faults>>

MarkSent(l) ==
  /\ lpc[l] = "mark"
  /\ status' = [status EXCEPT ![current[l]] = "sent"]
  /\ lpc' = [lpc EXCEPT ![l] = "next"]
  /\ current' = [current EXCEPT ![l] = NoReminder]
  /\ UNCHANGED <<due, handlerVars, batch, shown, cut, faults>>

EndDelivery(l) ==
  /\ lpc[l] = "next" /\ batch[l] = {}
  /\ lpc' = [lpc EXCEPT ![l] = "idle"]
  /\ UNCHANGED <<status, due, handlerVars, batch, current, shown, cut, faults>>

Stop(l) ==
  /\ lpc' = [lpc EXCEPT ![l] = "idle"]
  /\ batch' = [batch EXCEPT ![l] = {}]
  /\ current' = [current EXCEPT ![l] = NoReminder]
  /\ cut' = cut \cup ({current[l]} \ {NoReminder})

(* mark_sent is not inside the try: if it raises, the rest of the batch waits *)
(* for the next delivery.  A loop's process that dies does the same.         *)
DeliveryFails(l) ==
  /\ lpc[l] # "idle" /\ Fault
  /\ Stop(l)
  /\ UNCHANGED <<status, due, handlerVars, shown>>

Deliver(l) ==
  \/ ListDue(l) \/ Notify(l) \/ MarkSent(l) \/ EndDelivery(l)
  \/ \E m \in Reminder : Append(l, m, TRUE)

DeliverBadly(l) ==
  \/ NotifyFails(l) \/ DeliveryFails(l)
  \/ \E m \in Reminder : Append(l, m, FALSE)

Next ==
  \/ \E m \in Reminder :
       \/ \E soon \in BOOLEAN : Remind(m, soon)
       \/ AddDeadline(m) \/ TimePasses(m)
  \/ \E soon \in BOOLEAN : AddHeadsUp(soon)
  \/ HeadsUpFails
  \/ \E l \in Loop : Deliver(l) \/ DeliverBadly(l)

(* The handler that recorded a deadline goes on; time passes; the scheduler's *)
(* interval job keeps delivering.  The script may be run, or not.            *)
SchedulerFairness(scheduler) ==
  /\ WF_reminderVars(\E soon \in BOOLEAN : AddHeadsUp(soon))
  /\ \A m \in Reminder : WF_reminderVars(TimePasses(m))
  /\ WF_reminderVars(Deliver(scheduler))

Spec == Init /\ [][Next]_reminderVars

-----------------------------------------------------------------------------
(* A reminder appears twice in the chat only if a delivery of it was cut     *)
(* short between the transcript and the mark, or two loops had it listed at  *)
(* the same time: a restart, a retry or the script beside the scheduler never *)
(* repeats a delivery that was finished.                                    *)
ShownAgainOnlyIfCut == \A m \in Reminder : shown[m] > 1 => m \in cut

(* Whatever is recorded is delivered: one row's failure never blocks another, *)
(* and a cut delivery is taken up again.                                    *)
PendingIsSent == \A m \in Reminder : status[m] = "pending" ~> status[m] = "sent"

(* A deadline's heads-up arrives, unless a failure fell between recording the *)
(* deadline and recording the heads-up.                                     *)
HeadsUpArrives ==
  \A m \in HeadsUp : m \in calendar ~> (status[m] = "sent" \/ m \in halfMade)
=============================================================================
