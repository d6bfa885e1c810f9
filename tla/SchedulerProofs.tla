-------------------------- MODULE SchedulerProofs --------------------------
(***************************************************************************)
(* What app/scheduler.py runs beside the chat.                              *)
(*                                                                         *)
(* Discovery, for any number of users and any cap: kicked passes are never   *)
(* stacked on one user, and never exceed _MAX_CONCURRENT.  The cap follows    *)
(* from an invariant about "running" alone, because OneKickedPass makes        *)
(* "running" exactly the set of users with a pass alive.                     *)
(*                                                                         *)
(* Reminders, for any rows, any delivery loops and any number of faults: a    *)
(* reminder is repeated in the chat only if a delivery of it was cut short,   *)
(* or two loops had listed it at once.  Of a row that was neither, at most     *)
(* one loop holds it, it is pending while it is held, and it has been shown    *)
(* only if it is sent or being sent.                                        *)
(***************************************************************************)
EXTENDS DiscoveryKick, Reminders, FiniteSetTheorems, TLAPS

-----------------------------------------------------------------------------
(* On-demand discovery. *)

RunningBounded == Cardinality(running) <= MaxConcurrent

KickInv == KickTypeOK /\ OneKickedPass /\ RunningBounded

(* Adding a user below the cap stays at or below it; removing one never      *)
(* raises the count.                                                        *)
LEMMA RunningStaysBounded ==
  ASSUME NEW u \in User, running \subseteq User, RunningBounded
  PROVE  /\ Cardinality(running \ {u}) <= MaxConcurrent
         /\ ~(Cardinality(running) >= MaxConcurrent)
              => Cardinality(running \cup {u}) <= MaxConcurrent
<1>1. IsFiniteSet(running)
  BY FS_Subset, KickAssumption
<1>2. Cardinality(running) \in Nat
  BY <1>1, FS_CardinalityType
<1>3. Cardinality(running \ {u}) <= Cardinality(running)
  <2>1. IsFiniteSet(running \ {u}) /\ running \ {u} \subseteq running
    BY <1>1, FS_Subset
  <2> QED BY <1>1, <2>1, FS_Subset
<1>4. Cardinality(running \cup {u}) <= Cardinality(running) + 1
  <2>1. CASE u \in running
    <3>1. running \cup {u} = running
      BY <2>1
    <3>2. Cardinality(running \cup {u}) = Cardinality(running)
      BY <3>1, Zenon
    <3> QED BY <3>2, <1>2
  <2>2. CASE u \notin running
    <3>1. Cardinality(running \cup {u}) = Cardinality(running) + 1
      BY <1>1, <2>2, FS_AddElement
    <3> QED BY <3>1, <1>2
  <2> QED BY <2>1, <2>2
<1>5. Cardinality(running \ {u}) \in Nat /\ Cardinality(running \cup {u}) \in Nat
  <2>1. IsFiniteSet(running \ {u}) /\ IsFiniteSet(running \cup {u})
    BY <1>1, FS_Subset, FS_AddElement
  <2> QED BY <2>1, FS_CardinalityType
<1> QED
  BY <1>2, <1>3, <1>4, <1>5, KickAssumption DEF RunningBounded

LEMMA KickInitial == KickInit => KickInv
<1> SUFFICES ASSUME KickInit PROVE KickInv
  OBVIOUS
<1>1. KickTypeOK /\ OneKickedPass
  BY DEF KickInit, KickTypeOK, OneKickedPass, InFlight, NoPass, Request
<1>2. RunningBounded
  BY FS_EmptySet, KickAssumption DEF KickInit, RunningBounded
<1> QED BY <1>1, <1>2 DEF KickInv

LEMMA KickStep == KickInv /\ [KickNext]_kickVars => KickInv'
<1> SUFFICES ASSUME KickInv, [KickNext]_kickVars PROVE KickInv'
  OBVIOUS
<1> USE DEF KickInv, KickTypeOK, OneKickedPass, InFlight, RunningBounded, Request
<1>1. ASSUME NEW u \in User,
             SaveProfile(u) \/ EmptyProfile(u) \/ CooldownEnds(u) \/ SweepUser(u)
             \/ \E force \in BOOLEAN : KickAsk(u, force)
      PROVE  KickInv'
  BY <1>1 DEF SaveProfile, EmptyProfile, CooldownEnds, SweepUser, KickAsk
<1>2. ASSUME NEW r \in Request, KickRefused(r) PROVE KickInv'
  BY <1>2 DEF KickRefused
<1>3. ASSUME NEW r \in Request, KickClaim(r) PROVE KickInv'
  <2>1. r.user \in User /\ r.user \notin running
    BY <1>3 DEF KickClaim, Refused
  <2>2. KickTypeOK' /\ OneKickedPass'
    BY <1>3, <2>1 DEF KickClaim
  <2>3. Cardinality(running \cup {r.user}) <= MaxConcurrent
    BY <1>3, <2>1, RunningStaysBounded DEF KickClaim, Refused
  <2> QED BY <1>3, <2>2, <2>3 DEF KickClaim
<1>4. ASSUME NEW u \in User, StartThread(u) PROVE KickInv'
  BY <1>4 DEF StartThread
<1>5. ASSUME NEW u \in User, FinishPass(u) PROVE KickInv'
  <2>1. KickTypeOK' /\ OneKickedPass'
    BY <1>5 DEF FinishPass
  <2>2. Cardinality(running \ {u}) <= MaxConcurrent
    BY RunningStaysBounded
  <2> QED BY <1>5, <2>1, <2>2 DEF FinishPass
<1>6. ASSUME NEW S \in SUBSET User, SweepBegin(S) PROVE KickInv'
  BY <1>6 DEF SweepBegin
<1>7. CASE SweepUserDone
  BY <1>7 DEF SweepUserDone
<1>8. CASE Crash
  <2>1. KickTypeOK' /\ OneKickedPass'
    BY <1>8 DEF Crash, NoPass
  <2>2. RunningBounded'
    BY <1>8, FS_EmptySet, KickAssumption DEF Crash
  <2> QED BY <2>1, <2>2
<1>9. CASE UNCHANGED kickVars
  BY <1>9 DEF kickVars
<1> QED
  BY <1>1, <1>2, <1>3, <1>4, <1>5, <1>6, <1>7, <1>8, <1>9 DEF KickNext

(* The inductive invariant of the guard around on-demand discovery           *)
(* (discovery.kick and _run_kicked_tick) holds in every reachable state.     *)
LEMMA KickInvariant == KickSpec => []KickInv
BY KickInitial, KickStep, PTL DEF KickSpec

(* _running is exactly the set of users with one kicked pass alive.          *)
THEOREM NeverStacked == KickSpec => []OneKickedPass
<1>1. KickInv => OneKickedPass
  BY DEF KickInv
<1> QED BY <1>1, KickInvariant, PTL

(* However many users press refresh, _MAX_CONCURRENT bounds the kicked       *)
(* passes alive, whatever the interleaving of claims, starts and finishes.   *)
THEOREM NeverMoreThanTheCap == KickSpec => []KickedPassesBounded
<1>1. KickInv => KickedPassesBounded
  <2> SUFFICES ASSUME KickInv PROVE KickedPassesBounded
    OBVIOUS
  <2>1. {u \in User : InFlight(u) > 0} = running
    BY DEF KickInv, KickTypeOK, OneKickedPass, InFlight
  <2> QED BY <2>1 DEF KickInv, RunningBounded, KickedPassesBounded
<1> QED BY <1>1, KickInvariant, PTL

-----------------------------------------------------------------------------
(* Reminders. *)

LoopInv ==
  \A l \in Loop :
    /\ lpc[l] \in {"notify", "mark"} <=> current[l] # NoReminder
    /\ current[l] \notin batch[l]
    /\ lpc[l] = "idle" => batch[l] = {}

(* What is true of a row m outside cut. *)
OneHolder(m) == \A l, k \in Loop : m \in Held(l) /\ m \in Held(k) => l = k
HeldIsPending(m) == \A l \in Loop : m \in Held(l) => status[m] = "pending"
ShownOnce(m) ==
  /\ shown[m] \in {0, 1}
  /\ shown[m] = 1 => status[m] = "sent" \/ \E l \in Loop : current[l] = m

WholeInv ==
  \A m \in Reminder \ cut : OneHolder(m) /\ HeldIsPending(m) /\ ShownOnce(m)

ReminderInv == TypeOK /\ LoopInv /\ WholeInv

LEMMA ReminderInitial == Init => ReminderInv
<1> SUFFICES ASSUME Init PROVE ReminderInv
  OBVIOUS
<1>1. TypeOK /\ LoopInv
  BY RemindersAssumption DEF Init, TypeOK, LoopInv
<1>2. \A l \in Loop : Held(l) = {}
  BY DEF Init, Held
<1>3. \A m \in Reminder : shown[m] = 0
  BY DEF Init
<1>4. ASSUME NEW m \in Reminder
      PROVE  OneHolder(m) /\ HeldIsPending(m) /\ ShownOnce(m)
  <2>1. OneHolder(m) /\ HeldIsPending(m)
    BY <1>2 DEF OneHolder, HeldIsPending
  <2>2. ShownOnce(m)
    BY <1>3 DEF ShownOnce
  <2> QED BY <2>1, <2>2
<1>5. WholeInv
  BY <1>4 DEF WholeInv
<1> QED BY <1>1, <1>5 DEF ReminderInv

(* Recording a row disturbs no other, and a row not recorded yet is neither   *)
(* held nor shown.                                                          *)
LEMMA RecordKeepsWhole ==
  ASSUME ReminderInv, NEW m \in Reminder, NEW soon \in BOOLEAN, Record(m, soon),
         UNCHANGED <<loopVars, shown, cut>>
  PROVE  LoopInv' /\ WholeInv'
<1>1. LoopInv'
  BY DEF ReminderInv, LoopInv, loopVars
<1>2. \A l \in Loop : Held(l)' = Held(l)
  BY DEF Held, loopVars
<1>3. ASSUME NEW n \in Reminder \ cut
      PROVE  OneHolder(n)' /\ HeldIsPending(n)' /\ ShownOnce(n)'
  <2>1. status'[n] = status[n] \/ (n = m /\ status[n] = "absent" /\ status'[n] = "pending")
    BY DEF Record, ReminderInv, TypeOK
  <2>2. OneHolder(n) /\ HeldIsPending(n) /\ ShownOnce(n)
    BY DEF ReminderInv, WholeInv
  <2>3. OneHolder(n)' /\ HeldIsPending(n)'
    BY <1>2, <2>1, <2>2 DEF OneHolder, HeldIsPending
  <2>4. current' = current /\ shown' = shown
    BY DEF loopVars
  <2>5. ASSUME NEW l \in Loop, current[l] = n PROVE status[n] = "pending"
    BY <2>2, <2>5, RemindersAssumption DEF HeldIsPending, Held
  <2>6. ShownOnce(n)'
    BY <2>1, <2>2, <2>4, <2>5 DEF ShownOnce
  <2> QED BY <2>3, <2>6
<1> QED BY <1>1, <1>3 DEF WholeInv

LEMMA ReminderStep == ReminderInv /\ [Next]_reminderVars => ReminderInv'
<1> SUFFICES ASSUME ReminderInv, [Next]_reminderVars PROVE ReminderInv'
  OBVIOUS
<1> USE RemindersAssumption
<1>1. ASSUME NEW m \in Reminder, NEW soon \in BOOLEAN, Remind(m, soon)
      PROVE  ReminderInv'
  <2>1. TypeOK'
    BY <1>1 DEF ReminderInv, TypeOK, Remind, Record, handlerVars, loopVars
  <2> QED BY <1>1, <2>1, RecordKeepsWhole DEF Remind, ReminderInv
<1>2. ASSUME NEW soon \in BOOLEAN, AddHeadsUp(soon) PROVE ReminderInv'
  <2>1. TypeOK'
    BY <1>2 DEF ReminderInv, TypeOK, AddHeadsUp, Record, loopVars
  <2>2. recording \in Reminder
    BY <1>2 DEF ReminderInv, TypeOK, AddHeadsUp
  <2> QED BY <1>2, <2>1, <2>2, RecordKeepsWhole DEF AddHeadsUp, ReminderInv
<1>3. ASSUME \/ \E m \in Reminder : AddDeadline(m) \/ TimePasses(m)
             \/ HeadsUpFails
      PROVE  ReminderInv'
  <2>1. TypeOK'
    BY <1>3 DEF ReminderInv, TypeOK, AddDeadline, TimePasses, HeadsUpFails,
                AbandonHeadsUp, Fault, handlerVars, loopVars
  <2>2. UNCHANGED <<status, lpc, batch, current, shown, cut>>
    BY <1>3 DEF AddDeadline, TimePasses, HeadsUpFails, loopVars
  <2>3. LoopInv' /\ WholeInv'
    BY <2>2 DEF ReminderInv, LoopInv, WholeInv, OneHolder, HeldIsPending,
                ShownOnce, Held
  <2> QED BY <2>1, <2>3 DEF ReminderInv
<1>4. ASSUME NEW l \in Loop, ListDue(l) PROVE ReminderInv'
  <2>1. TypeOK' /\ LoopInv'
    BY <1>4 DEF ReminderInv, TypeOK, LoopInv, ListDue, Due, handlerVars
  <2>2. Held(l) = {} /\ Held(l)' = Due /\ \A k \in Loop \ {l} : Held(k)' = Held(k)
    BY <1>4 DEF ReminderInv, TypeOK, LoopInv, ListDue, Held
  <2>3. ASSUME NEW n \in Reminder \ cut'
        PROVE  OneHolder(n)' /\ HeldIsPending(n)' /\ ShownOnce(n)'
    <3>1. n \in Reminder \ cut /\ (n \in Due => \A k \in Loop \ {l} : n \notin Held(k))
      BY <1>4, <2>3 DEF ListDue
    <3>2. OneHolder(n) /\ HeldIsPending(n) /\ ShownOnce(n)
      BY <3>1 DEF ReminderInv, WholeInv
    <3>3. OneHolder(n)'
      BY <2>2, <3>1, <3>2 DEF OneHolder
    <3>4. HeldIsPending(n)'
      BY <1>4, <2>2, <3>2 DEF HeldIsPending, ListDue, Due
    <3>5. ShownOnce(n)'
      BY <1>4, <3>2 DEF ShownOnce, ListDue
    <3> QED BY <3>3, <3>4, <3>5
  <2> QED BY <2>1, <2>3 DEF ReminderInv, WholeInv
<1>5. ASSUME NEW l \in Loop, NEW m \in Reminder, NEW landed \in BOOLEAN,
             Append(l, m, landed)
      PROVE  ReminderInv'
  <2>0. m \in batch[l] /\ current[l] = NoReminder
    BY <1>5 DEF Append, ReminderInv, LoopInv
  <2>1. TypeOK' /\ LoopInv'
    BY <1>5 DEF ReminderInv, TypeOK, LoopInv, Append, Again, Fault, handlerVars
  <2>2. \A k \in Loop : Held(k)' = Held(k)
    BY <1>5, <2>0 DEF ReminderInv, TypeOK, Append, Held
  <2>3. ASSUME NEW n \in Reminder \ cut'
        PROVE  OneHolder(n)' /\ HeldIsPending(n)' /\ ShownOnce(n)'
    <3>1. n \in Reminder \ cut /\ status' = status
      BY <1>5 DEF Append
    <3>2. OneHolder(n) /\ HeldIsPending(n) /\ ShownOnce(n)
      BY <3>1 DEF ReminderInv, WholeInv
    <3>3. OneHolder(n)' /\ HeldIsPending(n)'
      BY <2>2, <3>1, <3>2 DEF OneHolder, HeldIsPending
    <3>4. CASE n = m
      <4>1. status[n] = "pending"
        BY <2>0, <3>2, <3>4 DEF HeldIsPending, Held
      <4>2. \A k \in Loop : current[k] # n
        BY <2>0, <3>2, <3>4 DEF OneHolder, Held
      <4>3. shown[n] = 0
        BY <3>2, <4>1, <4>2 DEF ShownOnce
      <4>4. current'[l] = n /\ shown'[n] \in {0, 1}
        BY <1>5, <3>4, <4>3 DEF Append, Again, ReminderInv, TypeOK
      <4> QED BY <3>3, <4>4 DEF ShownOnce
    <3>5. CASE n # m
      <4>1. shown'[n] = shown[n] /\ \A k \in Loop : current[k] = n => current'[k] = n
        BY <1>5, <2>0, <3>5 DEF Append, ReminderInv, TypeOK
      <4> QED BY <3>1, <3>2, <3>3, <4>1 DEF ShownOnce
    <3> QED BY <3>3, <3>4, <3>5
  <2> QED BY <2>1, <2>3 DEF ReminderInv, WholeInv
<1>6. ASSUME NEW l \in Loop, Notify(l) \/ EndDelivery(l) PROVE ReminderInv'
  <2>1. TypeOK' /\ LoopInv'
    BY <1>6 DEF ReminderInv, TypeOK, LoopInv, Notify, EndDelivery, handlerVars
  <2>2. UNCHANGED <<status, batch, current, shown, cut>>
    BY <1>6 DEF Notify, EndDelivery
  <2>3. WholeInv'
    BY <2>2 DEF ReminderInv, WholeInv, OneHolder, HeldIsPending, ShownOnce, Held
  <2> QED BY <2>1, <2>3 DEF ReminderInv
<1>7. ASSUME NEW l \in Loop, NotifyFails(l) \/ DeliveryFails(l) PROVE ReminderInv'
  <2>1. TypeOK' /\ LoopInv'
    BY <1>7 DEF ReminderInv, TypeOK, LoopInv, NotifyFails, DeliveryFails, Stop,
                Fault, handlerVars
  <2>2. \A k \in Loop : Held(k)' \subseteq Held(k)
    BY <1>7 DEF ReminderInv, TypeOK, NotifyFails, DeliveryFails, Stop, Held
  <2>3. ASSUME NEW n \in Reminder \ cut'
        PROVE  OneHolder(n)' /\ HeldIsPending(n)' /\ ShownOnce(n)'
    <3>1. n \in Reminder \ cut /\ n # current[l] /\ UNCHANGED <<status, shown>>
      BY <1>7, <2>3 DEF NotifyFails, DeliveryFails, Stop
    <3>2. OneHolder(n) /\ HeldIsPending(n) /\ ShownOnce(n)
      BY <3>1 DEF ReminderInv, WholeInv
    <3>3. OneHolder(n)' /\ HeldIsPending(n)'
      BY <2>2, <3>1, <3>2 DEF OneHolder, HeldIsPending
    <3>4. \A k \in Loop : current[k] = n => current'[k] = n
      BY <1>7, <3>1 DEF NotifyFails, DeliveryFails, Stop, ReminderInv, TypeOK
    <3> QED BY <3>1, <3>2, <3>3, <3>4 DEF ShownOnce
  <2> QED BY <2>1, <2>3 DEF ReminderInv, WholeInv
<1>8. ASSUME NEW l \in Loop, MarkSent(l) PROVE ReminderInv'
  <2> DEFINE m == current[l]
  <2>0. m \in Reminder /\ m \in Held(l)
    BY <1>8 DEF MarkSent, ReminderInv, TypeOK, LoopInv, Held
  <2>1. TypeOK' /\ LoopInv'
    BY <1>8, <2>0 DEF ReminderInv, TypeOK, LoopInv, MarkSent, handlerVars
  <2>2. /\ Held(l)' = Held(l) \ {m}
        /\ \A k \in Loop \ {l} : Held(k)' = Held(k)
    BY <1>8, <2>0 DEF ReminderInv, TypeOK, LoopInv, MarkSent, Held
  <2>3. ASSUME NEW n \in Reminder \ cut'
        PROVE  OneHolder(n)' /\ HeldIsPending(n)' /\ ShownOnce(n)'
    <3>1. n \in Reminder \ cut /\ shown' = shown
      BY <1>8 DEF MarkSent
    <3>2. OneHolder(n) /\ HeldIsPending(n) /\ ShownOnce(n)
      BY <3>1 DEF ReminderInv, WholeInv
    <3>3. OneHolder(n)'
      BY <2>2, <3>2 DEF OneHolder
    <3>4. n = m => \A k \in Loop : n \notin Held(k)'
      BY <2>0, <2>2, <3>2 DEF OneHolder
    <3>5. n # m => status'[n] = status[n]
      BY <1>8 DEF MarkSent, ReminderInv, TypeOK
    <3>6. HeldIsPending(n)'
      BY <2>2, <3>2, <3>4, <3>5 DEF HeldIsPending
    <3>7. n = m => status'[n] = "sent"
      BY <1>8, <2>0 DEF MarkSent, ReminderInv, TypeOK
    <3>8. n # m => \A k \in Loop : current[k] = n => current'[k] = n
      BY <1>8 DEF MarkSent, ReminderInv, TypeOK
    <3> QED BY <3>1, <3>2, <3>3, <3>5, <3>6, <3>7, <3>8 DEF ShownOnce
  <2> QED BY <2>1, <2>3 DEF ReminderInv, WholeInv
<1>9. CASE UNCHANGED reminderVars
  <2>1. TypeOK' /\ LoopInv'
    BY <1>9 DEF reminderVars, handlerVars, loopVars, ReminderInv, TypeOK, LoopInv
  <2>2. UNCHANGED <<status, batch, current, shown, cut>>
    BY <1>9 DEF reminderVars, loopVars
  <2>3. WholeInv'
    BY <2>2 DEF ReminderInv, WholeInv, OneHolder, HeldIsPending, ShownOnce, Held
  <2> QED BY <2>1, <2>3 DEF ReminderInv
<1> QED
  BY <1>1, <1>2, <1>3, <1>4, <1>5, <1>6, <1>7, <1>8, <1>9 DEF Next, Deliver, DeliverBadly

LEMMA ReminderAlways == Spec => []ReminderInv
BY ReminderInitial, ReminderStep, PTL DEF Spec

(* Whatever is retried, restarted or run beside the scheduler: a reminder     *)
(* whose deliveries were neither cut short nor shared is shown once.         *)
THEOREM NeverRepeatedWhole == Spec => []ShownAgainOnlyIfCut
<1>1. ReminderInv => ShownAgainOnlyIfCut
  BY DEF ReminderInv, WholeInv, ShownOnce, ShownAgainOnlyIfCut
<1> QED BY <1>1, ReminderAlways, PTL
=============================================================================
