----------------------------- MODULE LlmBudget -----------------------------
(***************************************************************************)
(* The daily cap on paid model calls (app/llm_budget.py), for one user.      *)
(* consume counts the day's rows of llm_usage, then the feature's, then      *)
(* inserts one: three transactions, run by whatever threads work for that    *)
(* user at the time - the event loop (chat, drafts), a pool thread (a        *)
(* tailored resume), the scheduler's pass and a kicked one.                  *)
(*                                                                         *)
(* A cap of 0 is no cap.  With neither a global nor a slice cap consume      *)
(* returns True at once and records nothing, so that case has no action.     *)
(***************************************************************************)
EXTENDS Naturals, FiniteSets

CONSTANTS Caller,    \* threads that may call consume for the user
          Feature,   \* "chat", "discovery", ... and "" for an unnamed one
          Cap,       \* llm_max_calls_per_user_per_day
          SliceCap,  \* feature_cap: llm_cap_<feature>, 0 for an unnamed one
          NoFeature  \* a caller that is not asking

ASSUME BudgetAssumption ==
  /\ IsFiniteSet(Caller)
  /\ Cap \in Nat
  /\ SliceCap \in [Feature -> Nat]
  /\ NoFeature \notin Feature

VARIABLES calls,   \* rows of llm_usage with today's date
          slice,   \* the same rows, per feature
          cpc,     \* where each caller is in consume
          asking   \* the feature it asks for

budgetVars == <<calls, slice, cpc, asking>>

TypeOK ==
  /\ calls \in Nat
  /\ slice \in [Feature -> Nat]
  /\ cpc \in [Caller -> {"idle", "slice", "insert"}]
  /\ asking \in [Caller -> Feature \cup {NoFeature}]

Init ==
  /\ calls = 0
  /\ slice = [f \in Feature |-> 0]
  /\ cpc = [c \in Caller |-> "idle"]
  /\ asking = [c \in Caller |-> NoFeature]

-----------------------------------------------------------------------------
(* Mutated form of RoomUnder: one row too many. *)
RoomUnderOffByOne(n, cap) == cap = 0 \/ n <= cap

(* A count of n rows leaves room under a cap. *)
RoomUnder(n, cap) == cap = 0 \/ n < cap

(* The first count.  A refusal returns at once and changes nothing. *)
CountAll(c, f) ==
  /\ cpc[c] = "idle"
  /\ Cap > 0 \/ SliceCap[f] > 0
  /\ RoomUnder(calls, Cap)
  /\ cpc' = [cpc EXCEPT ![c] = "slice"]
  /\ asking' = [asking EXCEPT ![c] = f]
  /\ UNCHANGED <<calls, slice>>

CountSlice(c) ==
  /\ cpc[c] = "slice"
  /\ RoomUnder(slice[asking[c]], SliceCap[asking[c]])
  /\ cpc' = [cpc EXCEPT ![c] = "insert"]
  /\ UNCHANGED <<calls, slice, asking>>

SliceSpent(c) ==
  /\ cpc[c] = "slice"
  /\ ~RoomUnder(slice[asking[c]], SliceCap[asking[c]])
  /\ cpc' = [cpc EXCEPT ![c] = "idle"]
  /\ asking' = [asking EXCEPT ![c] = NoFeature]
  /\ UNCHANGED <<calls, slice>>

Charge(c) ==
  /\ cpc[c] = "insert"
  /\ calls' = calls + 1
  /\ slice' = [slice EXCEPT ![asking[c]] = @ + 1]
  /\ cpc' = [cpc EXCEPT ![c] = "idle"]
  /\ asking' = [asking EXCEPT ![c] = NoFeature]

(* Midnight UTC: the rows of the old day are no longer counted.  A caller in  *)
(* the middle of consume counted on the old day and inserts on the new one.  *)
NewDay ==
  /\ calls' = 0
  /\ slice' = [f \in Feature |-> 0]
  /\ UNCHANGED <<cpc, asking>>

(* A caller dies of a failed statement. *)
CallerFails(c) ==
  /\ cpc[c] # "idle"
  /\ cpc' = [cpc EXCEPT ![c] = "idle"]
  /\ asking' = [asking EXCEPT ![c] = NoFeature]
  /\ UNCHANGED <<calls, slice>>

(* The process dies, and every caller with it. *)
ProcessDies ==
  /\ \E c \in Caller : cpc[c] # "idle"
  /\ cpc' = [c \in Caller |-> "idle"]
  /\ asking' = [c \in Caller |-> NoFeature]
  /\ UNCHANGED <<calls, slice>>

Next ==
  \/ \E c \in Caller :
       \/ \E f \in Feature : CountAll(c, f)
       \/ CountSlice(c) \/ SliceSpent(c) \/ Charge(c) \/ CallerFails(c)
  \/ NewDay \/ ProcessDies

Spec == Init /\ [][Next]_budgetVars

-----------------------------------------------------------------------------
(* How far threads racing through consume can overshoot: every one of them   *)
(* but the first, and no further - midnight and failures included.           *)
CapOvershootBounded == Cap > 0 => calls < Cap + Cardinality(Caller)

(* The same of a feature's slice: one feature cannot eat the day's calls.    *)
SliceOvershootBounded ==
  \A f \in Feature : SliceCap[f] > 0 => slice[f] < SliceCap[f] + Cardinality(Caller)
=============================================================================
