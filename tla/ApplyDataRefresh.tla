-------------------------- MODULE ApplyDataRefresh --------------------------
(***************************************************************************)
(* GET /apply/data, a "def" handler: it runs in a thread of the pool, beside *)
(* the event loop and beside other such requests.  It wakes expired snoozes, *)
(* then alive.close_dead_shortlist lists what Apply shows, fetches every     *)
(* link, and closes the postings whose link is dead - from the list it read  *)
(* before the fetches, whatever the user did since.                          *)
(***************************************************************************)
EXTENDS JobTables, FiniteSets

CONSTANTS Refresher, \* requests that may be in flight at once
          TodayN,    \* job_digest_top_n: how many un-staged matches are checked
          NoDying    \* no posting is half closed

ASSUME RefreshAssumption == NoDying \notin Posting /\ TodayN \in Nat

VARIABLES rpc,      \* where each request is
          targets,  \* the postings it has still to check
          dying,    \* marked closed, its queue row not removed yet
          linkDead  \* external: postings whose apply link is dead

refreshVars == <<rpc, targets, dying, linkDead>>

RefreshTypeOK ==
  /\ rpc \in [Refresher -> {"idle", "list", "check", "unstage"}]
  /\ targets \in [Refresher -> SUBSET Posting]
  /\ dying \in [Refresher -> Posting \cup {NoDying}]
  /\ linkDead \subseteq Posting

RefreshInit ==
  /\ rpc = [r \in Refresher |-> "idle"]
  /\ targets = [r \in Refresher |-> {}]
  /\ dying = [r \in Refresher |-> NoDying]
  /\ linkDead = {}

(* A role is taken down. *)
LinkDies(p) ==
  /\ p \notin linkDead
  /\ linkDead' = linkDead \cup {p}
  /\ UNCHANGED <<rpc, targets, dying, tables>>

RefreshWake(r) ==
  /\ rpc[r] = "idle"
  /\ WakeSnoozed
  /\ rpc' = [rpc EXCEPT ![r] = "list"]
  /\ UNCHANGED <<targets, dying, linkDead>>

(* list_queue - submitted rows included - and the best TodayN of the review  *)
(* queue; the ranking is left open.                                         *)
Shortlists ==
  LET unstaged == ReviewQueue \ Staged
  IN  {Staged \cup top : top \in {S \in SUBSET unstaged :
          \/ Cardinality(S) = TodayN
          \/ Cardinality(S) < TodayN /\ S = unstaged}}

RefreshList(r) ==
  /\ rpc[r] = "list"
  /\ \E shown \in Shortlists : targets' = [targets EXCEPT ![r] = shown]
  /\ rpc' = [rpc EXCEPT ![r] = "check"]
  /\ UNCHANGED <<dying, linkDead, tables>>

(* The link answers, or the fetch failed: either way the posting stays. *)
RefreshKeep(r, p) ==
  /\ rpc[r] = "check" /\ p \in targets[r]
  /\ targets' = [targets EXCEPT ![r] = @ \ {p}]
  /\ UNCHANGED <<rpc, dying, linkDead, tables>>

RefreshClose(r, p) ==
  /\ rpc[r] = "check" /\ p \in targets[r] /\ p \in linkDead
  /\ MarkPosting(p, "closed")
  /\ targets' = [targets EXCEPT ![r] = @ \ {p}]
  /\ dying' = [dying EXCEPT ![r] = p]
  /\ rpc' = [rpc EXCEPT ![r] = "unstage"]
  /\ UNCHANGED linkDead

RefreshUnstage(r) ==
  /\ rpc[r] = "unstage"
  /\ UnstagePosting(dying[r])
  /\ dying' = [dying EXCEPT ![r] = NoDying]
  /\ rpc' = [rpc EXCEPT ![r] = "check"]
  /\ UNCHANGED <<targets, linkDead>>

RefreshDone(r) ==
  /\ rpc[r] = "check" /\ targets[r] = {}
  /\ rpc' = [rpc EXCEPT ![r] = "idle"]
  /\ UNCHANGED <<targets, dying, linkDead, tables>>

RefreshStep ==
  \/ \E p \in Posting : LinkDies(p)
  \/ \E r \in Refresher :
       \/ RefreshWake(r) \/ RefreshList(r) \/ RefreshUnstage(r) \/ RefreshDone(r)
       \/ \E p \in Posting : RefreshKeep(r, p) \/ RefreshClose(r, p)

RefreshCrash ==
  /\ rpc' = [r \in Refresher |-> "idle"]
  /\ targets' = [r \in Refresher |-> {}]
  /\ dying' = [r \in Refresher |-> NoDying]
  /\ UNCHANGED linkDead
=============================================================================
