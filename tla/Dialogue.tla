------------------------------ MODULE Dialogue ------------------------------
(***************************************************************************)
(* What the chat engine decides to do about a message (app/engine.py,        *)
(* app/jobs_review.py): the question it has open, what it remembers, the      *)
(* applications on file and the review queue, and, as operators, the          *)
(* transactions a turn runs, in order.  Only one handler runs at a time and    *)
(* nothing else changes what a decision reads, so it is made in one step; the  *)
(* transactions that follow are steps of Conversation.                        *)
(*                                                                         *)
(* Left out: roles (a company names its most recent application), what a      *)
(* status, note or edit says, and the filters of a bulk change: it takes every *)
(* open application.                                                        *)
(***************************************************************************)
EXTENDS Understanding

CONSTANTS App  \* application ids, never reused

VARIABLES file,   \* applications, the most recently changed first
          used,   \* ids given out
          last,   \* context_memory: last_company and last_application_id
          queue   \* queued postings, the best ranked the smallest

Row == [intent : {"APPLY", "UPDATE", "NOTE", "REMIND", "DELETE", "BULK", "EDIT",
                  "SET_IDENTITY", "HELP_APP", "JOBS_REVIEW"},
        name : Name, value : BOOLEAN, needs : BOOLEAN,
        awaiting : {"company", "value", "confirm", "field", "go", "choice"},
        hop : {"offered", "confirmed", "declined"}]
NoRow == [intent |-> "none", name |-> Nothing, value |-> FALSE, needs |-> FALSE,
          awaiting |-> "nothing", hop |-> "offered"]

Question(intent, name, value, awaiting) ==
  [NoRow EXCEPT !.intent = intent, !.name = name, !.value = value,
                !.awaiting = awaiting]

Op(op, on) == [op |-> op, on |-> on]
Ask(row) == <<Op("ask", row)>>
Close == <<Op("close", NoRow)>>
Say == <<>>  \* nothing changes

-----------------------------------------------------------------------------
(* find_application: the most recent one of that company. *)
Named(c) == {i \in DOMAIN file : file[i].company = c}
Recent(c) == file[Min(Named(c))]
OnFile(a) == \E i \in DOMAIN file : file[i].id = a
Application(a) == file[CHOOSE i \in DOMAIN file : file[i].id = a]
OpenOnes == {file[i].id : i \in {j \in DOMAIN file : file[j].open}}

Remember(c, a) == Op("remember", [company |-> c, id |-> a])
Change(a) == <<Op("change", a), Remember(Application(a).company, a)>>

(* _advance_apply.  "yes" is _confirmed; "needs" is _needs_confirm. *)
AdvanceApply(row, yes) ==
  LET known == IF row.name # Nothing THEN row.name ELSE last.company
      q == [row EXCEPT !.name = known, !.needs = @ \/ row.name = Nothing]
  IN IF known = Nothing THEN Ask([row EXCEPT !.awaiting = "company"])
     ELSE IF ~yes /\ (Named(known) # {} \/ q.needs)
          THEN Ask([q EXCEPT !.awaiting = "confirm"])
     ELSE Close \o <<Op("log", known)>>

(* _advance_delete *)
AdvanceDelete(row, yes) ==
  LET known == IF row.name # Nothing THEN row.name ELSE last.company
  IN IF known = Nothing THEN Ask([row EXCEPT !.awaiting = "company"])
     ELSE IF Named(known) = {} THEN Close
     ELSE IF ~yes THEN Ask([row EXCEPT !.name = known, !.awaiting = "confirm"])
     ELSE Close \o <<Op("remove", Recent(known).id)>>

(* _advance_bulk; the matches are looked for again after the yes. *)
AdvanceBulk(row, yes) ==
  IF ~row.value \/ OpenOnes = {} THEN Close
  ELSE IF ~yes THEN Ask([row EXCEPT !.awaiting = "confirm"])
  ELSE Close \o <<Op("sweep", Nothing)>>

(* _do_update, _do_note, _do_remind.  A note on a company that is not on file  *)
(* goes to the application last spoken of.                                  *)
Execute(row) ==
  CASE row.intent = "UPDATE" /\ Named(row.name) = {} -> <<Op("log", row.name)>>
    [] row.intent \in {"UPDATE", "NOTE"} /\ Named(row.name) # {} -> Change(Recent(row.name).id)
    [] row.intent = "NOTE" /\ Named(row.name) = {} /\ OnFile(last.id) -> Change(last.id)
    [] OTHER -> Say

(* _advance *)
Advance(row, yes) ==
  CASE row.intent = "APPLY" -> AdvanceApply(row, yes)
    [] row.intent = "DELETE" -> AdvanceDelete(row, yes)
    [] row.intent = "BULK" -> AdvanceBulk(row, yes)
    [] OTHER ->
       LET q == [row EXCEPT !.name = IF @ # Nothing THEN @ ELSE last.company]
       IN IF q.name = Nothing THEN Ask([q EXCEPT !.awaiting = "company"])
          ELSE IF ~q.value THEN Ask([q EXCEPT !.awaiting = "value"])
          ELSE Close \o Execute(q)

-----------------------------------------------------------------------------
(* _apply_edit: a company, and whether it is known what to change. *)
ApplyEdit(c, known) ==
  IF c = Nothing THEN Say
  ELSE IF Named(c) = {} THEN Close
  ELSE IF ~known THEN Ask(Question("EDIT", c, FALSE, "value"))
  ELSE LET a == Recent(c).id
       IN <<Op("change", a)>> \o Close \o <<Remember(c, a)>>

StartEdit(p) ==
  LET c == IF CompanyIn(p) # Nothing THEN CompanyIn(p) ELSE last.company
  IN IF c = Nothing THEN Ask(Question("EDIT", Nothing, p.value, "company"))
     ELSE ApplyEdit(c, p.value)

(* _continue_edit: any words are a change, or a company. *)
ContinueEdit(t, row) ==
  IF row.awaiting = "company"
  THEN ApplyEdit(IF "correction" \in t.says THEN t.rest ELSE t.words, row.value)
  ELSE ApplyEdit(row.name, ~("correction" \in t.says /\ t.rest = Nothing))

(* _finish_identity and _continue_identity; "field" asks which detail. *)
FinishIdentity(field, value) ==
  IF ~field THEN Ask(Question("SET_IDENTITY", Nothing, value, "field"))
  ELSE IF ~value THEN Ask(Question("SET_IDENTITY", Nothing, FALSE, "value"))
  ELSE <<Op("identity", Nothing)>> \o Close

ContinueIdentity(t, p, row) ==
  IF row.awaiting = "value" THEN FinishIdentity(TRUE, TRUE)
  ELSE IF FieldIn(p) # Nothing THEN FinishIdentity(TRUE, p.value \/ row.value)
  ELSE Say

(* _do_help_app and offer_tab_hop: explain, and offer to go there. *)
OfferHop(screen) ==
  IF screen = Nothing THEN Say ELSE Ask(Question("HELP_APP", screen, FALSE, "go"))

(* _continue_go: the answer is kept in the row; decorate moves. *)
ContinueGo(t, row) ==
  IF t.says \cap {"stay", "no", "cancel"} # {} THEN Ask([row EXCEPT !.hop = "declined"])
  ELSE IF t.says \cap {"go", "yes"} # {} THEN Ask([row EXCEPT !.hop = "confirmed"])
  ELSE Say

-----------------------------------------------------------------------------
(* start_review: "card" shows the head of the queue, and asks. *)
StartReview == IF queue = {} THEN Say ELSE <<Op("card", Nothing)>>

(* Mutated form of ContinueReview: "apply 12" takes the card at hand.        *)
ContinueReviewAnyId(t, p) ==
  IF "dismiss_all" \in t.says THEN <<Op("dismiss_all", Nothing)>> \o Close
  ELSE IF "cancel" \in t.says \/ queue = {} THEN Close
  ELSE IF p.intent = "APPLY_JOB" \/ t.says \cap {"yes", "apply", "skip"} # {}
       THEN <<Op("mark", Min(queue)), Op("card", Nothing)>> ELSE Say

(* continue_review.  Which card was shown is not stored: "skip" and "apply"    *)
(* are about the head of the queue as it is now.                            *)
ContinueReview(t, p) ==
  IF "dismiss_all" \in t.says THEN <<Op("dismiss_all", Nothing)>> \o Close
  ELSE IF "cancel" \in t.says \/ queue = {} THEN Close
  ELSE LET head == Min(queue)
       IN IF p.intent = "APPLY_JOB" /\ p.name # head THEN Say
          ELSE IF p.intent = "APPLY_JOB" \/ t.says \cap {"yes", "apply", "skip"} # {}
               THEN <<Op("mark", head), Op("card", Nothing)>>
          ELSE Say

-----------------------------------------------------------------------------
(* _continue: a correction, a yes or a no, or a value for what is missing. *)
Corrected(t, row) ==
  [row EXCEPT !.name = IF t.rest # Nothing THEN t.rest ELSE @,
              !.value = @ \/ (row.awaiting = "value" /\ t.rest # Nothing),
              !.needs = FALSE]

Filled(t, p, row) ==
  [row EXCEPT
     !.name = IF @ # Nothing THEN @
              ELSE IF CompanyIn(p) # Nothing THEN CompanyIn(p)
              ELSE IF row.awaiting = "company" THEN t.words ELSE @,
     !.value = @ \/ p.value \/ row.awaiting = "value"]

(* Mutated form of Continue: any answer that is not a no confirms. *)
ContinueEager(t, p, row) ==
  IF "correction" \in t.says THEN Advance(Corrected(t, row), FALSE)
  ELSE IF "no" \in t.says THEN Close
  ELSE Advance(Filled(t, p, row), row.awaiting = "confirm")

Continue(t, p, row) ==
  IF row.intent = "EDIT" THEN ContinueEdit(t, row)
  ELSE IF row.intent = "SET_IDENTITY" THEN ContinueIdentity(t, p, row)
  ELSE IF row.intent = "HELP_APP" THEN ContinueGo(t, row)
  ELSE IF "correction" \in t.says THEN Advance(Corrected(t, row), FALSE)
  ELSE IF row.awaiting = "confirm"
       THEN IF "yes" \in t.says THEN Advance(row, TRUE)
            ELSE IF "no" \in t.says THEN Close
            ELSE IF CompanyIn(p) # Nothing
                 THEN Advance([row EXCEPT !.name = CompanyIn(p), !.needs = FALSE], FALSE)
            ELSE Say
  ELSE IF t.says \cap {"yes", "no"} # {} THEN Say
  ELSE Advance(Filled(t, p, row), FALSE)

(* _start *)
Start(p) ==
  CASE p.intent \in {"APPLY", "UPDATE", "NOTE", "REMIND", "DELETE", "BULK"} ->
         Advance(Question(p.intent, CompanyIn(p), p.value, "value"), FALSE)
    [] p.intent = "EDIT" -> StartEdit(p)
    [] p.intent = "JOBS_REVIEW" -> StartReview
    [] p.intent = "SET_IDENTITY" -> FinishIdentity(FieldIn(p) # Nothing, p.value)
    [] p.intent \in {"HELP_APP", "KNOWLEDGE"} -> OfferHop(TopicScreen(p))
    [] p.intent = "CHECK" /\ Named(CompanyIn(p)) # {} ->
         <<Remember(p.name, Recent(p.name).id)>>
    [] OTHER -> Say

(* _handle_sms, after the open question was read.  "breaks out" drops it.    *)
Decide(t, p, row) ==
  LET new == LooksLikeNewCommand(t, p, row)
      menu == "help" \in t.says /\ (p.intent = "UNKNOWN" \/ p.confidence < 50)
  IN IF menu THEN Say
     ELSE IF row = NoRow THEN Start(p)
     ELSE IF row.intent = "JOBS_REVIEW"
          THEN IF new /\ p.intent # "APPLY_JOB" THEN Close \o Start(p)
               ELSE ContinueReview(t, p)
     ELSE IF "cancel" \in t.says /\ row.awaiting # "go" THEN Close
     ELSE IF new THEN Close \o Start(p)
     ELSE Continue(t, p, row)
=============================================================================
