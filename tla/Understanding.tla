---------------------------- MODULE Understanding ----------------------------
(***************************************************************************)
(* What a chat message means: the heuristic router (app/router.py), the      *)
(* phone's own classification of a turn (app/agent.py) and the small         *)
(* classifiers of answers (app/conversation.py).  A text is the set of the    *)
(* patterns it matches, what it names, and what its words could stand for.   *)
(***************************************************************************)
EXTENDS Naturals, Sequences, FiniteSets, FiniteSetsExt

CONSTANTS Company,  \* names an application can be logged under
          Posting,  \* job_postings ids, the best ranked first
          Screen,   \* destinations in the app
          Field,    \* details of the applicant
          Nothing   \* no name: None

ASSUME UnderstandingAssumption ==
  /\ Posting \subseteq Nat
  /\ Screen # {}
  /\ Nothing \notin Company \cup Posting \cup Screen \cup Field

Name == Company \cup Posting \cup Screen \cup Field \cup {Nothing}

-----------------------------------------------------------------------------
(* Confidence is in percent: of a message that names something, and not.    *)
Rule(mark, intent, named, unnamed) ==
  [mark |-> mark, intent |-> intent, named |-> named, unnamed |-> unnamed]

(* A hop or a how-to; a detail, with its new value or without; how picky to be; *)
(* a stage change in the words of a correction, or a correction; a bulk change. *)
HelpRule == Rule("help_app", "HELP_APP", 90, 85)
IdentityRule == Rule("identity", "SET_IDENTITY", 90, 75)
TuneRule == Rule("tune", "TUNE", 80, 80)
EditStageRule == Rule("edit_stage", "UPDATE", 80, 78)
EditRule == Rule("edit", "EDIT", 80, 50)
BulkRule == Rule("bulk", "BULK", 80, 80)

(* HeuristicRouter.parse: the first pattern that matches wins.  What asks      *)
(* about jobs or the person comes before what is about applications.          *)
JobRules == <<
  Rule("undo", "UNDO", 90, 90),            Rule("recent", "LIST", 85, 85),
  Rule("knowledge", "KNOWLEDGE", 90, 90),  Rule("remember", "REMEMBER", 85, 85),
  HelpRule,
  Rule("apply_job", "APPLY_JOB", 90, 50),  Rule("dismiss_job", "DISMISS_JOB", 90, 80),
  Rule("snooze_job", "SNOOZE_JOB", 90, 80), Rule("queue_job", "QUEUE_JOB", 90, 80),
  TuneRule,           Rule("track", "TRACK", 85, 50),
  Rule("profile", "PROFILE", 80, 80),      IdentityRule,
  Rule("jobs_review", "JOBS_REVIEW", 90, 90), Rule("jobs", "JOBS", 85, 85) >>

RecordRules == <<
  Rule("note", "NOTE", 70, 45),            Rule("remind", "REMIND", 75, 50),
  Rule("delete", "DELETE", 85, 50),        BulkRule,
  EditStageRule, EditRule,           Rule("check", "CHECK", 85, 60),
  Rule("deadline", "DEADLINE", 80, 80),    Rule("stats", "STATS", 85, 85),
  Rule("query", "QUERY", 85, 85),          Rule("list", "LIST", 80, 80),
  Rule("apply", "APPLY", 90, 30),          Rule("update", "UPDATE", 85, 30) >>

Rules == JobRules \o RecordRules

Mark == {Rules[i].mark : i \in DOMAIN Rules}
Intent == {Rules[i].intent : i \in DOMAIN Rules} \cup {"UNKNOWN"}

(* is_affirmation, is_negation, ... and the controls of a review.  One text   *)
(* may be several: "no." is a refusal and opens a correction.               *)
Sense == {"yes", "no", "correction", "cancel", "go", "stay", "help",
          "skip", "apply", "dismiss_all"}

\* "value": it carries the second thing its command needs (a status, a note);
\* "words": the company its words would be taken for; "rest": what is named
\* after a correction's prefix.
Text == [marks : SUBSET Mark, says : SUBSET Sense, name : Name, value : BOOLEAN,
         words : Company, rest : Company \cup {Nothing}]

(* A text that mentions applying is never a request for jobs. *)
Hits(t, rule) ==
  /\ rule.mark \in t.marks
  /\ rule.intent \in {"JOBS_REVIEW", "JOBS"} => "apply" \notin t.marks

\* What a message is taken for.
Reading == [intent : Intent, confidence : 0..100, name : Name, value : BOOLEAN]

Meant(t, intent, confidence) ==
  [intent |-> intent, confidence |-> confidence, name |-> t.name, value |-> t.value]

Parse(t) ==
  LET hits == {i \in DOMAIN Rules : Hits(t, Rules[i])}
  IN IF hits = {} THEN Meant(t, "UNKNOWN", IF t.name = Nothing THEN 10 ELSE 35)
     ELSE LET rule == Rules[Min(hits)]
          IN Meant(t, rule.intent, IF t.name = Nothing THEN rule.unnamed ELSE rule.named)

(* parsed_from_action: the phone says what a turn is; it is believed unless   *)
(* it does not know itself.                                                 *)
FromAction(t, intent, confidence) ==
  Meant(t, intent,
        IF intent = "UNKNOWN" THEN Min({confidence, 20})
        ELSE IF intent = "SET_IDENTITY" /\ t.name \notin Field THEN Min({confidence, 45})
        ELSE confidence)

(* What a turn names: a company (_extract_company_role), a detail             *)
(* (canonical_identity_field), a screen to open (parse_navigate) or the one    *)
(* its help topic is about (help_hop_dest).                                 *)
CompanyIn(p) == IF p.name \in Company THEN p.name ELSE Nothing
FieldIn(p) == IF p.name \in Field THEN p.name ELSE Nothing
ScreenIn(p) == IF p.name \in Screen THEN p.name ELSE Nothing
TopicScreen(p) == IF p.intent = "HELP_APP" THEN ScreenIn(p) ELSE CHOOSE s \in Screen : TRUE

(* send_action *)
Classified(t, intent, confidence) ==
  LET said == FromAction(t, intent, confidence)
  IN IF said.intent = "UNKNOWN" \/ said.confidence < 40 THEN Parse(t) ELSE said

(* _looks_like_new_command: should the message abandon the question? *)
Navigation == {"LIST", "QUERY", "STATS", "DEADLINE", "CHECK", "UNDO", "JOBS",
               "JOBS_REVIEW", "TRACK", "PROFILE", "APPLY_JOB", "QUEUE_JOB",
               "DISMISS_JOB", "SNOOZE_JOB", "TUNE", "HELP_APP", "SET_IDENTITY"}

StaysOnHop(t, p, row) ==
  \/ t.says \cap {"go", "stay", "cancel"} # {}
  \/ p.intent = "HELP_APP" /\ ScreenIn(p) \in {Nothing, row.name}

LooksLikeNewCommand(t, p, row) ==
  /\ t.says \cap {"yes", "no", "correction"} = {}
  /\ ~(row.awaiting = "go" /\ StaysOnHop(t, p, row))
  /\ \/ p.intent \in Navigation /\ p.confidence >= 70
     \/ /\ p.intent # row.intent
        /\ \/ p.intent = "APPLY" /\ CompanyIn(p) # Nothing /\ p.confidence >= 85
           \/ p.intent = "UPDATE" /\ CompanyIn(p) # Nothing /\ p.value
           \/ p.intent = "DELETE" /\ CompanyIn(p) # Nothing /\ p.confidence >= 80
           \/ p.intent \in {"EDIT", "BULK"} /\ p.confidence >= 80
=============================================================================
