--------------------------- MODULE MCConversation ---------------------------
(* Conversation with the turns of a user: typed texts, with the patterns the *)
(* router finds in them, and turns the phone classified.                     *)
EXTENDS Conversation, TLC

CONSTANTS figma, stripe, phone, settings

Plain == [marks |-> {}, says |-> {}, name |-> Nothing, value |-> FALSE,
          words |-> figma, rest |-> Nothing]

Typed == {
  [Plain EXCEPT !.marks = {"apply"}, !.name = stripe],       \* applied stripe
  [Plain EXCEPT !.marks = {"apply"}, !.says = {"apply"}],    \* applied; apply
  [Plain EXCEPT !.marks = {"delete"}, !.name = stripe],      \* delete stripe
  [Plain EXCEPT !.marks = {"delete"}],                       \* delete
  [Plain EXCEPT !.marks = {"bulk", "apply", "update"}, !.value = TRUE],
                                        \* reject everything still in applied
  [Plain EXCEPT !.says = {"yes", "go"}],                     \* yes
  [Plain EXCEPT !.says = {"no", "stay"}],                    \* no
  [Plain EXCEPT !.says = {"no", "correction", "stay"}],      \* no.
  [Plain EXCEPT !.says = {"correction"}, !.rest = figma],    \* no, figma
  [Plain EXCEPT !.says = {"cancel", "stay"}],                \* cancel
  [Plain EXCEPT !.name = figma],                             \* figma
  [Plain EXCEPT !.marks = {"list"}] }                        \* list

TypedReview == {
  [Plain EXCEPT !.marks = {"jobs_review"}],                  \* review my jobs
  [Plain EXCEPT !.says = {"skip"}],                          \* skip
  [Plain EXCEPT !.says = {"dismiss_all"}],                   \* dismiss all
  [Plain EXCEPT !.says = {"yes", "go"}],
  [Plain EXCEPT !.says = {"cancel", "stay"}],
  [Plain EXCEPT !.marks = {"help_app"}, !.name = settings],  \* take me to settings
  [Plain EXCEPT !.says = {"go"}],                            \* take me there
  [Plain EXCEPT !.says = {"stay"}],                          \* stay here
  [Plain EXCEPT !.marks = {"identity"}, !.name = phone],     \* change my phone
  [Plain EXCEPT !.marks = {"edit"}],                         \* fix an entry
  [Plain EXCEPT !.marks = {"note"}, !.name = figma],         \* note figma
  [Plain EXCEPT !.marks = {"update"}, !.name = figma, !.value = TRUE] }
                                                             \* figma interview
  \cup {[Plain EXCEPT !.marks = {"apply_job", "apply"}, !.name = p] : p \in Posting}
                                                             \* apply 12

(* The device calls "yes" an APPLY, and knows what "get rid of it" means. *)
Tapped == {
  [text |-> [Plain EXCEPT !.says = {"yes", "go"}], intent |-> "APPLY", confidence |-> 90],
  [text |-> [Plain EXCEPT !.name = stripe], intent |-> "DELETE", confidence |-> 60] }

Heard(texts) == {[text |-> t, meant |-> Parse(t)] : t \in texts}

Records == Heard(Typed)
             \cup {[text |-> d.text, meant |-> Classified(d.text, d.intent, d.confidence)]
                     : d \in Tapped}
Review == Heard(TypedReview)

MCMessage == Records \cup Review

(* Two kinds of conversation, so that their turns are not multiplied: about    *)
(* records, cleared only while a turn has something to run; and about the     *)
(* rest, with one application at most.                                      *)
VARIABLE about

MCInit == Init /\ about \in {"records", "review"}

MCNext ==
  /\ Next
  /\ step' = "read" /\ step = "idle" => msg' \in IF about = "records" THEN Records ELSE Review
  /\ about = "records" => queue' = {}
  /\ about = "records" /\ wiper' = "half" => step' = "run" /\ todo' # <<>>
  /\ about = "review" => Cardinality(used') <= 1
  /\ UNCHANGED about

MCSpec == MCInit /\ [][MCNext]_<<vars, about>>

AppSymmetry == Permutations(App)
=============================================================================
