---------------------------- MODULE Conversation ----------------------------
(***************************************************************************)
(* One user's chat: POST /chat and POST /agent (app/chat.py) record the turn, *)
(* read the open question, run what Dialogue decides one transaction at a      *)
(* time, record the reply and decorate it.  Handlers run on the event loop,   *)
(* one at a time; POST /chat/clear runs in a pool thread between any two of    *)
(* their transactions, and discovery changes the review queue from its own.   *)
(* The phone edits applications between turns.                              *)
(***************************************************************************)
EXTENDS Dialogue

CONSTANTS Message, \* bound: the turns a user may send: [text, meant]
          Expiry   \* EXPIRY_MINUTES, in moments

ASSUME ConversationAssumption ==
  /\ Expiry \in Nat
  /\ Message \subseteq [text : Text, meant : Reading]
  /\ Nothing \notin App

VARIABLES row,    \* conversation_state, or NoRow
          age,    \* moments since it was set
          talk,   \* chat_messages: who spoke last, or "empty"
          step,   \* where the running turn is, or "idle"
          msg,    \* its message
          seen,   \* the open question it read
          todo,   \* the transactions it has still to run
          saying, \* the question its reply will put
          wiper,  \* POST /chat/clear: "idle", or half done
          offered,  \* history: the question last put to the user, while fresh
          astray,   \* history: since it was put, what it was about changed from
                    \* outside, or a turn was cut short
          accepted, \* history: the user agreed to the hop on offer
          moved     \* history: the last decorated reply moved the phone

records == <<file, used, last, queue>>
turn == <<step, msg, seen, todo, saying>>
history == <<offered, astray, accepted, moved>>
vars == <<records, row, age, talk, turn, wiper, history>>

(* What a question puts before the user. *)
Put(r) ==
  [intent |-> r.intent, awaiting |-> r.awaiting,
   on |-> IF r.awaiting # "confirm" THEN {}
          ELSE IF r.intent = "BULK" THEN OpenOnes
          ELSE IF r.intent = "DELETE" THEN {Recent(r.name).id}
          ELSE {file[i].id : i \in Named(r.name)}]
NoPut == [intent |-> "none", awaiting |-> "nothing", on |-> {}]
SamePut == [NoPut EXCEPT !.intent = "same"]
CardPut == [intent |-> "JOBS_REVIEW", awaiting |-> "choice", on |-> {Min(queue)}]

Ids(f) == {f[i].id : i \in DOMAIN f}

TypeOK ==
  /\ \A i \in DOMAIN file :
       file[i] \in [id : App, company : Company, open : BOOLEAN]
  /\ Cardinality(Ids(file)) = Len(file) /\ Ids(file) \subseteq used /\ used \subseteq App
  /\ last \in [company : Company \cup {Nothing}, id : App \cup {Nothing}]
  /\ queue \subseteq Posting
  /\ row \in Row \cup {NoRow} /\ age \in 0..Expiry + 1
  /\ talk \in {"empty", "user", "assistant"}
  /\ step \in {"idle", "read", "run", "decorate"}
  /\ wiper \in {"idle", "half"}
  /\ astray \in BOOLEAN /\ accepted \in BOOLEAN /\ moved \in BOOLEAN

Quiet == CHOOSE m \in Message : TRUE

Init ==
  /\ file = <<>> /\ used = {} /\ last = [company |-> Nothing, id |-> Nothing]
  /\ queue = {}
  /\ row = NoRow /\ age = 0 /\ talk = "empty"
  /\ step = "idle" /\ msg = Quiet /\ seen = NoRow /\ todo = <<>> /\ saying = SamePut
  /\ wiper = "idle"
  /\ offered = NoPut /\ astray = FALSE /\ accepted = FALSE /\ moved = FALSE

-----------------------------------------------------------------------------
(* complete: the turn is recorded first. *)
Receive(m) ==
  /\ step = "idle"
  /\ step' = "read" /\ msg' = m /\ saying' = SamePut /\ talk' = "user"
  /\ moved' = FALSE
  /\ UNCHANGED <<records, row, age, seen, todo, wiper, offered, astray, accepted>>

(* Mutated form of Fresh: an old question is still open. *)
FreshAlways == row

(* get_pending: a question is forgotten after EXPIRY_MINUTES. *)
Fresh == IF age > Expiry THEN NoRow ELSE row

Agrees(r) == r.awaiting = "go" /\ msg.text.says \cap {"go", "yes"} # {}

Read ==
  /\ step = "read"
  /\ row' = Fresh /\ age' = IF row' = NoRow THEN 0 ELSE age
  /\ seen' = row'
  /\ todo' = Decide(msg.text, msg.meant, row')
  /\ step' = "run"
  /\ accepted' = (accepted \/ Agrees(row'))
  /\ UNCHANGED <<records, talk, msg, saying, wiper, offered, astray, moved>>

-----------------------------------------------------------------------------
(* The transactions of a turn. *)
Does(o) == step = "run" /\ todo # <<>> /\ Head(todo).op = o /\ UNCHANGED <<step, msg, seen>>
On == Head(todo).on
Next1 == todo' = Tail(todo)
Other == <<talk, wiper, offered, moved>>

SetPending ==
  /\ Does("ask") /\ Next1
  /\ row' = On /\ age' = 0 /\ saying' = Put(On)
  /\ astray' = FALSE
  /\ accepted' = (accepted /\ On.hop = "confirmed")
  /\ UNCHANGED <<records, Other>>

ClearPending ==
  /\ Does("close") /\ Next1
  /\ row' = NoRow /\ age' = 0 /\ saying' = NoPut
  /\ UNCHANGED <<records, astray, accepted, Other>>

Untalked == <<row, age, saying, astray, accepted, Other>>

Log ==
  /\ Does("log")
  /\ \E a \in App \ used :
       /\ file' = <<[id |-> a, company |-> On, open |-> TRUE]>> \o file
       /\ used' = used \cup {a}
       /\ todo' = <<Remember(On, a)>> \o Tail(todo)
  /\ UNCHANGED <<last, queue, Untalked>>

SetContext ==
  /\ Does("remember") /\ Next1
  /\ last' = On
  /\ UNCHANGED <<file, used, queue, Untalked>>

(* Mutated form of Without: the newest goes, whichever was meant. *)
WithoutNewest(a) == Tail(file)

Without(a) ==
  LET k == CHOOSE j \in DOMAIN file : file[j].id = a
  IN  [i \in 1..Len(file) - 1 |-> file[IF i < k THEN i ELSE i + 1]]

Touch ==
  /\ Does("change") /\ Next1
  /\ file' = <<Application(On)>> \o Without(On)
  /\ UNCHANGED <<used, last, queue, Untalked>>

Remove ==
  /\ Does("remove") /\ Next1
  /\ file' = Without(On)
  /\ UNCHANGED <<used, last, queue, Untalked>>

Sweep ==
  /\ Does("sweep") /\ Next1
  /\ file' = [i \in DOMAIN file |-> [file[i] EXCEPT !.open = FALSE]]
  /\ UNCHANGED <<used, last, queue, Untalked>>

SaveIdentity == Does("identity") /\ Next1 /\ UNCHANGED <<records, Untalked>>

(* mark_posting_status; the application it logs is EventLoop's. *)
MarkCard ==
  /\ Does("mark") /\ Next1
  /\ queue' = queue \ {On}
  /\ UNCHANGED <<file, used, last, Untalked>>

DismissAll ==
  /\ Does("dismiss_all") /\ Next1
  /\ queue' = {}
  /\ UNCHANGED <<file, used, last, Untalked>>

ShowCard ==
  /\ Does("card") /\ Next1
  /\ age' = 0
  /\ IF queue = {}
     THEN row' = NoRow /\ saying' = NoPut /\ UNCHANGED astray
     ELSE /\ row' = Question("JOBS_REVIEW", Nothing, FALSE, "choice")
          /\ saying' = CardPut /\ astray' = FALSE
  /\ UNCHANGED <<records, accepted, Other>>

(* The reply is recorded, whatever became of the turn. *)
Reply ==
  /\ step = "run" /\ todo = <<>>
  /\ step' = "decorate" /\ talk' = "assistant"
  /\ offered' = IF saying = SamePut THEN offered ELSE saying
  /\ UNCHANGED <<records, row, age, msg, seen, todo, saying, wiper, astray, accepted, moved>>

(* complete swallows what the engine raised: the turn stops where it was. *)
Raise ==
  /\ step = "run" /\ todo # <<>>
  /\ todo' = <<>> /\ saying' = SamePut /\ astray' = TRUE
  /\ UNCHANGED <<records, row, age, step, msg, seen, accepted, Other>>

(* Mutated form of Decorate: the phone moves unless the user declined. *)
DecorateUndeclined ==
  /\ step = "decorate"
  /\ row' = IF Fresh.awaiting = "go" /\ row.hop # "offered" THEN NoRow ELSE Fresh
  /\ moved' = (Fresh.awaiting = "go" /\ row.hop # "declined")
  /\ age' = IF row' = NoRow THEN 0 ELSE age
  /\ step' = "idle"
  /\ msg' = Quiet /\ seen' = NoRow /\ saying' = SamePut
  /\ UNCHANGED <<records, talk, todo, wiper, offered, astray, accepted>>

(* decorate: an accepted hop moves the phone, and is over. *)
Decorate ==
  /\ step = "decorate"
  /\ row' = IF Fresh.awaiting = "go" /\ row.hop # "offered" THEN NoRow ELSE Fresh
  /\ moved' = (Fresh.awaiting = "go" /\ row.hop = "confirmed")
  /\ age' = IF row' = NoRow THEN 0 ELSE age
  /\ step' = "idle"
  /\ msg' = Quiet /\ seen' = NoRow /\ saying' = SamePut
  /\ UNCHANGED <<records, talk, todo, wiper, offered, astray, accepted>>

-----------------------------------------------------------------------------
(* chat.clear: the transcript, then the open question. *)
WipeTranscript ==
  /\ wiper = "idle" /\ talk # "empty"
  /\ wiper' = "half" /\ talk' = "empty"
  /\ UNCHANGED <<records, row, age, turn, history>>

(* Mutated form of WipeQuestion: the transcript is all that is cleared. *)
WipeNoQuestion ==
  /\ wiper = "half"
  /\ wiper' = "idle"
  /\ UNCHANGED <<records, row, age, talk, turn, history>>

WipeQuestion ==
  /\ wiper = "half"
  /\ wiper' = "idle" /\ row' = NoRow /\ age' = 0
  /\ UNCHANGED <<records, talk, turn, history>>

Wipe == WipeTranscript \/ WipeQuestion

(* The process stops: turns and wipes with it. *)
Crash ==
  /\ step # "idle" \/ wiper # "idle"
  /\ step' = "idle" /\ msg' = Quiet /\ seen' = NoRow /\ todo' = <<>> /\ saying' = SamePut
  /\ wiper' = "idle" /\ astray' = TRUE
  /\ UNCHANGED <<records, row, age, talk, offered, accepted, moved>>

Tick ==
  /\ step = "idle" /\ row # NoRow /\ age <= Expiry
  /\ age' = age + 1
  /\ offered' = IF age' > Expiry THEN NoPut ELSE offered
  /\ UNCHANGED <<records, row, talk, turn, wiper, astray, accepted, moved>>

Elsewhere == astray' = TRUE /\ UNCHANGED <<row, age, talk, turn, wiper, offered, accepted, moved>>

(* The phone's Tracker tab. *)
PhoneLog(a, c) ==
  /\ step = "idle" /\ a \notin used
  /\ file' = <<[id |-> a, company |-> c, open |-> TRUE]>> \o file
  /\ used' = used \cup {a}
  /\ Elsewhere /\ UNCHANGED <<last, queue>>

PhoneDelete(a) ==
  /\ step = "idle" /\ OnFile(a)
  /\ file' = Without(a)
  /\ Elsewhere /\ UNCHANGED <<used, last, queue>>

PhoneEdit(a) ==
  /\ step = "idle" /\ OnFile(a)
  /\ \E s \in BOOLEAN : file' = <<[Application(a) EXCEPT !.open = s]>> \o Without(a)
  /\ Elsewhere /\ UNCHANGED <<used, last, queue>>

(* Discovery stores, wakes or retires a posting; the phone passes on one. *)
QueueChanges(p) ==
  /\ queue' = IF p \in queue THEN queue \ {p} ELSE queue \cup {p}
  /\ Elsewhere /\ UNCHANGED <<file, used, last>>

Turn ==
  \/ Read \/ SetPending \/ ClearPending \/ Log \/ SetContext \/ Touch \/ Remove \/ Sweep
  \/ SaveIdentity \/ MarkCard \/ DismissAll \/ ShowCard \/ Reply \/ Raise \/ Decorate

Next ==
  \/ \E m \in Message : Receive(m)
  \/ Turn
  \/ Wipe \/ Crash \/ Tick
  \/ \E a \in App : PhoneDelete(a) \/ PhoneEdit(a) \/ \E c \in Company : PhoneLog(a, c)
  \/ \E p \in Posting : QueueChanges(p)

Spec == Init /\ [][Next]_vars

-----------------------------------------------------------------------------
Deleted == Ids(file) \ Ids(file')
Logged == Ids(file') \ Ids(file)
Closed == {a \in Ids(file) \cap Ids(file') :
             Application(a).open /\ \E i \in DOMAIN file' : file'[i].id = a /\ ~file'[i].open}

(* The running turn is a yes to an open question of that kind, and that is the *)
(* question the user last read, about those applications; unless a turn was    *)
(* cut short since, or something outside the chat changed them.              *)
Agreed(intent, about) ==
  /\ "yes" \in msg.text.says /\ seen.intent = intent /\ seen.awaiting = "confirm"
  /\ \/ offered.intent = intent /\ offered.awaiting = "confirm" /\ offered.on = about
     \/ astray

(* Chat deletes an application only on a yes to a question that showed that    *)
(* one, and closes applications in bulk only on a yes to one that showed       *)
(* exactly those.                                                            *)
TakesWhatWasShown ==
  [][step = "run" =>
       /\ Deleted # {} => Agreed("DELETE", Deleted)
       /\ Closed # {} => Agreed("BULK", Closed)]_vars

(* Chat logs a second application at a company only on a yes to a question     *)
(* that said there is one.                                                   *)
DuplicateOnlyWhenTold ==
  [][step = "run" /\ Logged # {} /\ Named(On) # {} =>
       Agreed("APPLY", {file[i].id : i \in Named(On)})]_vars

(* A refusal logs nothing ("Got it - not logging that"). *)
RefusalLogsNothing ==
  [][step = "run" /\ Logged # {} => "no" \notin msg.text.says]_vars

(* A review takes from the queue the card the user saw, or all of it when told *)
(* to; whatever "apply 12" names is what is taken.                            *)
CardTakenWasShown ==
  [][step = "run" /\ todo' # todo /\ queue' # queue =>
       \/ "dismiss_all" \in msg.text.says
       \/ /\ queue \ queue' \subseteq offered.on \/ astray
          /\ msg.meant.intent = "APPLY_JOB" => queue \ queue' = {msg.meant.name}]_vars

(* Once the chat was cleared, no question is left waiting in an empty one. *)
ClearedMeansForgotten ==
  step = "idle" /\ wiper = "idle" /\ talk = "empty" => row = NoRow \/ astray

(* The phone changes screens only after the user agreed to that hop. *)
MovesOnlyWhenAgreed == moved => accepted
=============================================================================
