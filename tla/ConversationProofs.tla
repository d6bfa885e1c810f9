------------------------- MODULE ConversationProofs -------------------------
(***************************************************************************)
(* Conversation for any companies, postings, screens and messages, and any    *)
(* expiry: its state keeps its shape, the phone moves only on an agreed hop,   *)
(* a cleared chat forgets its question, and what a turn deletes, closes, logs   *)
(* a second time or takes from the queue is what the user was asked about.     *)
(*                                                                         *)
(* The invariant relates four pieces of state.  Told: the question in the row  *)
(* shows what the user was last told, unless it names nothing or something     *)
(* changed from outside.  Allowed: each transaction that is still to run has   *)
(* the agreement it needs, whatever ran before it.  Placed: the file changes   *)
(* only when no question that names applications is open, and after it only     *)
(* what needs no look at the file runs.  Sound: what a question may be.        *)
(* That Dialogue plans such transactions (DecidePlanned) says nothing of what   *)
(* was told; that the plan is allowed when the turn reads its question          *)
(* (ItemAllowed) is where the two meet.                                       *)
(***************************************************************************)
EXTENDS Conversation, SequenceTheorems, FiniteSetTheorems, FunctionTheorems, WellFoundedInduction, TLAPS

-----------------------------------------------------------------------------
(* The invariant. *)

(* The shapes of what is kept. *)
Companies == Company \cup {Nothing}
Memory == [company : Companies, id : App \cup {Nothing}]
Things == Row \cup {NoRow} \cup Name \cup App \cup Memory
OpName == {"ask", "close", "remember", "change", "log", "remove", "sweep", "identity",
           "mark", "dismiss_all", "card"}
Ops == [op : OpName, on : Things]
Entry == [id : App, company : Company, open : BOOLEAN]

(* Questions that name something the user agrees to. *)
Calm(r) == r.awaiting \notin {"confirm", "choice"}

(* Which questions are ever put. *)
Sound(r) ==
  /\ r \in Row
  /\ r.intent = "HELP_APP" => r.awaiting = "go"
  /\ r.intent = "JOBS_REVIEW" => r.awaiting = "choice"
  /\ r.awaiting = "choice" => r.intent = "JOBS_REVIEW"
  /\ r.awaiting = "confirm" => /\ r.intent \in {"APPLY", "DELETE", "BULK"}
                               /\ r.intent # "BULK" => r.name \in Company
  /\ r.intent # "HELP_APP" => r.name \in Companies

(* What the question in a row shows the user now. *)
Shows(r) == IF r.intent = "JOBS_REVIEW" THEN CardPut ELSE Put(r)

(* What the user was last told is what the open question shows. *)
Told(put) == ~astray /\ ~Calm(row) => put = Shows(row)

Ends(op) == op \in {"ask", "close", "card"}
AtOnce(op) == op \in {"log", "remove", "sweep"}

NamedIds(c) == {file[i].id : i \in Named(c)}

(* What is known of a transaction that is still to run. *)
Allowed(o) ==
  /\ o.op = "ask" => /\ Sound(o.on) /\ o.on.intent # "JOBS_REVIEW"
                     /\ o.on.hop = "confirmed" => accepted
  /\ o.op = "remember" => o.on \in Memory
  /\ o.op = "change" => OnFile(o.on)
  /\ o.op = "log" => /\ o.on \in Company
                     /\ Named(o.on) = {} \/ Agreed("APPLY", NamedIds(o.on))
  /\ o.op = "remove" => OnFile(o.on) /\ Agreed("DELETE", {o.on})
  /\ o.op = "sweep" => Agreed("BULK", OpenOnes)
  /\ o.op = "mark" => /\ o.on \in offered.on \/ astray
                      /\ msg.meant.intent = "APPLY_JOB" => o.on = msg.meant.name
  /\ o.op = "dismiss_all" => "dismiss_all" \in msg.text.says

(* Where a transaction may stand among those of a turn; calm: the question     *)
(* that is open when they start is one of the calm ones.                    *)
Placed(s, calm, i) ==
  /\ s[i].op \in {"ask", "card"} \/ AtOnce(s[i].op) => i = Len(s)
  /\ AtOnce(s[i].op) => \A j \in 1..i - 1 : s[j].op = "close"
  /\ s[i].op = "change" => \A j \in i + 1..Len(s) : s[j].op \in {"close", "remember"}
  /\ s[i].op = "change" \/ AtOnce(s[i].op) => calm \/ \E j \in 1..i - 1 : s[j].op = "close"
  /\ s[i].op \in {"mark", "dismiss_all"} => Len(s) = 2 /\ i = 1 /\ Ends(s[2].op)

Distinct(f) == \A i, j \in 1..Len(f) : f[i].id = f[j].id => i = j

Kept == file \in Seq(Entry) /\ last \in Memory /\ queue \subseteq Posting

RecordsInv == Kept /\ Distinct(file) /\ Ids(file) \subseteq used /\ used \subseteq App

FlagsInv ==
  /\ age \in 0..Expiry + 1
  /\ talk \in {"empty", "user", "assistant"}
  /\ step \in {"idle", "read", "run", "decorate"}
  /\ wiper \in {"idle", "half"}
  /\ astray \in BOOLEAN /\ accepted \in BOOLEAN /\ moved \in BOOLEAN

AskedInv ==
  /\ row = NoRow \/ Sound(row)
  /\ row.hop = "confirmed" => accepted
  /\ moved => accepted

TurnInv ==
  /\ step \in {"read", "run"} => msg \in Message
  /\ step = "read" => saying = SamePut
  /\ step # "idle" => ~moved
  /\ step # "run" /\ age <= Expiry => Told(offered)

RunInv ==
  step = "run" =>
    /\ todo \in Seq(Ops)
    /\ \A i \in 1..Len(todo) : Allowed(todo[i]) /\ Placed(todo, Calm(row), i)
    /\ \/ \E i \in 1..Len(todo) : Ends(todo[i].op)
       \/ Told(IF saying = SamePut THEN offered ELSE saying)

ChatInv == RecordsInv /\ FlagsInv /\ AskedInv /\ TurnInv /\ RunInv

(* Once the chat was cleared nothing waits, whatever is under way. *)
Forgot == wiper = "idle" /\ talk = "empty" /\ step # "run" => row = NoRow \/ astray

-----------------------------------------------------------------------------
(* Files of applications. *)

Rows(f) == {f[i] : i \in 1..Len(f)}

LEMMA InFront ==
  ASSUME NEW f \in Seq(Entry), Distinct(f), NEW e \in Entry, e.id \notin Ids(f)
  PROVE  LET g == <<e>> \o f
         IN  /\ g \in Seq(Entry) /\ Distinct(g)
             /\ Rows(g) = {e} \cup Rows(f) /\ Ids(g) = {e.id} \cup Ids(f)
<1> DEFINE g == <<e>> \o f
<1>1. /\ g \in Seq(Entry) /\ Len(g) = 1 + Len(f) /\ g[1] = e
      /\ \A i \in 2..Len(g) : g[i] = f[i - 1]
  BY DEF Entry
<1> HIDE DEF g
<1>2. Len(f) \in Nat /\ DOMAIN f = 1..Len(f) /\ DOMAIN g = 1..Len(g)
  BY <1>1
<1>3. \A i \in 1..Len(f) : f[i].id # e.id
  BY <1>2 DEF Ids
<1>4. \A i \in 1..Len(g) : i = 1 \/ (i \in 2..Len(g) /\ i - 1 \in 1..Len(f))
  BY <1>1, <1>2
<1>5. Distinct(g)
  BY <1>1, <1>2, <1>3, <1>4 DEF Distinct
<1>6. \A i \in 1..Len(f) : g[i + 1] = f[i] /\ i + 1 \in 1..Len(g)
  BY <1>1, <1>2
<1>7. Rows(g) = {e} \cup Rows(f)
  <2>1. \A x \in Rows(g) : x \in {e} \cup Rows(f)
    BY <1>1, <1>4 DEF Rows
  <2>2. e \in Rows(g)
    BY <1>1, <1>2 DEF Rows
  <2>3. \A x \in Rows(f) : x \in Rows(g)
    BY <1>6 DEF Rows
  <2> QED BY <2>1, <2>2, <2>3
<1>8. Ids(g) = {x.id : x \in Rows(g)} /\ Ids(f) = {x.id : x \in Rows(f)}
  BY <1>2 DEF Ids, Rows
<1>9. Ids(g) = {e.id} \cup Ids(f)
  BY <1>7, <1>8
<1> QED BY <1>1, <1>5, <1>7, <1>9 DEF g

LEMMA TakenOut ==
  ASSUME file \in Seq(Entry), Distinct(file), NEW a, OnFile(a)
  PROVE  /\ Without(a) \in Seq(Entry) /\ Distinct(Without(a))
         /\ Rows(Without(a)) = {x \in Rows(file) : x.id # a}
         /\ Ids(Without(a)) = Ids(file) \ {a}
<1>0. DOMAIN file = 1..Len(file) /\ Len(file) \in Nat
  OBVIOUS
<1> DEFINE k == CHOOSE j \in DOMAIN file : file[j].id = a
<1>1. k \in 1..Len(file) /\ file[k].id = a
  BY <1>0 DEF OnFile
<1> HIDE DEF k
<1> DEFINE g == [i \in 1..Len(file) - 1 |-> file[IF i < k THEN i ELSE i + 1]]
<1>2. Without(a) = g
  BY DEF Without, k
<1>3. /\ g \in Seq(Entry) /\ Len(g) = Len(file) - 1
      /\ \A i \in 1..Len(g) : g[i] = IF i < k THEN file[i] ELSE file[i + 1]
  <2>1. Len(file) - 1 \in Nat /\ \A i \in 1..Len(file) - 1 : g[i] \in Entry
    BY <1>0, <1>1
  <2>2. g \in Seq(Entry) /\ Len(g) = Len(file) - 1
    BY <2>1
  <2> QED BY <2>2
<1> HIDE DEF g
<1>4. DOMAIN g = 1..Len(g)
  BY <1>3
<1>5. \A i \in 1..Len(g) : i \in 1..Len(file) /\ i + 1 \in 1..Len(file)
  BY <1>0, <1>3
<1>6. Distinct(g)
  BY <1>0, <1>1, <1>3, <1>5 DEF Distinct
<1>7. \A i \in 1..Len(file) : i = k \/ (i < k /\ i \in 1..Len(g)) \/ (i > k /\ i - 1 \in 1..Len(g))
  BY <1>0, <1>1, <1>3
<1>8. \A i \in 1..Len(file) : file[i].id = a => i = k
  BY <1>1 DEF Distinct
<1>9. Rows(g) = {x \in Rows(file) : x.id # a}
  <2>1. \A i \in 1..Len(g) : g[i] \in Rows(file) /\ g[i].id # a
    BY <1>0, <1>1, <1>3, <1>5, <1>8 DEF Rows
  <2>2. ASSUME NEW i \in 1..Len(file), file[i].id # a
        PROVE  file[i] \in Rows(g)
    <3>1. CASE i < k
      <4>1. i \in 1..Len(g) /\ g[i] = file[i]
        BY <1>0, <1>1, <1>3, <3>1
      <4> QED BY <4>1 DEF Rows
    <3>2. CASE i > k
      <4>1. i - 1 \in 1..Len(g) /\ ~(i - 1 < k) /\ i - 1 + 1 = i
        BY <1>0, <1>1, <1>3, <3>2
      <4>2. g[i - 1] = file[i]
        BY <1>3, <4>1
      <4> QED BY <4>1, <4>2 DEF Rows
    <3> QED BY <1>0, <1>1, <2>2, <3>1, <3>2
  <2> QED BY <2>1, <2>2 DEF Rows
<1>10. Ids(g) = {x.id : x \in Rows(g)} /\ Ids(file) = {x.id : x \in Rows(file)}
  BY <1>0, <1>4 DEF Ids, Rows
<1>11. Ids(g) = Ids(file) \ {a}
  BY <1>9, <1>10
<1> QED BY <1>2, <1>3, <1>6, <1>9, <1>11

-----------------------------------------------------------------------------
(* What Dialogue decides. *)

Says(t, r, intent) == "yes" \in t.says /\ r.intent = intent /\ r.awaiting = "confirm"
GoesAhead(t, r) == r.awaiting = "go" /\ t.says \cap {"go", "yes"} # {}

(* One transaction of the turn in which t, taken for p, answers the question r. *)
Item(o, t, p, r) ==
  /\ o \in Ops
  /\ o.op = "ask" => /\ Sound(o.on) /\ o.on.intent # "JOBS_REVIEW"
                     /\ o.on.hop = "confirmed" => r.hop = "confirmed" \/ GoesAhead(t, r)
  /\ o.op = "remember" => o.on \in Memory
  /\ o.op = "change" => OnFile(o.on)
  /\ o.op = "log" => /\ o.on \in Company
                     /\ Named(o.on) = {} \/ (Says(t, r, "APPLY") /\ o.on = r.name)
  /\ o.op = "remove" => /\ OnFile(o.on) /\ o.on \in App
                        /\ Says(t, r, "DELETE") /\ o.on = Recent(r.name).id
  /\ o.op = "sweep" => Says(t, r, "BULK")
  /\ o.op = "mark" => /\ r.intent = "JOBS_REVIEW" /\ o.on = Min(queue)
                      /\ p.intent = "APPLY_JOB" => o.on = p.name
  /\ o.op = "dismiss_all" => "dismiss_all" \in t.says

Plan(s, t, p, r, calm) ==
  /\ s \in Seq(Ops)
  /\ \A i \in 1..Len(s) : Item(s[i], t, p, r) /\ Placed(s, calm, i)

Reviews(s) == \E i \in 1..Len(s) : s[i].op \in {"mark", "dismiss_all"}

LEMMA OpsAre ==
  ASSUME NEW op \in OpName, NEW on \in Things
  PROVE  Op(op, on) \in Ops /\ Op(op, on).op = op /\ Op(op, on).on = on
BY DEF Op, Ops

LEMMA NoRowIsCalm == /\ NoRow \in Things /\ Nothing \in Things /\ Calm(NoRow)
                     /\ NoRow.hop = "offered" /\ NoRow.intent = "none" /\ NoRow.awaiting = "nothing"
  BY DEF NoRow, Things, Name, Calm

LEMMA NothingPlanned ==
  ASSUME NEW t, NEW p, NEW r, NEW calm \in BOOLEAN
  PROVE  Plan(Say, t, p, r, calm) /\ ~Reviews(Say)
BY DEF Plan, Say, Reviews

LEMMA OnePlanned ==
  ASSUME NEW t, NEW p, NEW r, NEW calm \in BOOLEAN, NEW o, Item(o, t, p, r),
         o.op \notin {"mark", "dismiss_all"},
         o.op = "change" \/ AtOnce(o.op) => calm
  PROVE  Plan(<<o>>, t, p, r, calm) /\ ~Reviews(<<o>>)
<1>1. o \in Ops
  BY DEF Item
<1>2. <<o>> \in Seq(Ops) /\ Len(<<o>>) = 1 /\ <<o>>[1] = o
  BY <1>1
<1>3. \A i \in 1..Len(<<o>>) : i = 1
  BY <1>2
<1> QED BY <1>2, <1>3 DEF Plan, Placed, Reviews

(* A question is dropped first: what follows need not mind it. *)
LEMMA CloseFirst ==
  ASSUME NEW t, NEW p, NEW r, NEW calm \in BOOLEAN, NEW s,
         Plan(s, t, p, r, TRUE), ~Reviews(s)
  PROVE  Plan(Close \o s, t, p, r, calm) /\ ~Reviews(Close \o s)
<1> DEFINE g == Close \o s
           c == Op("close", NoRow)
<1>1. c \in Ops /\ c.op = "close"
  BY OpsAre, NoRowIsCalm DEF OpName
<1>2. /\ g \in Seq(Ops) /\ Len(g) = Len(s) + 1 /\ Len(s) \in Nat /\ g[1] = c
      /\ \A i \in 2..Len(g) : g[i] = s[i - 1]
  BY <1>1 DEF Close, Plan
<1> HIDE DEF g, c
<1>3. Item(c, t, p, r)
  BY <1>1 DEF Item
<1>4. ASSUME NEW i \in 2..Len(g)
      PROVE  Item(g[i], t, p, r) /\ Placed(g, calm, i) /\ g[i].op \notin {"mark", "dismiss_all"}
  <2>1. i - 1 \in 1..Len(s) /\ g[i] = s[i - 1]
    BY <1>2
  <2>2. Item(s[i - 1], t, p, r) /\ Placed(s, TRUE, i - 1)
        /\ s[i - 1].op \notin {"mark", "dismiss_all"}
    BY <2>1 DEF Plan, Reviews
  <2>3. \A j \in 1..i - 1 : j = 1 \/ (j - 1 \in 1..i - 2 /\ g[j] = s[j - 1])
    BY <1>2
  <2>4. \A j \in i + 1..Len(g) : j - 1 \in (i - 1) + 1..Len(s) /\ g[j] = s[j - 1]
    BY <1>2
  <2>5. 1 \in 1..i - 1 /\ g[1].op = "close" /\ (i - 1) - 1 = i - 2
    BY <1>1, <1>2
  <2>6. i - 1 = Len(s) => i = Len(g)
    BY <1>2
  <2> QED BY <2>1, <2>2, <2>3, <2>4, <2>5, <2>6 DEF Placed
<1>5. Placed(g, calm, 1)
  BY <1>1, <1>2 DEF Placed, AtOnce
<1>6. \A i \in 1..Len(g) : i = 1 \/ i \in 2..Len(g)
  BY <1>2
<1>7. Plan(g, t, p, r, calm) /\ ~Reviews(g)
  BY <1>1, <1>2, <1>3, <1>4, <1>5, <1>6 DEF Plan, Reviews
<1> QED BY <1>7 DEF g

-----------------------------------------------------------------------------
(* What a decision looks up. *)

LEMMA LeastIsIn ==
  ASSUME NEW S \in SUBSET Nat, S # {}
  PROVE  Min(S) \in S
<1>1. PICK x \in S : \A y \in S : ~ (<<y, x>> \in OpToRel(<, Nat))
  <2>1. S \subseteq Nat
    OBVIOUS
  <2> QED BY <2>1, NatLessThanWellFounded, WFMin
<1>2. \A y \in S : <<y, x>> \in OpToRel(<, Nat) <=> y < x
  BY DEF OpToRel
<1>3. \A y \in S : y \in Nat
  OBVIOUS
<1>4. \A y \in S : ~ (y < x)
  BY <1>1, <1>2, Zenon
<1>5. \A y \in S : x =< y
  BY <1>3, <1>4
<1> QED BY <1>5 DEF Min

LEMMA RecentIsNamed ==
  ASSUME Kept, NEW c, Named(c) # {}
  PROVE  /\ Recent(c) \in Entry /\ Recent(c).company = c
         /\ OnFile(Recent(c).id) /\ Recent(c).id \in App
<1>1. Named(c) \subseteq DOMAIN file /\ DOMAIN file = 1..Len(file) /\ Len(file) \in Nat
  BY DEF Named, Kept
<1>2. Min(Named(c)) \in Named(c)
  BY <1>1, LeastIsIn
<1>3. \A i \in DOMAIN file : file[i] \in Entry
  BY <1>1 DEF Kept
<1> QED BY <1>1, <1>2, <1>3 DEF Recent, Named, OnFile, Entry

LEMMA ApplicationIsOnFile ==
  ASSUME Kept, NEW a, OnFile(a)
  PROVE  Application(a) \in Entry /\ Application(a).id = a /\ a \in App
<1>1. DOMAIN file = 1..Len(file) /\ \A i \in DOMAIN file : file[i] \in Entry
  BY DEF Kept
<1> QED BY <1>1 DEF OnFile, Application, Entry

-----------------------------------------------------------------------------
(* Plans of a question, and of two transactions. *)

LEMMA AskPlanned ==
  ASSUME NEW t, NEW p, NEW r, NEW calm \in BOOLEAN, NEW q, Sound(q),
         q.intent # "JOBS_REVIEW", q.hop = "confirmed" => r.hop = "confirmed" \/ GoesAhead(t, r)
  PROVE  Plan(Ask(q), t, p, r, calm) /\ ~Reviews(Ask(q))
<1>1. Op("ask", q) \in Ops /\ Op("ask", q).op = "ask" /\ Op("ask", q).on = q
  BY OpsAre DEF OpName, Things, Sound
<1>2. Item(Op("ask", q), t, p, r)
  BY <1>1 DEF Item
<1> QED BY <1>1, <1>2, OnePlanned DEF Ask, AtOnce

LEMMA ClosePlanned ==
  ASSUME NEW t, NEW p, NEW r, NEW calm \in BOOLEAN
  PROVE  Plan(Close, t, p, r, calm) /\ ~Reviews(Close)
<1>1. Op("close", NoRow) \in Ops /\ Op("close", NoRow).op = "close"
  BY OpsAre, NoRowIsCalm DEF OpName
<1>2. Item(Op("close", NoRow), t, p, r)
  BY <1>1 DEF Item
<1> QED BY <1>1, <1>2, OnePlanned DEF Close, AtOnce

LEMMA TwoPlanned ==
  ASSUME NEW t, NEW p, NEW r, NEW calm \in BOOLEAN,
         NEW o, Item(o, t, p, r), NEW n, Item(n, t, p, r),
         \/ o.op \in {"mark", "dismiss_all"} /\ Ends(n.op)
         \/ o.op = "change" /\ n.op = "remember" /\ calm
         \/ o.op = "identity" /\ n.op = "close"
  PROVE  /\ Plan(<<o, n>>, t, p, r, calm)
         /\ o.op \in {"change", "identity"} => ~Reviews(<<o, n>>)
<1>1. <<o, n>> \in Seq(Ops) /\ Len(<<o, n>>) = 2 /\ <<o, n>>[1] = o /\ <<o, n>>[2] = n
  BY DEF Item
<1> DEFINE s == <<o, n>>
<1> HIDE DEF s
<1>2. \A i \in 1..2 : i = 1 \/ i = 2
  OBVIOUS
<1>3. Placed(s, calm, 1)
  <2>1. \A j \in 1 + 1..2 : j = 2
    OBVIOUS
  <2> QED BY <1>1, <2>1 DEF Placed, s, AtOnce
<1>4. Placed(s, calm, 2)
  <2>1. \A j \in 2 + 1..2 : FALSE
    OBVIOUS
  <2> QED BY <1>1, <2>1 DEF Placed, s, AtOnce, Ends
<1>5. Plan(s, t, p, r, calm)
  BY <1>1, <1>2, <1>3, <1>4 DEF Plan, s
<1>6. o.op \in {"change", "identity"} => ~Reviews(s)
  BY <1>1, <1>2 DEF Reviews, s, Ends
<1> QED BY <1>5, <1>6 DEF s

LEMMA Pair ==
  ASSUME NEW o \in Ops, NEW n \in Ops
  PROVE  <<o>> \o <<n>> = <<o, n>>
<1> DEFINE s == <<o>> \o <<n>>
           g == <<o, n>>
<1>1. s \in Seq(Ops) /\ Len(s) = 2 /\ s[1] = o /\ s[2] = n
  OBVIOUS
<1>2. g \in Seq(Ops) /\ Len(g) = 2 /\ g[1] = o /\ g[2] = n
  OBVIOUS
<1> HIDE DEF s, g
<1>3. \A i \in 1..2 : i = 1 \/ i = 2
  OBVIOUS
<1>4. s = g
  BY <1>1, <1>2, <1>3, SeqEqual
<1> QED BY <1>4 DEF s, g

(* A change to an application, in the two orders it is made in. *)
LEMMA ChangePlanned ==
  ASSUME NEW t, NEW p, NEW r, Kept, NEW a, OnFile(a)
  PROVE  Plan(Change(a), t, p, r, TRUE) /\ ~Reviews(Change(a))
<1>1. Application(a) \in Entry /\ a \in App
  BY ApplicationIsOnFile
<1> DEFINE k == [company |-> Application(a).company, id |-> a]
<1>2. k \in Memory /\ Remember(Application(a).company, a) = Op("remember", k)
  BY <1>1 DEF Memory, Companies, Entry, Remember
<1> HIDE DEF k
<1>3. /\ Op("change", a) \in Ops /\ Op("change", a).op = "change" /\ Op("change", a).on = a
      /\ Op("remember", k) \in Ops /\ Op("remember", k).op = "remember" /\ Op("remember", k).on = k
  BY <1>1, <1>2, OpsAre DEF OpName, Things
<1>4. Item(Op("change", a), t, p, r) /\ Item(Op("remember", k), t, p, r)
  BY <1>2, <1>3 DEF Item
<1> QED BY <1>2, <1>3, <1>4, TwoPlanned DEF Change

LEMMA EditPlanned ==
  ASSUME NEW t, NEW p, NEW r, Kept, NEW c \in Company, NEW a \in App, OnFile(a)
  PROVE  LET s == <<Op("change", a)>> \o Close \o <<Remember(c, a)>>
         IN  Plan(s, t, p, r, TRUE) /\ ~Reviews(s)
<1> DEFINE k == [company |-> c, id |-> a]
           o == Op("change", a)
           e == Op("close", NoRow)
           n == Op("remember", k)
           s == <<o>> \o Close \o <<Remember(c, a)>>
<1>1. k \in Memory
  BY DEF Memory, Companies
<1>2. /\ o \in Ops /\ o.op = "change" /\ o.on = a
      /\ e \in Ops /\ e.op = "close"
      /\ n \in Ops /\ n.op = "remember" /\ n.on = k
  <2> HIDE DEF k
  <2> QED BY <1>1, OpsAre, NoRowIsCalm DEF OpName, Things
<1>3. Close = <<e>> /\ Remember(c, a) = n
  BY DEF Close, Remember
<1> HIDE DEF k, o, e, n
<1>4. s \in Seq(Ops) /\ Len(s) = 3 /\ s[1] = o /\ s[2] = e /\ s[3] = n
  BY <1>2, <1>3
<1> HIDE DEF s
<1>5. \A i \in 1..3 : i = 1 \/ i = 2 \/ i = 3
  OBVIOUS
<1>6. Item(o, t, p, r) /\ Item(e, t, p, r) /\ Item(n, t, p, r)
  BY <1>1, <1>2 DEF Item
<1>7. Placed(s, TRUE, 1) /\ Placed(s, TRUE, 2) /\ Placed(s, TRUE, 3)
  <2>1. \A j \in 1 + 1..3 : j = 2 \/ j = 3
    OBVIOUS
  <2> QED BY <1>2, <1>4, <2>1 DEF Placed, AtOnce
<1>8. Plan(s, t, p, r, TRUE)
  BY <1>4, <1>5, <1>6, <1>7 DEF Plan
<1>9. ~Reviews(s)
  BY <1>2, <1>4, <1>5 DEF Reviews
<1> QED BY <1>8, <1>9 DEF s, o

-----------------------------------------------------------------------------
(* _advance: what is asked or done about a row whose gaps may be filled. *)

(* A row that a turn starts from, to answer the question r. *)
Draft(q, r) ==
  /\ q \in Row /\ q.intent \notin {"HELP_APP", "JOBS_REVIEW"} /\ q.name \in Companies
  /\ q.hop = "confirmed" => r.hop = "confirmed"

(* The user said yes to the question r about what intent names. *)
SaidYes(t, r, intent) == Sound(r) /\ Says(t, r, intent)

LEMMA DraftAsked ==
  ASSUME NEW t, NEW p, NEW r, NEW calm \in BOOLEAN, NEW q, Draft(q, r),
         q.awaiting \in {"company", "value", "field", "confirm"},
         q.awaiting = "confirm" => /\ q.intent \in {"APPLY", "DELETE", "BULK"}
                                   /\ q.intent # "BULK" => q.name \in Company
  PROVE  Plan(Ask(q), t, p, r, calm) /\ ~Reviews(Ask(q))
<1>1. Sound(q)
  BY DEF Draft, Sound
<1> QED BY <1>1, AskPlanned DEF Draft

LEMMA OneAfterClose ==
  ASSUME NEW t, NEW p, NEW r, NEW calm \in BOOLEAN, NEW op \in OpName, NEW on \in Things,
         Item(Op(op, on), t, p, r), op \notin {"mark", "dismiss_all"}
  PROVE  Plan(Close \o <<Op(op, on)>>, t, p, r, calm) /\ ~Reviews(Close \o <<Op(op, on)>>)
<1>1. Op(op, on).op = op
  BY DEF Op
<1>2. Plan(<<Op(op, on)>>, t, p, r, TRUE) /\ ~Reviews(<<Op(op, on)>>)
  BY <1>1, OnePlanned
<1> QED BY <1>2, CloseFirst

LEMMA AdvanceApplyPlanned ==
  ASSUME NEW t, NEW p, NEW r, NEW calm \in BOOLEAN, NEW yes \in BOOLEAN, NEW q, Kept,
         Draft(q, r), q.intent = "APPLY", yes => q = r /\ SaidYes(t, r, "APPLY")
  PROVE  Plan(AdvanceApply(q, yes), t, p, r, calm) /\ ~Reviews(AdvanceApply(q, yes))
<1> DEFINE known == IF q.name # Nothing THEN q.name ELSE last.company
<1>1. known \in Companies /\ q \in Row /\ Companies \subseteq Name
  BY DEF Draft, Kept, Memory, Companies, Name
<1>2. yes => known = r.name /\ known \in Company
  <2>1. ASSUME yes
        PROVE  r.name \in Company /\ q = r
    BY <2>1 DEF SaidYes, Says, Sound
  <2> QED BY <2>1, UnderstandingAssumption
<1> HIDE DEF known
<1> DEFINE f == [q EXCEPT !.name = known, !.needs = @ \/ q.name = Nothing]
           g == [f EXCEPT !.awaiting = "confirm"]
           h == [q EXCEPT !.awaiting = "company"]
<1>3. /\ h \in Row /\ h.intent = q.intent /\ h.name = q.name /\ h.hop = q.hop
      /\ h.awaiting = "company"
  BY <1>1 DEF Row
<1>4. /\ f \in Row /\ f.intent = q.intent /\ f.name = known /\ f.hop = q.hop
  BY <1>1 DEF Row
<1> HIDE DEF f
<1>5. /\ g \in Row /\ g.intent = q.intent /\ g.name = known /\ g.hop = q.hop
      /\ g.awaiting = "confirm"
  BY <1>4 DEF Row
<1> HIDE DEF g, h
<1>6. CASE known = Nothing
  <2>1. AdvanceApply(q, yes) = Ask(h)
    BY <1>6 DEF AdvanceApply, known, h
  <2>2. Draft(h, r)
    BY <1>3 DEF Draft
  <2> QED BY <1>3, <2>1, <2>2, DraftAsked
<1>7. CASE known # Nothing /\ ~yes /\ (Named(known) # {} \/ f.needs)
  <2>1. AdvanceApply(q, yes) = Ask(g)
    BY <1>7 DEF AdvanceApply, known, f, g
  <2>2. Draft(g, r)
    BY <1>1, <1>5 DEF Draft
  <2> QED BY <1>1, <1>5, <1>7, <2>1, <2>2, DraftAsked DEF Companies
<1>8. CASE known # Nothing /\ ~ (~yes /\ (Named(known) # {} \/ f.needs))
  <2>1. AdvanceApply(q, yes) = Close \o <<Op("log", known)>>
    BY <1>8 DEF AdvanceApply, known, f
  <2>2. known \in Company /\ known \in Things /\ "log" \in OpName
    BY <1>1, <1>8 DEF Companies, Things, Name, OpName
  <2>3. Op("log", known) \in Ops /\ Op("log", known).op = "log" /\ Op("log", known).on = known
    BY <2>2, OpsAre
  <2>4. Named(known) = {} \/ (Says(t, r, "APPLY") /\ known = r.name)
    BY <1>2, <1>8 DEF SaidYes
  <2>5. Item(Op("log", known), t, p, r)
    BY <2>2, <2>3, <2>4 DEF Item
  <2> QED BY <2>1, <2>2, <2>5, OneAfterClose
<1> QED BY <1>6, <1>7, <1>8

LEMMA AdvanceDeletePlanned ==
  ASSUME NEW t, NEW p, NEW r, NEW calm \in BOOLEAN, NEW yes \in BOOLEAN, NEW q, Kept,
         Draft(q, r), q.intent = "DELETE", yes => q = r /\ SaidYes(t, r, "DELETE")
  PROVE  Plan(AdvanceDelete(q, yes), t, p, r, calm) /\ ~Reviews(AdvanceDelete(q, yes))
<1> DEFINE known == IF q.name # Nothing THEN q.name ELSE last.company
<1>1. known \in Companies /\ q \in Row /\ Companies \subseteq Name
  BY DEF Draft, Kept, Memory, Companies, Name
<1>2. yes => known = r.name
  <2>1. ASSUME yes
        PROVE  r.name \in Company /\ q = r
    BY <2>1 DEF SaidYes, Says, Sound
  <2> QED BY <2>1, UnderstandingAssumption
<1> HIDE DEF known
<1> DEFINE g == [q EXCEPT !.name = known, !.awaiting = "confirm"]
           h == [q EXCEPT !.awaiting = "company"]
           a == Recent(known).id
<1>3. /\ h \in Row /\ h.intent = q.intent /\ h.name = q.name /\ h.hop = q.hop
      /\ h.awaiting = "company"
  BY <1>1 DEF Row
<1>4. /\ g \in Row /\ g.intent = q.intent /\ g.name = known /\ g.hop = q.hop
      /\ g.awaiting = "confirm"
  BY <1>1 DEF Row
<1> HIDE DEF g, h
<1>5. CASE known = Nothing
  <2>1. AdvanceDelete(q, yes) = Ask(h)
    BY <1>5 DEF AdvanceDelete, known, h
  <2>2. Draft(h, r)
    BY <1>3 DEF Draft
  <2> QED BY <1>3, <2>1, <2>2, DraftAsked
<1>6. CASE known # Nothing /\ Named(known) = {}
  <2>1. AdvanceDelete(q, yes) = Close
    BY <1>6 DEF AdvanceDelete, known
  <2> QED BY <2>1, ClosePlanned
<1>7. CASE known # Nothing /\ Named(known) # {} /\ ~yes
  <2>1. AdvanceDelete(q, yes) = Ask(g)
    BY <1>7 DEF AdvanceDelete, known, g
  <2>2. Draft(g, r)
    BY <1>1, <1>4 DEF Draft
  <2> QED BY <1>1, <1>4, <1>7, <2>1, <2>2, DraftAsked DEF Companies
<1>8. CASE known # Nothing /\ Named(known) # {} /\ yes
  <2>1. AdvanceDelete(q, yes) = Close \o <<Op("remove", a)>>
    BY <1>8 DEF AdvanceDelete, known, a
  <2>2. OnFile(a) /\ a \in App
    BY <1>8, RecentIsNamed
  <2>3. a = Recent(r.name).id /\ Says(t, r, "DELETE")
    BY <1>2, <1>8 DEF SaidYes
  <2> HIDE DEF a
  <2>4. a \in Things /\ "remove" \in OpName
    BY <2>2 DEF Things, OpName
  <2>5. Op("remove", a) \in Ops /\ Op("remove", a).op = "remove" /\ Op("remove", a).on = a
    BY <2>4, OpsAre
  <2>6. Item(Op("remove", a), t, p, r)
    BY <2>2, <2>3, <2>5 DEF Item
  <2> QED BY <2>1, <2>4, <2>6, OneAfterClose
<1> QED BY <1>5, <1>6, <1>7, <1>8

LEMMA AdvanceBulkPlanned ==
  ASSUME NEW t, NEW p, NEW r, NEW calm \in BOOLEAN, NEW yes \in BOOLEAN, NEW q,
         Draft(q, r), q.intent = "BULK", yes => q = r /\ SaidYes(t, r, "BULK")
  PROVE  Plan(AdvanceBulk(q, yes), t, p, r, calm) /\ ~Reviews(AdvanceBulk(q, yes))
<1> DEFINE g == [q EXCEPT !.awaiting = "confirm"]
<1>1. /\ g \in Row /\ g.intent = q.intent /\ g.name = q.name /\ g.hop = q.hop
      /\ g.awaiting = "confirm"
  BY DEF Row, Draft
<1> HIDE DEF g
<1>2. CASE ~q.value \/ OpenOnes = {}
  BY <1>2, ClosePlanned DEF AdvanceBulk
<1>3. CASE ~ (~q.value \/ OpenOnes = {}) /\ ~yes
  <2>1. AdvanceBulk(q, yes) = Ask(g)
    BY <1>3 DEF AdvanceBulk, g
  <2>2. Draft(g, r)
    BY <1>1 DEF Draft
  <2> QED BY <1>1, <2>1, <2>2, DraftAsked
<1>4. CASE ~ (~q.value \/ OpenOnes = {}) /\ yes
  <2>1. AdvanceBulk(q, yes) = Close \o <<Op("sweep", Nothing)>>
    BY <1>4 DEF AdvanceBulk
  <2>2. Nothing \in Things /\ "sweep" \in OpName
    BY NoRowIsCalm DEF OpName
  <2>3. Op("sweep", Nothing) \in Ops /\ Op("sweep", Nothing).op = "sweep"
    BY <2>2, OpsAre
  <2>4. Item(Op("sweep", Nothing), t, p, r)
    BY <1>4, <2>3 DEF Item, SaidYes
  <2> QED BY <2>1, <2>2, <2>4, OneAfterClose
<1> QED BY <1>2, <1>3, <1>4

LEMMA ExecutePlanned ==
  ASSUME NEW t, NEW p, NEW r, NEW q, Kept, q \in Row, q.name \in Company
  PROVE  Plan(Execute(q), t, p, r, TRUE) /\ ~Reviews(Execute(q))
<1>1. CASE q.intent = "UPDATE" /\ Named(q.name) = {}
  <2>1. Execute(q) = <<Op("log", q.name)>>
    BY <1>1 DEF Execute
  <2>2. "log" \in OpName /\ q.name \in Things
    BY DEF OpName, Things, Name
  <2>3. Op("log", q.name) \in Ops /\ Op("log", q.name).op = "log" /\ Op("log", q.name).on = q.name
    BY <2>2, OpsAre
  <2>4. Item(Op("log", q.name), t, p, r)
    BY <1>1, <2>3 DEF Item
  <2> QED BY <2>1, <2>3, <2>4, OnePlanned
<1>2. CASE q.intent \in {"UPDATE", "NOTE"} /\ Named(q.name) # {}
  <2>1. Execute(q) = Change(Recent(q.name).id)
    BY <1>2 DEF Execute
  <2>2. OnFile(Recent(q.name).id)
    BY <1>2, RecentIsNamed
  <2> QED BY <2>1, <2>2, ChangePlanned
<1>3. CASE q.intent = "NOTE" /\ Named(q.name) = {} /\ OnFile(last.id)
  <2>1. Execute(q) = Change(last.id)
    BY <1>3 DEF Execute
  <2> QED BY <1>3, <2>1, ChangePlanned
<1>4. CASE /\ ~ (q.intent = "UPDATE" /\ Named(q.name) = {})
           /\ ~ (q.intent \in {"UPDATE", "NOTE"} /\ Named(q.name) # {})
           /\ ~ (q.intent = "NOTE" /\ Named(q.name) = {} /\ OnFile(last.id))
  <2>1. Execute(q) = Say
    BY <1>4 DEF Execute
  <2> QED BY <2>1, NothingPlanned
<1> QED BY <1>1, <1>2, <1>3, <1>4

LEMMA AdvancePlanned ==
  ASSUME NEW t, NEW p, NEW r, NEW calm \in BOOLEAN, NEW yes \in BOOLEAN, NEW q, Kept,
         Draft(q, r),
         yes => q = r /\ SaidYes(t, r, q.intent) /\ q.intent \in {"APPLY", "DELETE", "BULK"}
  PROVE  Plan(Advance(q, yes), t, p, r, calm) /\ ~Reviews(Advance(q, yes))
<1>1. CASE q.intent = "APPLY"
  <2>1. Advance(q, yes) = AdvanceApply(q, yes)
    BY <1>1 DEF Advance
  <2> QED BY <1>1, <2>1, AdvanceApplyPlanned
<1>2. CASE q.intent = "DELETE"
  <2>1. Advance(q, yes) = AdvanceDelete(q, yes)
    BY <1>2 DEF Advance
  <2> QED BY <1>2, <2>1, AdvanceDeletePlanned
<1>3. CASE q.intent = "BULK"
  <2>1. Advance(q, yes) = AdvanceBulk(q, yes)
    BY <1>3 DEF Advance
  <2> QED BY <1>3, <2>1, AdvanceBulkPlanned
<1>4. CASE q.intent \notin {"APPLY", "DELETE", "BULK"}
  <2> DEFINE g == [q EXCEPT !.name = IF @ # Nothing THEN @ ELSE last.company]
             h == [g EXCEPT !.awaiting = "company"]
             k == [g EXCEPT !.awaiting = "value"]
  <2>1. Advance(q, yes) = IF g.name = Nothing THEN Ask(h)
                          ELSE IF ~g.value THEN Ask(k)
                          ELSE Close \o Execute(g)
    BY <1>4 DEF Advance
  <2>2. g \in Row /\ g.intent = q.intent /\ g.hop = q.hop /\ g.name \in Companies
    BY DEF Draft, Row, Kept, Memory, Companies, Name
  <2> HIDE DEF g
  <2>3. /\ h \in Row /\ h.intent = g.intent /\ h.name = g.name /\ h.hop = g.hop
        /\ h.awaiting = "company"
    BY <2>2 DEF Row
  <2>4. /\ k \in Row /\ k.intent = g.intent /\ k.name = g.name /\ k.hop = g.hop
        /\ k.awaiting = "value"
    BY <2>2 DEF Row
  <2> HIDE DEF h, k
  <2>5. Draft(h, r) /\ Draft(k, r)
    BY <2>2, <2>3, <2>4 DEF Draft
  <2>6. Plan(Ask(h), t, p, r, calm) /\ ~Reviews(Ask(h))
    BY <2>3, <2>5, DraftAsked
  <2>7. Plan(Ask(k), t, p, r, calm) /\ ~Reviews(Ask(k))
    BY <2>4, <2>5, DraftAsked
  <2>8. ASSUME g.name # Nothing
        PROVE  Plan(Close \o Execute(g), t, p, r, calm) /\ ~Reviews(Close \o Execute(g))
    <3>1. g.name \in Company
      BY <2>2, <2>8 DEF Companies
    <3>2. Plan(Execute(g), t, p, r, TRUE) /\ ~Reviews(Execute(g))
      BY <2>2, <3>1, ExecutePlanned
    <3> QED BY <3>2, CloseFirst
  <2> QED BY <2>1, <2>6, <2>7, <2>8
<1> QED BY <1>1, <1>2, <1>3, <1>4

-----------------------------------------------------------------------------
(* The commands with a conversation of their own. *)

LEMMA QuestionIs ==
  ASSUME NEW intent \in {"APPLY", "UPDATE", "NOTE", "REMIND", "DELETE", "BULK", "EDIT",
                         "SET_IDENTITY", "HELP_APP", "JOBS_REVIEW"},
         NEW name \in Name, NEW value \in BOOLEAN,
         NEW awaiting \in {"company", "value", "confirm", "field", "go", "choice"}
  PROVE  LET q == Question(intent, name, value, awaiting)
         IN  /\ q \in Row /\ q.intent = intent /\ q.name = name /\ q.awaiting = awaiting
             /\ q.hop = "offered"
BY DEF Question, NoRow, Row

(* A question that names nothing the user agrees to. *)
LEMMA PlainAsked ==
  ASSUME NEW t, NEW p, NEW r, NEW calm \in BOOLEAN,
         NEW intent \in {"EDIT", "SET_IDENTITY"}, NEW name \in Companies, NEW value \in BOOLEAN,
         NEW awaiting \in {"company", "value", "field"}
  PROVE  LET q == Question(intent, name, value, awaiting)
         IN  Plan(Ask(q), t, p, r, calm) /\ ~Reviews(Ask(q))
<1> DEFINE q == Question(intent, name, value, awaiting)
<1>1. name \in Name
  BY DEF Companies, Name
<1>2. q \in Row /\ q.intent = intent /\ q.name = name /\ q.awaiting = awaiting /\ q.hop = "offered"
  BY <1>1, QuestionIs
<1> HIDE DEF q
<1>3. Draft(q, r)
  BY <1>2 DEF Draft
<1>4. Plan(Ask(q), t, p, r, calm) /\ ~Reviews(Ask(q))
  BY <1>2, <1>3, DraftAsked
<1> QED BY <1>4 DEF q

LEMMA ApplyEditPlanned ==
  ASSUME NEW t, NEW p, NEW r, NEW c \in Companies, NEW known \in BOOLEAN, Kept
  PROVE  Plan(ApplyEdit(c, known), t, p, r, TRUE) /\ ~Reviews(ApplyEdit(c, known))
<1>1. CASE c = Nothing
  BY <1>1, NothingPlanned DEF ApplyEdit
<1>2. CASE c # Nothing /\ Named(c) = {}
  BY <1>2, ClosePlanned DEF ApplyEdit
<1>3. CASE c # Nothing /\ Named(c) # {} /\ ~known
  <2>1. ApplyEdit(c, known) = Ask(Question("EDIT", c, FALSE, "value"))
    BY <1>3 DEF ApplyEdit
  <2> QED BY <2>1, PlainAsked
<1>4. CASE c # Nothing /\ Named(c) # {} /\ known
  <2> DEFINE a == Recent(c).id
  <2>1. ApplyEdit(c, known) = <<Op("change", a)>> \o Close \o <<Remember(c, a)>>
    BY <1>4 DEF ApplyEdit
  <2>2. c \in Company /\ OnFile(a) /\ a \in App
    BY <1>4, RecentIsNamed DEF Companies
  <2> HIDE DEF a
  <2> QED BY <2>1, <2>2, EditPlanned
<1> QED BY <1>1, <1>2, <1>3, <1>4

(* What a turn may say, and be taken for. *)
Hearable(t, p) ==
  /\ t.words \in Company /\ t.rest \in Companies
  /\ p.name \in Name /\ p.value \in BOOLEAN

LEMMA StartEditPlanned ==
  ASSUME NEW t, NEW p, NEW r, Kept, Hearable(t, p)
  PROVE  Plan(StartEdit(p), t, p, r, TRUE) /\ ~Reviews(StartEdit(p))
<1> DEFINE c == IF CompanyIn(p) # Nothing THEN CompanyIn(p) ELSE last.company
<1>1. c \in Companies
  BY DEF CompanyIn, Kept, Memory, Companies
<1>2. StartEdit(p) = IF c = Nothing THEN Ask(Question("EDIT", Nothing, p.value, "company"))
                     ELSE ApplyEdit(c, p.value)
  BY DEF StartEdit
<1> HIDE DEF c
<1>3. Nothing \in Companies /\ p.value \in BOOLEAN
  BY DEF Companies, Hearable
<1> QED BY <1>1, <1>2, <1>3, PlainAsked, ApplyEditPlanned

LEMMA ContinueEditPlanned ==
  ASSUME NEW t, NEW p, NEW r, Kept, Hearable(t, p), Sound(r), r.intent = "EDIT"
  PROVE  Plan(ContinueEdit(t, r), t, p, r, TRUE) /\ ~Reviews(ContinueEdit(t, r))
<1> DEFINE c == IF r.awaiting = "company" THEN IF "correction" \in t.says THEN t.rest ELSE t.words
                ELSE r.name
           known == IF r.awaiting = "company" THEN r.value
                    ELSE ~("correction" \in t.says /\ t.rest = Nothing)
<1>1. c \in Companies /\ known \in BOOLEAN
  BY DEF Sound, Row, Hearable, Companies
<1>2. ContinueEdit(t, r) = ApplyEdit(c, known)
  BY DEF ContinueEdit
<1> HIDE DEF c, known
<1> QED BY <1>1, <1>2, ApplyEditPlanned

LEMMA FinishIdentityPlanned ==
  ASSUME NEW t, NEW p, NEW r, NEW calm \in BOOLEAN, NEW field \in BOOLEAN, NEW value \in BOOLEAN
  PROVE  Plan(FinishIdentity(field, value), t, p, r, calm) /\ ~Reviews(FinishIdentity(field, value))
<1>1. Nothing \in Companies
  BY DEF Companies
<1>2. CASE ~field
  <2>1. FinishIdentity(field, value) = Ask(Question("SET_IDENTITY", Nothing, value, "field"))
    BY <1>2 DEF FinishIdentity
  <2> QED BY <1>1, <2>1, PlainAsked
<1>3. CASE field /\ ~value
  <2>1. FinishIdentity(field, value) = Ask(Question("SET_IDENTITY", Nothing, FALSE, "value"))
    BY <1>3 DEF FinishIdentity
  <2> QED BY <1>1, <2>1, PlainAsked
<1>4. CASE field /\ value
  <2> DEFINE o == Op("identity", Nothing)
             n == Op("close", NoRow)
  <2>1. FinishIdentity(field, value) = <<o>> \o <<n>>
    BY <1>4 DEF FinishIdentity, Close
  <2>2. o \in Ops /\ o.op = "identity" /\ n \in Ops /\ n.op = "close"
    BY OpsAre, NoRowIsCalm DEF OpName
  <2> HIDE DEF o, n
  <2>3. Item(o, t, p, r) /\ Item(n, t, p, r)
    BY <2>2 DEF Item
  <2>4. <<o>> \o <<n>> = <<o, n>>
    BY <2>2, Pair
  <2>5. Plan(<<o, n>>, t, p, r, calm) /\ ~Reviews(<<o, n>>)
    BY <2>2, <2>3, TwoPlanned
  <2> QED BY <2>1, <2>4, <2>5
<1> QED BY <1>2, <1>3, <1>4

LEMMA ContinueIdentityPlanned ==
  ASSUME NEW t, NEW p, NEW r, NEW calm \in BOOLEAN, Hearable(t, p), Sound(r)
  PROVE  Plan(ContinueIdentity(t, p, r), t, p, r, calm) /\ ~Reviews(ContinueIdentity(t, p, r))
<1>1. p.value \in BOOLEAN /\ r.value \in BOOLEAN
  BY DEF Hearable, Sound, Row
<1>2. (p.value \/ r.value) \in BOOLEAN
  BY <1>1
<1> QED BY <1>2, FinishIdentityPlanned, NothingPlanned DEF ContinueIdentity

LEMMA OfferHopPlanned ==
  ASSUME NEW t, NEW p, NEW r, NEW calm \in BOOLEAN, NEW screen \in Screen \cup {Nothing}
  PROVE  Plan(OfferHop(screen), t, p, r, calm) /\ ~Reviews(OfferHop(screen))
<1>1. CASE screen = Nothing
  BY <1>1, NothingPlanned DEF OfferHop
<1>2. CASE screen # Nothing
  <2> DEFINE q == Question("HELP_APP", screen, FALSE, "go")
  <2>1. OfferHop(screen) = Ask(q)
    BY <1>2 DEF OfferHop
  <2>2. screen \in Name
    BY DEF Name
  <2>3. q \in Row /\ q.intent = "HELP_APP" /\ q.awaiting = "go" /\ q.hop = "offered"
    BY <2>2 DEF Question, NoRow, Row
  <2> HIDE DEF q
  <2>4. Sound(q)
    BY <2>3 DEF Sound
  <2> QED BY <2>1, <2>3, <2>4, AskPlanned
<1> QED BY <1>1, <1>2

LEMMA ContinueGoPlanned ==
  ASSUME NEW t, NEW p, NEW r, NEW calm \in BOOLEAN, Sound(r), r.intent = "HELP_APP"
  PROVE  Plan(ContinueGo(t, r), t, p, r, calm) /\ ~Reviews(ContinueGo(t, r))
<1> DEFINE no == [r EXCEPT !.hop = "declined"]
           go == [r EXCEPT !.hop = "confirmed"]
<1>1. /\ Sound(no) /\ no.hop = "declined" /\ no.intent = "HELP_APP"
      /\ Sound(go) /\ go.hop = "confirmed" /\ go.intent = "HELP_APP"
  BY DEF Sound, Row
<1>2. r.awaiting = "go"
  BY DEF Sound
<1> HIDE DEF no, go
<1>3. CASE t.says \cap {"stay", "no", "cancel"} # {}
  <2>1. ContinueGo(t, r) = Ask(no)
    BY <1>3 DEF ContinueGo, no
  <2> QED BY <1>1, <2>1, AskPlanned
<1>4. CASE t.says \cap {"stay", "no", "cancel"} = {} /\ t.says \cap {"go", "yes"} # {}
  <2>1. ContinueGo(t, r) = Ask(go)
    BY <1>4 DEF ContinueGo, go
  <2>2. GoesAhead(t, r)
    BY <1>2, <1>4 DEF GoesAhead
  <2> QED BY <1>1, <2>1, <2>2, AskPlanned
<1>5. CASE t.says \cap {"stay", "no", "cancel"} = {} /\ t.says \cap {"go", "yes"} = {}
  BY <1>5, NothingPlanned DEF ContinueGo
<1> QED BY <1>3, <1>4, <1>5

LEMMA StartReviewPlanned ==
  ASSUME NEW t, NEW p, NEW r, NEW calm \in BOOLEAN
  PROVE  Plan(StartReview, t, p, r, calm) /\ ~Reviews(StartReview)
<1> DEFINE o == Op("card", Nothing)
<1>1. o \in Ops /\ o.op = "card"
  BY OpsAre, NoRowIsCalm DEF OpName
<1>2. StartReview = IF queue = {} THEN Say ELSE <<o>>
  BY DEF StartReview
<1> HIDE DEF o
<1>3. Item(o, t, p, r)
  BY <1>1 DEF Item
<1> QED BY <1>1, <1>2, <1>3, NothingPlanned, OnePlanned DEF AtOnce

LEMMA ContinueReviewPlanned ==
  ASSUME NEW t, NEW p, NEW r, NEW calm \in BOOLEAN, Kept, Sound(r), r.intent = "JOBS_REVIEW"
  PROVE  Plan(ContinueReview(t, p), t, p, r, calm)
<1> DEFINE o == Op("card", Nothing)
           d == Op("dismiss_all", Nothing)
           n == Op("close", NoRow)
           k == Op("mark", Min(queue))
<1>1. o \in Ops /\ o.op = "card" /\ d \in Ops /\ d.op = "dismiss_all" /\ n \in Ops /\ n.op = "close"
  BY OpsAre, NoRowIsCalm DEF OpName
<1>2. queue # {} => k \in Ops /\ k.op = "mark" /\ k.on = Min(queue)
  <2>1. ASSUME queue # {}
        PROVE  Min(queue) \in Things
    <3>1. Posting \subseteq Nat /\ queue \subseteq Posting
      BY UnderstandingAssumption DEF Kept
    <3>2. Min(queue) \in queue
      BY <2>1, <3>1, LeastIsIn
    <3> QED BY <3>1, <3>2 DEF Things, Name
  <2> QED BY <2>1, OpsAre DEF OpName
<1>3. CASE "dismiss_all" \in t.says
  <2>1. ContinueReview(t, p) = <<d>> \o <<n>>
    BY <1>3 DEF ContinueReview, Close
  <2> HIDE DEF d, n
  <2>2. Item(d, t, p, r) /\ Item(n, t, p, r)
    BY <1>1, <1>3 DEF Item
  <2>3. <<d>> \o <<n>> = <<d, n>>
    BY <1>1, Pair DEF d, n
  <2>4. Plan(<<d, n>>, t, p, r, calm)
    BY <1>1, <2>2, TwoPlanned DEF Ends
  <2> QED BY <2>1, <2>3, <2>4
<1>4. CASE "dismiss_all" \notin t.says /\ ("cancel" \in t.says \/ queue = {})
  BY <1>4, ClosePlanned DEF ContinueReview
<1>5. CASE "dismiss_all" \notin t.says /\ ~("cancel" \in t.says \/ queue = {})
  <2>1. CASE p.intent = "APPLY_JOB" /\ p.name # Min(queue)
    <3>1. ContinueReview(t, p) = Say
      BY <1>5, <2>1 DEF ContinueReview
    <3> QED BY <3>1, NothingPlanned
  <2>2. CASE /\ ~(p.intent = "APPLY_JOB" /\ p.name # Min(queue))
             /\ p.intent = "APPLY_JOB" \/ t.says \cap {"yes", "apply", "skip"} # {}
    <3>1. ContinueReview(t, p) = <<k, o>>
      BY <1>5, <2>2 DEF ContinueReview
    <3> HIDE DEF k, o
    <3>2. Item(k, t, p, r) /\ Item(o, t, p, r)
      BY <1>1, <1>2, <1>5, <2>2 DEF Item
    <3> QED BY <1>1, <1>2, <1>5, <3>1, <3>2, TwoPlanned DEF Ends
  <2>3. CASE /\ ~(p.intent = "APPLY_JOB" /\ p.name # Min(queue))
             /\ ~(p.intent = "APPLY_JOB" \/ t.says \cap {"yes", "apply", "skip"} # {})
    <3>1. ContinueReview(t, p) = Say
      BY <1>5, <2>3 DEF ContinueReview
    <3> QED BY <3>1, NothingPlanned
  <2> QED BY <2>1, <2>2, <2>3
<1> QED BY <1>3, <1>4, <1>5

-----------------------------------------------------------------------------
(* _continue, _start and _handle_sms. *)

LEMMA StartPlanned ==
  ASSUME NEW t, NEW p, NEW r, Kept, Hearable(t, p)
  PROVE  Plan(Start(p), t, p, r, TRUE) /\ ~Reviews(Start(p))
<1>1. CompanyIn(p) \in Companies /\ p.value \in BOOLEAN /\ Companies \subseteq Name
  BY DEF CompanyIn, Companies, Hearable, Name
<1> DEFINE Filed == {"APPLY", "UPDATE", "NOTE", "REMIND", "DELETE", "BULK"}
<1>2. CASE p.intent \in Filed
  <2> DEFINE q == Question(p.intent, CompanyIn(p), p.value, "value")
  <2>1. Start(p) = Advance(q, FALSE)
    BY <1>2 DEF Start
  <2>2. q \in Row /\ q.intent = p.intent /\ q.name = CompanyIn(p) /\ q.hop = "offered"
    BY <1>1, <1>2 DEF Question, NoRow, Row
  <2> HIDE DEF q
  <2>3. Draft(q, r)
    BY <1>1, <1>2, <2>2 DEF Draft
  <2>4. Plan(Advance(q, FALSE), t, p, r, TRUE) /\ ~Reviews(Advance(q, FALSE))
    BY <2>3, AdvancePlanned
  <2> QED BY <2>1, <2>4
<1>3. CASE p.intent = "EDIT"
  <2>1. Start(p) = StartEdit(p)
    BY <1>3 DEF Start
  <2> QED BY <2>1, StartEditPlanned
<1>4. CASE p.intent = "JOBS_REVIEW"
  <2>1. Start(p) = StartReview
    BY <1>4 DEF Start
  <2> QED BY <2>1, StartReviewPlanned
<1>5. CASE p.intent = "SET_IDENTITY"
  <2> DEFINE field == FieldIn(p) # Nothing
  <2>1. Start(p) = FinishIdentity(field, p.value)
    BY <1>5 DEF Start
  <2>2. field \in BOOLEAN
    OBVIOUS
  <2> HIDE DEF field
  <2> QED BY <1>1, <2>1, <2>2, FinishIdentityPlanned
<1>6. CASE p.intent \in {"HELP_APP", "KNOWLEDGE"}
  <2>1. Start(p) = OfferHop(TopicScreen(p))
    BY <1>6 DEF Start
  <2>2. TopicScreen(p) \in Screen \cup {Nothing}
    BY UnderstandingAssumption DEF TopicScreen, ScreenIn
  <2> QED BY <2>1, <2>2, OfferHopPlanned
<1>7. CASE p.intent = "CHECK" /\ Named(CompanyIn(p)) # {}
  <2> DEFINE k == [company |-> p.name, id |-> Recent(p.name).id]
             o == Op("remember", k)
  <2>1. Start(p) = <<o>>
    BY <1>7 DEF Start, Remember
  <2>2. Nothing \notin Company
    BY UnderstandingAssumption
  <2>3. Named(Nothing) = {}
    <3>1. DOMAIN file = 1..Len(file) /\ \A i \in DOMAIN file : file[i] \in Entry
      BY DEF Kept
    <3>2. \A i \in DOMAIN file : file[i].company \in Company
      BY <3>1 DEF Entry
    <3> QED BY <2>2, <3>2 DEF Named
  <2>4. p.name \in Company /\ CompanyIn(p) = p.name
    BY <1>7, <2>3 DEF CompanyIn
  <2>5. k \in Memory
    BY <1>7, <2>4, RecentIsNamed DEF Memory, Companies
  <2> HIDE DEF k
  <2>6. o \in Ops /\ o.op = "remember" /\ o.on = k
    BY <2>5, OpsAre DEF OpName, Things
  <2> HIDE DEF o
  <2>7. Item(o, t, p, r)
    BY <2>5, <2>6 DEF Item
  <2> QED BY <2>1, <2>6, <2>7, OnePlanned DEF AtOnce
<1>8. CASE /\ p.intent \notin Filed \cup {"EDIT", "JOBS_REVIEW", "SET_IDENTITY", "HELP_APP", "KNOWLEDGE"}
           /\ ~(p.intent = "CHECK" /\ Named(CompanyIn(p)) # {})
  <2>1. Start(p) = Say
    BY <1>8 DEF Start
  <2> QED BY <2>1, NothingPlanned
<1> QED BY <1>2, <1>3, <1>4, <1>5, <1>6, <1>7, <1>8

LEMMA ContinuePlanned ==
  ASSUME NEW t, NEW p, NEW r, Kept, Hearable(t, p), Sound(r), r.intent # "JOBS_REVIEW"
  PROVE  Plan(Continue(t, p, r), t, p, r, Calm(r))
<1>1. Calm(r) \in BOOLEAN /\ r \in Row
  BY DEF Calm, Sound
<1>2. CASE r.intent = "EDIT"
  <2>1. Continue(t, p, r) = ContinueEdit(t, r)
    BY <1>2 DEF Continue
  <2>2. Calm(r) = TRUE
    BY <1>2 DEF Calm, Sound
  <2> QED BY <1>2, <2>1, <2>2, ContinueEditPlanned
<1>3. CASE r.intent = "SET_IDENTITY"
  <2>1. Continue(t, p, r) = ContinueIdentity(t, p, r)
    BY <1>3 DEF Continue
  <2> QED BY <1>1, <2>1, ContinueIdentityPlanned
<1>4. CASE r.intent = "HELP_APP"
  <2>1. Continue(t, p, r) = ContinueGo(t, r)
    BY <1>4 DEF Continue
  <2> QED BY <1>1, <1>4, <2>1, ContinueGoPlanned
<1>5. CASE r.intent \notin {"EDIT", "SET_IDENTITY", "HELP_APP"}
  <2>0. Draft(r, r)
    BY <1>5 DEF Draft, Sound
  <2>1. CASE "correction" \in t.says
    <3> DEFINE q == Corrected(t, r)
    <3>1. Continue(t, p, r) = Advance(q, FALSE)
      BY <1>5, <2>1 DEF Continue
    <3>2. q \in Row /\ q.intent = r.intent /\ q.hop = r.hop /\ q.name \in Companies
      BY <1>1, <2>0 DEF Corrected, Row, Draft, Hearable, Companies, Name
    <3> HIDE DEF q
    <3>3. Draft(q, r)
      BY <2>0, <3>2 DEF Draft
    <3>4. Plan(Advance(q, FALSE), t, p, r, Calm(r))
      BY <1>1, <3>3, AdvancePlanned
    <3> QED BY <3>1, <3>4
  <2>2. CASE "correction" \notin t.says /\ r.awaiting = "confirm"
    <3>1. CASE "yes" \in t.says
      <4>1. Continue(t, p, r) = Advance(r, TRUE)
        BY <1>5, <2>2, <3>1 DEF Continue
      <4>2. SaidYes(t, r, r.intent) /\ r.intent \in {"APPLY", "DELETE", "BULK"}
        BY <1>5, <2>2, <3>1 DEF SaidYes, Says, Sound
      <4>3. Plan(Advance(r, TRUE), t, p, r, Calm(r))
        BY <1>1, <2>0, <4>2, AdvancePlanned
      <4> QED BY <4>1, <4>3
    <3>2. CASE "yes" \notin t.says /\ "no" \in t.says
      <4>1. Continue(t, p, r) = Close
        BY <1>5, <2>2, <3>2 DEF Continue
      <4> QED BY <1>1, <4>1, ClosePlanned
    <3>3. CASE "yes" \notin t.says /\ "no" \notin t.says /\ CompanyIn(p) # Nothing
      <4> DEFINE q == [r EXCEPT !.name = CompanyIn(p), !.needs = FALSE]
      <4>1. Continue(t, p, r) = Advance(q, FALSE)
        BY <1>5, <2>2, <3>3 DEF Continue
      <4>2. q \in Row /\ q.intent = r.intent /\ q.hop = r.hop /\ q.name \in Companies
        BY <1>1 DEF CompanyIn, Row, Companies, Name
      <4> HIDE DEF q
      <4>3. Draft(q, r)
        BY <2>0, <4>2 DEF Draft
      <4>4. Plan(Advance(q, FALSE), t, p, r, Calm(r))
        BY <1>1, <4>3, AdvancePlanned
      <4> QED BY <4>1, <4>4
    <3>4. CASE "yes" \notin t.says /\ "no" \notin t.says /\ CompanyIn(p) = Nothing
      <4>1. Continue(t, p, r) = Say
        BY <1>5, <2>2, <3>4 DEF Continue
      <4> QED BY <1>1, <4>1, NothingPlanned
    <3> QED BY <3>1, <3>2, <3>3, <3>4
  <2>3. CASE "correction" \notin t.says /\ r.awaiting # "confirm" /\ t.says \cap {"yes", "no"} # {}
    <3>1. Continue(t, p, r) = Say
      BY <1>5, <2>3 DEF Continue
    <3> QED BY <1>1, <3>1, NothingPlanned
  <2>4. CASE "correction" \notin t.says /\ r.awaiting # "confirm" /\ t.says \cap {"yes", "no"} = {}
    <3> DEFINE q == Filled(t, p, r)
    <3>1. Continue(t, p, r) = Advance(q, FALSE)
      BY <1>5, <2>4 DEF Continue
    <3>2. CompanyIn(p) \in Companies /\ t.words \in Companies /\ Companies \subseteq Name
          /\ p.value \in BOOLEAN /\ r.value \in BOOLEAN /\ r.name \in Companies
      BY <1>1, <2>0 DEF CompanyIn, Companies, Name, Hearable, Row, Draft
    <3>3. q \in Row /\ q.intent = r.intent /\ q.hop = r.hop /\ q.name \in Companies
      BY <1>1, <3>2 DEF Filled, Row
    <3> HIDE DEF q
    <3>4. Draft(q, r)
      BY <2>0, <3>3 DEF Draft
    <3>5. Plan(Advance(q, FALSE), t, p, r, Calm(r))
      BY <1>1, <3>4, AdvancePlanned
    <3> QED BY <3>1, <3>5
  <2> QED BY <2>1, <2>2, <2>3, <2>4
<1> QED BY <1>2, <1>3, <1>4, <1>5

LEMMA DecidePlanned ==
  ASSUME NEW t, NEW p, NEW r, Kept, Hearable(t, p), r = NoRow \/ Sound(r)
  PROVE  Plan(Decide(t, p, r), t, p, r, Calm(r))
<1>0. Calm(r) \in BOOLEAN
  BY DEF Calm
<1> DEFINE new == LooksLikeNewCommand(t, p, r)
           menu == "help" \in t.says /\ (p.intent = "UNKNOWN" \/ p.confidence < 50)
<1>1. Decide(t, p, r) =
        IF menu THEN Say
        ELSE IF r = NoRow THEN Start(p)
        ELSE IF r.intent = "JOBS_REVIEW"
             THEN IF new /\ p.intent # "APPLY_JOB" THEN Close \o Start(p)
                  ELSE ContinueReview(t, p)
        ELSE IF "cancel" \in t.says /\ r.awaiting # "go" THEN Close
        ELSE IF new THEN Close \o Start(p)
        ELSE Continue(t, p, r)
  BY DEF Decide
<1> HIDE DEF new, menu
<1>2. Plan(Say, t, p, r, Calm(r))
  BY <1>0, NothingPlanned
<1>3. Plan(Close, t, p, r, Calm(r))
  BY <1>0, ClosePlanned
<1>4. Plan(Start(p), t, p, r, TRUE) /\ ~Reviews(Start(p))
  BY StartPlanned
<1>5. Plan(Close \o Start(p), t, p, r, Calm(r))
  BY <1>0, <1>4, CloseFirst
<1>6. r = NoRow => Plan(Start(p), t, p, r, Calm(r))
  <2>1. Calm(NoRow) = TRUE
    BY NoRowIsCalm DEF Calm
  <2> QED BY <1>4, <2>1
<1>7. r # NoRow /\ r.intent = "JOBS_REVIEW" => Plan(ContinueReview(t, p), t, p, r, Calm(r))
  BY <1>0, ContinueReviewPlanned
<1>8. r # NoRow /\ r.intent # "JOBS_REVIEW" => Plan(Continue(t, p, r), t, p, r, Calm(r))
  BY ContinuePlanned
<1> QED BY <1>1, <1>2, <1>3, <1>5, <1>6, <1>7, <1>8

-----------------------------------------------------------------------------
(* What is left of a turn. *)

LEMMA PlacedNext ==
  ASSUME NEW s, NEW calm, NEW i, todo' = s, Calm(row)' = calm
  PROVE  Placed(todo, Calm(row), i)' <=> Placed(s, calm, i)
BY DEF Placed

LEMMA AllowedNext ==
  ASSUME NEW o, NEW i, todo'[i] = o
  PROVE  Allowed(todo[i])' <=> Allowed(o)'
BY DEF Allowed, Agreed, OnFile, Named, NamedIds, OpenOnes

(* A transaction stays allowed whatever else changes. *)
LEMMA AllowedStays ==
  ASSUME NEW o, Allowed(o), UNCHANGED <<file, accepted, offered, msg, seen, astray>>
  PROVE  Allowed(o)'
BY DEF Allowed, Agreed, OnFile, Named, NamedIds, OpenOnes

LEMMA ShowsStays ==
  ASSUME UNCHANGED <<row, file, queue>>
  PROVE  Shows(row)' = Shows(row)
BY DEF Shows, CardPut, Put, OpenOnes, Recent, Named

LEMMA ToldStays ==
  ASSUME NEW put, Told(put), UNCHANGED <<row, file, queue>>, astray' \/ ~astray
  PROVE  Told(put)'
BY ShowsStays DEF Told, Calm

(* What the first transaction of a plan may be, and what then remains.        *)
LEMMA FirstOfPlan ==
  ASSUME RunInv, step = "run", todo # <<>>
  PROVE  /\ Head(todo) \in Ops /\ Allowed(Head(todo))
         /\ Head(todo).op \in {"ask", "card"} \/ AtOnce(Head(todo).op) => Tail(todo) = <<>>
         /\ Head(todo).op = "change" \/ AtOnce(Head(todo).op) => Calm(row)
         /\ Head(todo).op = "change" =>
              \A i \in 1..Len(Tail(todo)) : Tail(todo)[i].op \in {"close", "remember"}
         /\ Head(todo).op \in {"mark", "dismiss_all"} =>
              \E i \in 1..Len(Tail(todo)) : Ends(Tail(todo)[i].op)
<1>1. todo \in Seq(Ops) /\ \A i \in 1..Len(todo) : Allowed(todo[i]) /\ Placed(todo, Calm(row), i)
  BY DEF RunInv
<1>2. /\ Head(todo) \in Ops /\ Tail(todo) \in Seq(Ops) /\ Len(Tail(todo)) = Len(todo) - 1
      /\ \A i \in 1..Len(Tail(todo)) : Tail(todo)[i] = todo[i + 1]
  BY <1>1, HeadTailProperties
<1>3. Head(todo) = todo[1] /\ Len(todo) \in Nat /\ Len(todo) >= 1
  BY <1>1, EmptySeq
<1>4. 1 \in 1..Len(todo)
  BY <1>3
<1>5. Allowed(Head(todo))
  <2>1. Allowed(todo[1])
    BY <1>1, <1>4
  <2> QED BY <1>3, <2>1
<1>6. /\ Head(todo).op \in {"ask", "card"} \/ AtOnce(Head(todo).op) => 1 = Len(todo)
      /\ Head(todo).op = "change" => \A j \in 1 + 1..Len(todo) : todo[j].op \in {"close", "remember"}
      /\ Head(todo).op = "change" \/ AtOnce(Head(todo).op) =>
           Calm(row) \/ \E j \in 1..1 - 1 : todo[j].op = "close"
      /\ Head(todo).op \in {"mark", "dismiss_all"} => Len(todo) = 2 /\ Ends(todo[2].op)
  BY <1>1, <1>3, <1>4 DEF Placed
<1>7. \A j \in 1..1 - 1 : FALSE
  OBVIOUS
<1>8. 1 = Len(todo) => Tail(todo) = <<>>
  <2>1. ASSUME 1 = Len(todo)
        PROVE  Len(Tail(todo)) = 0
    <3> DEFINE n == Len(Tail(todo))
    <3>1. n = Len(todo) - 1
      BY <1>2
    <3> HIDE DEF n
    <3>2. n = 0
      BY <2>1, <3>1
    <3> QED BY <3>2 DEF n
  <2> QED BY <1>2, <2>1, EmptySeq
<1>9. \A i \in 1..Len(Tail(todo)) : i + 1 \in 1 + 1..Len(todo)
  BY <1>2, <1>3
<1>10. Len(todo) = 2 => 1 \in 1..Len(Tail(todo)) /\ Tail(todo)[1] = todo[2]
  BY <1>2
<1> QED BY <1>2, <1>5, <1>6, <1>7, <1>8, <1>9, <1>10

LEMMA RestOfPlan ==
  ASSUME RunInv, step = "run", todo # <<>>, NEW calm,
         Calm(row) \/ Head(todo).op = "close" => calm
  PROVE  /\ Tail(todo) \in Seq(Ops)
         /\ \A i \in 1..Len(Tail(todo)) :
              Allowed(Tail(todo)[i]) /\ Placed(Tail(todo), calm, i)
         /\ ~Ends(Head(todo).op) /\ (\E i \in 1..Len(todo) : Ends(todo[i].op)) =>
              \E i \in 1..Len(Tail(todo)) : Ends(Tail(todo)[i].op)
<1> DEFINE s == Tail(todo)
<1>1. todo \in Seq(Ops) /\ \A i \in 1..Len(todo) : Allowed(todo[i]) /\ Placed(todo, Calm(row), i)
  BY DEF RunInv
<1>2. /\ s \in Seq(Ops) /\ Len(s) = Len(todo) - 1 /\ Head(todo) = todo[1]
      /\ \A i \in 1..Len(s) : s[i] = todo[i + 1]
  BY <1>1, HeadTailProperties
<1> HIDE DEF s
<1>3. Len(todo) \in Nat /\ Len(todo) >= 1
  BY <1>1, EmptySeq
<1>4. ASSUME NEW i \in 1..Len(s)
      PROVE  Allowed(s[i]) /\ Placed(s, calm, i)
  <2>1. i + 1 \in 1..Len(todo) /\ s[i] = todo[i + 1]
    BY <1>2, <1>3
  <2>2. Allowed(todo[i + 1]) /\ Placed(todo, Calm(row), i + 1)
    BY <1>1, <2>1
  <2>3. Allowed(s[i])
    BY <2>1, <2>2
  <2>4. \A j \in 1..i - 1 : j + 1 \in 1..(i + 1) - 1 /\ s[j] = todo[j + 1]
    BY <1>2
  <2>5. \A j \in 1..(i + 1) - 1 : j = 1 \/ (j - 1 \in 1..i - 1 /\ s[j - 1] = todo[j])
    <3>1. ASSUME NEW j \in 1..(i + 1) - 1, j # 1
          PROVE  j - 1 \in 1..i - 1 /\ s[j - 1] = todo[j]
      <4>1. j - 1 \in 1..i - 1 /\ j - 1 \in 1..Len(s) /\ (j - 1) + 1 = j
        BY <1>2, <1>3, <3>1
      <4> QED BY <1>2, <4>1
    <3> QED BY <3>1
  <2>6. \A j \in i + 1..Len(s) : j + 1 \in (i + 1) + 1..Len(todo) /\ s[j] = todo[j + 1]
    BY <1>2, <1>3
  <2>7. i + 1 = Len(todo) => i = Len(s)
    BY <1>2, <1>3
  <2>8. i + 1 # 1
    OBVIOUS
  <2>9. s[i].op \in {"ask", "card"} \/ AtOnce(s[i].op) => i = Len(s)
    BY <2>1, <2>2, <2>7 DEF Placed
  <2>10. AtOnce(s[i].op) => \A j \in 1..i - 1 : s[j].op = "close"
    BY <2>1, <2>2, <2>4 DEF Placed
  <2>11. s[i].op = "change" => \A j \in i + 1..Len(s) : s[j].op \in {"close", "remember"}
    BY <2>1, <2>2, <2>6 DEF Placed
  <2>12. s[i].op = "change" \/ AtOnce(s[i].op) => calm \/ \E j \in 1..i - 1 : s[j].op = "close"
    BY <1>2, <2>1, <2>2, <2>5 DEF Placed
  <2>13. s[i].op \notin {"mark", "dismiss_all"}
    BY <2>1, <2>2, <2>8 DEF Placed
  <2> QED BY <2>3, <2>9, <2>10, <2>11, <2>12, <2>13 DEF Placed
<1>5. ASSUME ~Ends(todo[1].op), NEW i \in 1..Len(todo), Ends(todo[i].op)
      PROVE  \E j \in 1..Len(s) : Ends(s[j].op)
  <2>1. i # 1
    BY <1>5
  <2>2. i - 1 \in 1..Len(s) /\ (i - 1) + 1 = i
    BY <1>2, <1>3, <2>1
  <2>3. Ends(s[i - 1].op)
    BY <1>2, <1>5, <2>2
  <2> QED BY <2>2, <2>3
<1> QED BY <1>2, <1>4, <1>5 DEF s

-----------------------------------------------------------------------------
(* The turn reads the question and decides. *)

LEMMA Hears ==
  ASSUME msg \in Message
  PROVE  Hearable(msg.text, msg.meant)
<1>1. msg \in [text : Text, meant : Reading]
  BY ConversationAssumption
<1>2. msg.text \in Text /\ msg.meant \in Reading
  BY <1>1
<1>3. msg.text.words \in Company /\ msg.text.rest \in Company \cup {Nothing}
  BY <1>2 DEF Text
<1>4. msg.meant.name \in Name /\ msg.meant.value \in BOOLEAN
  BY <1>2 DEF Reading
<1> QED BY <1>3, <1>4 DEF Hearable, Companies

(* A transaction of the plan is allowed: what the question showed is what the  *)
(* user was last told.                                                       *)
LEMMA ItemAllowed ==
  ASSUME NEW o, Item(o, msg.text, msg.meant, row'), row' = NoRow \/ (row' = row /\ Sound(row)),
         row' = row => Told(offered), row.hop = "confirmed" => accepted,
         seen' = row', accepted' = (accepted \/ Agrees(row')),
         UNCHANGED <<file, queue, msg, offered, astray>>
  PROVE  Allowed(o)'
<1>1. NoRow.hop = "offered" /\ NoRow.intent = "none" /\ NoRow.awaiting = "nothing"
  BY NoRowIsCalm
<1>2. o.op = "ask" => /\ Sound(o.on) /\ o.on.intent # "JOBS_REVIEW"
                      /\ o.on.hop = "confirmed" => accepted'
  BY <1>1 DEF Item, GoesAhead, Agrees
<1>3. ASSUME NEW intent \in {"APPLY", "DELETE", "BULK"}, Says(msg.text, row', intent)
      PROVE  /\ row' = row /\ "yes" \in msg.text.says
             /\ row.intent = intent /\ row.awaiting = "confirm"
             /\ astray \/ offered = Put(row)
  BY <1>1, <1>3 DEF Says, Told, Calm, Shows
<1>4. ASSUME o.op = "log", Named(o.on) # {}
      PROVE  Agreed("APPLY", NamedIds(o.on))'
  <2>1. Says(msg.text, row', "APPLY") /\ o.on = row'.name
    BY <1>4 DEF Item
  <2>2. /\ row' = row /\ row.intent = "APPLY" /\ row.awaiting = "confirm"
        /\ "yes" \in msg.text.says /\ (astray \/ offered = Put(row))
    BY <1>3, <2>1
  <2>3. Put(row) = [intent |-> "APPLY", awaiting |-> "confirm", on |-> NamedIds(o.on)]
    BY <2>1, <2>2 DEF Put, NamedIds
  <2> QED BY <2>2, <2>3 DEF Agreed, NamedIds, Named
<1>5. ASSUME o.op = "remove"
      PROVE  Agreed("DELETE", {o.on})'
  <2>1. Says(msg.text, row', "DELETE") /\ o.on = Recent(row'.name).id
    BY <1>5 DEF Item
  <2>2. /\ row' = row /\ row.intent = "DELETE" /\ row.awaiting = "confirm"
        /\ "yes" \in msg.text.says /\ (astray \/ offered = Put(row))
    BY <1>3, <2>1
  <2>3. Put(row) = [intent |-> "DELETE", awaiting |-> "confirm", on |-> {o.on}]
    BY <2>1, <2>2 DEF Put
  <2> QED BY <2>2, <2>3 DEF Agreed
<1>6. ASSUME o.op = "sweep"
      PROVE  Agreed("BULK", OpenOnes)'
  <2>1. Says(msg.text, row', "BULK")
    BY <1>6 DEF Item
  <2>2. /\ row' = row /\ row.intent = "BULK" /\ row.awaiting = "confirm"
        /\ "yes" \in msg.text.says /\ (astray \/ offered = Put(row))
    BY <1>3, <2>1
  <2>3. Put(row) = [intent |-> "BULK", awaiting |-> "confirm", on |-> OpenOnes]
    BY <2>1, <2>2 DEF Put
  <2> QED BY <2>2, <2>3 DEF Agreed, OpenOnes
<1>7. ASSUME o.op = "mark"
      PROVE  o.on \in offered.on \/ astray
  <2>1. row' = row /\ Sound(row) /\ row.intent = "JOBS_REVIEW" /\ o.on = Min(queue)
    BY <1>1, <1>7 DEF Item
  <2>2. ~Calm(row)
    BY <2>1 DEF Sound, Calm
  <2>3. astray \/ offered = CardPut
    BY <2>1, <2>2 DEF Told, Shows
  <2> QED BY <2>1, <2>3 DEF CardPut
<1> QED BY <1>2, <1>4, <1>5, <1>6, <1>7 DEF Item, Allowed, OnFile, Named, NamedIds

LEMMA ReadKeeps ==
  ASSUME ChatInv, Read
  PROVE  ChatInv'
<1> USE DEF ChatInv
<1>0. /\ step = "read" /\ step' = "run" /\ msg \in Message /\ saying = SamePut
      /\ age \in 0..Expiry + 1 /\ Expiry \in Nat
      /\ UNCHANGED <<file, used, last, queue, talk, msg, saying, wiper, offered, astray, moved>>
  BY ConversationAssumption DEF Read, TurnInv, FlagsInv, records
<1>1. RecordsInv'
  BY <1>0 DEF RecordsInv, Kept, Distinct, Ids
<1>2. row' = NoRow \/ (row' = row /\ Sound(row) /\ age <= Expiry)
  BY <1>0 DEF Read, Fresh, AskedInv
<1>3. accepted' = (accepted \/ Agrees(row')) /\ seen' = row' /\ age' \in 0..Expiry + 1
  BY <1>0 DEF Read
<1>4. FlagsInv'
  BY <1>0, <1>3 DEF FlagsInv
<1>5. row' = NoRow \/ Sound(row')
  BY <1>2
<1>6. AskedInv'
  BY <1>0, <1>2, <1>3, <1>5, NoRowIsCalm DEF AskedInv, Sound
<1>7. TurnInv'
  BY <1>0 DEF TurnInv
<1>8. row' = row => Told(offered)
  <2>1. row' = row /\ row # NoRow => age <= Expiry
    BY <1>2
  <2>2. row = NoRow => Calm(row)
    BY NoRowIsCalm
  <2> QED BY <1>0, <2>1, <2>2 DEF TurnInv, Told
<1>9. PICK s : s = Decide(msg.text, msg.meant, row') /\ todo' = s
  BY DEF Read
<1>10. Plan(s, msg.text, msg.meant, row', Calm(row'))
  BY <1>0, <1>5, <1>9, Hears, DecidePlanned DEF RecordsInv
<1>11. Told(offered)'
  <2>1. CASE row' = NoRow
    BY <2>1, NoRowIsCalm DEF Told, Calm
  <2>2. CASE row' = row
    BY <1>0, <1>8, <2>2, ToldStays
  <2> QED BY <1>2, <2>1, <2>2
<1>12. ASSUME NEW i \in 1..Len(s)
       PROVE  Allowed(todo[i])' /\ Placed(todo, Calm(row), i)'
  <2>1. Item(s[i], msg.text, msg.meant, row') /\ Placed(s, Calm(row'), i)
    BY <1>10 DEF Plan
  <2>2. Allowed(s[i])'
    BY <1>0, <1>2, <1>3, <1>8, <2>1, ItemAllowed DEF AskedInv
  <2> QED BY <1>9, <2>1, <2>2, AllowedNext, PlacedNext DEF Calm
<1>13. RunInv'
  BY <1>0, <1>9, <1>10, <1>11, <1>12 DEF RunInv, Plan
<1> QED BY <1>1, <1>4, <1>6, <1>7, <1>13

-----------------------------------------------------------------------------
(* The transactions of a turn. *)

Answer == IF saying = SamePut THEN offered ELSE saying

LEMMA AnswerSame ==
  ASSUME UNCHANGED <<saying, offered>>
  PROVE  Answer' = Answer
BY DEF Answer, SamePut, NoPut

LEMMA DoneKeeps ==
  ASSUME todo' = <<>>, Told(Answer)'
  PROVE  RunInv'
<1>1. <<>> \in Seq(Ops) /\ \A i \in 1..Len(<<>>) : FALSE
  OBVIOUS
<1> QED BY <1>1 DEF RunInv, Answer

LEMMA RestKeeps ==
  ASSUME RunInv, step = "run", todo # <<>>, todo' = Tail(todo),
         Calm(row) \/ Head(todo).op = "close" => Calm(row)',
         \A i \in 1..Len(Tail(todo)) : \A o \in Ops :
           o = Tail(todo)[i] /\ Allowed(o) => Allowed(o)',
         \/ ~Ends(Head(todo).op) /\ (Told(Answer) => Told(Answer)')
         \/ \E i \in 1..Len(Tail(todo)) : Ends(Tail(todo)[i].op)
         \/ Told(Answer)'
  PROVE  RunInv'
<1>1. PICK s : s = Tail(todo)
  OBVIOUS
<1>2. PICK calm : calm = Calm(row)'
  OBVIOUS
<1>3. /\ s \in Seq(Ops)
      /\ \A i \in 1..Len(s) : Allowed(s[i]) /\ Placed(s, calm, i)
      /\ ~Ends(Head(todo).op) /\ (\E i \in 1..Len(todo) : Ends(todo[i].op)) =>
           \E i \in 1..Len(s) : Ends(s[i].op)
  BY <1>1, <1>2, RestOfPlan
<1>4. ASSUME NEW i \in 1..Len(s)
      PROVE  Allowed(todo[i])' /\ Placed(todo, Calm(row), i)'
  <2>1. s[i] \in Ops
    BY <1>3
  <2>2. PICK o : o = s[i]
    OBVIOUS
  <2>3. o \in Ops /\ Allowed(o)
    BY <1>3, <2>1, <2>2
  <2>4. Allowed(o)'
    BY <1>1, <2>2, <2>3
  <2>5. Allowed(todo[i])'
    BY <1>1, <2>2, <2>4, AllowedNext
  <2> QED BY <1>1, <1>2, <1>3, <2>5, PlacedNext
<1>5. (\E i \in 1..Len(s) : Ends(s[i].op)) \/ Told(Answer)'
  <2>1. (\E i \in 1..Len(todo) : Ends(todo[i].op)) \/ Told(Answer)
    BY DEF RunInv, Answer
  <2> QED BY <1>1, <1>3, <2>1
<1>6. todo' = s
  BY <1>1
<1> QED BY <1>3, <1>4, <1>5, <1>6 DEF RunInv, Answer

LEMMA RecordsKept ==
  ASSUME RecordsInv, UNCHANGED records
  PROVE  RecordsInv'
BY DEF RecordsInv, Kept, Distinct, Ids, records

LEMMA SetPendingKeeps ==
  ASSUME ChatInv, SetPending
  PROVE  ChatInv'
<1> USE DEF ChatInv
<1>0. /\ step = "run" /\ step' = "run" /\ todo # <<>> /\ Head(todo).op = "ask"
      /\ todo' = Tail(todo) /\ row' = On /\ age' = 0 /\ saying' = Put(On)
      /\ astray' = FALSE /\ accepted' = (accepted /\ On.hop = "confirmed")
      /\ UNCHANGED <<records, file, queue, talk, wiper, offered, moved, msg>>
  BY DEF SetPending, Does, Next1, Other, records
<1>1. /\ Tail(todo) = <<>> /\ Sound(On) /\ On.intent # "JOBS_REVIEW"
      /\ On.hop = "confirmed" => accepted
  BY <1>0, FirstOfPlan DEF Allowed, On
<1>2. FlagsInv'
  <2>1. accepted' \in BOOLEAN /\ astray' \in BOOLEAN
    BY <1>0
  <2>2. age' \in 0..Expiry + 1
    BY <1>0, ConversationAssumption
  <2> QED BY <1>0, <2>1, <2>2 DEF FlagsInv
<1>3. AskedInv'
  BY <1>0, <1>1 DEF AskedInv, TurnInv, Sound
<1>4. TurnInv'
  BY <1>0 DEF TurnInv
<1>5. saying' # SamePut'
  <2>1. saying'.intent = On.intent
    BY <1>0 DEF Put
  <2>2. SamePut'.intent = "same"
    BY DEF SamePut, NoPut
  <2>3. On.intent # "same"
    BY <1>1 DEF Sound, Row
  <2> QED BY <2>1, <2>2, <2>3
<1>6. Shows(row)' = saying'
  BY <1>0, <1>1 DEF Shows, Put, OpenOnes, Recent, Named
<1>7. Told(Answer)'
  BY <1>5, <1>6 DEF Told, Answer
<1>8. RunInv'
  BY <1>0, <1>1, <1>7, DoneKeeps
<1> QED BY <1>0, <1>2, <1>3, <1>4, <1>8, RecordsKept

LEMMA ClearPendingKeeps ==
  ASSUME ChatInv, ClearPending
  PROVE  ChatInv'
<1> USE DEF ChatInv
<1>0. /\ step = "run" /\ step' = "run" /\ todo # <<>> /\ todo' = Tail(todo)
      /\ row' = NoRow /\ age' = 0
      /\ UNCHANGED <<records, file, talk, wiper, offered, moved, msg, seen, astray, accepted>>
  BY DEF ClearPending, Does, Next1, Other, records
<1>1. row'.hop = "offered" /\ Calm(row)'
  BY <1>0, NoRowIsCalm DEF Calm
<1>2. FlagsInv'
  BY <1>0, ConversationAssumption DEF FlagsInv
<1>3. AskedInv'
  BY <1>0, <1>1 DEF AskedInv
<1>4. TurnInv'
  BY <1>0 DEF TurnInv
<1>5. Told(Answer)'
  BY <1>1 DEF Told
<1>6. RunInv'
  BY <1>0, <1>1, <1>5, AllowedStays, RestKeeps
<1> QED BY <1>0, <1>2, <1>3, <1>4, <1>6, RecordsKept

(* Steps that leave the question, what was said and the marks alone. *)
LEMMA UntalkedKeeps ==
  ASSUME ChatInv, step = "run", step' = "run", UNCHANGED <<Untalked, msg>>
  PROVE  /\ FlagsInv' /\ AskedInv' /\ TurnInv'
         /\ UNCHANGED <<row, saying, offered, astray, accepted>>
         /\ Calm(row)' = Calm(row) /\ (Calm(row) => Told(Answer)')
<1>0. UNCHANGED <<row, age, saying, astray, accepted, talk, wiper, offered, moved>>
  BY DEF Untalked, Other
<1>1. FlagsInv'
  BY <1>0 DEF FlagsInv, ChatInv
<1>2. AskedInv' /\ Calm(row)' = Calm(row)
  BY <1>0 DEF AskedInv, ChatInv, Sound, Calm
<1>3. TurnInv'
  BY <1>0 DEF TurnInv, ChatInv
<1>4. Calm(row) => Told(Answer)'
  BY <1>2 DEF Told
<1> QED BY <1>0, <1>1, <1>2, <1>3, <1>4

LEMMA SetContextKeeps ==
  ASSUME ChatInv, SetContext
  PROVE  ChatInv'
<1> USE DEF ChatInv
<1>0. /\ step = "run" /\ step' = "run" /\ todo # <<>> /\ Head(todo).op = "remember"
      /\ todo' = Tail(todo) /\ last' = On
      /\ UNCHANGED <<file, used, queue, Untalked, msg, seen>>
  BY DEF SetContext, Does, Next1
<1>1. On \in Memory
  BY <1>0, FirstOfPlan DEF Allowed, On
<1>2. RecordsInv'
  BY <1>0, <1>1 DEF RecordsInv, Kept, Distinct, Ids
<1>3. /\ FlagsInv' /\ AskedInv' /\ TurnInv' /\ Calm(row)' = Calm(row)
      /\ UNCHANGED <<row, saying, offered, astray, accepted>>
  BY <1>0, UntalkedKeeps
<1>4. Told(Answer) => Told(Answer)'
  <2>1. Answer' = Answer /\ Shows(row)' = Shows(row)
    BY <1>0, <1>3, AnswerSame, ShowsStays
  <2> QED BY <1>3, <2>1 DEF Told
<1>5. RunInv'
  BY <1>0, <1>3, <1>4, AllowedStays, RestKeeps DEF Ends
<1> QED BY <1>2, <1>3, <1>5

LEMMA SaveIdentityKeeps ==
  ASSUME ChatInv, SaveIdentity
  PROVE  ChatInv'
<1> USE DEF ChatInv
<1>0. /\ step = "run" /\ step' = "run" /\ todo # <<>> /\ Head(todo).op = "identity"
      /\ todo' = Tail(todo) /\ UNCHANGED <<records, file, queue, Untalked, msg, seen>>
  BY DEF SaveIdentity, Does, Next1, records
<1>3. /\ FlagsInv' /\ AskedInv' /\ TurnInv' /\ Calm(row)' = Calm(row)
      /\ UNCHANGED <<row, saying, offered, astray, accepted>>
  BY <1>0, UntalkedKeeps
<1>4. Told(Answer) => Told(Answer)'
  <2>1. Answer' = Answer /\ Shows(row)' = Shows(row)
    BY <1>0, <1>3, AnswerSame, ShowsStays
  <2> QED BY <1>3, <2>1 DEF Told
<1>5. RunInv'
  BY <1>0, <1>3, <1>4, AllowedStays, RestKeeps DEF Ends
<1> QED BY <1>0, <1>3, <1>5, RecordsKept

(* A change to the file is made when no question that names applications is    *)
(* open, and only what needs no look at them follows.                        *)
LEMMA FileChangeKeeps ==
  ASSUME ChatInv, step = "run", step' = "run", todo # <<>>, todo' = Tail(todo),
         Head(todo).op = "change" \/ AtOnce(Head(todo).op),
         RecordsInv', UNCHANGED <<Untalked, msg, seen>>
  PROVE  ChatInv'
<1> USE DEF ChatInv
<1>1. /\ Calm(row)
      /\ AtOnce(Head(todo).op) => Tail(todo) = <<>>
      /\ ~AtOnce(Head(todo).op) =>
           \A i \in 1..Len(Tail(todo)) : Tail(todo)[i].op \in {"close", "remember"}
  BY FirstOfPlan
<1>2. /\ FlagsInv' /\ AskedInv' /\ TurnInv' /\ Calm(row)' = Calm(row)
      /\ Told(Answer)'
  BY <1>1, UntalkedKeeps
<1>3. ASSUME NEW o, o.op \in {"close", "remember"}, Allowed(o)
      PROVE  Allowed(o)'
  BY <1>3 DEF Allowed
<1>4. CASE AtOnce(Head(todo).op)
  BY <1>1, <1>2, <1>4, DoneKeeps
<1>5. CASE ~AtOnce(Head(todo).op)
  <2>1. \A i \in 1..Len(Tail(todo)) : \A o \in Ops :
          o = Tail(todo)[i] /\ Allowed(o) => Allowed(o)'
    BY <1>1, <1>3, <1>5
  <2>2. RunInv'
    BY <1>1, <1>2, <2>1, RestKeeps
  <2> QED BY <1>2, <2>2
<1> QED BY <1>2, <1>4, <1>5

LEMMA LogKeeps ==
  ASSUME ChatInv, Log
  PROVE  ChatInv'
<1> USE DEF ChatInv
<1>0. /\ step = "run" /\ step' = "run" /\ todo # <<>> /\ Head(todo).op = "log"
      /\ UNCHANGED <<last, queue, Untalked, msg, seen>>
  BY DEF Log, Does
<1>1. PICK a \in App \ used :
        /\ file' = <<[id |-> a, company |-> On, open |-> TRUE]>> \o file
        /\ used' = used \cup {a}
        /\ todo' = <<Remember(On, a)>> \o Tail(todo)
  BY DEF Log
<1>2. On \in Company /\ Tail(todo) = <<>> /\ Calm(row)
  BY <1>0, FirstOfPlan DEF Allowed, On, AtOnce
<1> DEFINE e == [id |-> a, company |-> On, open |-> TRUE]
<1>3. e \in Entry /\ e.id = a /\ a \notin Ids(file)
  BY <1>2 DEF Entry, RecordsInv
<1> HIDE DEF e
<1>4. file' \in Seq(Entry) /\ Distinct(file') /\ Ids(file') = {a} \cup Ids(file)
  BY <1>1, <1>3, InFront DEF RecordsInv, Kept, e
<1>5. RecordsInv'
  BY <1>0, <1>1, <1>4 DEF RecordsInv, Kept, Distinct, Ids
<1>6. /\ FlagsInv' /\ AskedInv' /\ TurnInv' /\ Calm(row)' = Calm(row)
      /\ Told(Answer)'
  BY <1>0, <1>2, UntalkedKeeps
<1> DEFINE k == [company |-> On, id |-> a]
<1>7. k \in Memory /\ Remember(On, a) = Op("remember", k)
  BY <1>1, <1>2 DEF Memory, Companies, Remember
<1> HIDE DEF k
<1>8. PICK o : o = Op("remember", k)
  OBVIOUS
<1>9. o \in Ops /\ o.op = "remember" /\ o.on = k
  BY <1>7, <1>8, OpsAre DEF OpName, Things
<1>10. todo' = <<o>>
  <2>1. <<o>> \o <<>> = <<o>>
    BY <1>9, ConcatEmptySeq
  <2>2. todo' = <<Remember(On, a)>> \o <<>>
    BY <1>1, <1>2
  <2> QED BY <1>7, <1>8, <2>1, <2>2
<1>11. <<o>> \in Seq(Ops) /\ Len(<<o>>) = 1 /\ <<o>>[1] = o
  BY <1>9
<1>12. k \in Memory /\ Allowed(o)'
  BY <1>7, <1>9 DEF Allowed
<1>13. PICK s : s = <<o>>
  OBVIOUS
<1>14. ASSUME NEW i \in 1..Len(s)
       PROVE  Allowed(todo[i])' /\ Placed(todo, Calm(row), i)'
  <2>1. i = 1 /\ todo'[i] = o
    BY <1>10, <1>11, <1>13
  <2>2. Allowed(todo[i])'
    BY <1>12, <2>1, AllowedNext
  <2>3. PICK calm : calm = Calm(row)'
    OBVIOUS
  <2>4. Placed(s, calm, i)
    BY <1>9, <1>11, <1>13, <2>1 DEF Placed, AtOnce
  <2> QED BY <1>10, <1>13, <2>2, <2>3, <2>4, PlacedNext
<1>15. RunInv'
  BY <1>6, <1>10, <1>11, <1>13, <1>14 DEF RunInv, Answer
<1> QED BY <1>5, <1>6, <1>15

LEMMA TouchIds ==
  ASSUME RecordsInv, OnFile(On), file' = <<Application(On)>> \o Without(On)
  PROVE  /\ file' \in Seq(Entry) /\ Distinct(file')
         /\ Rows(file') = Rows(file) /\ Ids(file') = Ids(file)
<1>1. Application(On) \in Entry /\ Application(On).id = On /\ Application(On) \in Rows(file)
  <2>1. DOMAIN file = 1..Len(file)
    BY DEF RecordsInv, Kept
  <2>2. Application(On) \in Rows(file)
    BY <2>1 DEF Application, OnFile, Rows
  <2> QED BY <2>2, ApplicationIsOnFile DEF RecordsInv
<1>2. PICK f : f = Without(On)
  OBVIOUS
<1>3. /\ f \in Seq(Entry) /\ Distinct(f) /\ Ids(f) = Ids(file) \ {On}
      /\ Rows(f) = {x \in Rows(file) : x.id # On}
  BY <1>2, TakenOut DEF RecordsInv, Kept
<1>4. PICK e : e = Application(On)
  OBVIOUS
<1>5. e \in Entry /\ e.id = On /\ e \in Rows(file) /\ e.id \notin Ids(f)
  BY <1>1, <1>3, <1>4
<1>6. PICK g : g = <<e>> \o f
  OBVIOUS
<1>7. /\ g \in Seq(Entry) /\ Distinct(g)
      /\ Rows(g) = {e} \cup Rows(f) /\ Ids(g) = {e.id} \cup Ids(f)
  BY <1>3, <1>5, <1>6, InFront
<1>8. file' = g
  BY <1>2, <1>4, <1>6
<1>9. \A x \in Rows(file) : x.id = On => x = e
  BY <1>5 DEF RecordsInv, Distinct, Rows
<1>10. Rows(g) = Rows(file)
  BY <1>3, <1>5, <1>7, <1>9
<1>11. On \in Ids(file)
  <2>1. DOMAIN file = 1..Len(file)
    BY DEF RecordsInv, Kept
  <2> QED BY <2>1 DEF OnFile, Ids
<1>12. Ids(g) = Ids(file)
  BY <1>3, <1>5, <1>7, <1>11
<1> QED BY <1>7, <1>8, <1>10, <1>12

LEMMA TouchKeeps ==
  ASSUME ChatInv, Touch
  PROVE  ChatInv'
<1> USE DEF ChatInv
<1>0. /\ step = "run" /\ step' = "run" /\ todo # <<>> /\ todo' = Tail(todo)
      /\ Head(todo).op = "change" /\ UNCHANGED <<Untalked, msg, seen, used, last, queue>>
      /\ file' = <<Application(On)>> \o Without(On)
  BY DEF Touch, Does, Next1
<1>1. OnFile(On)
  BY <1>0, FirstOfPlan DEF Allowed, On
<1>2. file' \in Seq(Entry) /\ Distinct(file') /\ Ids(file') = Ids(file)
  BY <1>0, <1>1, TouchIds
<1>3. RecordsInv'
  BY <1>0, <1>2 DEF RecordsInv, Kept, Distinct, Ids
<1> QED BY <1>0, <1>3, FileChangeKeeps

LEMMA RemoveKeeps ==
  ASSUME ChatInv, Remove
  PROVE  ChatInv'
<1> USE DEF ChatInv
<1>0. /\ step = "run" /\ step' = "run" /\ todo # <<>> /\ todo' = Tail(todo)
      /\ Head(todo).op = "remove" /\ UNCHANGED <<Untalked, msg, seen, used, last, queue>>
      /\ file' = Without(On)
  BY DEF Remove, Does, Next1
<1>1. OnFile(On)
  BY <1>0, FirstOfPlan DEF Allowed, On
<1>2. file' \in Seq(Entry) /\ Distinct(file') /\ Ids(file') = Ids(file) \ {On}
  BY <1>0, <1>1, TakenOut DEF RecordsInv, Kept
<1>3. RecordsInv'
  BY <1>0, <1>2 DEF RecordsInv, Kept, Distinct, Ids
<1> QED BY <1>0, <1>3, FileChangeKeeps DEF AtOnce

LEMMA SweptIds ==
  ASSUME RecordsInv, file' = [i \in DOMAIN file |-> [file[i] EXCEPT !.open = FALSE]]
  PROVE  file' \in Seq(Entry) /\ Distinct(file') /\ Ids(file') = Ids(file)
<1>1. DOMAIN file = 1..Len(file) /\ Len(file) \in Nat /\ \A i \in 1..Len(file) : file[i] \in Entry
  BY DEF RecordsInv, Kept
<1>2. \A i \in 1..Len(file) : /\ [file[i] EXCEPT !.open = FALSE] \in Entry
                             /\ [file[i] EXCEPT !.open = FALSE].id = file[i].id
  BY <1>1 DEF Entry
<1>3. file' \in Seq(Entry) /\ Len(file') = Len(file)
  BY <1>1, <1>2
<1>4. \A i \in 1..Len(file) : file'[i].id = file[i].id
  BY <1>1, <1>2
<1>5. DOMAIN file' = DOMAIN file
  BY <1>1
<1> QED BY <1>1, <1>3, <1>4, <1>5 DEF RecordsInv, Distinct, Ids

LEMMA SweepKeeps ==
  ASSUME ChatInv, Sweep
  PROVE  ChatInv'
<1> USE DEF ChatInv
<1>0. /\ step = "run" /\ step' = "run" /\ todo # <<>> /\ todo' = Tail(todo)
      /\ Head(todo).op = "sweep" /\ UNCHANGED <<Untalked, msg, seen, used, last, queue>>
      /\ file' = [i \in DOMAIN file |-> [file[i] EXCEPT !.open = FALSE]]
  BY DEF Sweep, Does, Next1
<1>1. file' \in Seq(Entry) /\ Distinct(file') /\ Ids(file') = Ids(file)
  BY <1>0, SweptIds
<1>2. RecordsInv'
  BY <1>0, <1>1 DEF RecordsInv, Kept, Distinct, Ids
<1> QED BY <1>0, <1>2, FileChangeKeeps DEF AtOnce

(* A card is taken: another card is shown, or the review closed, next. *)
LEMMA QueueChangeKeeps ==
  ASSUME ChatInv, step = "run", step' = "run", todo # <<>>, todo' = Tail(todo),
         Head(todo).op \in {"mark", "dismiss_all"}, queue' \subseteq Posting,
         UNCHANGED <<Untalked, file, used, last, msg, seen>>
  PROVE  ChatInv'
<1> USE DEF ChatInv
<1>1. \E i \in 1..Len(Tail(todo)) : Ends(Tail(todo)[i].op)
  BY FirstOfPlan
<1>2. /\ FlagsInv' /\ AskedInv' /\ TurnInv' /\ Calm(row)' = Calm(row)
      /\ UNCHANGED <<offered, astray, accepted>>
  BY UntalkedKeeps
<1>3. RecordsInv'
  BY DEF RecordsInv, Kept, Distinct, Ids
<1>4. \A i \in 1..Len(Tail(todo)) : \A o \in Ops :
          o = Tail(todo)[i] /\ Allowed(o) => Allowed(o)'
  BY <1>2, AllowedStays
<1>5. Calm(row) \/ Head(todo).op = "close" => Calm(row)'
  BY <1>2
<1>6. RunInv'
  BY <1>1, <1>4, <1>5, RestKeeps
<1> QED BY <1>2, <1>3, <1>6

LEMMA MarkCardKeeps ==
  ASSUME ChatInv, MarkCard
  PROVE  ChatInv'
<1>1. /\ step = "run" /\ step' = "run" /\ todo # <<>> /\ todo' = Tail(todo)
      /\ Head(todo).op = "mark" /\ queue' = queue \ {On}
      /\ UNCHANGED <<Untalked, file, used, last, msg, seen>>
  BY DEF MarkCard, Does, Next1
<1>2. queue' \subseteq Posting
  BY <1>1 DEF ChatInv, RecordsInv, Kept
<1> QED BY <1>1, <1>2, QueueChangeKeeps

LEMMA DismissAllKeeps ==
  ASSUME ChatInv, DismissAll
  PROVE  ChatInv'
<1>1. /\ step = "run" /\ step' = "run" /\ todo # <<>> /\ todo' = Tail(todo)
      /\ Head(todo).op = "dismiss_all" /\ queue' = {}
      /\ UNCHANGED <<Untalked, file, used, last, msg, seen>>
  BY DEF DismissAll, Does, Next1
<1> QED BY <1>1, QueueChangeKeeps

LEMMA ShowCardKeeps ==
  ASSUME ChatInv, ShowCard
  PROVE  ChatInv'
<1> USE DEF ChatInv
<1>0. /\ step = "run" /\ step' = "run" /\ todo # <<>> /\ todo' = Tail(todo)
      /\ Head(todo).op = "card" /\ age' = 0
      /\ UNCHANGED <<records, file, queue, talk, wiper, offered, moved, msg, seen, accepted>>
  BY DEF ShowCard, Does, Next1, Other, records
<1>1. Tail(todo) = <<>>
  BY <1>0, FirstOfPlan
<1> DEFINE q == Question("JOBS_REVIEW", Nothing, FALSE, "choice")
<1>2. /\ q \in Row /\ q.intent = "JOBS_REVIEW" /\ q.awaiting = "choice" /\ q.hop = "offered"
      /\ q.name = Nothing
  BY DEF Question, NoRow, Row, Name
<1>3. Sound(q)
  BY <1>2 DEF Sound, Companies
<1> HIDE DEF q
<1>4. \/ row' = NoRow /\ astray' = astray
      \/ row' = q /\ saying' = CardPut /\ astray' = FALSE
  BY DEF ShowCard, q
<1>5. FlagsInv'
  <2>1. astray' \in BOOLEAN
    BY <1>4 DEF FlagsInv
  <2>2. age' \in 0..Expiry + 1
    BY <1>0, ConversationAssumption
  <2> QED BY <1>0, <2>1, <2>2 DEF FlagsInv
<1>6. AskedInv'
  BY <1>0, <1>2, <1>3, <1>4, NoRowIsCalm DEF AskedInv, Sound
<1>7. TurnInv'
  BY <1>0 DEF TurnInv
<1>8. Told(Answer)'
  <2>1. CASE row' = NoRow
    BY <2>1, NoRowIsCalm DEF Told, Calm
  <2>2. CASE row' = q /\ saying' = CardPut
    <3>1. saying'.intent = "JOBS_REVIEW" /\ SamePut'.intent = "same"
      BY <2>2 DEF CardPut, SamePut, NoPut
    <3>2. Answer' = CardPut
      BY <2>2, <3>1 DEF Answer
    <3>3. Shows(row)' = CardPut
      BY <1>0, <1>2, <2>2 DEF Shows, CardPut
    <3> QED BY <3>2, <3>3 DEF Told
  <2> QED BY <1>4, <2>1, <2>2
<1>9. RunInv'
  BY <1>0, <1>1, <1>8, DoneKeeps
<1> QED BY <1>0, <1>5, <1>6, <1>7, <1>9, RecordsKept

LEMMA ReplyKeeps ==
  ASSUME ChatInv, Reply
  PROVE  ChatInv'
<1> USE DEF ChatInv
<1>0. /\ step = "run" /\ step' = "decorate" /\ todo = <<>> /\ talk' = "assistant"
      /\ offered' = Answer
      /\ UNCHANGED <<records, file, queue, row, age, wiper, moved, astray, accepted>>
  BY DEF Reply, Answer, records
<1>1. Told(Answer)
  BY <1>0 DEF RunInv, Answer
<1>2. FlagsInv' /\ AskedInv'
  BY <1>0 DEF FlagsInv, AskedInv, Sound
<1>3. Shows(row)' = Shows(row)
  BY <1>0, ShowsStays
<1>4. Told(offered)'
  BY <1>0, <1>1, <1>3 DEF Told, Calm
<1>5. TurnInv'
  BY <1>0, <1>4 DEF TurnInv
<1>6. RunInv'
  BY <1>0 DEF RunInv
<1> QED BY <1>0, <1>2, <1>5, <1>6, RecordsKept

LEMMA RaiseKeeps ==
  ASSUME ChatInv, Raise
  PROVE  ChatInv'
<1> USE DEF ChatInv
<1>0. /\ step = "run" /\ step' = "run" /\ todo' = <<>> /\ astray' = TRUE
      /\ UNCHANGED <<records, row, age, msg, accepted, talk, wiper, offered, moved>>
  BY DEF Raise, Other
<1>1. FlagsInv' /\ AskedInv'
  BY <1>0 DEF FlagsInv, AskedInv, Sound
<1>2. TurnInv'
  BY <1>0 DEF TurnInv
<1>3. Told(Answer)'
  BY <1>0 DEF Told
<1>4. RunInv'
  BY <1>0, <1>3, DoneKeeps
<1> QED BY <1>0, <1>1, <1>2, <1>4, RecordsKept

-----------------------------------------------------------------------------
(* What comes before and after a turn, and from elsewhere. *)

LEMMA ReceiveKeeps ==
  ASSUME ChatInv, NEW m \in Message, Receive(m)
  PROVE  ChatInv'
<1> USE DEF ChatInv
<1>0. /\ step = "idle" /\ step' = "read" /\ msg' = m /\ saying' = SamePut /\ talk' = "user"
      /\ moved' = FALSE
      /\ UNCHANGED <<records, file, queue, row, age, wiper, offered, astray, accepted>>
  BY DEF Receive, records
<1>1. FlagsInv' /\ AskedInv'
  BY <1>0 DEF FlagsInv, AskedInv, Sound
<1>2. age <= Expiry => Told(offered)'
  BY <1>0, ToldStays DEF TurnInv
<1>3. saying' = SamePut'
  BY <1>0 DEF SamePut, NoPut
<1>4. TurnInv' /\ RunInv'
  BY <1>0, <1>2, <1>3 DEF TurnInv, RunInv
<1> QED BY <1>0, <1>1, <1>4, RecordsKept

LEMMA DecorateKeeps ==
  ASSUME ChatInv, Decorate
  PROVE  ChatInv'
<1> USE DEF ChatInv
<1>0. /\ step = "decorate" /\ step' = "idle"
      /\ moved' = (Fresh.awaiting = "go" /\ row.hop = "confirmed")
      /\ row' = IF Fresh.awaiting = "go" /\ row.hop # "offered" THEN NoRow ELSE Fresh
      /\ age' = IF row' = NoRow THEN 0 ELSE age
      /\ UNCHANGED <<records, file, queue, talk, wiper, offered, astray, accepted>>
  BY DEF Decorate, records
<1>1. age \in 0..Expiry + 1 /\ Expiry \in Nat
  BY ConversationAssumption DEF FlagsInv
<1>2. row' = NoRow \/ (row' = row /\ age <= Expiry)
  BY <1>0, <1>1 DEF Fresh
<1>3. FlagsInv'
  <2>1. age' \in 0..Expiry + 1
    BY <1>0, <1>1
  <2>2. moved' \in BOOLEAN
    BY <1>0
  <2> QED BY <1>0, <2>1, <2>2 DEF FlagsInv
<1>4. AskedInv'
  BY <1>0, <1>2, NoRowIsCalm DEF AskedInv, Sound
<1>5. Told(offered)'
  <2>1. CASE row' = NoRow
    BY <2>1, NoRowIsCalm DEF Told, Calm
  <2>2. CASE row' = row /\ age <= Expiry
    BY <1>0, <2>2, ToldStays DEF TurnInv
  <2> QED BY <1>2, <2>1, <2>2
<1>6. TurnInv' /\ RunInv'
  BY <1>0, <1>5 DEF TurnInv, RunInv
<1> QED BY <1>0, <1>3, <1>4, <1>6, RecordsKept

(* The same transactions are left, and what they need still holds. *)
LEMMA SamePlan ==
  ASSUME RunInv, UNCHANGED <<step, todo>>, Calm(row) => Calm(row)',
         \A o \in Ops : Allowed(o) => Allowed(o)', Told(Answer) => Told(Answer)'
  PROVE  RunInv'
<1> SUFFICES ASSUME step = "run"
             PROVE  RunInv'
  BY DEF RunInv
<1>1. PICK s : s = todo
  OBVIOUS
<1>2. PICK calm : calm = Calm(row)'
  OBVIOUS
<1>3. s \in Seq(Ops) /\ \A i \in 1..Len(s) : Allowed(s[i]) /\ Placed(s, Calm(row), i)
  BY <1>1 DEF RunInv
<1>4. ASSUME NEW i \in 1..Len(s)
      PROVE  Allowed(todo[i])' /\ Placed(todo, Calm(row), i)'
  <2>1. PICK o : o = s[i]
    OBVIOUS
  <2>2. o \in Ops /\ Allowed(o)
    BY <1>3, <2>1
  <2>3. todo'[i] = o /\ Allowed(o)'
    BY <1>1, <2>1, <2>2
  <2>4. Placed(s, calm, i)
    BY <1>2, <1>3 DEF Placed
  <2>5. todo' = s
    BY <1>1
  <2> QED BY <1>2, <2>3, <2>4, <2>5, AllowedNext, PlacedNext
<1>5. (\E i \in 1..Len(s) : Ends(s[i].op)) \/ Told(Answer)'
  BY <1>1 DEF RunInv, Answer
<1> QED BY <1>1, <1>3, <1>4, <1>5 DEF RunInv, Answer

LEMMA WipeKeeps ==
  ASSUME ChatInv, Wipe
  PROVE  ChatInv'
<1> USE DEF ChatInv
<1>0. /\ UNCHANGED <<records, file, queue, step, msg, seen, todo, saying, offered, astray,
                     accepted, moved>>
      /\ talk' \in {talk, "empty"} /\ wiper' \in {"idle", "half"}
      /\ (row' = row /\ age' = age) \/ (row' = NoRow /\ age' = 0)
  BY DEF Wipe, WipeTranscript, WipeQuestion, records, turn, history
<1>1. FlagsInv'
  BY <1>0, ConversationAssumption DEF FlagsInv
<1>2. AskedInv'
  BY <1>0, NoRowIsCalm DEF AskedInv, Sound
<1>4. TurnInv'
  <2>1. step # "run" /\ age' <= Expiry => Told(offered)'
    <3>1. CASE row' = NoRow
      BY <3>1, NoRowIsCalm DEF Told, Calm
    <3>2. CASE row' = row /\ age' = age
      BY <1>0, <3>2, ToldStays DEF TurnInv
    <3> QED BY <1>0, <3>1, <3>2
  <2>2. SamePut' = SamePut
    BY DEF SamePut, NoPut
  <2> QED BY <1>0, <2>1, <2>2 DEF TurnInv
<1>5. Calm(row) => Calm(row)'
  BY <1>0, NoRowIsCalm DEF Calm
<1>6. Told(Answer) => Told(Answer)'
  <2>1. Answer' = Answer
    BY <1>0, AnswerSame
  <2>2. Told(Answer) => Shows(row)' = Shows(row) \/ Calm(row)'
    BY <1>0, ShowsStays, NoRowIsCalm DEF Calm
  <2>3. ~Calm(row)' => row' = row
    BY <1>0, NoRowIsCalm DEF Calm
  <2> QED BY <1>0, <2>1, <2>2, <2>3 DEF Told, Calm
<1>7. \A o \in Ops : Allowed(o) => Allowed(o)'
  BY <1>0, AllowedStays
<1>8. RunInv'
  BY <1>0, <1>5, <1>6, <1>7, SamePlan
<1> QED BY <1>0, <1>1, <1>2, <1>4, <1>8, RecordsKept

LEMMA CrashKeeps ==
  ASSUME ChatInv, Crash
  PROVE  ChatInv'
<1> USE DEF ChatInv
<1>0. /\ step' = "idle" /\ wiper' = "idle" /\ astray' = TRUE
      /\ UNCHANGED <<records, row, age, talk, offered, accepted, moved>>
  BY DEF Crash
<1>1. FlagsInv' /\ AskedInv'
  BY <1>0 DEF FlagsInv, AskedInv, Sound
<1>2. TurnInv' /\ RunInv'
  BY <1>0 DEF TurnInv, RunInv, Told
<1> QED BY <1>0, <1>1, <1>2, RecordsKept

LEMMA TickKeeps ==
  ASSUME ChatInv, Tick
  PROVE  ChatInv'
<1> USE DEF ChatInv
<1>0. /\ step = "idle" /\ age <= Expiry /\ age' = age + 1
      /\ offered' = IF age' > Expiry THEN NoPut ELSE offered
      /\ UNCHANGED <<records, file, queue, row, talk, step, wiper, astray, accepted, moved>>
  BY DEF Tick, turn, records
<1>1. age \in 0..Expiry + 1 /\ Expiry \in Nat
  BY ConversationAssumption DEF FlagsInv
<1>2. FlagsInv' /\ AskedInv'
  BY <1>0, <1>1 DEF FlagsInv, AskedInv, Sound
<1>3. Shows(row)' = Shows(row)
  BY <1>0, ShowsStays
<1>4. age' <= Expiry => Told(offered)'
  BY <1>0, <1>1, <1>3 DEF TurnInv, Told, Calm
<1>5. TurnInv' /\ RunInv'
  BY <1>0, <1>4 DEF TurnInv, RunInv
<1> QED BY <1>0, <1>2, <1>5, RecordsKept

(* What the phone does is done between turns. *)
LEMMA ElsewhereKeeps ==
  ASSUME ChatInv, step = "idle", Elsewhere, RecordsInv'
  PROVE  ChatInv'
<1> USE DEF ChatInv
<1>0. /\ astray' = TRUE /\ step' = "idle"
      /\ UNCHANGED <<row, age, talk, saying, wiper, offered, accepted, moved>>
  BY DEF Elsewhere, turn
<1>1. FlagsInv' /\ AskedInv'
  BY <1>0 DEF FlagsInv, AskedInv, Sound
<1>2. TurnInv' /\ RunInv'
  BY <1>0 DEF TurnInv, RunInv, Told
<1> QED BY <1>1, <1>2

LEMMA PhoneLogKeeps ==
  ASSUME ChatInv, NEW a \in App, NEW c \in Company, PhoneLog(a, c)
  PROVE  ChatInv'
<1>0. /\ step = "idle" /\ a \notin used /\ Elsewhere
      /\ file' = <<[id |-> a, company |-> c, open |-> TRUE]>> \o file
      /\ used' = used \cup {a} /\ UNCHANGED <<last, queue>>
  BY DEF PhoneLog
<1> DEFINE e == [id |-> a, company |-> c, open |-> TRUE]
<1>1. e \in Entry /\ e.id = a /\ a \notin Ids(file)
  BY <1>0 DEF Entry, RecordsInv, ChatInv
<1> HIDE DEF e
<1>2. file' \in Seq(Entry) /\ Distinct(file') /\ Ids(file') = {a} \cup Ids(file)
  BY <1>0, <1>1, InFront DEF RecordsInv, Kept, ChatInv, e
<1>3. RecordsInv'
  BY <1>0, <1>2 DEF RecordsInv, Kept, Distinct, Ids, ChatInv
<1> QED BY <1>0, <1>3, ElsewhereKeeps

LEMMA PhoneDeleteKeeps ==
  ASSUME ChatInv, NEW a \in App, PhoneDelete(a)
  PROVE  ChatInv'
<1>0. /\ step = "idle" /\ OnFile(a) /\ Elsewhere /\ file' = Without(a)
      /\ UNCHANGED <<used, last, queue>>
  BY DEF PhoneDelete
<1>1. file' \in Seq(Entry) /\ Distinct(file') /\ Ids(file') = Ids(file) \ {a}
  BY <1>0, TakenOut DEF RecordsInv, Kept, ChatInv
<1>2. RecordsInv'
  BY <1>0, <1>1 DEF RecordsInv, Kept, Distinct, Ids, ChatInv
<1> QED BY <1>0, <1>2, ElsewhereKeeps

LEMMA PhoneEditKeeps ==
  ASSUME ChatInv, NEW a \in App, PhoneEdit(a)
  PROVE  ChatInv'
<1>0. step = "idle" /\ OnFile(a) /\ Elsewhere /\ UNCHANGED <<used, last, queue>>
  BY DEF PhoneEdit
<1>1. PICK o \in BOOLEAN : file' = <<[Application(a) EXCEPT !.open = o]>> \o Without(a)
  BY DEF PhoneEdit
<1>2. Application(a) \in Entry /\ Application(a).id = a
  BY <1>0, ApplicationIsOnFile DEF RecordsInv, ChatInv
<1>3. PICK e : e = [Application(a) EXCEPT !.open = o]
  OBVIOUS
<1>4. e \in Entry /\ e.id = a
  BY <1>2, <1>3 DEF Entry
<1>5. PICK f : f = Without(a)
  OBVIOUS
<1>6. f \in Seq(Entry) /\ Distinct(f) /\ Ids(f) = Ids(file) \ {a}
  BY <1>0, <1>5, TakenOut DEF RecordsInv, Kept, ChatInv
<1>7. PICK g : g = <<e>> \o f
  OBVIOUS
<1>8. g \in Seq(Entry) /\ Distinct(g) /\ Ids(g) = {a} \cup Ids(f)
  BY <1>4, <1>6, <1>7, InFront
<1>9. file' = g
  BY <1>1, <1>3, <1>5, <1>7
<1>10. a \in Ids(file)
  <2>1. DOMAIN file = 1..Len(file)
    BY DEF RecordsInv, Kept, ChatInv
  <2> QED BY <1>0, <2>1 DEF OnFile, Ids
<1>11. Ids(g) = Ids(file)
  BY <1>6, <1>8, <1>10
<1>12. RecordsInv'
  BY <1>0, <1>8, <1>9, <1>11 DEF RecordsInv, Kept, Distinct, Ids, ChatInv
<1> QED BY <1>0, <1>12, ElsewhereKeeps

(* Discovery changes the queue at any moment: what was shown is astray then.   *)
LEMMA QueueChangesKeeps ==
  ASSUME ChatInv, NEW p \in Posting, QueueChanges(p)
  PROVE  ChatInv'
<1> USE DEF ChatInv
<1>0. /\ queue' \subseteq Posting /\ astray' = TRUE
      /\ UNCHANGED <<file, used, last, row, age, talk, step, msg, seen, todo, saying, wiper,
                     offered, accepted, moved>>
  <2>1. queue' = IF p \in queue THEN queue \ {p} ELSE queue \cup {p}
    BY DEF QueueChanges
  <2>2. queue' \subseteq Posting
    BY <2>1 DEF RecordsInv, Kept
  <2> QED BY <2>2 DEF QueueChanges, Elsewhere, turn
<1>1. RecordsInv'
  BY <1>0 DEF RecordsInv, Kept, Distinct, Ids
<1>2. FlagsInv' /\ AskedInv'
  BY <1>0 DEF FlagsInv, AskedInv, Sound
<1>3. SamePut' = SamePut
  BY DEF SamePut, NoPut
<1>4. TurnInv'
  BY <1>0, <1>3 DEF TurnInv, Told
<1>5. \A o \in Ops : Allowed(o) => Allowed(o)'
  BY <1>0 DEF Allowed, Agreed, OnFile, Named, NamedIds, OpenOnes
<1>6. Told(Answer)'
  BY <1>0 DEF Told
<1>7. Calm(row) => Calm(row)'
  BY <1>0 DEF Calm
<1>8. RunInv'
  BY <1>0, <1>5, <1>6, <1>7, SamePlan
<1> QED BY <1>1, <1>2, <1>4, <1>8

LEMMA StillKeeps ==
  ASSUME ChatInv, UNCHANGED vars
  PROVE  ChatInv'
<1> USE DEF ChatInv
<1>0. UNCHANGED <<records, file, used, last, queue, row, age, talk, step, msg, seen, todo,
                  saying, wiper, offered, astray, accepted, moved>>
  BY DEF vars, records, turn, history
<1>1. FlagsInv' /\ AskedInv'
  BY <1>0 DEF FlagsInv, AskedInv, Sound
<1>2. SamePut' = SamePut /\ Shows(row)' = Shows(row) /\ Answer' = Answer
  BY <1>0, ShowsStays, AnswerSame DEF SamePut, NoPut
<1>3. TurnInv'
  BY <1>0, <1>2 DEF TurnInv, Told, Calm
<1>4. RunInv'
  <2>1. \A o \in Ops : Allowed(o) => Allowed(o)'
    BY <1>0, AllowedStays
  <2>2. Told(Answer) => Told(Answer)'
    BY <1>0, <1>2 DEF Told, Calm
  <2>3. Calm(row) => Calm(row)'
    BY <1>0 DEF Calm
  <2> QED BY <1>0, <2>1, <2>2, <2>3, SamePlan
<1> QED BY <1>0, <1>1, <1>3, <1>4, RecordsKept

LEMMA ChatStarts == Init => ChatInv
<1> SUFFICES ASSUME Init
             PROVE  ChatInv
  OBVIOUS
<1> USE DEF Init
<1>1. file \in Seq(Entry) /\ Len(file) = 0 /\ Ids(file) = {}
  BY DEF Ids
<1>2. RecordsInv
  <2>1. Distinct(file)
    BY <1>1 DEF Distinct
  <2>2. last \in Memory
    BY DEF Memory, Companies
  <2> QED BY <1>1, <2>1, <2>2 DEF RecordsInv, Kept
<1>3. FlagsInv
  <2>1. age \in 0..Expiry + 1
    BY ConversationAssumption
  <2> QED BY <2>1 DEF FlagsInv
<1>4. AskedInv /\ TurnInv /\ RunInv
  BY NoRowIsCalm DEF AskedInv, TurnInv, RunInv, Told, Calm
<1> QED BY <1>2, <1>3, <1>4 DEF ChatInv

LEMMA ChatKept == ChatInv /\ [Next]_vars => ChatInv'
<1> SUFFICES ASSUME ChatInv, [Next]_vars
             PROVE  ChatInv'
  OBVIOUS
<1>1. ASSUME NEW m \in Message, Receive(m)
      PROVE  ChatInv'
  BY <1>1, ReceiveKeeps
<1>2. CASE Turn
  BY <1>2, ReadKeeps, SetPendingKeeps, ClearPendingKeeps, LogKeeps, SetContextKeeps, TouchKeeps,
     RemoveKeeps, SweepKeeps, SaveIdentityKeeps, MarkCardKeeps, DismissAllKeeps, ShowCardKeeps,
     ReplyKeeps, RaiseKeeps, DecorateKeeps DEF Turn
<1>3. CASE Wipe \/ Crash \/ Tick
  BY <1>3, WipeKeeps, CrashKeeps, TickKeeps
<1>4. ASSUME NEW a \in App,
             PhoneDelete(a) \/ PhoneEdit(a) \/ \E c \in Company : PhoneLog(a, c)
      PROVE  ChatInv'
  BY <1>4, PhoneDeleteKeeps, PhoneEditKeeps, PhoneLogKeeps
<1>5. ASSUME NEW p \in Posting, QueueChanges(p)
      PROVE  ChatInv'
  BY <1>5, QueueChangesKeeps
<1>6. CASE UNCHANGED vars
  BY <1>6, StillKeeps
<1> QED BY <1>1, <1>2, <1>3, <1>4, <1>5, <1>6 DEF Next

LEMMA ChatHolds == Spec => []ChatInv
BY ChatStarts, ChatKept, PTL DEF Spec

-----------------------------------------------------------------------------
(* The invariants. *)

LEMMA AsManyIds ==
  ASSUME NEW f \in Seq(Entry), Distinct(f)
  PROVE  Cardinality(Ids(f)) = Len(f)
<1> DEFINE n == Len(f)
           g == [i \in 1..n |-> f[i].id]
<1>1. n \in Nat /\ DOMAIN f = 1..n
  OBVIOUS
<1>2. Ids(f) = {f[i].id : i \in 1..n}
  BY <1>1 DEF Ids
<1> HIDE DEF n
<1>3. g \in [1..n -> Ids(f)] /\ \A i \in 1..n : g[i] = f[i].id
  BY <1>2
<1>4. \A i, j \in 1..n : g[i] = g[j] => i = j
  BY <1>3 DEF Distinct, n
<1>5. \A t \in Ids(f) : \E i \in 1..n : g[i] = t
  BY <1>2, <1>3
<1> HIDE DEF g
<1>6. g \in Bijection(1..n, Ids(f))
  BY <1>3, <1>4, <1>5, Fun_IsBij
<1>7. ExistsBijection(1..n, Ids(f))
  BY <1>6, Fun_ExistsBij
<1> QED BY <1>1, <1>7, FS_CountingElements DEF n

(* The chat's state keeps its shape, and no application is on file twice       *)
(* (conversation_state, chat_messages and applications).                      *)
THEOREM ConversationTyped == Spec => []TypeOK
<1>1. ChatInv => TypeOK
  <2> SUFFICES ASSUME ChatInv
               PROVE  TypeOK
    OBVIOUS
  <2> USE DEF ChatInv
  <2>1. DOMAIN file = 1..Len(file) /\ \A i \in DOMAIN file : file[i] \in Entry
    BY DEF RecordsInv, Kept
  <2>2. Cardinality(Ids(file)) = Len(file)
    BY AsManyIds DEF RecordsInv, Kept
  <2>3. row \in Row \cup {NoRow}
    BY DEF AskedInv, Sound
  <2>4. last \in [company : Company \cup {Nothing}, id : App \cup {Nothing}] /\ queue \subseteq Posting
    BY DEF RecordsInv, Kept, Memory, Companies
  <2> QED BY <2>1, <2>2, <2>3, <2>4 DEF TypeOK, RecordsInv, FlagsInv, Entry
<1> QED BY <1>1, ChatHolds, PTL

(* The phone changes screens only after the user agreed to that hop: whatever  *)
(* turns, crashes and wipes come between, a row whose hop is confirmed was     *)
(* answered yes (_continue_go and decorate).                                 *)
THEOREM HopsWereAgreed == Spec => []MovesOnlyWhenAgreed
<1>1. ChatInv => MovesOnlyWhenAgreed
  BY DEF ChatInv, AskedInv, MovesOnlyWhenAgreed
<1> QED BY <1>1, ChatHolds, PTL

(* Once the chat was cleared, between turns, no question is left waiting in an  *)
(* empty one, unless a turn was cut short (chat.clear against a running turn). *)
THEOREM ClearedIsForgotten == Spec => []ClearedMeansForgotten
<1>1. Init => Forgot
  BY DEF Init, Forgot
<1>2. Forgot /\ [Next]_vars => Forgot'
  <2> SUFFICES ASSUME Forgot, [Next]_vars
               PROVE  Forgot'
    OBVIOUS
  <2> USE DEF Forgot
  <2>1. ASSUME NEW m \in Message, Receive(m)
        PROVE  Forgot'
    BY <2>1 DEF Receive
  <2>2. CASE Turn
    <3>1. CASE Read
      BY <3>1 DEF Read
    <3>2. CASE Reply
      BY <3>2 DEF Reply
    <3>3. CASE Decorate
      <4>1. row' = NoRow \/ row' = row
        BY <3>3 DEF Decorate, Fresh
      <4> QED BY <3>3, <4>1 DEF Decorate
    <3>4. CASE SetPending \/ ClearPending \/ Log \/ SetContext \/ Touch \/ Remove \/ Sweep
                 \/ SaveIdentity \/ MarkCard \/ DismissAll \/ ShowCard
      BY <3>4 DEF SetPending, ClearPending, Log, SetContext, Touch, Remove, Sweep,
                  SaveIdentity, MarkCard, DismissAll, ShowCard, Does
    <3>5. CASE Raise
      BY <3>5 DEF Raise
    <3> QED BY <2>2, <3>1, <3>2, <3>3, <3>4, <3>5 DEF Turn
  <2>3. CASE Wipe
    BY <2>3 DEF Wipe, WipeTranscript, WipeQuestion, turn, history
  <2>4. CASE Crash
    BY <2>4 DEF Crash
  <2>5. CASE Tick
    BY <2>5 DEF Tick, turn
  <2>6. ASSUME NEW a \in App,
               PhoneDelete(a) \/ PhoneEdit(a) \/ \E c \in Company : PhoneLog(a, c)
        PROVE  Forgot'
    BY <2>6 DEF PhoneDelete, PhoneEdit, PhoneLog, Elsewhere
  <2>7. ASSUME NEW p \in Posting, QueueChanges(p)
        PROVE  Forgot'
    BY <2>7 DEF QueueChanges, Elsewhere
  <2>8. CASE UNCHANGED vars
    BY <2>8 DEF vars, turn, history
  <2> QED BY <2>1, <2>2, <2>3, <2>4, <2>5, <2>6, <2>7, <2>8 DEF Next
<1>3. Forgot => ClearedMeansForgotten
  BY DEF Forgot, ClearedMeansForgotten
<1> QED BY <1>1, <1>2, <1>3, PTL DEF Spec

-----------------------------------------------------------------------------
(* What a turn takes, and logs. *)

(* How a step of a running turn may change the file. *)
LEMMA FileSteps ==
  ASSUME ChatInv, [Next]_vars, step = "run"
  PROVE  \/ file' = file \/ Log \/ Touch \/ Remove \/ Sweep
<1> USE DEF records
<1>1. \A m \in Message : ~Receive(m)
  BY DEF Receive
<1>2. \A a \in App : ~PhoneDelete(a) /\ ~PhoneEdit(a) /\ \A c \in Company : ~PhoneLog(a, c)
  BY DEF PhoneDelete, PhoneEdit, PhoneLog
<1>3. CASE Turn
  <2>1. CASE Read \/ SetPending \/ ClearPending \/ SaveIdentity \/ ShowCard \/ Reply \/ Raise \/ Decorate
    BY <2>1 DEF Read, SetPending, ClearPending, SaveIdentity, ShowCard, Reply, Raise, Decorate
  <2>2. CASE SetContext \/ MarkCard \/ DismissAll
    BY <2>2 DEF SetContext, MarkCard, DismissAll
  <2> QED BY <1>3, <2>1, <2>2 DEF Turn
<1>4. CASE Wipe \/ Crash \/ Tick \/ UNCHANGED vars \/ \E p \in Posting : QueueChanges(p)
  BY <1>4 DEF Wipe, WipeTranscript, WipeQuestion, Crash, Tick, QueueChanges, vars
<1> QED BY <1>1, <1>2, <1>3, <1>4 DEF Next

LEMMA OneRowEach ==
  ASSUME RecordsInv, NEW x \in Rows(file)
  PROVE  Application(x.id) = x
<1>1. DOMAIN file = 1..Len(file)
  BY DEF RecordsInv, Kept
<1>2. PICK i \in 1..Len(file) : file[i] = x
  BY DEF Rows
<1>3. \A j \in DOMAIN file : file[j].id = x.id => j = i
  BY <1>1, <1>2 DEF RecordsInv, Distinct
<1> QED BY <1>1, <1>2, <1>3 DEF Application

LEMMA ClosedAre ==
  ASSUME ChatInv, file' \in Seq(Entry),
         \A x \in Rows(file') : x \in Rows(file) \/ x.id \notin Ids(file)
  PROVE  Closed = {}
<1> SUFFICES ASSUME NEW a \in Closed
             PROVE  FALSE
  OBVIOUS
<1>1. DOMAIN file' = 1..Len(file')
  OBVIOUS
<1>2. PICK i \in 1..Len(file') : file'[i].id = a /\ ~file'[i].open
  BY <1>1 DEF Closed
<1>3. PICK x : x = file'[i]
  OBVIOUS
<1>4. x \in Rows(file') /\ x.id = a /\ ~x.open
  BY <1>2, <1>3 DEF Rows
<1>5. a \in Ids(file) /\ Application(a).open
  BY DEF Closed
<1>6. x \in Rows(file)
  BY <1>4, <1>5
<1>7. Application(a) = x
  BY <1>4, <1>6, OneRowEach DEF ChatInv
<1> QED BY <1>4, <1>5, <1>7

LEMMA LogRows ==
  ASSUME ChatInv, Log
  PROVE  /\ file' \in Seq(Entry) /\ Ids(file) \subseteq Ids(file')
         /\ \A x \in Rows(file') : x \in Rows(file) \/ x.id \notin Ids(file)
<1>0. step = "run" /\ todo # <<>> /\ Head(todo).op = "log"
  BY DEF Log, Does
<1>1. PICK a \in App \ used : file' = <<[id |-> a, company |-> On, open |-> TRUE]>> \o file
  BY DEF Log
<1>2. On \in Company
  BY <1>0, FirstOfPlan DEF Allowed, On, ChatInv
<1> DEFINE e == [id |-> a, company |-> On, open |-> TRUE]
<1>3. e \in Entry /\ e.id = a /\ a \notin Ids(file)
  BY <1>2 DEF Entry, RecordsInv, ChatInv
<1> HIDE DEF e
<1>4. /\ file' \in Seq(Entry) /\ Ids(file') = {a} \cup Ids(file)
      /\ Rows(file') = {e} \cup Rows(file)
  BY <1>1, <1>3, InFront DEF RecordsInv, Kept, ChatInv, e
<1> QED BY <1>3, <1>4

TakenShown ==
  step = "run" =>
    /\ Deleted # {} => Agreed("DELETE", Deleted)
    /\ Closed # {} => Agreed("BULK", Closed)

(* Chat deletes an application, or closes applications in bulk, only on a yes   *)
(* to a question that showed the user exactly those (_advance_delete and       *)
(* _advance_bulk look again after the yes).                                  *)
THEOREM TakenWasShown == Spec => TakesWhatWasShown
<1>1. ChatInv /\ [Next]_vars => TakenShown
  <2> SUFFICES ASSUME ChatInv, [Next]_vars, step = "run"
               PROVE  /\ Deleted # {} => Agreed("DELETE", Deleted)
                      /\ Closed # {} => Agreed("BULK", Closed)
    BY DEF TakenShown
  <2>0. /\ RecordsInv /\ RunInv /\ file \in Seq(Entry) /\ Distinct(file)
        /\ DOMAIN file = 1..Len(file)
    BY DEF ChatInv, RecordsInv, Kept
  <2>1. CASE file' = file
    <3>1. Deleted = {}
      BY <2>1 DEF Deleted, Ids
    <3>2. Closed = {}
      BY <2>0, <2>1, ClosedAre DEF Rows
    <3> QED BY <3>1, <3>2
  <2>2. CASE Log
    BY <2>2, LogRows, ClosedAre DEF Deleted
  <2>3. CASE Touch
    <3>1. /\ step = "run" /\ todo # <<>> /\ Head(todo).op = "change"
          /\ file' = <<Application(On)>> \o Without(On)
      BY <2>3 DEF Touch, Does
    <3>2. OnFile(On)
      BY <2>0, <3>1, FirstOfPlan DEF Allowed, On
    <3>3. /\ file' \in Seq(Entry) /\ Rows(file') = Rows(file) /\ Ids(file') = Ids(file)
      BY <2>0, <3>1, <3>2, TouchIds
    <3> QED BY <3>3, ClosedAre DEF Deleted
  <2>4. CASE Remove
    <3>1. /\ step = "run" /\ todo # <<>> /\ Head(todo).op = "remove" /\ file' = Without(On)
      BY <2>4 DEF Remove, Does
    <3>2. OnFile(On) /\ Agreed("DELETE", {On})
      BY <2>0, <3>1, FirstOfPlan DEF Allowed, On
    <3>3. /\ file' \in Seq(Entry) /\ Rows(file') = {x \in Rows(file) : x.id # On}
          /\ Ids(file') = Ids(file) \ {On}
      BY <2>0, <3>1, <3>2, TakenOut
    <3>4. On \in Ids(file)
      BY <2>0, <3>2 DEF OnFile, Ids
    <3>5. Deleted = {On}
      BY <3>3, <3>4 DEF Deleted
    <3>6. Closed = {}
      BY <3>3, ClosedAre
    <3> QED BY <3>2, <3>5, <3>6
  <2>5. CASE Sweep
    <3>1. /\ step = "run" /\ todo # <<>> /\ Head(todo).op = "sweep"
          /\ file' = [i \in DOMAIN file |-> [file[i] EXCEPT !.open = FALSE]]
      BY <2>5 DEF Sweep, Does
    <3>2. Agreed("BULK", OpenOnes)
      BY <2>0, <3>1, FirstOfPlan DEF Allowed
    <3>3. Ids(file') = Ids(file)
      BY <2>0, <3>1, SweptIds
    <3>4. Closed = OpenOnes
      <4>1. ASSUME NEW a \in Closed
            PROVE  a \in OpenOnes
        <5>1. a \in Ids(file) /\ Application(a).open
          BY DEF Closed
        <5>2. PICK x \in Rows(file) : x.id = a
          BY <2>0, <5>1 DEF Ids, Rows
        <5>3. x.open
          BY <2>0, <5>1, <5>2, OneRowEach
        <5> QED BY <2>0, <5>2, <5>3 DEF OpenOnes, Rows
      <4>2. ASSUME NEW a \in OpenOnes
            PROVE  a \in Closed
        <5>1. PICK i \in DOMAIN file : file[i].open /\ file[i].id = a
          BY DEF OpenOnes
        <5>2. a \in Ids(file) /\ file[i] \in Rows(file) /\ file[i] \in Entry
          BY <2>0, <5>1 DEF Ids, Rows
        <5>3. PICK x : x = file[i]
          OBVIOUS
        <5>4. Application(a).open
          BY <2>0, <5>1, <5>2, <5>3, OneRowEach
        <5>5. i \in DOMAIN file' /\ file'[i] = [x EXCEPT !.open = FALSE]
          BY <3>1, <5>1, <5>3
        <5>6. file'[i].id = a /\ ~file'[i].open
          BY <5>1, <5>2, <5>3, <5>5 DEF Entry
        <5> QED BY <3>3, <5>2, <5>4, <5>5, <5>6 DEF Closed
      <4> QED BY <4>1, <4>2
    <3> QED BY <3>2, <3>3, <3>4 DEF Deleted
  <2> QED BY <2>1, <2>2, <2>3, <2>4, <2>5, FileSteps
<1> QED BY <1>1, ChatHolds, PTL DEF Spec, TakesWhatWasShown, TakenShown

DuplicateTold ==
  step = "run" /\ Logged # {} /\ Named(On) # {} =>
    Agreed("APPLY", {file[i].id : i \in Named(On)})

(* Chat logs a second application at a company only on a yes to a question      *)
(* that said there is one (_advance_apply).                                  *)
THEOREM DuplicatesWereTold == Spec => DuplicateOnlyWhenTold
<1>1. ChatInv /\ [Next]_vars => DuplicateTold
  <2> SUFFICES ASSUME ChatInv, [Next]_vars, step = "run", Logged # {}, Named(On) # {}
               PROVE  Agreed("APPLY", {file[i].id : i \in Named(On)})
    BY DEF DuplicateTold
  <2>0. /\ RecordsInv /\ RunInv /\ file \in Seq(Entry) /\ Distinct(file)
    BY DEF ChatInv, RecordsInv, Kept
  <2>1. CASE file' = file
    BY <2>1 DEF Logged, Ids
  <2>2. CASE Log
    <3>1. step = "run" /\ todo # <<>> /\ Head(todo).op = "log"
      BY <2>2 DEF Log, Does
    <3>2. Agreed("APPLY", NamedIds(On))
      BY <2>0, <3>1, FirstOfPlan DEF Allowed, On
    <3> QED BY <3>2 DEF NamedIds
  <2>3. CASE Touch
    <3>1. /\ step = "run" /\ todo # <<>> /\ Head(todo).op = "change"
          /\ file' = <<Application(On)>> \o Without(On)
      BY <2>3 DEF Touch, Does
    <3>2. OnFile(On)
      BY <2>0, <3>1, FirstOfPlan DEF Allowed, On
    <3>3. Ids(file') = Ids(file)
      BY <2>0, <3>1, <3>2, TouchIds
    <3> QED BY <3>3 DEF Logged
  <2>4. CASE Remove
    <3>1. /\ step = "run" /\ todo # <<>> /\ Head(todo).op = "remove" /\ file' = Without(On)
      BY <2>4 DEF Remove, Does
    <3>2. OnFile(On)
      BY <2>0, <3>1, FirstOfPlan DEF Allowed, On
    <3>3. Ids(file') = Ids(file) \ {On}
      BY <2>0, <3>1, <3>2, TakenOut
    <3> QED BY <3>3 DEF Logged
  <2>5. CASE Sweep
    <3>1. file' = [i \in DOMAIN file |-> [file[i] EXCEPT !.open = FALSE]]
      BY <2>5 DEF Sweep
    <3>2. Ids(file') = Ids(file)
      BY <2>0, <3>1, SweptIds
    <3> QED BY <3>2 DEF Logged
  <2> QED BY <2>1, <2>2, <2>3, <2>4, <2>5, FileSteps
<1> QED BY <1>1, ChatHolds, PTL DEF Spec, DuplicateOnlyWhenTold, DuplicateTold

CardTaken ==
  step = "run" /\ todo' # todo /\ queue' # queue =>
    \/ "dismiss_all" \in msg.text.says
    \/ /\ queue \ queue' \subseteq offered.on \/ astray
       /\ msg.meant.intent = "APPLY_JOB" => queue \ queue' = {msg.meant.name}

(* A review takes the card the user saw, or what "apply 12" names, or all of    *)
(* the queue when told to, though which card was shown is not stored           *)
(* (continue_review).                                                       *)
THEOREM CardTakenHadBeenShown == Spec => CardTakenWasShown
<1>1. ChatInv /\ [Next]_vars => CardTaken
  <2> SUFFICES ASSUME ChatInv, [Next]_vars, step = "run", todo' # todo, queue' # queue
               PROVE  \/ "dismiss_all" \in msg.text.says
                      \/ /\ queue \ queue' \subseteq offered.on \/ astray
                         /\ msg.meant.intent = "APPLY_JOB" => queue \ queue' = {msg.meant.name}
    BY DEF CardTaken
  <2>1. MarkCard \/ DismissAll
    <3>1. \A m \in Message : ~Receive(m)
      BY DEF Receive
    <3>2. \A a \in App : ~PhoneDelete(a) /\ ~PhoneEdit(a) /\ \A c \in Company : ~PhoneLog(a, c)
      BY DEF PhoneDelete, PhoneEdit, PhoneLog
    <3>3. ~Wipe /\ ~Tick /\ ~Crash /\ ~UNCHANGED vars
      BY DEF Wipe, WipeTranscript, WipeQuestion, Tick, Crash, records, vars
    <3>4. \A p \in Posting : ~QueueChanges(p)
      BY DEF QueueChanges, Elsewhere, turn
    <3>5. ~(Read \/ SetPending \/ ClearPending \/ SaveIdentity \/ ShowCard \/ Reply \/ Raise \/ Decorate)
      BY DEF Read, SetPending, ClearPending, SaveIdentity, ShowCard, Reply, Raise, Decorate, records
    <3>6. ~(Log \/ SetContext \/ Touch \/ Remove \/ Sweep)
      BY DEF Log, SetContext, Touch, Remove, Sweep
    <3> QED BY <3>1, <3>2, <3>3, <3>4, <3>5, <3>6 DEF Next, Turn
  <2>2. RunInv
    BY DEF ChatInv
  <2>3. CASE MarkCard
    <3>1. todo # <<>> /\ Head(todo).op = "mark" /\ queue' = queue \ {On}
      BY <2>3 DEF MarkCard, Does
    <3>2. /\ On \in offered.on \/ astray
          /\ msg.meant.intent = "APPLY_JOB" => On = msg.meant.name
      BY <2>2, <3>1, FirstOfPlan DEF Allowed, On
    <3>3. queue \ queue' = {On}
      BY <3>1
    <3> QED BY <3>2, <3>3
  <2>4. CASE DismissAll
    <3>1. todo # <<>> /\ Head(todo).op = "dismiss_all"
      BY <2>4 DEF DismissAll, Does
    <3> QED BY <2>2, <3>1, FirstOfPlan DEF Allowed
  <2> QED BY <2>1, <2>3, <2>4
<1> QED BY <1>1, ChatHolds, PTL DEF Spec, CardTakenWasShown, CardTaken
=============================================================================
