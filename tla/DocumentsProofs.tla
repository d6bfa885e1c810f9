-------------------------- MODULE DocumentsProofs --------------------------
(***************************************************************************)
(* For any number of threads, any caps and any features, the daily cap and    *)
(* each slice are overshot by fewer calls than there are threads.  For any     *)
(* postings, handlers, download threads and callers of the model, documents   *)
(* spend the day's calls as LlmBudget says and so overshoot the cap no        *)
(* further, every document served is of its kind and of its job, a torn     *)
(* one is served only over a whole one, and an answer the user wrote is not    *)
(* lost to a handler that had read the list before.                          *)
(*                                                                         *)
(* An entry is reached only through its row, which names a posting whose       *)
(* text the entry was made for; the row is written after the file is whole,    *)
(* and a file stays whole until it is overwritten.  Handlers that write        *)
(* answers hold the loop from the read of the list to its write.              *)
(***************************************************************************)
EXTENDS Documents, FiniteSetTheorems, TLAPS

-----------------------------------------------------------------------------
(***************************************************************************)
(* LlmBudget by itself.  A thread past a count holds a claim on one row.  Rows *)
(* and claims together never exceed what they were when the last claim was    *)
(* made: at most Cap - 1 rows, and a claim for every thread.                  *)
(***************************************************************************)

(* The threads that have passed the first count, and those that have passed   *)
(* the count of feature f.                                                  *)
Counted == {c \in Caller : cpc[c] # "idle"}
CountedFor(f) == {c \in Caller : cpc[c] = "insert" /\ asking[c] = f}

AskingInv == \A c \in Caller : cpc[c] # "idle" => asking[c] \in Feature

Claims ==
  /\ Cap > 0 => calls + Cardinality(Counted) < Cap + Cardinality(Caller)
  /\ \A f \in Feature : SliceCap[f] > 0 =>
       slice[f] + Cardinality(CountedFor(f)) < SliceCap[f] + Cardinality(Caller)

BudgetInv == TypeOK /\ AskingInv /\ Claims

(* A set of threads has no more members than there are threads. *)
LEMMA FewerThanCallers ==
  ASSUME NEW S, S \subseteq Caller
  PROVE  /\ Cardinality(S) \in Nat
         /\ Cardinality(Caller) \in Nat
         /\ Cardinality(S) <= Cardinality(Caller)
<1>1. IsFiniteSet(S) /\ Cardinality(S) <= Cardinality(Caller)
  BY FS_Subset, BudgetAssumption
<1> QED BY <1>1, FS_CardinalityType, BudgetAssumption

(* A thread that gives up its claim takes one from the count. *)
LEMMA OneFewer ==
  ASSUME NEW S, S \subseteq Caller, NEW c \in S
  PROVE  Cardinality(S \ {c}) = Cardinality(S) - 1
<1>1. IsFiniteSet(S)
  BY FS_Subset, BudgetAssumption
<1> QED BY <1>1, FS_RemoveElement

(* Fewer claims are no more of them. *)
LEMMA NoMoreClaims ==
  ASSUME NEW S, NEW T, S \subseteq T, T \subseteq Caller
  PROVE  Cardinality(S) <= Cardinality(T)
<1>1. IsFiniteSet(T)
  BY FS_Subset, BudgetAssumption
<1> QED BY <1>1, FS_Subset

LEMMA BudgetInitial == Init => BudgetInv
<1> SUFFICES ASSUME Init PROVE BudgetInv
  OBVIOUS
<1>1. TypeOK /\ AskingInv
  BY BudgetAssumption DEF Init, TypeOK, AskingInv
<1>2. Counted = {} /\ \A f \in Feature : CountedFor(f) = {}
  BY DEF Init, Counted, CountedFor
<1>3. IsFiniteSet({}) /\ Cardinality({}) = 0
  BY FS_EmptySet
<1>4. Cardinality(Caller) \in Nat
  BY FewerThanCallers
<1>5. Cardinality(Counted) = 0 /\ \A f \in Feature : Cardinality(CountedFor(f)) = 0
  BY <1>2, <1>3
<1>6. calls = 0 /\ \A f \in Feature : slice[f] = 0 /\ SliceCap[f] \in Nat
  BY BudgetAssumption DEF Init
<1>7. Claims
  BY <1>4, <1>5, <1>6, BudgetAssumption DEF Claims
<1> QED BY <1>1, <1>7 DEF BudgetInv

-----------------------------------------------------------------------------
(* An action that neither adds rows nor lets a thread past a count.          *)
LEMMA NoNewClaim ==
  ASSUME BudgetInv, calls' = calls, slice' = slice,
         Counted' \subseteq Counted,
         \A f \in Feature : CountedFor(f)' \subseteq CountedFor(f)
  PROVE  Claims'
<1>1. Counted \subseteq Caller /\ \A f \in Feature : CountedFor(f) \subseteq Caller
  BY DEF Counted, CountedFor
<1>2. Counted' \subseteq Caller /\ \A f \in Feature : CountedFor(f)' \subseteq Caller
  BY <1>1
<1>3. /\ Cardinality(Counted') <= Cardinality(Counted)
      /\ Cardinality(Counted') \in Nat /\ Cardinality(Counted) \in Nat
  BY <1>1, <1>2, NoMoreClaims, FewerThanCallers
<1>4. ASSUME NEW f \in Feature
      PROVE  /\ Cardinality(CountedFor(f)') <= Cardinality(CountedFor(f))
             /\ Cardinality(CountedFor(f)') \in Nat
             /\ Cardinality(CountedFor(f)) \in Nat
  BY <1>1, <1>2, NoMoreClaims, FewerThanCallers
<1>5. Cardinality(Caller) \in Nat
  BY FewerThanCallers
<1>6. Cap > 0 => calls' + Cardinality(Counted') < Cap + Cardinality(Caller)
  BY <1>3, <1>5, BudgetAssumption DEF BudgetInv, TypeOK, Claims
<1>7. ASSUME NEW f \in Feature, SliceCap[f] > 0
      PROVE  slice'[f] + Cardinality(CountedFor(f)') < SliceCap[f] + Cardinality(Caller)
  <2>1. slice[f] \in Nat /\ SliceCap[f] \in Nat
    BY BudgetAssumption DEF BudgetInv, TypeOK
  <2>2. slice[f] + Cardinality(CountedFor(f)) < SliceCap[f] + Cardinality(Caller)
    BY <1>7 DEF BudgetInv, Claims
  <2> QED BY <1>4, <1>5, <2>1, <2>2
<1> QED BY <1>6, <1>7 DEF Claims
LEMMA BudgetStep == BudgetInv /\ [Next]_budgetVars => BudgetInv'
<1> SUFFICES ASSUME BudgetInv, [Next]_budgetVars PROVE BudgetInv'
  OBVIOUS
<1>n. Cardinality(Caller) \in Nat
  BY FewerThanCallers
<1>1. ASSUME NEW c \in Caller, NEW g \in Feature, CountAll(c, g) PROVE BudgetInv'
  <2>1. TypeOK' /\ AskingInv'
    BY <1>1 DEF BudgetInv, TypeOK, AskingInv, CountAll
  <2>2. Cap > 0 => calls < Cap
    BY <1>1 DEF CountAll, RoomUnder
  <2>3. Counted' \subseteq Caller
    BY DEF Counted
  <2>4. Cardinality(Counted') \in Nat /\ Cardinality(Counted') <= Cardinality(Caller)
    BY <2>3, FewerThanCallers
  <2>5. Cap > 0 => calls' + Cardinality(Counted') < Cap + Cardinality(Caller)
    BY <1>1, <1>n, <2>2, <2>4, BudgetAssumption DEF BudgetInv, TypeOK, CountAll
  <2>6. \A f \in Feature : CountedFor(f)' = CountedFor(f)
    BY <1>1 DEF CountAll, CountedFor, BudgetInv, TypeOK
  <2>7. \A f \in Feature : Cardinality(CountedFor(f)') = Cardinality(CountedFor(f))
    BY <2>6
  <2>8. \A f \in Feature : SliceCap[f] > 0 =>
          slice'[f] + Cardinality(CountedFor(f)') < SliceCap[f] + Cardinality(Caller)
    BY <1>1, <2>7 DEF BudgetInv, Claims, CountAll
  <2> QED BY <2>1, <2>5, <2>8 DEF BudgetInv, Claims
<1>2. ASSUME NEW c \in Caller, CountSlice(c) PROVE BudgetInv'
  <2> DEFINE g == asking[c]
  <2>1. TypeOK' /\ AskingInv'
    BY <1>2 DEF BudgetInv, TypeOK, AskingInv, CountSlice
  <2>2. g \in Feature
    BY <1>2 DEF BudgetInv, AskingInv, CountSlice
  <2>3. SliceCap[g] > 0 => slice[g] < SliceCap[g]
    BY <1>2 DEF CountSlice, RoomUnder
  <2>4. Counted' = Counted
    BY <1>2 DEF CountSlice, Counted, BudgetInv, TypeOK
  <2>5. Cardinality(Counted') = Cardinality(Counted)
    BY <2>4
  <2>6. Cap > 0 => calls' + Cardinality(Counted') < Cap + Cardinality(Caller)
    BY <1>2, <2>5 DEF BudgetInv, Claims, CountSlice
  <2>7. ASSUME NEW f \in Feature, SliceCap[f] > 0
        PROVE  slice'[f] + Cardinality(CountedFor(f)') < SliceCap[f] + Cardinality(Caller)
    <3>1. CASE f = g
      <4>1. CountedFor(f)' \subseteq Caller
        BY DEF CountedFor
      <4>2. /\ Cardinality(CountedFor(f)') \in Nat
            /\ Cardinality(CountedFor(f)') <= Cardinality(Caller)
        BY <4>1, FewerThanCallers
      <4>3. slice'[f] = slice[f] /\ slice[f] \in Nat /\ SliceCap[f] \in Nat
        BY <1>2, BudgetAssumption DEF CountSlice, BudgetInv, TypeOK
      <4>4. slice[f] < SliceCap[f]
        BY <2>3, <2>7, <3>1
      <4> QED BY <1>n, <4>2, <4>3, <4>4
    <3>2. CASE f # g
      <4>1. CountedFor(f)' = CountedFor(f)
        BY <1>2, <3>2 DEF CountSlice, CountedFor, BudgetInv, TypeOK
      <4>2. Cardinality(CountedFor(f)') = Cardinality(CountedFor(f))
        BY <4>1
      <4> QED BY <1>2, <2>7, <4>2 DEF BudgetInv, Claims, CountSlice
    <3> QED BY <3>1, <3>2
  <2> QED BY <2>1, <2>6, <2>7 DEF BudgetInv, Claims
<1>3. ASSUME NEW c \in Caller, SliceSpent(c) \/ CallerFails(c) \/ ProcessDies PROVE BudgetInv'
  <2>1. TypeOK' /\ AskingInv' /\ calls' = calls /\ slice' = slice
    BY <1>3 DEF BudgetInv, TypeOK, AskingInv, SliceSpent, CallerFails, ProcessDies
  <2>2. Counted' \subseteq Counted /\ \A f \in Feature : CountedFor(f)' \subseteq CountedFor(f)
    BY <1>3 DEF BudgetInv, TypeOK, SliceSpent, CallerFails, ProcessDies, Counted, CountedFor
  <2>3. Claims'
    BY <2>1, <2>2, NoNewClaim
  <2> QED BY <2>1, <2>3 DEF BudgetInv
<1>4. ASSUME NEW c \in Caller, Charge(c) PROVE BudgetInv'
  <2> DEFINE g == asking[c]
  <2>1. TypeOK' /\ AskingInv'
    BY <1>4 DEF BudgetInv, TypeOK, AskingInv, Charge
  <2>2. g \in Feature
    BY <1>4 DEF BudgetInv, AskingInv, Charge
  <2>3. Counted' = Counted \ {c} /\ c \in Counted /\ Counted \subseteq Caller
    BY <1>4 DEF Charge, Counted, BudgetInv, TypeOK
  <2>4. /\ Cardinality(Counted') = Cardinality(Counted) - 1
        /\ Cardinality(Counted) \in Nat
    BY <2>3, OneFewer, FewerThanCallers
  <2>5. Cap > 0 => calls' + Cardinality(Counted') < Cap + Cardinality(Caller)
    BY <1>4, <1>n, <2>4, BudgetAssumption DEF BudgetInv, TypeOK, Claims, Charge
  <2>6. ASSUME NEW f \in Feature, SliceCap[f] > 0
        PROVE  slice'[f] + Cardinality(CountedFor(f)') < SliceCap[f] + Cardinality(Caller)
    <3>0. slice[f] \in Nat /\ SliceCap[f] \in Nat
      BY BudgetAssumption DEF BudgetInv, TypeOK
    <3>1. CASE f = g
      <4>1. /\ CountedFor(f)' = CountedFor(f) \ {c}
            /\ c \in CountedFor(f) /\ CountedFor(f) \subseteq Caller
        BY <1>4, <3>1 DEF Charge, CountedFor, BudgetInv, TypeOK
      <4>2. /\ Cardinality(CountedFor(f)') = Cardinality(CountedFor(f)) - 1
            /\ Cardinality(CountedFor(f)) \in Nat
        BY <4>1, OneFewer, FewerThanCallers
      <4>3. slice'[f] = slice[f] + 1
        BY <1>4, <3>1 DEF Charge, BudgetInv, TypeOK
      <4>4. slice[f] + Cardinality(CountedFor(f)) < SliceCap[f] + Cardinality(Caller)
        BY <2>6 DEF BudgetInv, Claims
      <4> QED BY <1>n, <3>0, <4>2, <4>3, <4>4
    <3>2. CASE f # g
      <4>1. CountedFor(f)' = CountedFor(f) /\ slice'[f] = slice[f]
        BY <1>4, <2>2, <3>2 DEF Charge, CountedFor, BudgetInv, TypeOK
      <4>2. Cardinality(CountedFor(f)') = Cardinality(CountedFor(f))
        BY <4>1
      <4> QED BY <2>6, <4>1, <4>2 DEF BudgetInv, Claims
    <3> QED BY <3>1, <3>2
  <2> QED BY <2>1, <2>5, <2>6 DEF BudgetInv, Claims
<1>5. ASSUME NewDay PROVE BudgetInv'
  <2>1. TypeOK' /\ AskingInv'
    BY <1>5 DEF BudgetInv, TypeOK, AskingInv, NewDay
  <2>2. Counted' \subseteq Caller /\ \A f \in Feature : CountedFor(f)' \subseteq Caller
    BY DEF Counted, CountedFor
  <2>3. Cardinality(Counted') \in Nat /\ Cardinality(Counted') <= Cardinality(Caller)
    BY <2>2, FewerThanCallers
  <2>4. \A f \in Feature : /\ Cardinality(CountedFor(f)') \in Nat
                            /\ Cardinality(CountedFor(f)') <= Cardinality(Caller)
    BY <2>2, FewerThanCallers
  <2>5. calls' = 0 /\ \A f \in Feature : slice'[f] = 0 /\ SliceCap[f] \in Nat
    BY <1>5, BudgetAssumption DEF NewDay
  <2>6. Claims'
    BY <1>n, <2>3, <2>4, <2>5, BudgetAssumption DEF Claims
  <2> QED BY <2>1, <2>6 DEF BudgetInv
<1>6. CASE UNCHANGED budgetVars
  <2>1. TypeOK' /\ AskingInv' /\ calls' = calls /\ slice' = slice
    BY <1>6 DEF BudgetInv, TypeOK, AskingInv, budgetVars
  <2>2. Counted' \subseteq Counted /\ \A f \in Feature : CountedFor(f)' \subseteq CountedFor(f)
    BY <1>6 DEF budgetVars, Counted, CountedFor
  <2> QED BY <2>1, <2>2, NoNewClaim DEF BudgetInv
<1>7. ASSUME ProcessDies PROVE BudgetInv'
  <2>1. PICK c \in Caller : cpc[c] # "idle"
    BY <1>7 DEF ProcessDies
  <2> QED BY <1>3, <1>7, <2>1
<1> QED BY <1>1, <1>2, <1>3, <1>4, <1>5, <1>6, <1>7 DEF Next

LEMMA BudgetAlways == Spec => []BudgetInv
BY BudgetInitial, BudgetStep, PTL DEF Spec

(* However many threads race through consume, and whenever midnight or a     *)
(* failure falls, the day's paid calls pass the cap by fewer than there are  *)
(* threads.                                                                 *)
THEOREM CapHeldToThreads == Spec => []CapOvershootBounded
<1>1. BudgetInv => CapOvershootBounded
  <2> SUFFICES ASSUME BudgetInv, Cap > 0 PROVE calls < Cap + Cardinality(Caller)
    BY DEF CapOvershootBounded
  <2>1. Counted \subseteq Caller
    BY DEF Counted
  <2>2. Cardinality(Counted) \in Nat /\ Cardinality(Caller) \in Nat
    BY <2>1, FewerThanCallers
  <2> QED BY <2>2, BudgetAssumption DEF BudgetInv, Claims, TypeOK
<1> QED BY <1>1, BudgetAlways, PTL

(* The same of every feature's slice. *)
THEOREM SliceHeldToThreads == Spec => []SliceOvershootBounded
<1>1. BudgetInv => SliceOvershootBounded
  <2> SUFFICES ASSUME BudgetInv, NEW f \in Feature, SliceCap[f] > 0
               PROVE  slice[f] < SliceCap[f] + Cardinality(Caller)
    BY DEF SliceOvershootBounded
  <2>1. CountedFor(f) \subseteq Caller
    BY DEF CountedFor
  <2>2. Cardinality(CountedFor(f)) \in Nat /\ Cardinality(Caller) \in Nat
    BY <2>1, FewerThanCallers
  <2>3. slice[f] \in Nat /\ SliceCap[f] \in Nat
    BY BudgetAssumption DEF BudgetInv, TypeOK
  <2>4. slice[f] + Cardinality(CountedFor(f)) < SliceCap[f] + Cardinality(Caller)
    BY DEF BudgetInv, Claims
  <2> QED BY <2>2, <2>3, <2>4
<1> QED BY <1>1, BudgetAlways, PTL

-----------------------------------------------------------------------------
(* Documents spend as LlmBudget says. *)

LEMMA ThreadsCall == \A w \in Worker : Thread(w) \in Caller
  BY DocumentsAssumption DEF Worker, Thread

LEMMA AskedIsConsume ==
  ASSUME NEW w \in Worker, Asked(w)
  PROVE  [Next]_budgetVars
<1>1. CASE Charge(Thread(w)) \/ SliceSpent(Thread(w))
  BY <1>1, ThreadsCall DEF Next
<1>2. CASE UNCHANGED budgetVars
  BY <1>2
<1> QED BY <1>1, <1>2 DEF Asked

LEMMA StepSpends ==
  ASSUME NEW w \in Worker, Step(w)
  PROVE  [Next]_budgetVars
<1>1. CASE Ask(w)
  BY <1>1, ThreadsCall, DocumentsAssumption DEF Ask, Next
<1>2. CASE EditResume(w) \/ DraftLetter(w)
  BY <1>2, AskedIsConsume DEF EditResume, DraftLetter
<1>3. CASE \/ Find(w) \/ CountPages(w) \/ ReadPdf(w) \/ Compile(w)
           \/ Truncate(w) \/ Fill(w) \/ WriteTex(w) \/ Index(w) \/ BuildFails(w)
  BY <1>3 DEF Find, CountPages, ReadPdf, Compile, Truncate, Fill, WriteTex, Index, BuildFails
<1> QED BY <1>1, <1>2, <1>3 DEF Step

LEMMA HandlerSpends == Handler => [Next]_budgetVars
<1> SUFFICES ASSUME NEW h \in LoopHandler,
                    \/ \E p \in Posting :
                         \/ AnswerLive(h, p)
                         \/ \E task \in {"package", "save", "redraft"}, q \in Question :
                              Open(h, task, p, q)
                    \/ DraftQuestions(h) \/ LiveAnswer(h) \/ SaveAnswer(h)
                    \/ StartRedraft(h) \/ Redraft(h)
                    \/ EnsureResume(h) \/ RecordResume(h)
             PROVE  [Next]_budgetVars
  BY DEF Handler
<1>1. CASE DraftQuestions(h) \/ LiveAnswer(h) \/ Redraft(h)
  BY <1>1, AskedIsConsume DEF DraftQuestions, LiveAnswer, Redraft, Worker
<1>2. CASE \/ \E p \in Posting :
                \/ AnswerLive(h, p)
                \/ \E task \in {"package", "save", "redraft"}, q \in Question :
                     Open(h, task, p, q)
           \/ SaveAnswer(h) \/ StartRedraft(h) \/ EnsureResume(h) \/ RecordResume(h)
  BY <1>2 DEF AnswerLive, Open, SaveAnswer, StartRedraft, EnsureResume, RecordResume
<1> QED BY <1>1, <1>2

(* Documents implement the budget: each step of theirs is a step of consume,   *)
(* or none of its business.                                                 *)
THEOREM DocumentsSpend == DocSpec => Spec
<1>1. DocInit => Init
  BY DEF DocInit
<1>2. [DocNext]_docVars => [Next]_budgetVars
  <2> SUFFICES ASSUME [DocNext]_docVars PROVE [Next]_budgetVars
    OBVIOUS
  <2>1. CASE \E p \in Posting : Stage(p) \/ RemoveItem(p)
    BY <2>1 DEF Stage, RemoveItem
  <2>2. CASE Downloading
    BY <2>2 DEF Downloading, Download, Answered
  <2>3. CASE \E w \in Worker : Step(w)
    BY <2>3, StepSpends
  <2>4. CASE Elsewhere
    BY <2>4 DEF Elsewhere, OtherCaller, Next
  <2>5. CASE NewDay \/ Restart
    BY <2>5 DEF Restart, Next
  <2>6. CASE UNCHANGED docVars
    BY <2>6 DEF docVars
  <2> QED BY <2>1, <2>2, <2>3, <2>4, <2>5, <2>6, HandlerSpends DEF DocNext
<1> QED BY <1>1, <1>2, PTL DEF DocSpec, Spec

(* However documents, chat and downloads race for the day's calls, the cap is  *)
(* passed by fewer calls than there are threads.                             *)
THEOREM DocumentsWithinCap == DocSpec => []CapOvershootBounded
  BY DocumentsSpend, CapHeldToThreads, PTL

-----------------------------------------------------------------------------
(* Where a handler can be, and what it carries. *)

Steps == {"idle", "draft", "answers", "live", "redraft", "find", "edit", "compile",
          "truncate", "fill", "tex", "index", "count", "read", "return"}
Tasks == {"none", "package", "save", "redraft", "answer", "download"}
Kinds == {"resume", "cover"}
Variants == {"swe", "aiml", "cover"}
Questions == Question \cup {0}
Postings == Posting \cup {NoPosting}
Entries == {<<>>} \cup {<<k>> : k \in Key}
Gots == {Nothing, Reference} \cup Content

JobRecord ==
  [at : Steps, task : Tasks, kind : Kinds, posting : Postings, question : Questions,
   held : AnswerLists, entry : Entries, got : Gots]

QueueRow ==
  [staged : BOOLEAN, resume : {"unset", "none", "built"}, answers : AnswerLists]

Types ==
  /\ text \in [Posting -> Text]
  /\ file \in [Key -> Content] /\ tex \subseteq Key /\ rewritten \subseteq Key
  /\ row \in [Key -> Postings]
  /\ queue \in [Posting -> QueueRow]
  /\ job \in [Worker -> JobRecord]
  /\ \A w \in Worker : job[w] = Idle \/ (job[w].at # "idle" /\ job[w].posting \in Posting)

SameJob(r, j) ==
  r.task = j.task /\ r.kind = j.kind /\ r.posting = j.posting /\ r.question = j.question

LEMMA IdleRecord == Idle \in JobRecord /\ Idle.at = "idle"
<1>1. NoPosting \in Postings /\ 0 \in Questions /\ NoAnswers \in AnswerLists
      /\ <<>> \in Entries /\ Nothing \in Gots
  BY DEF Postings, Questions, AnswerLists, Entries, Gots
<1>2. "idle" \in Steps /\ "none" \in Tasks /\ "resume" \in Kinds
  BY DEF Steps, Tasks, Kinds
<1> QED BY <1>1, <1>2 DEF Idle, JobRecord

-----------------------------------------------------------------------------
(* Types. *)

(* pick_variant and make_cache_key are total on what a posting says. *)
LEMMA JobsHaveKeys ==
  ASSUME Types, NEW w \in Worker, job[w].posting \in Posting
  PROVE  /\ JobText(w) \in Text /\ JobVariant(w) \in Variants
         /\ JobKey(w) \in Key /\ JobKey(w).variant = JobVariant(w)
         /\ MakeCacheKey(JobVariant(w), JobText(w)) = JobKey(w)
         /\ Pdf(JobVariant(w), JobText(w)) \in Content
<1>1. JobText(w) \in Text
  BY DEF JobText, Types
<1>2. JobVariant(w) \in Variants
  BY DEF JobVariant, Variant, PickVariant, Variants
<1>3. JobKey(w) \in Key /\ JobKey(w).variant = JobVariant(w)
  BY <1>1, <1>2 DEF JobKey, Key, MakeCacheKey, Variants
<1> QED BY <1>1, <1>2, <1>3 DEF JobKey, Content, Variants

(* save goes through its steps in this order. *)
LEMMA SaveOrder ==
  /\ AfterSave("truncate") = "fill" /\ AfterSave("fill") = "tex"
  /\ AfterSave("tex") = "index" /\ AfterSave("index") = "return"
  /\ SaveSteps[1] = "truncate"
  /\ {SaveSteps[i] : i \in 1..4} = {"truncate", "fill", "tex", "index"}
<1>1. /\ SaveSteps[1] = "truncate" /\ SaveSteps[2] = "fill" /\ SaveSteps[3] = "tex"
      /\ SaveSteps[4] = "index" /\ SaveSteps[5] = "return" /\ Len(SaveSteps) = 5
  BY DEF SaveSteps
<1>2. ASSUME NEW i \in 1..4
      PROVE  (CHOOSE j \in 1..Len(SaveSteps) : SaveSteps[j] = SaveSteps[i]) = i
  <2>1. \A j \in 1..Len(SaveSteps) : SaveSteps[j] = SaveSteps[i] => j = i
    BY <1>1
  <2>2. i \in 1..Len(SaveSteps)
    BY <1>1
  <2> QED BY <2>1, <2>2
<1>3. \A i \in 1..4 : AfterSave(SaveSteps[i]) = SaveSteps[i + 1]
  BY <1>2 DEF AfterSave
<1>4. 1 \in 1..4 /\ 2 \in 1..4 /\ 3 \in 1..4 /\ 4 \in 1..4
  OBVIOUS
<1>5. {SaveSteps[i] : i \in 1..4} = {"truncate", "fill", "tex", "index"}
  BY <1>1
<1> QED BY <1>1, <1>3, <1>4, <1>5

(* A worker that goes on with the same job, or ends it. *)
LEMMA Continues ==
  ASSUME Types, NEW w \in Worker, NEW r \in JobRecord, Move(w, r),
         UNCHANGED text, SameJob(r, job[w])
  PROVE  /\ job'[w] = r /\ \A x \in Worker \ {w} : job'[x] = job[x]
         /\ JobText(w)' = JobText(w)
         /\ JobVariant(w)' = JobVariant(w) /\ JobKey(w)' = JobKey(w)
BY DEF Types, Move, JobText, JobVariant, JobKey, SameJob

LEMMA MoveTyped ==
  ASSUME Types, NEW w \in Worker, NEW r \in JobRecord, Move(w, r),
         r = Idle \/ (r.at # "idle" /\ r.posting \in Posting)
  PROVE  /\ job' \in [Worker -> JobRecord] /\ job'[w] = r
         /\ \A x \in Worker \ {w} : job'[x] = job[x]
         /\ \A x \in Worker : job'[x] = Idle \/ (job'[x].at # "idle" /\ job'[x].posting \in Posting)
BY DEF Types, Move

LEMMA BusyHasPosting ==
  ASSUME Types, NEW w \in Worker, job[w].at # "idle"
  PROVE  job[w] \in JobRecord /\ job[w].posting \in Posting
BY IdleRecord DEF Types

LEMMA QueueTyped ==
  ASSUME Types, NEW p \in Posting
  PROVE  /\ [queue EXCEPT ![p].staged = TRUE] \in [Posting -> QueueRow]
         /\ [queue EXCEPT ![p] = Unqueued] \in [Posting -> QueueRow]
         /\ \A s \in {"none", "built"} : [queue EXCEPT ![p].resume = s] \in [Posting -> QueueRow]
         /\ \A qs \in AnswerLists : [queue EXCEPT ![p].answers = qs] \in [Posting -> QueueRow]
<1>1. Unqueued \in QueueRow
  BY DEF Unqueued, QueueRow, AnswerLists
<1>2. [queue EXCEPT ![p].staged = TRUE] \in [Posting -> QueueRow]
  BY DEF Types, QueueRow
<1>3. ASSUME NEW s \in {"none", "built"}
      PROVE  [queue EXCEPT ![p].resume = s] \in [Posting -> QueueRow]
  BY DEF Types, QueueRow
<1>4. ASSUME NEW qs \in AnswerLists
      PROVE  [queue EXCEPT ![p].answers = qs] \in [Posting -> QueueRow]
  BY DEF Types, QueueRow
<1> QED BY <1>1, <1>2, <1>3, <1>4 DEF Types

Papers == <<file, tex, row, rewritten>>

LEMMA StaysTyped ==
  ASSUME Types, NEW w \in Worker, NEW r \in JobRecord, Move(w, r),
         r = Idle \/ (r.at # "idle" /\ r.posting \in Posting),
         UNCHANGED fixedVars, queue' \in [Posting -> QueueRow],
         file' \in [Key -> Content], tex' \subseteq Key, rewritten' \subseteq Key,
         row' \in [Key -> Postings]
  PROVE  Types'
BY MoveTyped DEF Types, fixedVars

LEMMA StaysTypedNoPapers ==
  ASSUME Types, NEW w \in Worker, NEW r \in JobRecord, Move(w, r),
         r = Idle \/ (r.at # "idle" /\ r.posting \in Posting),
         UNCHANGED <<fixedVars, Papers>>, queue' \in [Posting -> QueueRow]
  PROVE  Types'
BY StaysTyped DEF Types, Papers

(* The steps that move one worker to another step of the same job. *)
LEMMA AtTyped ==
  ASSUME Types, NEW w \in Worker, NEW s \in Steps \ {"idle"}, At(w, s), job[w].at # "idle"
  PROVE  \E r \in JobRecord :
           /\ Move(w, r) /\ SameJob(r, job[w]) /\ r.at = s /\ r.posting \in Posting
           /\ r.held = job[w].held /\ r.entry = job[w].entry /\ r.got = job[w].got
<1>0. PICK r : r = [job[w] EXCEPT !.at = s]
  OBVIOUS
<1>1. job[w] \in JobRecord /\ job[w].posting \in Posting
  BY BusyHasPosting
<1>2. /\ r \in JobRecord /\ SameJob(r, job[w]) /\ r.at = s
      /\ r.held = job[w].held /\ r.entry = job[w].entry /\ r.got = job[w].got
  BY <1>0, <1>1 DEF JobRecord, SameJob
<1>3. Move(w, r)
  BY <1>0 DEF At
<1> QED BY <1>1, <1>2, <1>3 DEF SameJob

Got(j, s, g) == [j EXCEPT !.at = s, !.got = g]

LEMMA GotTyped ==
  ASSUME Types, NEW w \in Worker, NEW s \in Steps \ {"idle"}, NEW g \in Gots,
         Move(w, Got(job[w], s, g)), job[w].at # "idle"
  PROVE  \E r \in JobRecord :
           /\ Move(w, r) /\ SameJob(r, job[w]) /\ r.at = s /\ r.posting \in Posting
           /\ r.got = g
<1>0. PICK r : r = Got(job[w], s, g)
  OBVIOUS
<1>1. job[w] \in JobRecord /\ job[w].posting \in Posting
  BY BusyHasPosting
<1>2. r \in JobRecord /\ SameJob(r, job[w]) /\ r.at = s /\ r.got = g
  BY <1>0, <1>1 DEF JobRecord, SameJob, Got
<1>3. Move(w, r)
  BY <1>0
<1> QED BY <1>1, <1>2, <1>3 DEF SameJob

LEMMA EntryTyped ==
  ASSUME Types, NEW w \in Worker, NEW k \in Key,
         Move(w, [job[w] EXCEPT !.at = "count", !.entry = <<k>>]), job[w].at # "idle"
  PROVE  \E r \in JobRecord :
           /\ Move(w, r) /\ SameJob(r, job[w]) /\ r.at = "count" /\ r.posting \in Posting
           /\ r.entry = <<k>>
<1>0. PICK r : r = [job[w] EXCEPT !.at = "count", !.entry = <<k>>]
  OBVIOUS
<1>1. job[w] \in JobRecord /\ job[w].posting \in Posting
  BY BusyHasPosting
<1>2. r \in JobRecord /\ SameJob(r, job[w]) /\ r.at = "count" /\ r.entry = <<k>>
  BY <1>0, <1>1 DEF JobRecord, SameJob, Entries, Steps
<1>3. Move(w, r)
  BY <1>0
<1> QED BY <1>1, <1>2, <1>3 DEF SameJob

Drafted(j, qs) == [j EXCEPT !.at = "answers", !.held = qs]

LEMMA DraftTyped ==
  ASSUME Types, NEW w \in Worker, NEW qs \in AnswerLists,
         Move(w, Drafted(job[w], qs)), job[w].at # "idle"
  PROVE  \E r \in JobRecord :
           /\ Move(w, r) /\ SameJob(r, job[w]) /\ r.at = "answers" /\ r.posting \in Posting
           /\ r.held = qs
<1>0. PICK r : r = Drafted(job[w], qs)
  OBVIOUS
<1>1. job[w] \in JobRecord /\ job[w].posting \in Posting
  BY BusyHasPosting
<1>2. r \in JobRecord /\ SameJob(r, job[w]) /\ r.at = "answers" /\ r.held = qs
  BY <1>0, <1>1 DEF JobRecord, SameJob, Drafted, Steps
<1>3. Move(w, r)
  BY <1>0
<1> QED BY <1>1, <1>2, <1>3 DEF SameJob

-----------------------------------------------------------------------------
(* The papers. *)

Whole(content) == content # Gone /\ content # Torn

(* What the file of an entry may hold. *)
Holds(k) ==
  {Gone, Torn} \cup {Pdf(k.variant, t) : t \in {u \in Text : MakeCacheKey(k.variant, u) = k}}

(* An entry holds what its key says; one that has a row names a posting it was *)
(* made for, and was whole before the row was written.                       *)
Filed(k) ==
  /\ file[k] \in Holds(k)
  /\ row[k] # NoPosting =>
       /\ \E v \in Variants : k = MakeCacheKey(v, text[row[k]])
       /\ k \notin rewritten => Whole(file[k])

(* A save has in hand the document of its own job; a reader, its own entry.   *)
Working(w) ==
  /\ job[w].at \in {"truncate", "fill", "tex", "index"} =>
       job[w].got = Pdf(JobVariant(w), JobText(w))
  /\ job[w].at \in {"count", "read"} =>
       job[w].entry = <<JobKey(w)>> /\ file[JobKey(w)] # Gone
  /\ job[w].at \in {"tex", "index", "count", "read"} /\ JobKey(w) \notin rewritten =>
       Whole(file[JobKey(w)])
  /\ job[w].at = "return" =>
       /\ \/ job[w].got \in {Nothing, Torn, Pdf(JobVariant(w), JobText(w))}
          \/ job[w].got = Reference /\ job[w].kind = "resume"
       /\ job[w].got = Torn => JobKey(w) \in rewritten

PapersInv ==
  /\ Types
  /\ \A k \in Key : Filed(k)
  /\ \A w \in Worker : Working(w)

(* A torn file, a missing one and a document are told apart. *)
LEMMA DocumentsAreWhole ==
  ASSUME NEW v, NEW t
  PROVE  /\ Whole(Pdf(v, t)) /\ Gone # Torn
         /\ \A x \in {Nothing, Reference, Torn, Gone} : x # Pdf(v, t)
         /\ Torn \notin {Nothing, Reference}
BY DEF Whole, Pdf, Gone, Torn, Nothing, Reference

(* A document in the entry of a job is the job's. *)
LEMMA EntryIsTheJobs ==
  ASSUME Types, NEW w \in Worker, job[w].posting \in Posting
  PROVE  /\ Pdf(JobVariant(w), JobText(w)) \in Holds(JobKey(w))
         /\ \A content \in Holds(JobKey(w)) :
              content \in {Gone, Torn, Pdf(JobVariant(w), JobText(w))}
<1>1. Pdf(JobVariant(w), JobText(w)) \in Holds(JobKey(w))
  BY JobsHaveKeys DEF Holds
<1>2. ASSUME NEW t \in Text, MakeCacheKey(JobVariant(w), t) = JobKey(w)
      PROVE  t = JobText(w)
  <2>1. MakeCacheKey(JobVariant(w), t) = MakeCacheKey(JobVariant(w), JobText(w))
    BY <1>2 DEF JobKey
  <2>2. t.place = JobText(w).place /\ t.jd = JobText(w).jd
    BY <2>1 DEF MakeCacheKey
  <2> QED BY <2>2, JobsHaveKeys, DocumentsAssumption
<1> QED BY <1>1, <1>2, JobsHaveKeys DEF Holds

(* One worker moves, and may write files: what was whole stays whole, or is    *)
(* known to be overwritten.                                                 *)
LEMMA WorkerMoves ==
  ASSUME PapersInv, NEW w \in Worker, NEW r \in JobRecord, Move(w, r),
         r = Idle \/ (r.at # "idle" /\ r.posting \in Posting),
         UNCHANGED <<fixedVars, row>>, queue' \in [Posting -> QueueRow],
         tex' \subseteq Key, rewritten \subseteq rewritten', rewritten' \subseteq Key,
         file' \in [Key -> Content],
         \A k \in Key : /\ file'[k] \in Holds(k)
                        /\ file[k] # Gone => file'[k] # Gone
                        /\ k \notin rewritten' /\ Whole(file[k]) => Whole(file'[k]),
         Working(w)'
  PROVE  PapersInv'
<1>0. Types /\ UNCHANGED <<text, row>> /\ UNCHANGED fixedVars
  BY DEF PapersInv, fixedVars
<1>1. Types'
  <2>1. row' \in [Key -> Postings]
    BY <1>0 DEF Types
  <2> QED BY <1>0, <2>1, MoveTyped DEF Types, fixedVars
<1>2. \A k \in Key : Filed(k)'
  BY <1>0 DEF PapersInv, Filed, Holds
<1>3. ASSUME NEW x \in Worker \ {w}
      PROVE  Working(x)'
  <2>1. job'[x] = job[x]
    BY <1>0, MoveTyped
  <2>2. JobText(x)' = JobText(x) /\ JobVariant(x)' = JobVariant(x) /\ JobKey(x)' = JobKey(x)
    BY <1>0, <2>1 DEF JobKey, JobVariant, JobText
  <2>3. job[x].at # "idle" => JobKey(x) \in Key
    BY <1>0, JobsHaveKeys, BusyHasPosting
  <2>4. CASE job[x].at = "idle"
    BY <2>1, <2>4 DEF Working
  <2>5. CASE job[x].at # "idle"
    <3>1. /\ file[JobKey(x)] # Gone => file'[JobKey(x)] # Gone
          /\ JobKey(x) \notin rewritten' /\ Whole(file[JobKey(x)]) => Whole(file'[JobKey(x)])
      BY <2>3, <2>5
    <3>2. Working(x)
      BY DEF PapersInv
    <3>3. JobKey(x) \in rewritten => JobKey(x) \in rewritten'
      OBVIOUS
    <3> QED BY <2>1, <2>2, <3>1, <3>2, <3>3 DEF Working
  <2> QED BY <2>4, <2>5
<1> QED BY <1>1, <1>2, <1>3 DEF PapersInv

LEMMA WorkerWrites ==
  ASSUME PapersInv, NEW w \in Worker, NEW r \in JobRecord, Move(w, r),
         r = Idle \/ (r.at # "idle" /\ r.posting \in Posting),
         UNCHANGED <<fixedVars, Papers>>, queue' \in [Posting -> QueueRow],
         Working(w)'
  PROVE  PapersInv'
<1>1. UNCHANGED <<fixedVars, row, file, tex, rewritten>>
  BY DEF Papers
<1>2. \A k \in Key : file[k] \in Holds(k)
  BY DEF PapersInv, Filed
<1> QED BY <1>1, <1>2, WorkerMoves DEF PapersInv, Types

(* A worker that goes where nothing is claimed of it. *)
LEMMA QuietMove ==
  ASSUME PapersInv, NEW w \in Worker, NEW r \in JobRecord, Move(w, r),
         UNCHANGED <<fixedVars, Papers>>, queue' \in [Posting -> QueueRow],
         r.at \notin {"truncate", "fill", "tex", "index", "count", "read", "return"},
         r = Idle \/ (r.at # "idle" /\ r.posting \in Posting)
  PROVE  PapersInv'
<1>1. job'[w] = r
  BY MoveTyped DEF PapersInv
<1>2. Working(w)'
  BY <1>1 DEF Working
<1> QED BY <1>2, WorkerWrites

LEMMA FindStep ==
  ASSUME PapersInv, NEW w \in Worker, Find(w)
  PROVE  PapersInv'
<1>0. /\ Types /\ job[w].at # "idle" /\ job[w].posting \in Posting
      /\ UNCHANGED <<fixedVars, Papers>> /\ queue' \in [Posting -> QueueRow]
  BY BusyHasPosting DEF PapersInv, Types, Find, Papers
<1>1. CASE At(w, "edit")
  BY <1>0, <1>1, QuietMove, AtTyped DEF Steps
<1>2. ASSUME NEW k \in FindCached(w), Move(w, [job[w] EXCEPT !.at = "count", !.entry = <<k>>])
      PROVE  PapersInv'
  <2>1. k \in Key /\ row[k] = job[w].posting /\ k.variant = JobVariant(w) /\ file[k] # Gone
    BY DEF FindCached, RowUsable
  <2>2. row[k] # NoPosting
    BY <1>0, <2>1, DocumentsAssumption DEF NoPosting
  <2>3. PICK v \in Variants : k = MakeCacheKey(v, JobText(w))
    BY <2>1, <2>2 DEF PapersInv, Filed, JobText
  <2>4. k = JobKey(w)
    BY <2>1, <2>3 DEF JobKey, MakeCacheKey
  <2>5. JobKey(w) \notin rewritten => Whole(file[JobKey(w)])
    BY <2>1, <2>2, <2>4 DEF PapersInv, Filed
  <2>6. PICK r \in JobRecord : /\ Move(w, r) /\ SameJob(r, job[w]) /\ r.at = "count"
                               /\ r.posting \in Posting /\ r.entry = <<k>>
    BY <1>0, <1>2, <2>1, EntryTyped
  <2>7. job'[w] = r /\ JobKey(w)' = JobKey(w)
    BY <1>0, <2>6, Continues DEF fixedVars
  <2>8. Working(w)'
    BY <1>0, <2>1, <2>4, <2>5, <2>6, <2>7 DEF Working, Papers
  <2> QED BY <1>0, <2>6, <2>8, WorkerWrites
<1> QED BY <1>1, <1>2 DEF Find

LEMMA ReadSteps ==
  ASSUME PapersInv, NEW w \in Worker, CountPages(w) \/ ReadPdf(w)
  PROVE  PapersInv'
<1>0. /\ Types /\ job[w].at \in {"count", "read"} /\ job[w].posting \in Posting
      /\ UNCHANGED <<fixedVars, Papers>> /\ queue' \in [Posting -> QueueRow]
  BY BusyHasPosting DEF PapersInv, Types, CountPages, ReadPdf, Papers
<1>1. /\ job[w].entry = <<JobKey(w)>> /\ file[JobKey(w)] # Gone /\ JobKey(w) \in Key
      /\ JobKey(w) \notin rewritten => Whole(file[JobKey(w)])
  BY <1>0, JobsHaveKeys DEF PapersInv, Working
<1>2. CASE At(w, "edit")
  BY <1>0, <1>2, QuietMove, AtTyped DEF Steps
<1>3. CASE At(w, "read")
  <2>1. PICK r \in JobRecord : /\ Move(w, r) /\ SameJob(r, job[w]) /\ r.at = "read"
                               /\ r.posting \in Posting /\ r.entry = job[w].entry
    BY <1>0, <1>3, AtTyped DEF Steps
  <2>2. job'[w] = r /\ JobKey(w)' = JobKey(w)
    BY <1>0, <2>1, Continues DEF fixedVars
  <2>3. Working(w)'
    BY <1>0, <1>1, <2>1, <2>2 DEF Working, Papers
  <2> QED BY <1>0, <2>1, <2>3, WorkerWrites
<1>4. CASE ReadPdf(w)
  <2>1. file[JobKey(w)] \in Content
    BY <1>0, <1>1 DEF Types
  <2>2. Move(w, Got(job[w], "return", file[JobKey(w)]))
    BY <1>1, <1>4 DEF ReadPdf, Got
  <2>3. PICK r \in JobRecord : /\ Move(w, r) /\ SameJob(r, job[w]) /\ r.at = "return"
                               /\ r.posting \in Posting /\ r.got = file[JobKey(w)]
    BY <1>0, <2>1, <2>2, GotTyped DEF Steps, Gots
  <2>4. file[JobKey(w)] \in {Gone, Torn, Pdf(JobVariant(w), JobText(w))}
    BY <1>0, <1>1, EntryIsTheJobs DEF PapersInv, Filed
  <2>5. file[JobKey(w)] = Torn => JobKey(w) \in rewritten
    BY <1>1 DEF Whole
  <2>6. /\ job'[w] = r /\ JobKey(w)' = JobKey(w) /\ JobText(w)' = JobText(w)
        /\ JobVariant(w)' = JobVariant(w)
    BY <1>0, <2>3, Continues DEF fixedVars
  <2>7. Working(w)'
    BY <1>0, <1>1, <2>3, <2>4, <2>5, <2>6 DEF Working, Papers
  <2> QED BY <1>0, <2>3, <2>7, WorkerWrites
<1> QED BY <1>2, <1>3, <1>4 DEF CountPages

(* A build that ends with no document, or with one, and writes nothing.       *)
LEMMA EndsWith ==
  ASSUME PapersInv, NEW w \in Worker, NEW s \in Steps \ {"idle"}, NEW g \in Gots,
         Move(w, Got(job[w], s, g)), job[w].at # "idle",
         UNCHANGED <<fixedVars, Papers>>, UNCHANGED queue,
         \/ s = "return" /\ g = Nothing
         \/ s = "return" /\ g = Reference /\ job[w].kind = "resume"
         \/ s = "truncate" /\ g = Pdf(JobVariant(w), JobText(w))
  PROVE  PapersInv'
<1>0. Types /\ queue' \in [Posting -> QueueRow]
  BY DEF PapersInv, Types
<1>1. PICK r \in JobRecord : /\ Move(w, r) /\ SameJob(r, job[w]) /\ r.at = s
                             /\ r.posting \in Posting /\ r.got = g
  BY <1>0, GotTyped
<1>2. /\ job'[w] = r /\ JobText(w)' = JobText(w) /\ JobVariant(w)' = JobVariant(w)
  BY <1>0, <1>1, Continues DEF fixedVars
<1>3. Working(w)'
  BY <1>1, <1>2, DocumentsAreWhole DEF Working, SameJob
<1> QED BY <1>0, <1>1, <1>3, WorkerWrites DEF Steps

LEMMA BuildSteps ==
  ASSUME PapersInv, NEW w \in Worker,
         EditResume(w) \/ DraftLetter(w) \/ Compile(w) \/ BuildFails(w)
  PROVE  PapersInv'
<1>0. /\ Types /\ job[w].at # "idle" /\ job[w].posting \in Posting
      /\ UNCHANGED <<fixedVars, Papers>> /\ UNCHANGED queue /\ queue' \in [Posting -> QueueRow]
  BY BusyHasPosting, SaveOrder
  DEF PapersInv, Types, EditResume, DraftLetter, Compile, BuildFails, Papers
<1>1. CASE EditResume(w) \/ DraftLetter(w)
  BY <1>0, <1>1, QuietMove, AtTyped DEF EditResume, DraftLetter, Steps
<1>2. Nothing \in Gots /\ Reference \in Gots /\ Pdf(JobVariant(w), JobText(w)) \in Gots
  BY <1>0, JobsHaveKeys DEF Gots
<1>3. CASE Compile(w)
  <2>1. CASE Move(w, Got(job[w], "truncate", Pdf(JobVariant(w), JobText(w))))
    BY <1>0, <1>2, <2>1, EndsWith DEF Steps
  <2>2. CASE job[w].kind = "resume" /\ Move(w, Got(job[w], "return", Reference))
    BY <1>0, <1>2, <2>2, EndsWith DEF Steps
  <2>3. CASE Move(w, Got(job[w], "return", Nothing))
    BY <1>0, <1>2, <2>3, EndsWith DEF Steps
  <2> QED BY <1>3, <2>1, <2>2, <2>3, SaveOrder DEF Compile, Got
<1>4. CASE BuildFails(w)
  <2>1. Move(w, Got(job[w], "return", Nothing))
    BY <1>4 DEF BuildFails, Got
  <2> QED BY <1>0, <1>2, <2>1, EndsWith DEF Steps
<1> QED BY <1>1, <1>3, <1>4

(* save empties the file before it fills it: whoever had seen it whole now     *)
(* knows it as overwritten.                                                 *)
LEMMA TruncateStep ==
  ASSUME PapersInv, NEW w \in Worker, Truncate(w)
  PROVE  PapersInv'
<1>0. /\ Types /\ job[w].at = "truncate" /\ job[w].posting \in Posting /\ JobKey(w) \in Key
      /\ UNCHANGED <<fixedVars, row, tex, queue>> /\ queue' \in [Posting -> QueueRow]
      /\ job[w].got = Pdf(JobVariant(w), JobText(w)) /\ At(w, "fill")
  BY BusyHasPosting, JobsHaveKeys, SaveOrder DEF PapersInv, Types, Working, Truncate
<1>1. PICK r \in JobRecord : /\ Move(w, r) /\ SameJob(r, job[w]) /\ r.at = "fill"
                             /\ r.posting \in Posting /\ r.got = job[w].got
  BY <1>0, AtTyped DEF Steps
<1>2. /\ rewritten \subseteq rewritten' /\ rewritten' \subseteq Key
      /\ file[JobKey(w)] # Gone => JobKey(w) \in rewritten'
      /\ file' = [file EXCEPT ![JobKey(w)] = Torn]
  BY <1>0 DEF Truncate, Types
<1>3. file' \in [Key -> Content] /\ file'[JobKey(w)] = Torn
      /\ \A k \in Key \ {JobKey(w)} : file'[k] = file[k]
  BY <1>0, <1>2 DEF Types, Content
<1>4. \A k \in Key : /\ file'[k] \in Holds(k)
                     /\ file[k] # Gone => file'[k] # Gone
                     /\ k \notin rewritten' /\ Whole(file[k]) => Whole(file'[k])
  BY <1>0, <1>2, <1>3, DocumentsAreWhole DEF PapersInv, Filed, Holds, Whole
<1>5. /\ job'[w] = r /\ JobText(w)' = JobText(w) /\ JobVariant(w)' = JobVariant(w)
  BY <1>0, <1>1, Continues DEF fixedVars
<1>6. Working(w)'
  BY <1>0, <1>1, <1>5 DEF Working
<1>7. UNCHANGED <<fixedVars, row>> /\ tex' \subseteq Key
  BY <1>0 DEF Types
<1> QED BY <1>0, <1>1, <1>2, <1>3, <1>4, <1>6, <1>7, WorkerMoves

LEMMA FillStep ==
  ASSUME PapersInv, NEW w \in Worker, Fill(w)
  PROVE  PapersInv'
<1>0. /\ Types /\ job[w].at = "fill" /\ job[w].posting \in Posting /\ JobKey(w) \in Key
      /\ UNCHANGED <<fixedVars, row, tex, queue, rewritten>> /\ queue' \in [Posting -> QueueRow]
      /\ job[w].got = Pdf(JobVariant(w), JobText(w)) /\ At(w, "tex")
      /\ file' = [file EXCEPT ![JobKey(w)] = job[w].got]
  BY BusyHasPosting, JobsHaveKeys, SaveOrder DEF PapersInv, Types, Working, Fill
<1>1. PICK r \in JobRecord : /\ Move(w, r) /\ SameJob(r, job[w]) /\ r.at = "tex"
                             /\ r.posting \in Posting /\ r.got = job[w].got
  BY <1>0, AtTyped DEF Steps
<1>2. Whole(job[w].got) /\ job[w].got \in Holds(JobKey(w)) /\ job[w].got \in Content
  BY <1>0, DocumentsAreWhole, EntryIsTheJobs, JobsHaveKeys
<1>3. file' \in [Key -> Content] /\ file'[JobKey(w)] = job[w].got
      /\ \A k \in Key \ {JobKey(w)} : file'[k] = file[k]
  BY <1>0, <1>2 DEF Types
<1>4. \A k \in Key : /\ file'[k] \in Holds(k)
                     /\ file[k] # Gone => file'[k] # Gone
                     /\ k \notin rewritten' /\ Whole(file[k]) => Whole(file'[k])
  BY <1>0, <1>2, <1>3 DEF PapersInv, Filed, Whole
<1>5. /\ job'[w] = r /\ JobText(w)' = JobText(w) /\ JobVariant(w)' = JobVariant(w)
      /\ JobKey(w)' = JobKey(w)
  BY <1>0, <1>1, Continues DEF fixedVars
<1>6. Working(w)'
  BY <1>0, <1>1, <1>2, <1>3, <1>5 DEF Working
<1>7. UNCHANGED <<fixedVars, row>> /\ tex' \subseteq Key /\ rewritten' = rewritten
      /\ rewritten' \subseteq Key
  BY <1>0 DEF Types
<1> QED BY <1>0, <1>1, <1>3, <1>4, <1>6, <1>7, WorkerMoves

LEMMA WriteTexStep ==
  ASSUME PapersInv, NEW w \in Worker, WriteTex(w)
  PROVE  PapersInv'
<1>0. /\ Types /\ job[w].at = "tex" /\ job[w].posting \in Posting /\ JobKey(w) \in Key
      /\ UNCHANGED <<fixedVars, row, file, queue, rewritten>>
      /\ queue' \in [Posting -> QueueRow] /\ file' \in [Key -> Content]
      /\ job[w].got = Pdf(JobVariant(w), JobText(w)) /\ At(w, "index")
  BY BusyHasPosting, JobsHaveKeys, SaveOrder DEF PapersInv, Types, Working, WriteTex
<1>1. PICK r \in JobRecord : /\ Move(w, r) /\ SameJob(r, job[w]) /\ r.at = "index"
                             /\ r.posting \in Posting /\ r.got = job[w].got
  BY <1>0, AtTyped DEF Steps
<1>2. /\ job'[w] = r /\ JobText(w)' = JobText(w) /\ JobVariant(w)' = JobVariant(w)
      /\ JobKey(w)' = JobKey(w)
  BY <1>0, <1>1, Continues DEF fixedVars
<1>3. Working(w)'
  BY <1>0, <1>1, <1>2 DEF PapersInv, Working
<1>4. \A k \in Key : file[k] \in Holds(k)
  BY DEF PapersInv, Filed
<1>5. UNCHANGED <<fixedVars, row>> /\ tex' \subseteq Key /\ rewritten' = rewritten
      /\ rewritten' \subseteq Key
  BY <1>0 DEF Types, WriteTex
<1> QED BY <1>0, <1>1, <1>3, <1>4, <1>5, WorkerMoves

(* The row comes last: what it points at is whole, or was overwritten.        *)
LEMMA IndexStep ==
  ASSUME PapersInv, NEW w \in Worker, Index(w)
  PROVE  PapersInv'
<1>0. /\ Types /\ job[w].at = "index" /\ job[w].posting \in Posting /\ JobKey(w) \in Key
      /\ JobVariant(w) \in Variants
      /\ UNCHANGED <<fixedVars, tex, file, queue, rewritten>>
      /\ job[w].got = Pdf(JobVariant(w), JobText(w)) /\ At(w, "return")
      /\ row' = [row EXCEPT ![JobKey(w)] = job[w].posting]
  BY BusyHasPosting, JobsHaveKeys, SaveOrder DEF PapersInv, Types, Working, Index
<1>1. PICK r \in JobRecord : /\ Move(w, r) /\ SameJob(r, job[w]) /\ r.at = "return"
                             /\ r.posting \in Posting /\ r.got = job[w].got
  BY <1>0, AtTyped DEF Steps
<1>2. /\ job'[w] = r /\ JobText(w)' = JobText(w) /\ JobVariant(w)' = JobVariant(w)
      /\ JobKey(w)' = JobKey(w) /\ \A x \in Worker \ {w} : job'[x] = job[x]
  BY <1>0, <1>1, Continues DEF fixedVars
<1>3. Types'
  <2>1. row' \in [Key -> Postings]
    BY <1>0 DEF Types, Postings
  <2> QED BY <1>0, <1>1, <2>1, MoveTyped DEF Types, fixedVars
<1>4. ASSUME NEW k \in Key
      PROVE  Filed(k)'
  <2>1. Filed(k) /\ text' = text /\ Holds(k)' = Holds(k)
    BY <1>0 DEF PapersInv, fixedVars, Holds
  <2>2. CASE k = JobKey(w)
    <3>1. row'[k] = job[w].posting
      BY <1>0, <2>2 DEF Types
    <3>2. k = MakeCacheKey(JobVariant(w), text[job[w].posting])
      BY <2>2 DEF JobKey, JobText
    <3>3. k \notin rewritten => Whole(file[k])
      BY <1>0, <2>2 DEF PapersInv, Working
    <3> QED BY <1>0, <2>1, <3>1, <3>2, <3>3 DEF Filed
  <2>3. CASE k # JobKey(w)
    <3>1. row'[k] = row[k]
      BY <1>0, <2>3 DEF Types
    <3> QED BY <1>0, <2>1, <3>1 DEF Filed
  <2> QED BY <2>2, <2>3
<1>5. Working(w)'
  BY <1>0, <1>1, <1>2, DocumentsAreWhole DEF Working
<1>6. ASSUME NEW x \in Worker \ {w}
      PROVE  Working(x)'
  BY <1>0, <1>2 DEF PapersInv, Working, JobKey, JobText, JobVariant, fixedVars
<1> QED BY <1>3, <1>4, <1>5, <1>6 DEF PapersInv

-----------------------------------------------------------------------------
(* The handlers of the queue, and what they leave the papers. *)

(* Every list of answers is one of AnswerLists. *)
LEMMA ListsTyped ==
  /\ NoAnswers \in AnswerLists
  /\ [q \in Question |-> "drafted"] \in AnswerLists
  /\ \A f \in AnswerLists, q \in Questions, a \in {"drafted", "saved"} :
       [f EXCEPT ![q] = a] \in AnswerLists
<1>1. ASSUME NEW q \in Questions, NEW a \in {"drafted", "saved"}
      PROVE  [NoAnswers EXCEPT ![q] = a] = NoAnswers
  BY DEF NoAnswers
<1> QED BY <1>1 DEF AnswerLists

LEMMA SavedTyped ==
  ASSUME Types, NEW p \in Posting, NEW qs \in AnswerLists, SaveQuestions(p, qs)
  PROVE  queue' \in [Posting -> QueueRow]
BY QueueTyped DEF SaveQuestions, Types

LEMMA ToIdle ==
  ASSUME PapersInv, NEW w \in Worker, Move(w, Idle), UNCHANGED <<fixedVars, Papers>>,
         queue' \in [Posting -> QueueRow]
  PROVE  PapersInv'
BY QuietMove, IdleRecord

LEMMA StartSteps ==
  ASSUME PapersInv, NEW w \in Worker, NEW p \in Posting,
         \/ AnswerLive(w, p)
         \/ \E task \in {"package", "save", "redraft"}, q \in Question : Open(w, task, p, q)
         \/ \E kind \in {"resume", "cover"} : Download(w, p, kind)
  PROVE  PapersInv'
<1>0. Types
  BY DEF PapersInv
<1>1. CASE AnswerLive(w, p)
  <2>1. PICK r : r = [Idle EXCEPT !.task = "answer", !.posting = p, !.at = "live"]
    OBVIOUS
  <2>2. r \in JobRecord /\ r.at = "live" /\ r.posting = p
    BY <2>1, IdleRecord DEF JobRecord, Postings, Steps, Tasks
  <2>3. queue' \in [Posting -> QueueRow] /\ UNCHANGED <<fixedVars, Papers>>
    BY <1>0, <1>1, QueueTyped DEF AnswerLive, Papers
  <2>4. Move(w, r)
    BY <1>1, <2>1 DEF AnswerLive
  <2> QED BY <2>2, <2>3, <2>4, QuietMove
<1>2. ASSUME NEW task \in {"package", "save", "redraft"}, NEW q \in Question, Open(w, task, p, q)
      PROVE  PapersInv'
  <2>1. PICK s \in {"draft", "answers"} :
          s = IF queue[p].answers = NoAnswers THEN "draft" ELSE "answers"
    OBVIOUS
  <2>2. PICK r : r = [Idle EXCEPT !.task = task, !.posting = p, !.question = q,
                                  !.held = queue[p].answers, !.at = s]
    OBVIOUS
  <2>3. queue[p].answers \in AnswerLists
    BY <1>0 DEF Types, QueueRow
  <2>4. r \in JobRecord /\ r.at = s /\ r.posting = p
    BY <2>2, <2>3, IdleRecord DEF JobRecord, Postings, Questions, Steps, Tasks
  <2>5. queue' \in [Posting -> QueueRow] /\ UNCHANGED <<fixedVars, Papers>>
    BY <1>0, <1>2 DEF Open, Papers, Types
  <2>6. Move(w, r)
    BY <1>2, <2>1, <2>2 DEF Open
  <2> QED BY <2>4, <2>5, <2>6, QuietMove
<1>3. ASSUME NEW kind \in {"resume", "cover"}, Download(w, p, kind)
      PROVE  PapersInv'
  <2>1. PICK r : r = [Idle EXCEPT !.task = "download", !.posting = p, !.kind = kind, !.at = "find"]
    OBVIOUS
  <2>2. r \in JobRecord /\ r.at = "find" /\ r.posting = p
    BY <2>1, IdleRecord DEF JobRecord, Postings, Steps, Tasks, Kinds
  <2>3. queue' \in [Posting -> QueueRow] /\ UNCHANGED <<fixedVars, Papers>>
    BY <1>0, <1>3 DEF Download, Papers, Types
  <2>4. Move(w, r)
    BY <1>3, <2>1 DEF Download
  <2> QED BY <2>2, <2>3, <2>4, QuietMove
<1> QED BY <1>1, <1>2, <1>3

LEMMA HandlerSteps ==
  ASSUME PapersInv, NEW h \in Worker,
         \/ DraftQuestions(h) \/ LiveAnswer(h) \/ SaveAnswer(h) \/ StartRedraft(h)
         \/ Redraft(h) \/ EnsureResume(h) \/ RecordResume(h) \/ Answered(h)
  PROVE  PapersInv'
<1>0. /\ Types /\ job[h].at # "idle" /\ job[h] \in JobRecord /\ job[h].posting \in Posting
      /\ UNCHANGED <<fixedVars, Papers>>
  BY BusyHasPosting
  DEF PapersInv, DraftQuestions, LiveAnswer, SaveAnswer, StartRedraft, Redraft, EnsureResume,
      RecordResume, Answered, Papers
<1>1. \A a \in {"drafted", "saved"} : AnswerTo(h, a) \in AnswerLists
  BY <1>0, ListsTyped DEF AnswerTo, JobRecord
<1>2. CASE DraftQuestions(h)
  <2>1. PICK qs \in AnswerLists : qs = [q \in Question |-> "drafted"]
    BY ListsTyped
  <2>2. SaveQuestions(job[h].posting, qs) /\ Move(h, Drafted(job[h], qs))
    BY <1>2, <2>1 DEF DraftQuestions, Drafted
  <2>3. PICK r \in JobRecord : Move(h, r) /\ r.at = "answers" /\ r.posting \in Posting
    BY <1>0, <2>2, DraftTyped
  <2> QED BY <1>0, <2>2, <2>3, SavedTyped, QuietMove
<1>3. CASE LiveAnswer(h) \/ Answered(h)
  BY <1>0, <1>3, ToIdle DEF LiveAnswer, Answered, Types
<1>4. CASE SaveAnswer(h) \/ Redraft(h)
  BY <1>0, <1>1, <1>4, SavedTyped, ToIdle DEF SaveAnswer, Redraft
<1>5. CASE StartRedraft(h)
  BY <1>0, <1>5, AtTyped, QuietMove DEF StartRedraft, Steps, Types
<1>6. CASE EnsureResume(h)
  <2>1. queue' \in [Posting -> QueueRow]
    BY <1>0, <1>6 DEF EnsureResume, Types
  <2>2. CASE At(h, "find")
    BY <1>0, <2>1, <2>2, AtTyped, QuietMove DEF Steps
  <2>3. CASE Move(h, Idle)
    BY <1>0, <2>1, <2>3, ToIdle
  <2> QED BY <1>6, <2>2, <2>3 DEF EnsureResume
<1>7. CASE RecordResume(h)
  <2>1. PICK s \in {"none", "built"} : queue' = [queue EXCEPT ![job[h].posting].resume = s]
    BY <1>7 DEF RecordResume
  <2> QED BY <1>0, <1>7, <2>1, QueueTyped, ToIdle DEF RecordResume
<1> QED BY <1>2, <1>3, <1>4, <1>5, <1>6, <1>7

LEMMA PapersSame ==
  ASSUME PapersInv, UNCHANGED <<fixedVars, Papers, job>>, queue' \in [Posting -> QueueRow]
  PROVE  PapersInv'
<1>1. Types'
  BY DEF PapersInv, Types, Papers, fixedVars
<1>2. \A k \in Key : Filed(k)'
  BY DEF PapersInv, Filed, Holds, Papers, fixedVars
<1>3. \A w \in Worker : Working(w)'
  BY DEF PapersInv, Working, JobKey, JobVariant, JobText, Papers, fixedVars
<1> QED BY <1>1, <1>2, <1>3 DEF PapersInv

LEMMA PapersStart == DocInit => PapersInv
<1> SUFFICES ASSUME DocInit PROVE PapersInv
  OBVIOUS
<1>1. Types
  <2>1. Unqueued \in QueueRow
    BY ListsTyped DEF Unqueued, QueueRow
  <2>2. Gone \in Content /\ NoPosting \in Postings
    BY DEF Content, Postings
  <2> QED BY <2>1, <2>2, IdleRecord DEF DocInit, Types
<1>2. \A k \in Key : Filed(k)
  BY DEF DocInit, Filed, Holds
<1>3. \A w \in Worker : Working(w)
  BY IdleRecord DEF DocInit, Working
<1> QED BY <1>1, <1>2, <1>3 DEF PapersInv

LEMMA PapersStep == PapersInv /\ [DocNext]_docVars => PapersInv'
<1> SUFFICES ASSUME PapersInv, [DocNext]_docVars PROVE PapersInv'
  OBVIOUS
<1>0. Types
  BY DEF PapersInv
<1>1. ASSUME NEW p \in Posting, Stage(p) \/ RemoveItem(p)
      PROVE  PapersInv'
  BY <1>0, <1>1, QueueTyped, PapersSame DEF Stage, RemoveItem, Papers
<1>2. CASE Handler
  BY <1>2, StartSteps, HandlerSteps DEF Handler, Worker
<1>3. CASE Downloading
  BY <1>3, StartSteps, HandlerSteps DEF Downloading, Worker
<1>4. ASSUME NEW w \in Worker, Step(w)
      PROVE  PapersInv'
  <2>1. CASE Ask(w)
    BY <1>0, <2>1, PapersSame DEF Ask, paperVars, Papers, Types
  <2> QED BY <1>4, <2>1, FindStep, ReadSteps, BuildSteps, TruncateStep, FillStep,
             WriteTexStep, IndexStep DEF Step
<1>5. CASE Elsewhere \/ (NewDay /\ UNCHANGED paperVars) \/ UNCHANGED docVars
  BY <1>0, <1>5, PapersSame DEF Elsewhere, docVars, paperVars, Papers, Types
<1>6. CASE Restart
  <2>1. UNCHANGED <<fixedVars, Papers, queue>> /\ job' = [w \in Worker |-> Idle]
    BY <1>6 DEF Restart, Papers
  <2>2. Types'
    BY <1>0, <2>1, IdleRecord DEF Types, Papers, fixedVars
  <2>3. \A k \in Key : Filed(k)'
    BY <2>1 DEF PapersInv, Filed, Holds, Papers, fixedVars
  <2>4. \A w \in Worker : Working(w)'
    BY <2>1, IdleRecord DEF Working
  <2> QED BY <2>2, <2>3, <2>4 DEF PapersInv
<1> QED BY <1>1, <1>2, <1>3, <1>4, <1>5, <1>6 DEF DocNext

LEMMA PapersAlways == DocSpec => []PapersInv
  BY PapersStart, PapersStep, PTL DEF DocSpec

(* Files are shared between postings, rows change hands, builds overlap and    *)
(* die: what a request returns is still a document of its kind and its job.   *)
THEOREM ServedIsItsJobs == DocSpec => []ServedForItsJob
<1>1. PapersInv => ServedForItsJob
  BY DEF PapersInv, Working, ServedForItsJob
<1> QED BY <1>1, PapersAlways, PTL

(* A request is served half a PDF only where a whole one was overwritten.      *)
THEOREM ServedIsWhole == DocSpec => []ServedWhole
<1>1. PapersInv => ServedWhole
  BY DEF PapersInv, Working, ServedWhole
<1> QED BY <1>1, PapersAlways, PTL

-----------------------------------------------------------------------------
(* The answers. *)

Busy(h) == job[h].at # "idle"

(* One handler at a time is between its read of the list and its write, and    *)
(* what it read is what the row still says.                                  *)
Holding(h) ==
  /\ job[h].at \in {"draft", "answers", "redraft"} =>
       queue[job[h].posting].staged /\ job[h].question \in Question
  /\ job[h].at = "draft" => queue[job[h].posting].answers = NoAnswers
  /\ job[h].at \in {"answers", "redraft"} =>
       /\ job[h].held = queue[job[h].posting].answers
       /\ job[h].held \in [Question -> {"drafted", "saved"}]

LoopInv ==
  /\ \A h, x \in LoopHandler : Busy(h) /\ Busy(x) => h = x
  /\ \A h \in LoopHandler : Holding(h)

LEMMA FreeMeansIdle ==
  ASSUME Types, LoopFree, NEW h \in LoopHandler
  PROVE  ~Busy(h)
BY IdleRecord DEF LoopFree, Busy

(* A step that leaves the handlers and the rows' lists as they are.            *)
LEMMA LoopSame ==
  ASSUME Types, LoopInv, \A h \in LoopHandler : job'[h] = job[h],
         \A h \in LoopHandler : Busy(h) =>
           /\ queue'[job[h].posting].staged = queue[job[h].posting].staged
           /\ queue'[job[h].posting].answers = queue[job[h].posting].answers
  PROVE  LoopInv'
BY DEF LoopInv, Busy, Holding

(* A handler takes a step to a place where nothing is claimed of the list it    *)
(* holds.                                                                   *)
LEMMA LoopLets ==
  ASSUME Types, LoopInv, NEW h \in LoopHandler, NEW r \in JobRecord, Move(h, r),
         Busy(h) \/ LoopFree, r.at \notin {"draft", "answers", "redraft"}
  PROVE  LoopInv'
<1>1. h \in Worker
  BY DEF Worker
<1>2. job'[h] = r /\ \A x \in LoopHandler \ {h} : job'[x] = job[x] /\ ~Busy(x)
  BY <1>1, FreeMeansIdle DEF Types, Move, LoopInv, Worker
<1> QED BY <1>2 DEF LoopInv, Busy, Holding

LEMMA LoopTakes ==
  ASSUME Types, LoopInv, NEW h \in LoopHandler, NEW r \in JobRecord, Move(h, r),
         Busy(h) \/ LoopFree, Holding(h)'
  PROVE  LoopInv'
<1>1. h \in Worker
  BY DEF Worker
<1>2. job'[h] = r /\ \A x \in LoopHandler \ {h} : job'[x] = job[x] /\ ~Busy(x)
  BY <1>1, FreeMeansIdle DEF Types, Move, LoopInv, Worker
<1> QED BY <1>2 DEF LoopInv, Busy, Holding

(* The threads of the pool are not handlers of the loop.                      *)
LEMMA PoolIsNotLoop == LoopHandler \cap PoolThread = {} /\ LoopHandler \subseteq Worker
  BY DocumentsAssumption DEF Worker

(* Building a document, in whatever thread, takes no handler back to its list. *)
LEMMA BuildMoves ==
  ASSUME PapersInv, NEW w \in Worker, Step(w), ~Ask(w)
  PROVE  /\ UNCHANGED queue /\ Busy(w)
         /\ \E r \in JobRecord : Move(w, r) /\ r.at \notin {"draft", "answers", "redraft"}
<1>0. Types
  BY DEF PapersInv
<1>1. CASE Find(w)
  <2>1. UNCHANGED queue /\ Busy(w)
    BY <1>1 DEF Find, Busy
  <2>2. CASE At(w, "edit")
    BY <1>0, <2>1, <2>2, AtTyped DEF Busy, Steps
  <2>3. ASSUME NEW k \in FindCached(w), Move(w, [job[w] EXCEPT !.at = "count", !.entry = <<k>>])
        PROVE  \E r \in JobRecord : Move(w, r) /\ r.at \notin {"draft", "answers", "redraft"}
    BY <1>0, <2>1, <2>3, EntryTyped DEF Busy, FindCached
  <2> QED BY <1>1, <2>1, <2>2, <2>3 DEF Find
<1>2. CASE \E s \in {"edit", "read", "compile", "fill", "tex", "index", "return"} :
             At(w, s) /\ UNCHANGED queue /\ Busy(w)
  BY <1>0, <1>2, AtTyped DEF Busy, Steps
<1>3. CASE CountPages(w) \/ EditResume(w) \/ DraftLetter(w)
           \/ Truncate(w) \/ Fill(w) \/ WriteTex(w) \/ Index(w)
  BY <1>2, <1>3, SaveOrder
  DEF CountPages, EditResume, DraftLetter, Truncate, Fill, WriteTex, Index, Busy
<1>4. ASSUME Busy(w), UNCHANGED queue,
             NEW s \in {"truncate", "return"}, NEW g \in Gots, Move(w, Got(job[w], s, g))
      PROVE  UNCHANGED queue /\ Busy(w)
             /\ \E r \in JobRecord : Move(w, r) /\ r.at \notin {"draft", "answers", "redraft"}
  BY <1>0, <1>4, GotTyped DEF Busy, Steps
<1>5. CASE ReadPdf(w)
  <2>1. /\ job[w].at = "read" /\ UNCHANGED queue
        /\ Move(w, Got(job[w], "return", file[job[w].entry[1]]))
    BY <1>5 DEF ReadPdf, Got
  <2>2. JobKey(w) \in Key /\ job[w].entry = <<JobKey(w)>>
    BY <1>0, <2>1, BusyHasPosting, JobsHaveKeys DEF PapersInv, Working
  <2>3. file[job[w].entry[1]] \in Gots
    BY <1>0, <2>2 DEF Types, Gots
  <2> QED BY <1>4, <2>1, <2>3 DEF Busy
<1>6. CASE Compile(w) \/ BuildFails(w)
  <2>1. Busy(w) /\ UNCHANGED queue
    BY <1>6, SaveOrder DEF Compile, BuildFails, Busy
  <2>2. Nothing \in Gots /\ Reference \in Gots /\ Pdf(JobVariant(w), JobText(w)) \in Gots
    BY <1>0, <2>1, BusyHasPosting, JobsHaveKeys DEF Gots, Busy
  <2>3. \E s \in {"truncate", "return"}, g \in Gots : Move(w, Got(job[w], s, g))
    BY <1>6, <2>2, SaveOrder DEF Compile, BuildFails, Got
  <2> QED BY <1>4, <2>1, <2>3
<1> QED BY <1>1, <1>3, <1>5, <1>6 DEF Step

LEMMA ListsAreWritten ==
  ASSUME Types, NEW h \in LoopHandler, Busy(h), NEW qs \in AnswerLists,
         SaveQuestions(job[h].posting, qs), queue[job[h].posting].staged
  PROVE  /\ queue'[job[h].posting].staged /\ queue'[job[h].posting].answers = qs
         /\ \A p \in Posting \ {job[h].posting} : queue'[p].answers = queue[p].answers
<1>1. job[h].posting \in Posting
  BY BusyHasPosting DEF Worker, Busy
<1> QED BY <1>1 DEF Types, QueueRow, SaveQuestions

LEMMA HandlersHold ==
  ASSUME PapersInv, LoopInv, NEW h \in LoopHandler,
         \/ DraftQuestions(h) \/ LiveAnswer(h) \/ SaveAnswer(h)
         \/ StartRedraft(h) \/ Redraft(h) \/ EnsureResume(h) \/ RecordResume(h)
  PROVE  LoopInv'
<1>0. Types /\ h \in Worker /\ Busy(h) /\ job[h] \in JobRecord /\ job[h].posting \in Posting
      /\ Holding(h)
  BY BusyHasPosting, PoolIsNotLoop
  DEF PapersInv, LoopInv, DraftQuestions, LiveAnswer, SaveAnswer, StartRedraft, Redraft,
      EnsureResume, RecordResume, Busy
<1>1. CASE Move(h, Idle)
  BY <1>0, <1>1, LoopLets, IdleRecord
<1>2. CASE DraftQuestions(h)
  <2>1. PICK qs \in AnswerLists : qs = [q \in Question |-> "drafted"]
    BY ListsTyped
  <2>2. SaveQuestions(job[h].posting, qs) /\ Move(h, Drafted(job[h], qs))
    BY <1>2, <2>1 DEF DraftQuestions, Drafted
  <2>3. PICK r \in JobRecord : /\ Move(h, r) /\ SameJob(r, job[h]) /\ r.at = "answers"
                               /\ r.posting \in Posting /\ r.held = qs
    BY <1>0, <2>2, DraftTyped DEF Busy
  <2>4. queue[job[h].posting].staged /\ job[h].question \in Question
    BY <1>0, <1>2 DEF DraftQuestions, Holding
  <2>5. queue'[job[h].posting].staged /\ queue'[job[h].posting].answers = qs
    BY <1>0, <2>2, <2>4, ListsAreWritten
  <2>6. job'[h] = r
    BY <1>0, <2>3 DEF Types, Move
  <2>7. Holding(h)'
    BY <2>1, <2>3, <2>4, <2>5, <2>6 DEF Holding, SameJob
  <2> QED BY <1>0, <2>3, <2>7, LoopTakes
<1>3. CASE StartRedraft(h)
  <2>1. PICK r \in JobRecord : /\ Move(h, r) /\ SameJob(r, job[h]) /\ r.at = "redraft"
                               /\ r.held = job[h].held
    BY <1>0, <1>3, AtTyped DEF StartRedraft, Steps
  <2>2. job'[h] = r /\ UNCHANGED queue /\ job[h].at = "answers"
    BY <1>0, <1>3, <2>1 DEF Types, Move, StartRedraft
  <2>3. Holding(h)'
    BY <1>0, <2>1, <2>2 DEF Holding, SameJob
  <2> QED BY <1>0, <2>1, <2>3, LoopTakes
<1>4. CASE EnsureResume(h) /\ At(h, "find")
  <2>1. PICK r \in JobRecord : Move(h, r) /\ r.at = "find"
    BY <1>0, <1>4, AtTyped DEF Busy, Steps
  <2> QED BY <1>0, <2>1, LoopLets
<1> QED BY <1>1, <1>2, <1>3, <1>4
    DEF LiveAnswer, SaveAnswer, Redraft, EnsureResume, RecordResume

LEMMA StartsHolding ==
  ASSUME PapersInv, LoopInv, NEW h \in LoopHandler, NEW p \in Posting,
         \/ AnswerLive(h, p)
         \/ \E task \in {"package", "save", "redraft"}, q \in Question : Open(h, task, p, q)
  PROVE  LoopInv'
<1>0. Types /\ h \in Worker
  BY PoolIsNotLoop DEF PapersInv
<1>1. CASE AnswerLive(h, p)
  <2>1. PICK r : r = [Idle EXCEPT !.task = "answer", !.posting = p, !.at = "live"]
    OBVIOUS
  <2>2. r \in JobRecord /\ r.at = "live"
    BY <2>1, IdleRecord DEF JobRecord, Postings, Steps, Tasks
  <2>3. Move(h, r) /\ LoopFree
    BY <1>1, <2>1 DEF AnswerLive
  <2>4. job'[h] = r /\ \A x \in LoopHandler \ {h} : job'[x] = job[x] /\ ~Busy(x)
    BY <1>0, <2>3, FreeMeansIdle, PoolIsNotLoop DEF Types, Move
  <2> QED BY <2>2, <2>4 DEF LoopInv, Busy, Holding
<1>2. ASSUME NEW task \in {"package", "save", "redraft"}, NEW q \in Question, Open(h, task, p, q)
      PROVE  LoopInv'
  <2>1. PICK s \in {"draft", "answers"} :
          s = IF queue[p].answers = NoAnswers THEN "draft" ELSE "answers"
    OBVIOUS
  <2>2. PICK r : r = [Idle EXCEPT !.task = task, !.posting = p, !.question = q,
                                  !.held = queue[p].answers, !.at = s]
    OBVIOUS
  <2>3. queue[p].answers \in AnswerLists
    BY <1>0 DEF Types, QueueRow
  <2>4. r \in JobRecord /\ r.at = s /\ r.posting = p /\ r.question = q /\ r.held = queue[p].answers
    BY <2>2, <2>3, IdleRecord DEF JobRecord, Postings, Questions, Steps, Tasks
  <2>5. Move(h, r) /\ LoopFree /\ queue[p].staged /\ UNCHANGED queue
    BY <1>2, <2>1, <2>2 DEF Open
  <2>6. job'[h] = r
    BY <1>0, <2>5 DEF Types, Move
  <2>7. Holding(h)'
    BY <2>1, <2>3, <2>4, <2>5, <2>6 DEF Holding, AnswerLists
  <2> QED BY <1>0, <2>4, <2>5, <2>7, LoopTakes
<1> QED BY <1>1, <1>2

LEMMA LoopStart == DocInit => LoopInv
  BY IdleRecord, PoolIsNotLoop DEF DocInit, LoopInv, Busy, Holding

LEMMA LoopStep == PapersInv /\ LoopInv /\ [DocNext]_docVars => LoopInv'
<1> SUFFICES ASSUME PapersInv, LoopInv, [DocNext]_docVars PROVE LoopInv'
  OBVIOUS
<1>0. Types
  BY DEF PapersInv
<1>1. ASSUME NEW p \in Posting, Stage(p) \/ RemoveItem(p)
      PROVE  LoopInv'
  <2>1. LoopFree /\ UNCHANGED job
    BY <1>1 DEF Stage, RemoveItem
  <2> QED BY <1>0, <2>1, LoopSame, FreeMeansIdle
<1>2. CASE Handler
  BY <1>2, StartsHolding, HandlersHold DEF Handler
<1>3. ASSUME NEW w \in Worker \ LoopHandler, UNCHANGED queue, NEW r, Move(w, r)
      PROVE  LoopInv'
  <2>1. \A h \in LoopHandler : job'[h] = job[h]
    BY <1>0, <1>3, PoolIsNotLoop DEF Types, Move
  <2> QED BY <1>0, <1>3, <2>1, LoopSame
<1>4. CASE Downloading
  <2>1. PICK w \in PoolThread : (\E r : Move(w, r)) /\ UNCHANGED queue
    BY <1>4 DEF Downloading, Download, Answered
  <2> QED BY <1>3, <2>1, PoolIsNotLoop DEF Worker
<1>5. CASE UNCHANGED paperVars
  BY <1>0, <1>5, LoopSame DEF paperVars
<1>6. ASSUME NEW w \in Worker, Step(w)
      PROVE  LoopInv'
  <2>1. CASE Ask(w)
    BY <1>5, <2>1 DEF Ask
  <2>2. CASE ~Ask(w) /\ w \in LoopHandler
    <3>1. LoopInv' \/ \E r \in JobRecord :
             Busy(w) /\ Move(w, r) /\ r.at \notin {"draft", "answers", "redraft"}
      BY <1>6, <2>2, BuildMoves
    <3> QED BY <1>0, <2>2, <3>1, LoopLets
  <2>3. CASE ~Ask(w) /\ w \notin LoopHandler
    BY <1>3, <1>6, <2>3, BuildMoves
  <2> QED BY <2>1, <2>2, <2>3
<1>7. CASE Elsewhere \/ (NewDay /\ UNCHANGED paperVars) \/ UNCHANGED docVars
  BY <1>5, <1>7 DEF Elsewhere, docVars
<1>8. CASE Restart
  BY <1>8, IdleRecord, PoolIsNotLoop DEF Restart, LoopInv, Busy, Holding
<1> QED BY <1>1, <1>2, <1>4, <1>6, <1>7, <1>8 DEF DocNext

LEMMA LoopAlways == DocSpec => []LoopInv
  BY LoopStart, LoopStep, PapersAlways, PTL DEF DocSpec

(* What EditsKept says of one answer in one step. *)
EditKept(p, q) ==
  /\ queue[p].answers # NoAnswers /\ queue'[p].answers # NoAnswers
  /\ queue[p].answers[q] = "saved" /\ queue'[p].answers[q] # "saved"
  => \E h \in LoopHandler : /\ job[h].at = "redraft" /\ job'[h] # job[h]
                            /\ job[h].posting = p /\ job[h].question = q

(* A handler writes back the list that is there, with its own answer replaced: *)
(* nothing came between.                                                    *)
LEMMA WritesKeep ==
  ASSUME PapersInv, LoopInv, NEW h \in LoopHandler,
         DraftQuestions(h) \/ SaveAnswer(h) \/ Redraft(h),
         NEW p \in Posting, NEW q \in Question
  PROVE  EditKept(p, q)
<1>0. Types /\ Busy(h) /\ job[h].posting \in Posting /\ Holding(h)
  BY BusyHasPosting, PoolIsNotLoop
  DEF PapersInv, LoopInv, DraftQuestions, SaveAnswer, Redraft, Busy
<1> SUFFICES ASSUME queue[p].answers # NoAnswers, queue[p].answers[q] = "saved",
                    queue'[p].answers[q] # "saved"
             PROVE  /\ job[h].at = "redraft" /\ job'[h] # job[h]
                    /\ job[h].posting = p /\ job[h].question = q
  BY DEF EditKept
<1>1. CASE DraftQuestions(h)
  <2>1. PICK qs \in AnswerLists : qs = [x \in Question |-> "drafted"]
    BY ListsTyped
  <2>2. SaveQuestions(job[h].posting, qs) /\ job[h].at = "draft"
    BY <1>1, <2>1 DEF DraftQuestions
  <2>3. queue[job[h].posting].staged /\ queue[job[h].posting].answers = NoAnswers
    BY <1>0, <2>2 DEF Holding
  <2>4. p # job[h].posting
    BY <2>3
  <2> QED BY <1>0, <2>2, <2>3, <2>4, ListsAreWritten
<1>2. ASSUME NEW a \in {"drafted", "saved"}, job[h].at \in {"answers", "redraft"},
             SaveQuestions(job[h].posting, AnswerTo(h, a))
      PROVE  p = job[h].posting /\ q = job[h].question /\ a = "drafted"
  <2>1. /\ queue[job[h].posting].staged /\ job[h].question \in Question
        /\ job[h].held = queue[job[h].posting].answers
        /\ job[h].held \in [Question -> {"drafted", "saved"}]
    BY <1>0, <1>2 DEF Holding
  <2>2. AnswerTo(h, a) \in AnswerLists
    BY <2>1 DEF AnswerTo, AnswerLists
  <2>3. /\ queue'[job[h].posting].answers = AnswerTo(h, a)
        /\ p # job[h].posting => queue'[p].answers = queue[p].answers
    BY <1>0, <1>2, <2>1, <2>2, ListsAreWritten
  <2>4. p = job[h].posting
    BY <2>3
  <2>5. AnswerTo(h, a)[q] = IF q = job[h].question THEN a ELSE queue[p].answers[q]
    BY <2>1, <2>4 DEF AnswerTo
  <2> QED BY <2>3, <2>4, <2>5
<1>3. CASE SaveAnswer(h)
  BY <1>2, <1>3 DEF SaveAnswer
<1>4. CASE Redraft(h)
  <2>1. job'[h] = Idle
    BY <1>0, <1>4, PoolIsNotLoop DEF Redraft, Move, Types
  <2> QED BY <1>2, <1>4, <2>1, IdleRecord DEF Redraft
<1> QED BY <1>1, <1>3, <1>4

(* Whatever else happens in a step, no list changes, or the item is removed.   *)
LEMMA OthersKeep ==
  ASSUME Types, NEW p \in Posting, NEW q \in Question,
         queue'[p].answers = queue[p].answers \/ queue'[p].answers = NoAnswers
  PROVE  EditKept(p, q)
BY DEF EditKept

LEMMA EditsStep ==
  ASSUME PapersInv, LoopInv, [DocNext]_docVars, NEW p \in Posting, NEW q \in Question
  PROVE  EditKept(p, q)
<1>0. Types
  BY DEF PapersInv
<1>1. CASE UNCHANGED queue
  BY <1>0, <1>1, OthersKeep
<1>2. ASSUME NEW x \in Posting, Stage(x) \/ RemoveItem(x) \/ \E h \in LoopHandler : AnswerLive(h, x)
      PROVE  EditKept(p, q)
  <2>1. CASE queue' = [queue EXCEPT ![x].staged = TRUE]
    BY <1>0, <2>1, OthersKeep DEF Types, QueueRow
  <2>2. CASE queue' = [queue EXCEPT ![x] = Unqueued]
    BY <1>0, <2>2, OthersKeep DEF Types, QueueRow, Unqueued
  <2> QED BY <1>2, <2>1, <2>2 DEF Stage, RemoveItem, AnswerLive
<1>3. ASSUME NEW h \in LoopHandler, RecordResume(h)
      PROVE  EditKept(p, q)
  <2>1. job[h].posting \in Posting
    BY <1>0, <1>3, BusyHasPosting, PoolIsNotLoop DEF RecordResume
  <2>2. PICK s \in {"none", "built"} : queue' = [queue EXCEPT ![job[h].posting].resume = s]
    BY <1>3 DEF RecordResume
  <2> QED BY <1>0, <2>1, <2>2, OthersKeep DEF Types, QueueRow
<1>4. CASE Handler
  BY <1>1, <1>2, <1>3, <1>4, WritesKeep
  DEF Handler, Open, LiveAnswer, StartRedraft, EnsureResume
<1>5. CASE Downloading
  BY <1>1, <1>5 DEF Downloading, Download, Answered
<1>6. ASSUME NEW w \in Worker, Step(w)
      PROVE  EditKept(p, q)
  BY <1>1, <1>6, BuildMoves DEF Ask, paperVars
<1>7. CASE Elsewhere \/ (NewDay /\ UNCHANGED paperVars) \/ Restart \/ UNCHANGED docVars
  BY <1>1, <1>7 DEF Elsewhere, Restart, paperVars, docVars
<1> QED BY <1>2, <1>4, <1>5, <1>6, <1>7 DEF DocNext

(* An answer the user wrote is lost to nothing but the removal of the item or   *)
(* a redraft of that answer, however long the handler that writes the list     *)
(* had waited for the model.                                                *)
THEOREM EditsAreKept == DocSpec => EditsKept
<1>1. PapersInv /\ LoopInv /\ [DocNext]_docVars =>
        [\A p \in Posting, q \in Question : EditKept(p, q)]_docVars
  BY EditsStep
<1>2. DocSpec => [][\A p \in Posting, q \in Question : EditKept(p, q)]_docVars
  BY <1>1, PapersAlways, LoopAlways, PTL DEF DocSpec
<1>3. (\A p \in Posting, q \in Question : EditKept(p, q)) =>
        \A p \in Posting, q \in Question :
          /\ queue[p].answers # NoAnswers /\ queue'[p].answers # NoAnswers
          /\ queue[p].answers[q] = "saved" /\ queue'[p].answers[q] # "saved"
          => \E h \in LoopHandler : /\ job[h].at = "redraft" /\ job'[h] # job[h]
                                    /\ job[h].posting = p /\ job[h].question = q
  BY DEF EditKept
<1> QED BY <1>2, <1>3, PTL DEF EditsKept

(* What the code's types promise of rows and files. *)
THEOREM DocumentsTyped == DocSpec => []DocTypeOK
<1>1. Types /\ TypeOK => DocTypeOK
  BY IdleRecord DEF Types, DocTypeOK, QueueRow, Postings
<1>2. PapersInv /\ BudgetInv => Types /\ TypeOK
  BY DEF PapersInv, BudgetInv
<1> QED BY <1>1, <1>2, PapersAlways, DocumentsSpend, BudgetAlways, PTL
=============================================================================
