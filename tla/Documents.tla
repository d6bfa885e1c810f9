----------------------------- MODULE Documents -----------------------------
(***************************************************************************)
(* The papers of one application (app/apply_queue.py, resume_tailor.py,      *)
(* coverletter.py, resume_store.py, outreach.py): the answers and resume     *)
(* cached on its queue row, and the PDF files and index rows behind them.    *)
(*                                                                         *)
(* The async handlers (package, save, redraft, answer, stage, remove) run on *)
(* the event loop one at a time and block it; GET /apply/resume and          *)
(* /apply/cover run in pool threads beside them, statement by statement,     *)
(* and so does everything else that spends the user's model calls            *)
(* (LlmBudget, which this module extends).                                   *)
(*                                                                         *)
(* Left out: LaTeX and wording.  A compile fits on a page or does not (it    *)
(* may time out at any try); a PDF is known by the variant and the job it    *)
(* was made for.                                                           *)
(***************************************************************************)
EXTENDS LlmBudget, Sequences

CONSTANTS Posting, Question,
          Text,         \* what a posting says: company and title, JD, and the
                        \* signals pick_variant counts in the two
          LoopHandler,  \* async routes at work
          PoolThread,   \* threads serving a download
          loop,         \* the event loop's thread, as a Caller
          draft,        \* the feature documents are charged to
          MaxRequests   \* bound, with and without a model: [BOOLEAN -> Nat]

ASSUME DocumentsAssumption ==
  /\ loop \in Caller /\ PoolThread \subseteq Caller /\ loop \notin PoolThread
  /\ LoopHandler \cap Caller = {}
  /\ draft \in Feature
  /\ MaxRequests \in [BOOLEAN -> Nat]
  /\ "no posting" \notin Posting
  /\ \A t, u \in Text : t.place = u.place /\ t.jd = u.jd => t = u

VARIABLES llm,      \* use_llm_router: is there a model to pay for
          text,     \* [Posting -> Text]: job_postings, never rewritten
          file,     \* [Key -> ...]: resume.pdf in the entry's directory
          tex,      \* the entries whose resume.tex is on disk
          row,      \* [Key -> ...]: tailored_resumes, the posting_id of each
          queue,    \* [Posting -> ...]: apply_queue
          job,      \* [Worker -> ...]: where each handler is
          rewritten, \* history: the entries whose PDF was ever overwritten
          requests  \* those made so far

fixedVars == <<llm, text>>
paperVars == <<fixedVars, file, tex, row, queue, job, rewritten, requests>>
docVars == <<budgetVars, paperVars>>

Worker == LoopHandler \cup PoolThread
Thread(w) == IF w \in LoopHandler THEN loop ELSE w

(* What a file holds, or a request returns. *)
Gone == <<"gone">>
Torn == <<"torn">>
Reference == <<"reference">>
Nothing == <<"nothing">>
Pdf(v, t) == <<v, t>>
NoPosting == "no posting"

(* pick_variant: more signals win, the title breaks a tie. *)
PickVariant(t) ==
  IF t.ml > t.swe \/ (t.ml = t.swe /\ t.mlTitle) THEN "aiml" ELSE "swe"

Variant(kind, t) == IF kind = "cover" THEN "cover" ELSE PickVariant(t)

MakeCacheKey(v, t) == [variant |-> v, place |-> t.place, jd |-> t.jd]
Key == {MakeCacheKey(v, t) : v \in {"swe", "aiml", "cover"}, t \in Text}

NoAnswers == <<>>
Unqueued == [staged |-> FALSE, resume |-> "unset", answers |-> NoAnswers]

Idle == [at |-> "idle", task |-> "none", kind |-> "resume", posting |-> NoPosting,
         question |-> 0, held |-> NoAnswers, entry |-> <<>>, got |-> Nothing]

DocInit ==
  /\ Init
  /\ llm \in BOOLEAN
  /\ text \in [Posting -> Text]
  /\ file = [k \in Key |-> Gone]
  /\ tex = {}
  /\ row = [k \in Key |-> NoPosting]
  /\ queue = [p \in Posting |-> Unqueued]
  /\ job = [w \in Worker |-> Idle]
  /\ rewritten = {}
  /\ requests = 0

-----------------------------------------------------------------------------
(* Mutated form of LoopFree: handlers run in threads of their own. *)
LoopFreeAlways == TRUE

(* An async handler starts when no other holds the loop. *)
LoopFree == \A h \in LoopHandler : job[h] = Idle

(* One more request, up to the bound. *)
Request ==
  /\ requests < MaxRequests[llm]
  /\ requests' = requests + 1

Move(w, changes) == job' = [job EXCEPT ![w] = changes]
At(w, step) == Move(w, [job[w] EXCEPT !.at = step])

(* stage, remove: INSERT OR IGNORE and DELETE; /apply/answer stages too. *)
Stage(p) ==
  /\ LoopFree /\ Request
  /\ queue' = [queue EXCEPT ![p].staged = TRUE]
  /\ UNCHANGED <<budgetVars, fixedVars, file, tex, row, job, rewritten>>

RemoveItem(p) ==
  /\ LoopFree /\ Request
  /\ queue' = [queue EXCEPT ![p] = Unqueued]
  /\ UNCHANGED <<budgetVars, fixedVars, file, tex, row, job, rewritten>>

(* POST /apply/package, /answer/save, /answer/redraft: the row is read;      *)
(* get_questions returns what it caches and drafts what it does not.         *)
Open(h, task, p, q) ==
  /\ LoopFree /\ Request
  /\ queue[p].staged
  /\ Move(h, [Idle EXCEPT !.task = task, !.posting = p, !.question = q,
                          !.held = queue[p].answers,
                          !.at = IF queue[p].answers = NoAnswers THEN "draft" ELSE "answers"])
  /\ UNCHANGED <<budgetVars, fixedVars, file, tex, row, queue, rewritten>>

(* POST /apply/answer: staged, then answered live, and nothing cached. *)
AnswerLive(h, p) ==
  /\ LoopFree /\ Request
  /\ queue' = [queue EXCEPT ![p].staged = TRUE]
  /\ Move(h, [Idle EXCEPT !.task = "answer", !.posting = p, !.at = "live"])
  /\ UNCHANGED <<budgetVars, fixedVars, file, tex, row, rewritten>>

(* GET /apply/resume and /apply/cover: the posting need not be queued. *)
Download(w, p, kind) ==
  /\ job[w] = Idle
  /\ Request
  /\ Move(w, [Idle EXCEPT !.task = "download", !.posting = p, !.kind = kind, !.at = "find"])
  /\ UNCHANGED <<budgetVars, fixedVars, file, tex, row, queue, rewritten>>

-----------------------------------------------------------------------------
(* consume(feature="draft"), wherever a worker stands before a paid call.    *)
Paying(w) == job[w].at \in {"draft", "live", "redraft", "edit"}

Ask(w) ==
  /\ Paying(w) /\ llm
  /\ CountAll(Thread(w), draft) \/ CountSlice(Thread(w))
  /\ UNCHANGED paperVars

(* How it comes out: the call is charged, refused by the cap or by the       *)
(* slice, or there is no model to ask.  The worker goes on in every case,    *)
(* with a template or the base text where it got nothing, and so it does     *)
(* when the call it paid for fails.                                         *)
Asked(w) ==
  \/ Charge(Thread(w)) \/ SliceSpent(Thread(w))
  \/ /\ ~llm \/ (cpc[Thread(w)] = "idle" /\ ~RoomUnder(calls, Cap))
     /\ UNCHANGED budgetVars

(* The other threads that spend the user's calls: the chat, the matcher. *)
OtherCaller == Caller \ (PoolThread \cup {loop})
Elsewhere ==
  /\ llm
  /\ \E c \in OtherCaller :
       \/ \E f \in Feature \ {draft} : CountAll(c, f)
       \/ CountSlice(c) \/ SliceSpent(c) \/ Charge(c) \/ CallerFails(c)
  /\ UNCHANGED paperVars

-----------------------------------------------------------------------------
SaveQuestions(p, qs) ==
  queue' = IF queue[p].staged THEN [queue EXCEPT ![p].answers = qs] ELSE queue

(* get_questions: what is not on file is drafted, in one call, and saved.    *)
DraftQuestions(h) ==
  /\ job[h].at = "draft"
  /\ Asked(h)
  /\ LET qs == [q \in Question |-> "drafted"]
     IN  /\ SaveQuestions(job[h].posting, qs)
         /\ Move(h, [job[h] EXCEPT !.at = "answers", !.held = qs])
  /\ UNCHANGED <<fixedVars, file, tex, row, rewritten, requests>>

LiveAnswer(h) ==
  /\ job[h].at = "live"
  /\ Asked(h)
  /\ Move(h, Idle)
  /\ UNCHANGED <<fixedVars, file, tex, row, queue, rewritten, requests>>

(* The list as it was read, with one answer replaced. *)
AnswerTo(h, a) == [job[h].held EXCEPT ![job[h].question] = a]

(* save_answer: the list it read, one answer replaced, written whole. *)
SaveAnswer(h) ==
  /\ job[h].at = "answers" /\ job[h].task = "save"
  /\ SaveQuestions(job[h].posting, AnswerTo(h, "saved"))
  /\ Move(h, Idle)
  /\ UNCHANGED <<budgetVars, fixedVars, file, tex, row, rewritten, requests>>

(* redraft_answer pays for one answer, then writes the list it had read. *)
StartRedraft(h) ==
  /\ job[h].at = "answers" /\ job[h].task = "redraft"
  /\ At(h, "redraft")
  /\ UNCHANGED <<budgetVars, fixedVars, file, tex, row, queue, rewritten, requests>>

Redraft(h) ==
  /\ job[h].at = "redraft"
  /\ Asked(h)
  /\ SaveQuestions(job[h].posting, AnswerTo(h, "drafted"))
  /\ Move(h, Idle)
  /\ UNCHANGED <<fixedVars, file, tex, row, rewritten, requests>>

(* _ensure_resume: what the row says, the sentinel for none included, ends   *)
(* the package; otherwise the resume is built.                              *)
EnsureResume(h) ==
  /\ job[h].at = "answers" /\ job[h].task = "package"
  /\ IF queue[job[h].posting].resume # "unset" THEN Move(h, Idle) ELSE At(h, "find")
  /\ UNCHANGED <<budgetVars, fixedVars, file, tex, row, queue, rewritten, requests>>

RecordResume(h) ==
  /\ job[h].at = "return" /\ job[h].task = "package"
  /\ queue' = [queue EXCEPT ![job[h].posting].resume =
                 IF job[h].got = Nothing THEN "none" ELSE "built"]
  /\ Move(h, Idle)
  /\ UNCHANGED <<budgetVars, fixedVars, file, tex, row, rewritten, requests>>

Answered(w) ==
  /\ job[w].at = "return" /\ job[w].task = "download"
  /\ Move(w, Idle)
  /\ UNCHANGED <<budgetVars, fixedVars, file, tex, row, queue, rewritten, requests>>

-----------------------------------------------------------------------------
JobText(w) == text[job[w].posting]
JobVariant(w) == Variant(job[w].kind, JobText(w))
JobKey(w) == MakeCacheKey(JobVariant(w), JobText(w))

(* _row_usable: both files are there; what they hold is not looked at. *)
RowUsable(k) == file[k] # Gone /\ k \in tex

(* Mutated form of FindCached: any document made for the posting. *)
FindCachedAny(w) ==
  {k \in Key : row[k] = job[w].posting /\ k.jd = JobText(w).jd /\ RowUsable(k)}

(* find_cached, with the posting_id its callers always pass. *)
FindCached(w) ==
  {k \in Key : row[k] = job[w].posting /\ k.variant = JobVariant(w)
               /\ k.jd = JobText(w).jd /\ RowUsable(k)}

Find(w) ==
  /\ job[w].at = "find"
  /\ IF FindCached(w) = {} THEN At(w, "edit")
     ELSE \E k \in FindCached(w) : Move(w, [job[w] EXCEPT !.at = "count", !.entry = <<k>>])
  /\ UNCHANGED <<budgetVars, fixedVars, file, tex, row, queue, rewritten, requests>>

(* _from_cache_row counts the pages of the file, then reads it again.  What  *)
(* is left of a torn file may or may not look like one page.                 *)
CountPages(w) ==
  /\ job[w].at = "count"
  /\ \/ At(w, "read")
     \/ file[job[w].entry[1]] = Torn /\ At(w, "edit")
  /\ UNCHANGED <<budgetVars, fixedVars, file, tex, row, queue, rewritten, requests>>

ReadPdf(w) ==
  /\ job[w].at = "read"
  /\ Move(w, [job[w] EXCEPT !.at = "return", !.got = file[job[w].entry[1]]])
  /\ UNCHANGED <<budgetVars, fixedVars, file, tex, row, queue, rewritten, requests>>

-----------------------------------------------------------------------------
(* Mutated form of SaveSteps: the row is written before the PDF is whole. *)
SaveStepsRowEarly == <<"truncate", "tex", "index", "fill", "return">>

(* save: write_bytes empties the file and fills it, the .tex follows, and    *)
(* the row comes last.                                                      *)
SaveSteps == <<"truncate", "fill", "tex", "index", "return">>
AfterSave(step) ==
  LET i == CHOOSE j \in 1..Len(SaveSteps) : SaveSteps[j] = step
  IN  SaveSteps[i + 1]

(* The model edits the base resume, or writes the letter's paragraphs. *)
EditResume(w) ==
  /\ job[w].at = "edit" /\ job[w].kind = "resume"
  /\ Asked(w)
  /\ At(w, "compile")
  /\ UNCHANGED <<fixedVars, file, tex, row, queue, rewritten, requests>>

DraftLetter(w) ==
  /\ job[w].at = "edit" /\ job[w].kind = "cover"
  /\ Asked(w)
  /\ At(w, "compile")
  /\ UNCHANGED <<fixedVars, file, tex, row, queue, rewritten, requests>>

(* Fit and compile, with the base text when the edit does not fit.           *)
(* When neither does, a resume is the untouched reference, if there is one,  *)
(* and nothing is saved; a letter is nothing.                                *)
Compile(w) ==
  /\ job[w].at = "compile"
  /\ \/ Move(w, [job[w] EXCEPT !.at = SaveSteps[1],
                               !.got = Pdf(JobVariant(w), JobText(w))])
     \/ /\ job[w].kind = "resume"
        /\ Move(w, [job[w] EXCEPT !.at = "return", !.got = Reference])
     \/ Move(w, [job[w] EXCEPT !.at = "return", !.got = Nothing])
  /\ UNCHANGED <<budgetVars, fixedVars, file, tex, row, queue, rewritten, requests>>

Truncate(w) ==
  /\ job[w].at = "truncate"
  /\ rewritten' = IF file[JobKey(w)] = Gone THEN rewritten ELSE rewritten \cup {JobKey(w)}
  /\ file' = [file EXCEPT ![JobKey(w)] = Torn]
  /\ At(w, AfterSave("truncate"))
  /\ UNCHANGED <<budgetVars, fixedVars, tex, row, queue, requests>>

Fill(w) ==
  /\ job[w].at = "fill"
  /\ file' = [file EXCEPT ![JobKey(w)] = job[w].got]
  /\ At(w, AfterSave("fill"))
  /\ UNCHANGED <<budgetVars, fixedVars, tex, row, queue, rewritten, requests>>

WriteTex(w) ==
  /\ job[w].at = "tex"
  /\ tex' = tex \cup {JobKey(w)}
  /\ At(w, AfterSave("tex"))
  /\ UNCHANGED <<budgetVars, fixedVars, file, row, queue, rewritten, requests>>

(* ON CONFLICT(user_id, cache_key): the entry now belongs to this posting. *)
Index(w) ==
  /\ job[w].at = "index"
  /\ row' = [row EXCEPT ![JobKey(w)] = job[w].posting]
  /\ At(w, AfterSave("index"))
  /\ UNCHANGED <<budgetVars, fixedVars, file, tex, queue, rewritten, requests>>

(* An exception while building, from the disk or the database, is caught by  *)
(* _build_resume and build_cover_bytes: there is no document.                *)
BuildFails(w) ==
  /\ job[w].at \in {"find", "count", "read", "edit", "compile"} \cup {SaveSteps[i] : i \in 1..4}
  /\ cpc[Thread(w)] = "idle"
  /\ Move(w, [job[w] EXCEPT !.at = "return", !.got = Nothing])
  /\ UNCHANGED <<budgetVars, fixedVars, file, tex, row, queue, rewritten, requests>>

(* A deploy or a crash: every handler is lost, the volume stays. *)
Restart ==
  /\ job' = [w \in Worker |-> Idle]
  /\ \/ ProcessDies
     \/ (\A c \in Caller : cpc[c] = "idle") /\ UNCHANGED budgetVars
  /\ UNCHANGED <<fixedVars, file, tex, row, queue, rewritten, requests>>

Handler ==
  \E h \in LoopHandler :
    \/ \E p \in Posting :
         \/ AnswerLive(h, p)
         \/ \E task \in {"package", "save", "redraft"}, q \in Question : Open(h, task, p, q)
    \/ DraftQuestions(h) \/ LiveAnswer(h) \/ SaveAnswer(h)
    \/ StartRedraft(h) \/ Redraft(h)
    \/ EnsureResume(h) \/ RecordResume(h)

Downloading ==
  \E w \in PoolThread :
    \/ \E p \in Posting, kind \in {"resume", "cover"} : Download(w, p, kind)
    \/ Answered(w)

Step(w) ==
  \/ Ask(w) \/ Find(w) \/ CountPages(w) \/ ReadPdf(w)
  \/ EditResume(w) \/ DraftLetter(w) \/ Compile(w)
  \/ Truncate(w) \/ Fill(w) \/ WriteTex(w) \/ Index(w) \/ BuildFails(w)

DocNext ==
  \/ \E p \in Posting : Stage(p) \/ RemoveItem(p)
  \/ Handler \/ Downloading
  \/ \E w \in Worker : Step(w)
  \/ Elsewhere
  \/ NewDay /\ UNCHANGED paperVars
  \/ Restart

DocSpec == DocInit /\ [][DocNext]_docVars

-----------------------------------------------------------------------------
Content == {Gone, Torn} \cup {Pdf(v, t) : v \in {"swe", "aiml", "cover"}, t \in Text}
AnswerLists == {NoAnswers} \cup [Question -> {"drafted", "saved"}]

DocTypeOK ==
  /\ TypeOK
  /\ file \in [Key -> Content] /\ tex \subseteq Key /\ rewritten \subseteq Key
  /\ row \in [Key -> Posting \cup {NoPosting}]
  /\ queue \in [Posting -> [staged : BOOLEAN, resume : {"unset", "none", "built"},
                            answers : AnswerLists]]
  /\ \A w \in Worker : job[w] # Idle => job[w].posting \in Posting

(* Files are shared, rows change hands, builds overlap and die, and the file *)
(* is read after the row was: what a request returns is still a document of  *)
(* the kind it asked for, made for that company, title and job description   *)
(* (or the reference resume, which is nobody's).                             *)
ServedForItsJob ==
  \A w \in Worker : job[w].at = "return" =>
    \/ job[w].got \in {Nothing, Torn, Pdf(JobVariant(w), JobText(w))}
    \/ job[w].got = Reference /\ job[w].kind = "resume"

(* The row is written after the files, so a build that dies leaves nothing   *)
(* to be served: half a PDF is only ever served where a whole one was being  *)
(* overwritten.                                                            *)
ServedWhole ==
  \A w \in Worker :
    job[w].at = "return" /\ job[w].got = Torn => JobKey(w) \in rewritten

(* Every save writes the whole list back.  An answer the user wrote is lost  *)
(* to nothing but the removal of the item or a redraft of that answer, even  *)
(* when the handler that writes had to wait for the model meanwhile.         *)
EditsKept ==
  [][\A p \in Posting, q \in Question :
       /\ queue[p].answers # NoAnswers /\ queue'[p].answers # NoAnswers
       /\ queue[p].answers[q] = "saved" /\ queue'[p].answers[q] # "saved"
       => \E h \in LoopHandler : /\ job[h].at = "redraft" /\ job'[h] # job[h]
                                 /\ job[h].posting = p /\ job[h].question = q]_docVars
=============================================================================
