-------------------------------- MODULE Desk --------------------------------
(***************************************************************************)
(* The reading desk.  Documents are uploaded, fetched and edited; every    *)
(* version keeps its chunks.  A reader asks for an analysis of the current *)
(* version: one row of the queue, in which a model is asked for insights   *)
(* chunk by chunk and, for each, what other chunks say of it.  The search  *)
(* for those chunks commits the session it shares with the analysis, so    *)
(* that a reader sees, and reviews, the insights of an analysis that is    *)
(* still running.  A conversation about a document asks the model inside   *)
(* its request and gets proactive insights through the same queue.         *)
(***************************************************************************)
EXTENDS FiniteSets, Naturals, SequencesExt

CONSTANTS
    Passages,       \* what a chunk may say, numbered in the order of a text
    Texts,          \* contents of documents, as sets of passages
    MaxDocs,        \* bound on documents
    MaxVersions,    \* bound on versions of a document
    MaxDrafts,      \* bound on insights of one answer of the model
    MaxVerdicts,    \* bound on what the model says of one insight
    MaxAsks,        \* bound on requests
    MaxDeaths,      \* bound on deaths of the process
    NoJob

Keys == (1..MaxDocs) \X (1..MaxVersions)
\* Rows of the queue.
Read(k) == <<"read", k>>
Tips == <<"tips", <<0, 0>>>>
Rows == {Tips} \cup {Read(k) : k \in Keys}

\* A document is stored with its first version.
ASSUME DeskAssumption ==
    /\ Passages \subseteq Nat /\ IsFiniteSet(Passages) /\ Texts \subseteq SUBSET Passages
    /\ MaxDocs \in Nat /\ MaxVersions \in Nat \ {0}
    /\ MaxDrafts \in Nat \ {0} /\ MaxVerdicts \in Nat
    /\ MaxAsks \in Nat /\ MaxDeaths \in Nat /\ NoJob \notin Rows

VARIABLES
    file,       \* document_file rows, by content
    doc,        \* documents, as sequences of versions
    analysis,   \* reading_analysis rows, by document and version
    insight,    \* reading_insight rows
    support,    \* reading_corroboration rows
    waiting,    \* pending rows of the queue, in the order the worker takes them
    stuck,      \* rows that a death has left running
    worker,     \* the row the worker runs and what its session has not committed
    talk,       \* companion_message rows
    open,       \* questions the model has not answered, by start of transaction
    checking,   \* requests that have found no active companion_insights row
    tips,       \* batches of companion_insight rows
    clock,      \* order of the transactions of the conversation
    asks, deaths

libraryVars == <<file, doc>>
readingVars == <<analysis, insight, support>>
queueVars == <<waiting, stuck>>
talkVars == <<talk, open, checking, tips, clock>>
boundVars == <<asks, deaths>>
vars == <<libraryVars, readingVars, queueVars, worker, talkVars, boundVars>>

Chunk == [of : Keys, says : Passages]
Stances == {"supports", "contradicts"}
States == {"insufficient", "corroborated", "conflicted"}
\* n tells insights of one chunk apart: the answer about the chunk that gave them, and
\* the place in that answer.
Insight == [chunk : Chunk, n : Nat \X Nat, state : States, reviewed : BOOLEAN]
Support == [chunk : Chunk, n : Nat \X Nat, by : Passages, stance : Stances]
\* mid is how many insights of the answer about the next chunk are drawn.
Idle == [job |-> NoJob, todo |-> {}, mid |-> 0, judged |-> {}, held |-> {}]

Exists(k) == k[1] \in DOMAIN doc /\ k[2] \in DOMAIN doc[k[1]]
\* current_version_id is written by the commit that makes the version.
Current(d) == <<d, Len(doc[d])>>
ChunksOf(k) == {[of |-> k, says |-> p] : p \in doc[k[1]][k[2]]}
\* Chunks of older versions stay.
AllChunks == UNION {ChunksOf(k) : k \in {j \in Keys : Exists(j)}}

Active(j) == j \in ToSet(waiting) \cup stuck \/ worker.job = j

Init ==
    /\ file = [t \in Texts |-> "none"] /\ doc = <<>>
    /\ analysis = [k \in Keys |-> "none"] /\ insight = {} /\ support = {}
    /\ waiting = <<>> /\ stuck = {} /\ worker = Idle
    /\ talk = {} /\ open = {} /\ checking = 0 /\ tips = 0 /\ clock = 1
    /\ asks = 0 /\ deaths = 0

-----------------------------------------------------------------------------
(* Documents                                                               *)

Asked == asks < MaxAsks /\ asks' = asks + 1 /\ UNCHANGED deaths

AddDocument(t) == Len(doc) < MaxDocs /\ doc' = Append(doc, <<t>>)

\* import_file: a known content is a duplicate, whatever became of it.  A parser
\* that fails leaves the file's row without a document.
Upload(t) ==
    /\ Asked
    /\ IF file[t] # "none" THEN UNCHANGED libraryVars
       ELSE \/ AddDocument(t) /\ file' = [file EXCEPT ![t] = "read"]
            \/ file' = [file EXCEPT ![t] = "kept"] /\ UNCHANGED doc
    /\ UNCHANGED <<readingVars, queueVars, worker, talkVars>>

ImportUrl(t) ==
    /\ Asked /\ AddDocument(t)
    /\ UNCHANGED <<file, readingVars, queueVars, worker, talkVars>>

SaveContent(d, t) ==
    /\ Asked /\ Len(doc[d]) < MaxVersions
    /\ doc' = [doc EXCEPT ![d] = Append(@, t)]
    /\ UNCHANGED <<file, readingVars, queueVars, worker, talkVars>>

-----------------------------------------------------------------------------
(* Readers                                                                 *)

\* (fault) An analysis that has ended may be asked for again.
ReusedWhileActive(k) == analysis[k] \in {"pending", "running"}
\* create_or_reuse_analysis: an analysis that has a row is answered with that row,
\* whatever became of it.
Reused(k) == analysis[k] # "none"

AskAnalysis(d) ==
    LET k == Current(d) IN
    /\ Asked
    /\ IF Reused(k) THEN UNCHANGED <<analysis, waiting>>
       ELSE /\ analysis' = [analysis EXCEPT ![k] = "pending"]
            /\ waiting' = Append(waiting, Read(k))
    /\ UNCHANGED <<libraryVars, insight, support, stuck, worker, talkVars>>

\* update_insight
Review(i) ==
    /\ Asked /\ ~i.reviewed
    /\ insight' = (insight \ {i}) \cup {[i EXCEPT !.reviewed = TRUE]}
    /\ UNCHANGED <<libraryVars, analysis, support, queueVars, worker, talkVars>>

-----------------------------------------------------------------------------
(* The analysis                                                            *)

Runs(kind) == worker.job # NoJob /\ worker.job[1] = kind
Reading == worker.job[2]

Start ==
    /\ worker.job = NoJob /\ waiting # <<>>
    /\ waiting' = Tail(waiting)
    /\ LET j == Head(waiting) IN
       worker' = [Idle EXCEPT !.job = j, !.todo = IF j[1] = "read" THEN ChunksOf(j[2]) ELSE {}]
    /\ UNCHANGED <<libraryVars, readingVars, stuck, talkVars, boundVars>>

\* (fault) The chunk that speaks first decides.
VerdictOfOne(stances) == IF "supports" \in stances THEN "corroborated" ELSE "conflicted"
\* One contradiction is enough; a chunk that only adds context counts as support.
Verdict(stances) ==
    IF "contradicts" \in stances THEN "conflicted" ELSE "corroborated"

\* (fault) The session writes the whole row as it knows it.
WrittenWhole(i, S) ==
    IF S = {} THEN i
    ELSE [i EXCEPT !.state = Verdict({s.stance : s \in S}), !.reviewed = FALSE]
\* The session writes the column it has assigned.
Written(i, S) == IF S = {} THEN i ELSE [i EXCEPT !.state = Verdict({s.stance : s \in S})]

HeldOn(i) == {s \in worker.held : s.chunk = i.chunk /\ s.n = i.n}

\* Everything the session holds.
Commit(more) ==
    /\ insight' = {Written(i, HeldOn(i)) : i \in insight} \cup more
    /\ support' = support \cup worker.held

\* chunk_index
IsNext(c) == c \in worker.todo /\ \A d \in worker.todo : c.says <= d.says

\* A chunk of which the model says nothing, or nothing that it can quote.
Skip(c) ==
    /\ Runs("read") /\ IsNext(c) /\ worker.judged = {} /\ worker.mid = 0
    /\ worker' = [worker EXCEPT !.todo = @ \ {c}]
    /\ UNCHANGED <<libraryVars, readingVars, queueVars, talkVars, boundVars>>

\* The answer that is being drawn: a new one, or the last.
Answers(c) == {i.n[1] : i \in {j \in insight : j.chunk = c}}
AnswerOf(c) == Cardinality(Answers(c)) + (IF worker.mid = 0 THEN 1 ELSE 0)

\* An insight of the answer, up to the end of the search: it indexes every chunk of the
\* workspace and commits.  The answer may hold more.
Draft(c, more) ==
    LET new == [chunk |-> c, n |-> <<AnswerOf(c), worker.mid + 1>>,
                state |-> "insufficient", reviewed |-> FALSE] IN
    /\ Runs("read") /\ IsNext(c) /\ worker.judged = {}
    /\ more => worker.mid + 1 < MaxDrafts
    /\ Commit({new}) /\ analysis' = [analysis EXCEPT ![Reading] = "running"]
    /\ worker' = [worker EXCEPT !.todo = IF more THEN @ ELSE @ \ {c},
                                !.mid = IF more THEN @ + 1 ELSE 0,
                                !.judged = {new}, !.held = {}]
    /\ UNCHANGED <<libraryVars, queueVars, talkVars, boundVars>>

\* Every chunk but the insight's own is a candidate.
Candidates(c) == {d.says : d \in AllChunks \ {c}}

Judge(S) ==
    /\ Runs("read") /\ Cardinality(S) <= MaxVerdicts
    /\ \E i \in worker.judged :
          worker' = [worker EXCEPT
              !.judged = {},
              !.held = {[chunk |-> i.chunk, n |-> i.n, by |-> s.by, stance |-> s.stance] :
                           s \in {v \in S : v.by \in Candidates(i.chunk)}}]
    /\ UNCHANGED <<libraryVars, readingVars, queueVars, talkVars, boundVars>>

Completed ==
    /\ Runs("read") /\ worker.todo = {} /\ worker.judged = {}
    /\ Commit({}) /\ analysis' = [analysis EXCEPT ![Reading] = "completed"]
    /\ worker' = Idle
    /\ UNCHANGED <<libraryVars, queueVars, talkVars, boundVars>>

\* The model fails.  What the session holds goes with the commit of the failure.
ReadingFails ==
    /\ Runs("read") /\ (worker.todo # {} \/ worker.judged # {})
    /\ Commit({}) /\ analysis' = [analysis EXCEPT ![Reading] = "failed"]
    /\ worker' = Idle
    /\ UNCHANGED <<libraryVars, queueVars, talkVars, boundVars>>

\* Nobody puts a row of these types back.
Die ==
    /\ worker.job # NoJob /\ deaths < MaxDeaths /\ deaths' = deaths + 1
    /\ stuck' = stuck \cup {worker.job} /\ worker' = Idle
    /\ open' = {} /\ checking' = 0
    /\ UNCHANGED <<libraryVars, readingVars, waiting, talk, tips, clock, asks>>

-----------------------------------------------------------------------------
(* The conversation                                                        *)

Message(role, at, q) == [role |-> role, at |-> at, of |-> q]

\* submit_message begins its transaction and asks the model in it.
Question ==
    /\ Asked /\ doc # <<>>
    /\ open' = open \cup {clock} /\ clock' = clock + 1
    /\ UNCHANGED <<libraryVars, readingVars, queueVars, worker, talk, checking, tips>>

\* (fault) A message is as old as its commit.
TimeOfCommit(q) == clock
\* now() is the time at which the transaction began.
AnswerTime(q) == q

\* The question and its answer are committed together; a failure loses both.
Answer(q) ==
    /\ q \in open /\ open' = open \ {q}
    /\ talk' \in {talk, talk \cup {Message("user", q, q), Message("assistant", AnswerTime(q), q)}}
    /\ clock' = clock + 1
    /\ UNCHANGED <<libraryVars, readingVars, queueVars, worker, checking, tips, boundVars>>

NewRound ==
    /\ Asked /\ doc # <<>>
    /\ talk' = talk \cup {Message("system", clock, clock)} /\ clock' = clock + 1
    /\ UNCHANGED <<libraryVars, readingVars, queueVars, worker, open, checking, tips>>

\* create_insight_job looks for an active row ...
AskTips ==
    /\ Asked /\ doc # <<>>
    /\ checking' = IF Active(Tips) THEN checking ELSE checking + 1
    /\ UNCHANGED <<libraryVars, readingVars, queueVars, worker, talk, open, tips, clock>>

\* ... and inserts one, in a thread of its own.
InsertTips ==
    /\ checking > 0 /\ checking' = checking - 1
    /\ waiting' = Append(waiting, Tips)
    /\ UNCHANGED <<libraryVars, readingVars, stuck, worker, talk, open, tips, clock, boundVars>>

RunTips ==
    /\ Runs("tips") /\ worker' = Idle
    /\ tips' \in {tips, tips + 1}
    /\ UNCHANGED <<libraryVars, readingVars, queueVars, talk, open, checking, clock, boundVars>>

WorkerStep ==
    \/ Start \/ Completed \/ ReadingFails \/ RunTips
    \/ \E c \in worker.todo : Skip(c) \/ \E more \in BOOLEAN : Draft(c, more)
    \/ \E S \in SUBSET [by : Passages, stance : Stances] : Judge(S)

Next ==
    \/ \E t \in Texts : Upload(t) \/ ImportUrl(t)
    \/ \E d \in DOMAIN doc : \/ AskAnalysis(d)
                             \/ \E t \in Texts : SaveContent(d, t)
    \/ \E i \in insight : Review(i)
    \/ WorkerStep \/ Die
    \/ Question \/ NewRound \/ AskTips \/ InsertTips
    \/ \E q \in open : Answer(q)

Spec == Init /\ [][Next]_vars
-----------------------------------------------------------------------------
(* Properties                                                              *)

\* Every variable holds values of its columns.
TypeOK ==
    /\ file \in [Texts -> {"none", "kept", "read"}] /\ doc \in Seq(Seq(Texts))
    /\ analysis \in [Keys -> {"none", "pending", "running", "completed", "failed"}]
    /\ insight \subseteq Insight /\ support \subseteq Support
    /\ stuck \subseteq Rows
    /\ tips \in Nat /\ checking \in Nat /\ clock \in Nat
    /\ asks \in 0..MaxAsks /\ deaths \in 0..MaxDeaths

\* No chunk's insights are stored twice: all that are stored of a chunk come from one
\* answer about it, although an analysis that fails or dies, between two insights of an
\* answer too, leaves what it had found and readers ask for it again.  That one answer
\* repeats itself nobody prevents.
InsightsOnce == \A i \in insight : i.n[1] = 1

\* What an insight shows of its evidence is what is stored of it, at every commit of
\* an analysis that the search, the end or a failure makes.
StateIsBacked ==
    \A i \in insight :
        LET on == {s \in support : s.chunk = i.chunk /\ s.n = i.n} IN
        /\ i.state = "insufficient" <=> on = {}
        /\ i.state = "conflicted" <=> \E s \in on : s.stance = "contradicts"

\* A reader's review of an insight survives the analysis that still runs.
ReviewStays ==
    [][\A i \in insight : i.reviewed =>
          \E j \in insight' : j.chunk = i.chunk /\ j.n = i.n /\ j.reviewed]_vars

\* A question and its answer are in one round of the conversation, whatever rounds
\* began while the model was asked.
RoundsSeparate ==
    \A u, a \in talk : u.role = "user" /\ a.role = "assistant" /\ u.of = a.of =>
        ~\E b \in talk : b.role = "system" /\ u.at < b.at /\ b.at < a.at

=============================================================================
