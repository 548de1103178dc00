-------------------------------- MODULE Feed --------------------------------
(***************************************************************************)
(* The investment feed.  A scheduler and requests put fetch rows of a      *)
(* source into the queue; the worker fetches what the source has posted,   *)
(* at once or through a snapshot that somebody else builds, stores new     *)
(* entries, refreshes known ones and queues the jobs that translate and    *)
(* classify what is missing, Limit entries a job.  Entries are also made   *)
(* by hand and from summarised documents.  The worker runs one row at a    *)
(* time, oldest first; the process may die and be started again. TaskQueue *)
(* is the queue in full; the facts found in an entry are Signals.          *)
(***************************************************************************)
EXTENDS FiniteSets, Naturals, SequencesExt

CONSTANTS
    Items,          \* entries of one source, numbered in order of publication
    Docs,           \* documents and notes that become entries without a source
    Chinese,        \* entries that need no translation
    Limit,          \* entries a job takes
    MaxVersion,     \* bound on how often a title changes at the source
    MaxAsks,        \* bound on requests about the source and its entries
    MaxDeaths,      \* bound on deaths of the process
    MaxFaults,      \* bound on failures of the source and of the model
    NoJob

ASSUME FeedAssumption ==
    /\ Items \subseteq Nat \ {0} /\ IsFiniteSet(Items)
    /\ IsFiniteSet(Docs) /\ Docs \cap Items = {}
    /\ Chinese \subseteq Items \cup Docs
    /\ Limit \in Nat \ {0} /\ MaxVersion \in Nat \ {0}
    /\ MaxAsks \in Nat /\ MaxDeaths \in Nat /\ MaxFaults \in Nat

VARIABLES
    posted,     \* version of each entry at the source, 0 before it is posted
    row,        \* the investment_item rows
    source,     \* the investment_source row
    waiting,    \* pending rows of the queue, in the order the worker takes them
    stuck,      \* rows that a death has left running
    worker,     \* the row the worker runs, and the entries it has loaded for it
    snapshot,   \* the snapshot named in the output of the fetch row
    clock,      \* number of commits that have inserted entries
    asks, deaths, faults

queueVars == <<waiting, stuck>>
boundVars == <<asks, deaths, faults>>
vars == <<posted, row, source, queueVars, worker, snapshot, clock, boundVars>>

Entries == Items \cup Docs
\* The whole source, or one entry that has none.
Scope == {"source"} \cup Docs
Fetch == <<"fetch", "source">>
Jobs == {Fetch, <<"classify", "source">>} \cup {<<"translate", s>> : s \in Scope}

Edited == MaxVersion + 1
Titles == 0..Edited
Row == [title : Titles, zh : Titles, judged : BOOLEAN, born : Nat]
NoRow == [title |-> 0, zh |-> 0, judged |-> FALSE, born |-> 0]
NewRow(v) == [NoRow EXCEPT !.title = v, !.born = clock]
Free == [job |-> NoJob, todo |-> {}, read |-> [e \in Entries |-> 0]]

Stored == {e \in Entries : row[e].title # 0}
InScope(s) == IF s = "source" THEN Items ELSE {s}

\* What the two queries find in a table: rows without a Chinese title or without
\* a suggested importance.
Untranslated(table, s) == {e \in InScope(s) : table[e].title # 0 /\ table[e].zh = 0}
Unjudged(table) == {e \in Items : table[e].title # 0 /\ ~table[e].judged}

Active(j) == j \in ToSet(waiting) \cup stuck \/ worker.job = j

\* (fault) Jobs are queued for what a commit adds, not for what is missing.
BacklogOfNew(table, s) ==
    LET New(S) == {e \in S : row[e].title = 0} IN
    (IF New(Untranslated(table, s)) # {} THEN <<<<"translate", s>>>> ELSE <<>>)
    \o (IF s = "source" /\ New(Unjudged(table)) # {} THEN <<<<"classify", s>>>> ELSE <<>>)

\* enqueue_investment_post_processing, of what its queries find in table.
Backlog(table, s) ==
    (IF Untranslated(table, s) # {} THEN <<<<"translate", s>>>> ELSE <<>>)
    \o (IF s = "source" /\ Unjudged(table) # {} THEN <<<<"classify", s>>>> ELSE <<>>)
Inactive(j) == ~Active(j)
PostProcess(table, s) == waiting' = waiting \o SelectSeq(Backlog(table, s), Inactive)

Init ==
    /\ posted = [i \in Items |-> 0] /\ row = [e \in Entries |-> NoRow]
    /\ \E type \in {"site", "snapshots"} :
          source = [type |-> type, enabled |-> TRUE, due |-> TRUE]
    /\ waiting = <<>> /\ stuck = {} /\ worker = Free /\ snapshot = "none"
    /\ clock = 1 /\ asks = 0 /\ deaths = 0 /\ faults = 0

-----------------------------------------------------------------------------
(* Outside                                                                 *)

Post(i) ==
    /\ posted[i] < MaxVersion
    /\ posted' = [posted EXCEPT ![i] = @ + 1]
    /\ UNCHANGED <<row, source, queueVars, worker, snapshot, clock, boundVars>>

SnapshotReady ==
    /\ snapshot = "building"
    /\ snapshot' = "ready"
    /\ UNCHANGED <<posted, row, source, queueVars, worker, clock, boundVars>>

\* next_poll_at comes to pass.
Tick ==
    /\ ~source.due
    /\ source' = [source EXCEPT !.due = TRUE]
    /\ UNCHANGED <<posted, row, queueVars, worker, snapshot, clock, boundVars>>

-----------------------------------------------------------------------------
(* The scheduler and the requests                                          *)

PollSource ==
    /\ waiting' = IF Active(Fetch) THEN waiting ELSE Append(waiting, Fetch)
    /\ UNCHANGED <<posted, row, source, stuck, worker, snapshot, clock>>

Schedule == source.enabled /\ source.due /\ PollSource /\ UNCHANGED boundVars

Asked == asks < MaxAsks /\ asks' = asks + 1 /\ UNCHANGED <<deaths, faults>>

Poll == Asked /\ PollSource

UpdateSource ==
    /\ Asked
    /\ source' = [source EXCEPT !.enabled = ~@]
    /\ UNCHANGED <<posted, row, queueVars, worker, snapshot, clock>>

\* update_item: the title changes and what was translated stays.
EditTitle(e) ==
    /\ Asked /\ e \in Stored
    /\ row' = [row EXCEPT ![e].title = Edited]
    /\ UNCHANGED <<posted, source, queueVars, worker, snapshot, clock>>

\* create_item and create_item_from_document.  The session does not flush before
\* a query, so the queries do not find the row that has just been added.
AddEntry(d) ==
    /\ row' = IF d \in Stored THEN row ELSE [row EXCEPT ![d] = NewRow(1)]
    /\ PostProcess(row, d)
    /\ UNCHANGED <<posted, source, stuck, worker, snapshot, clock, boundVars>>
    /\ vars' # vars

-----------------------------------------------------------------------------
(* The worker                                                              *)

\* The batch of a query with a limit; entries of one commit are in any order.
Batches(S, order) ==
    {B \in SUBSET S :
        /\ Cardinality(B) = (IF Cardinality(S) < Limit THEN Cardinality(S) ELSE Limit)
        /\ \A x \in B, y \in S \ B : <<y, x>> \notin order}
Older == {p \in Entries \X Entries : row[p[1]].born < row[p[2]].born}
Newer == {p \in Items \X Items : p[1] > p[2]}

Batch(j) ==
    CASE j[1] = "translate" -> Batches(Untranslated(row, j[2]), Newer)
      [] j[1] = "classify" -> Batches(Unjudged(row), Older)
      [] OTHER -> {{}}

\* What is Chinese already is copied and committed before the model is asked.
Copied(B) == [e \in Entries |->
                IF e \in B \cap Chinese THEN [row[e] EXCEPT !.zh = row[e].title] ELSE row[e]]

Start ==
    /\ worker.job = NoJob /\ waiting # <<>>
    /\ waiting' = Tail(waiting)
    /\ LET j == Head(waiting) IN \E B \in Batch(j) :
          LET todo == IF j[1] = "translate" THEN B \ Chinese ELSE B IN
          /\ row' = IF j[1] = "translate" THEN Copied(B) ELSE row
          /\ worker' = [job |-> j, todo |-> todo,
                        read |-> [e \in Entries |-> IF e \in todo THEN row[e].title ELSE 0]]
    /\ UNCHANGED <<posted, source, stuck, snapshot, clock, boundVars>>

Runs(kind) == worker.job # NoJob /\ worker.job[1] = kind
Fault == faults < MaxFaults /\ faults' = faults + 1 /\ UNCHANGED <<asks, deaths>>

\* (fault) The poll time stays in the past.
NotPolled == UNCHANGED source

\* mark_polled: the next poll is an interval away, whether or not this one failed.
Polled == source' = [source EXCEPT !.due = FALSE]

\* The source, or the snapshot's submission, fails.
FetchFails ==
    /\ Runs("fetch") /\ snapshot = "none" /\ Fault
    /\ Polled /\ worker' = Free
    /\ UNCHANGED <<posted, row, queueVars, snapshot, clock>>

\* JobDeferred: the row waits again, with the snapshot's name in its output, and
\* the tick goes on with the others.
Deferred ==
    /\ waiting' = Append(waiting, Fetch) /\ worker' = Free
    /\ UNCHANGED <<posted, row, source, stuck, clock, boundVars>>

Submit ==
    /\ Runs("fetch") /\ source.type = "snapshots" /\ snapshot = "none"
    /\ snapshot' = "building" /\ Deferred

NotReady == Runs("fetch") /\ snapshot = "building" /\ Deferred /\ UNCHANGED snapshot

\* An exception here does not reach the source's row.
DownloadFails ==
    /\ Runs("fetch") /\ snapshot = "ready" /\ Fault
    /\ snapshot' = "none" /\ worker' = Free
    /\ UNCHANGED <<posted, row, source, queueVars, clock>>

\* upsert_from_raw: a changed title takes the translation with it.
Upserted(r, v) ==
    CASE r.title = 0 -> NewRow(v)
      [] r.title \notin {0, v} -> [r EXCEPT !.title = v, !.zh = 0]
      [] OTHER -> r

\* The entries that are read from the feed's pages, or from the snapshot.
Fetched == {i \in Items : posted[i] # 0}

\* One commit: entries, poll time and the jobs.  Entries are flushed before the
\* queries look for them.
FetchSucceeds ==
    LET new == [e \in Entries |-> IF e \in Fetched THEN Upserted(row[e], posted[e]) ELSE row[e]] IN
    /\ Runs("fetch")
    /\ IF source.type = "site" THEN snapshot = "none" ELSE snapshot = "ready"
    /\ row' = new /\ Polled /\ PostProcess(new, "source")
    /\ clock' = IF Fetched \subseteq Stored THEN clock ELSE clock + 1
    /\ snapshot' = "none" /\ worker' = Free
    /\ UNCHANGED <<posted, stuck, boundVars>>

\* The model answers for the entries, for some of them when it fails; the titles it
\* saw are those of the query.
Translate(A) ==
    /\ Runs("translate")
    /\ IF A = worker.todo THEN UNCHANGED boundVars ELSE Fault
    /\ row' = [e \in Entries |-> IF e \in A THEN [row[e] EXCEPT !.zh = worker.read[e]] ELSE row[e]]
    /\ worker' = Free
    /\ UNCHANGED <<posted, source, queueVars, snapshot, clock>>

\* One entry, one answer, one commit.
Classify(e) ==
    /\ Runs("classify") /\ e \in worker.todo
    /\ row' = [row EXCEPT ![e].judged = TRUE]
    /\ worker' = [worker EXCEPT !.todo = @ \ {e}]
    /\ UNCHANGED <<posted, source, queueVars, snapshot, clock, boundVars>>

\* No entry is left; or the model fails, and the row with it.
ClassifyEnds ==
    /\ Runs("classify")
    /\ IF worker.todo = {} THEN UNCHANGED boundVars ELSE Fault
    /\ worker' = Free
    /\ UNCHANGED <<posted, row, source, queueVars, snapshot, clock>>

\* The process dies and starts again; nobody puts rows of these types back.
Die ==
    /\ deaths < MaxDeaths /\ worker.job # NoJob
    /\ stuck' = stuck \cup {worker.job} /\ worker' = Free
    /\ deaths' = deaths + 1
    /\ UNCHANGED <<posted, row, source, waiting, snapshot, clock, asks, faults>>

WorkerStep ==
    \/ Start \/ FetchFails \/ Submit \/ NotReady \/ DownloadFails \/ FetchSucceeds
    \/ ClassifyEnds
    \/ \E A \in SUBSET worker.todo : Translate(A)
    \/ \E e \in Entries : Classify(e)

Next ==
    \/ Tick \/ SnapshotReady \/ \E i \in Items : Post(i)
    \/ Schedule \/ Poll \/ UpdateSource
    \/ \E e \in Entries : EditTitle(e)
    \/ \E d \in Docs : AddEntry(d)
    \/ WorkerStep \/ Die

Spec == Init /\ [][Next]_vars

\* Time passes, the scheduler's thread and the worker go on, and a snapshot is built.
Fairness == /\ WF_vars(Tick) /\ WF_vars(Schedule) /\ WF_vars(SnapshotReady)
            /\ WF_vars(WorkerStep)

FairSpec == Spec /\ Fairness
-----------------------------------------------------------------------------
(* Properties                                                              *)

\* Every variable holds values of its columns.
TypeOK ==
    /\ posted \in [Items -> 0..MaxVersion] /\ row \in [Entries -> Row]
    /\ source \in [type : {"site", "snapshots"}, enabled : BOOLEAN, due : BOOLEAN]
    /\ waiting \in Seq(Jobs) /\ stuck \subseteq Jobs
    /\ worker.job \in Jobs \cup {NoJob} /\ worker.todo \subseteq Entries
    /\ worker.read \in [Entries -> Titles]
    /\ snapshot \in {"none", "building", "ready"} /\ clock \in Nat
    /\ asks \in 0..MaxAsks /\ deaths \in 0..MaxDeaths /\ faults \in 0..MaxFaults

\* A source that is due is polled, whatever fails, unless it is disabled or a death
\* has left its row running.
DueIsPolled ==
    source.enabled /\ source.due ~> ~source.due \/ ~source.enabled \/ Fetch \in stuck

\* Every entry of a source gets a translation and a classification in the end:
\* entries that come while a job runs, entries beyond its limit, entries whose
\* title changes and entries of jobs that failed, unless a death has stopped the
\* polls or the jobs of the source for good.
BacklogDrains ==
    \A i \in Items :
        /\ i \in Untranslated(row, "source")
              ~> row[i].zh # 0 \/ ~source.enabled \/ stuck # {}
        /\ i \in Unjudged(row)
              ~> row[i].judged \/ ~source.enabled \/ stuck # {}

=============================================================================
