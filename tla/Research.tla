------------------------------- MODULE Research -------------------------------
(***************************************************************************)
(* One research task: the row that a page polls, the daemon threads that   *)
(* run its workflow, and the handlers that create, retry and import it.    *)
(* A thread flushes after every node and commits first with its report, so *)
(* from its first UPDATE of the row until then it holds the row's lock and *)
(* nobody sees its progress.  A handler that has to wait for that lock     *)
(* waits on the event loop, so no other handler runs meanwhile.            *)
(*                                                                         *)
(* A session writes the columns whose value differs from the one it has    *)
(* loaded.  _complete_step changes the loaded list of steps in place, so a *)
(* step alone is no difference: it is stored with the next key that is.    *)
(*                                                                         *)
(* Sources, claims and the imported document with its two jobs (TaskQueue) *)
(* are left out.                                                           *)
(***************************************************************************)
EXTENDS Naturals

CONSTANTS
    Threads,        \* workflow threads, as many as may live at once
    MaxFaults,      \* bound on restarts and on statements the database refuses
    MaxAsks         \* bound on retries and imports

ASSUME ResearchAssumption == MaxFaults \in Nat /\ MaxAsks \in Nat

VARIABLES
    row,        \* the committed columns of the task
    mine,       \* the columns as each thread's session has them
    dirty,      \* columns a thread has flushed and not committed
    at,         \* the node a thread is in, or its place around them
    asking,     \* the handler that waits to commit, with what it has read
    doubled,    \* has a retry been asked for while a thread was at work?
    faults, asks

threadVars == <<mine, dirty, at>>
vars == <<row, threadVars, asking, doubled, faults, asks>>

\* WORKFLOW_NODES: the searches, the reading of sources and the extraction of claims
\* are one node here; the last node belongs to import_report.
Nodes == {"plan", "gather", "check", "report"}
After(n) == CASE n = "plan" -> "gather" [] n = "gather" -> "check" [] n = "check" -> "report"
Strict == {"plan", "gather", "check"}       \* nodes that may raise

Status == {"none", "running", "completed", "failed", "imported"}
YesNo == {"yes", "no"}
\* _current_node_name, which a failure is put down to.
FirstOpen(steps) ==
    IF "plan" \notin steps THEN "plan" ELSE IF "gather" \notin steps THEN "gather"
    ELSE IF "check" \notin steps THEN "check" ELSE IF "report" \notin steps THEN "report"
    ELSE "import"
\* metadata_: the completed steps, is there a report, and what node an error names.
Meta == [steps : SUBSET Nodes, report : YesNo, error : Nodes \cup {"no", "import"}]
\* The plan is there when its step is, so it only counts as a column to write.
Columns == {"status", "plan", "meta"}
Task == [status : Status, meta : Meta]
NoTask == [status |-> "none", meta |-> [steps |-> {}, report |-> "no", error |-> "no"]]
Fresh == [NoTask EXCEPT !.status = "running"]

\* What a handler of a kind writes, and no handler.
Request == [retry |-> Fresh, import |-> [NoTask EXCEPT !.status = "imported"]]
Idle == [kind |-> "idle", cols |-> {}]
Differing(r, s) == {c \in {"status", "meta"} : r[c] # s[c]}
Merge(cols, new) == [status |-> IF "status" \in cols THEN new.status ELSE row.status,
                     meta |-> IF "meta" \in cols THEN new.meta ELSE row.meta]

Working(t) == at[t] # "free"
\* The row is not locked by another transaction, or there is nothing to write.
MayWrite(t, cols) == cols = {} \/ \A u \in Threads \ {t} : dirty[u] = {}

Init ==
    /\ row = NoTask
    /\ mine = [t \in Threads |-> NoTask]
    /\ dirty = [t \in Threads |-> {}]
    /\ at = [t \in Threads |-> "free"]
    /\ asking = Idle
    /\ doubled = "no"
    /\ faults = 0 /\ asks = 0

-----------------------------------------------------------------------------
(* Request handlers                                                        *)

\* _run_workflow_async: a thread with a session of its own.
StartThread(t) ==
    /\ ~Working(t)
    /\ at' = [at EXCEPT ![t] = "load"]

Create(t) ==
    /\ row.status = "none"
    /\ row' = Fresh
    /\ StartThread(t)
    /\ UNCHANGED <<mine, dirty, asking, doubled, faults, asks>>

Ask(kind, cols) ==
    /\ asking = Idle /\ asks < MaxAsks /\ asks' = asks + 1
    /\ asking' = [kind |-> kind, cols |-> Differing(row, Request[kind]) \cap cols]
    /\ UNCHANGED <<row, threadVars, faults>>

\* retry_task accepts a task in any status.
AskRetry ==
    /\ row.status # "none"
    /\ Ask("retry", {"status", "meta"})
    /\ doubled' = IF \E t \in Threads : Working(t) THEN "yes" ELSE doubled

\* import_report needs the report and nothing else.
AskImport ==
    /\ row.meta.report = "yes"
    /\ Ask("import", {"status"})
    /\ UNCHANGED doubled

\* The handler commits what it found to be different.
Answer(kind) ==
    /\ asking.kind = kind
    /\ row' = Merge(asking.cols, Request[kind])
    /\ asking' = Idle

\* (faults) The thread is started before the commit, and loads the row first; the
\* report and the error of the last run are kept.
RetryStartingFirst(t) ==
    /\ MayWrite(t, asking.cols) /\ Answer("retry")
    /\ ~Working(t) /\ at' = [at EXCEPT ![t] = "plan"]
    /\ mine' = [mine EXCEPT ![t] = row]
    /\ UNCHANGED <<dirty, doubled, faults, asks>>
RetryKeepingMeta(t) ==
    /\ asking.kind = "retry" /\ asking' = Idle
    /\ MayWrite(t, asking.cols) /\ StartThread(t)
    /\ row' = Merge(asking.cols \ {"meta"}, Fresh)
    /\ UNCHANGED <<mine, dirty, doubled, faults, asks>>

Retry(t) ==
    /\ MayWrite(t, asking.cols) /\ Answer("retry")
    /\ StartThread(t)
    /\ UNCHANGED <<mine, dirty, doubled, faults, asks>>

\* report_doc_id is new in any case, so this waits for the lock in any case.  The
\* step that is completed here is not stored.
Import ==
    /\ \A t \in Threads : dirty[t] = {}
    /\ Answer("import")
    /\ UNCHANGED <<threadVars, doubled, faults, asks>>

-----------------------------------------------------------------------------
(* The workflow                                                            *)

Goto(t, place) == at' = [at EXCEPT ![t] = place]

\* The session is closed.
End(t) ==
    /\ Goto(t, "free")
    /\ mine' = [mine EXCEPT ![t] = NoTask]
    /\ dirty' = [dirty EXCEPT ![t] = {}]

Load(t) ==
    /\ at[t] = "load" /\ Goto(t, "plan")
    /\ mine' = [mine EXCEPT ![t] = row]
    /\ UNCHANGED <<row, dirty, asking, doubled, faults, asks>>

\* The session assigns new values and flushes the columns that differ.
Flush(t, new, cols) ==
    /\ MayWrite(t, cols)
    /\ mine' = [mine EXCEPT ![t] = new]
    /\ dirty' = [dirty EXCEPT ![t] = @ \cup cols]

\* An assignment to col writes it, unless the session may have the same value already.
Assigned(col, maybeSame) == {{col}} \cup (IF maybeSame THEN {{}} ELSE {})

\* _complete_step.
Completed(t, n) == [mine[t] EXCEPT !.meta.steps = @ \cup {n}]

Plan(t) ==
    /\ at[t] = "plan" /\ Goto(t, After("plan"))
    /\ \E cols \in Assigned("plan", "plan" \in mine[t].meta.steps) :
          Flush(t, Completed(t, "plan"), cols)
    /\ UNCHANGED <<row, asking, doubled, faults, asks>>

Gather(t) ==
    /\ at[t] = "gather" /\ Goto(t, After("gather"))
    /\ Flush(t, Completed(t, "gather"), {})
    /\ UNCHANGED <<row, asking, doubled, faults, asks>>

\* _cross_check stores the claims too, which may be those of an earlier run.
Check(t) ==
    /\ at[t] = "check" /\ Goto(t, After("check"))
    /\ \E cols \in Assigned("meta", TRUE) : Flush(t, Completed(t, "check"), cols)
    /\ UNCHANGED <<row, asking, doubled, faults, asks>>

\* The session commits a version of the row and everything flushed before.
Commit(t, new, cols) ==
    /\ MayWrite(t, dirty[t] \cup cols)
    /\ row' = Merge(dirty[t] \cup cols, new)

\* _generate_report ends with a commit.
Report(t) ==
    /\ at[t] = "report" /\ Goto(t, "close")
    /\ LET new == [Completed(t, "report") EXCEPT !.meta.report = "yes"]
       IN  /\ \E cols \in Assigned("meta", mine[t].meta.report = "yes") : Commit(t, new, cols)
           /\ mine' = [mine EXCEPT ![t] = new]
    /\ dirty' = [dirty EXCEPT ![t] = {}]
    /\ UNCHANGED <<asking, doubled, faults, asks>>

\* What changing the status alone writes.
StatusCol(t, s) == IF mine[t].status = s THEN {} ELSE {"status"}

\* run_workflow's last lines.
Close(t) ==
    /\ at[t] = "close"
    /\ Commit(t, [mine[t] EXCEPT !.status = "completed"], StatusCol(t, "completed"))
    /\ End(t)
    /\ UNCHANGED <<asking, doubled, faults, asks>>

\* A node that has no fallback raises, _cross_check after its step is completed.
NodeFails(t) ==
    /\ at[t] \in Strict /\ Goto(t, "fail")
    /\ mine' = IF at[t] = "check" THEN [mine EXCEPT ![t] = Completed(t, "check")] ELSE mine
    /\ UNCHANGED <<row, dirty, asking, doubled, faults, asks>>

FailAs(t, s) ==
    /\ at[t] = "fail"
    /\ LET node == FirstOpen(mine[t].meta.steps)
           new == [mine[t] EXCEPT !.meta.error = node, !.status = s]
       IN  \E cols \in Assigned("meta", mine[t].meta.error = node) :
              Commit(t, new, cols \cup StatusCol(t, s))
    /\ End(t)
    /\ UNCHANGED <<asking, doubled, faults, asks>>

\* (faults) The error is recorded and the status is not changed.
FailKeepingStatus(t) == FailAs(t, mine[t].status)

\* _fail_task.
Fail(t) == FailAs(t, "failed")

\* The database refuses a statement: the session cannot commit any more, so
\* _fail_task raises as well and the thread ends with nothing written.
Refused(t) ==
    /\ at[t] \in Nodes \cup {"load", "close", "fail"} /\ faults < MaxFaults
    /\ faults' = faults + 1
    /\ End(t)
    /\ UNCHANGED <<row, asking, doubled, asks>>

\* The same in a handler, whose client gets an error.
RequestRefused ==
    /\ asking # Idle /\ faults < MaxFaults
    /\ faults' = faults + 1
    /\ asking' = Idle
    /\ UNCHANGED <<row, threadVars, doubled, asks>>

\* Daemon threads end with the process; nothing takes up their tasks.
Restart ==
    /\ faults < MaxFaults /\ faults' = faults + 1
    /\ mine' = [t \in Threads |-> NoTask]
    /\ dirty' = [t \in Threads |-> {}]
    /\ at' = [t \in Threads |-> "free"]
    /\ asking' = Idle
    /\ UNCHANGED <<row, doubled, asks>>

-----------------------------------------------------------------------------

Runs(t) == \/ Load(t) \/ Plan(t) \/ Gather(t) \/ Check(t) \/ Report(t) \/ Close(t)
           \/ NodeFails(t) \/ Fail(t)
Commits == Import \/ \E t \in Threads : Retry(t)

Next == \/ AskRetry \/ AskImport \/ Commits \/ RequestRefused \/ Restart
        \/ \E t \in Threads : Create(t) \/ Runs(t) \/ Refused(t)

Spec == Init /\ [][Next]_vars

\* Searches and model calls have timeouts, so every thread goes on; a handler that
\* waits for the row is served when the lock is free.
Fairness == WF_vars(Commits) /\ \A t \in Threads : WF_vars(Runs(t))

FairSpec == Spec /\ Fairness
-----------------------------------------------------------------------------
(* Properties                                                              *)

TypeOK ==
    /\ row \in Task
    /\ mine \in [Threads -> Task]
    /\ dirty \in [Threads -> SUBSET Columns]
    /\ at \in [Threads -> Nodes \cup {"free", "load", "close", "fail"}]
    /\ asking \in [kind : {"idle", "retry", "import"}, cols : SUBSET Columns]
    /\ doubled \in YesNo
    /\ faults \in 0..MaxFaults /\ asks \in 0..MaxAsks

\* The thread will write a status: its session does not hold the one it ends with.
WillTell(t) == at[t] = "load" \/ (Working(t) /\ mine[t].status = "running")

\* Whatever is retried and imported while threads run, a task that is shown as
\* running has a thread that is going to change that, unless a restart or the
\* database has ended it.
RunningIsWorkedOn ==
    row.status = "running" => (\E t \in Threads : WillTell(t)) \/ faults > 0

\* Without a retry beside a running thread the page is told the truth, however
\* imports and retries meet the two commits of a workflow: a task that is completed
\* or imported has a report, all its steps and no error, and one that has failed has
\* an error and no report.
StatusTellsReport ==
    doubled = "no" =>
        /\ row.status \in {"completed", "imported"} =>
              row.meta.report = "yes" /\ row.meta.steps = Nodes /\ row.meta.error = "no"
        /\ row.status = "failed" => row.meta.report = "no" /\ row.meta.error # "no"

\* A task does not run for ever, nor does a request wait for ever for its row.
RunningEnds ==
    /\ row.status = "running" ~> row.status # "running" \/ faults > 0
    /\ asking # Idle ~> asking = Idle
=============================================================================
