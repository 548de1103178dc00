------------------------------ MODULE XCollector ------------------------------
(***************************************************************************)
(* Polling of X sources: the investment scheduler thread and the poll      *)
(* endpoint insert x_web_collect rows, collector processes outside the     *)
(* backend claim them over HTTP, upload what they collect and report the   *)
(* outcome.  The backend runs one request handler at a time, each with one *)
(* commit; a client may stop waiting for a request that is handled later   *)
(* or never, and a collector may die.                                      *)
(*                                                                         *)
(* The posts collected for a row stand for that row.  The file spool is    *)
(* absent: drainSpool puts back only what it has taken, so it stays empty. *)
(* XCommands has the rows and who holds them, and what must be true.       *)
(***************************************************************************)
EXTENDS Naturals, FiniteSets, XCommands

CONSTANTS
    Sources,        \* enabled x_web sources, at most as many as one claim takes (20)
    MaxFaults,      \* bound on abandoned requests, deaths and failing closes
    NoSource

ASSUME XCollectorAssumption ==
    /\ NoJob \notin Jobs /\ NoSource \notin Sources
    /\ IsFiniteSet(Jobs) /\ IsFiniteSet(Sources)
    /\ MaxFaults \in Nat

VARIABLES
    due,            \* sources whose next_poll_at has passed
    target,         \* task_job.target_id
    scan,           \* sources of this scheduler tick not yet polled
    checked,        \* the source poll_source has found without an active row
    late,           \* requests whose client no longer waits
    pc,             \* what each collector is doing
    posts,          \* rows whose posts were collected
    faults

rowVars == <<due, status, target, imported>>
schedVars == <<scan, checked>>
collectorVars == <<pc, received, current, posts>>
vars == <<rowVars, schedVars, late, collectorVars, faults>>

Status == {"none", "pending", "running", "succeeded", "failed"}
Finished == {"succeeded", "failed"}
Pending == {j \in Jobs : status[j] = "pending"}

\* What a collector may be waiting for, and the request it then has sent.
Waiting == {"claiming", "importing", "succeeding", "failing"}
Request(c) == [kind |-> pc[c], job |-> current[c]]

Init ==
    /\ due = Sources
    /\ status = [j \in Jobs |-> "none"]
    /\ target = [j \in Jobs |-> NoSource]
    /\ imported = {}
    /\ scan = {} /\ checked = NoSource
    /\ late = {}
    /\ pc = [c \in Collectors |-> "idle"]
    /\ received = [c \in Collectors |-> {}]
    /\ current = [c \in Collectors |-> NoJob]
    /\ posts = {}
    /\ faults = 0

Fault == faults < MaxFaults /\ faults' = faults + 1

Held(j) == \E c \in Collectors : j \in HeldBy(c)

-----------------------------------------------------------------------------
(* Backend: scheduling                                                     *)

PassTime(s) ==
    /\ s \notin due /\ due' = due \cup {s}
    /\ UNCHANGED <<status, target, imported, schedVars, late, collectorVars, faults>>

\* (fault) A failed row also stops its source from being polled.
ActiveOrFailed(s) ==
    \E j \in Jobs : target[j] = s /\ status[j] \in {"pending", "running", "failed"}

\* poll_source's guard: a pending or running row of the source.
Active(s) == \E j \in Jobs : target[j] = s /\ status[j] \in {"pending", "running"}

\* The new row of poll_source.  A finished row that nobody will name again has
\* no further effect, and its identifier stands for the new one.
Insert(s) ==
    \E j \in Jobs :
       /\ status[j] \in {"none"} \cup Finished
       /\ ~Held(j) /\ \A r \in late : r.job # j
       /\ status' = [status EXCEPT ![j] = "pending"]
       /\ target' = [target EXCEPT ![j] = s]
       /\ imported' = imported \ {j} /\ posts' = posts \ {j}

\* One tick reads the due sources once and polls them one by one.
ScanDue ==
    /\ scan = {} /\ checked = NoSource /\ due # {}
    /\ scan' = due
    /\ UNCHANGED <<rowVars, checked, late, collectorVars, faults>>

SchedulerChecks(s) ==
    /\ checked = NoSource /\ s \in scan
    /\ scan' = scan \ {s}
    /\ checked' = IF Active(s) THEN NoSource ELSE s
    /\ UNCHANGED <<rowVars, late, collectorVars, faults>>

\* The insert is committed after other threads had time to run.
SchedulerInserts ==
    /\ checked # NoSource
    /\ Insert(checked)
    /\ checked' = NoSource
    /\ UNCHANGED <<due, scan, late, pc, received, current, faults>>

\* POST poll: check and insert on the event loop.  The thread may fall between
\* them too, with the outcome of this handler falling between the thread's.
UserPolls(s) ==
    /\ ~Active(s) /\ Insert(s)
    /\ UNCHANGED <<due, schedVars, late, pc, received, current, faults>>

-----------------------------------------------------------------------------
(* Backend: what the handlers write                                        *)

\* (fault) Handed out rows stay pending in the table.
HandleClaimUnmarked == UNCHANGED rowVars

\* claim_commands: every pending row is running from now on.
HandleClaim ==
    /\ status' = [j \in Jobs |-> IF j \in Pending THEN "running" ELSE status[j]]
    /\ UNCHANGED <<due, target, imported>>

\* import_posts upserts the posts by dedupe key in one transaction.
HandleImport(j) ==
    /\ imported' = imported \cup {j}
    /\ UNCHANGED <<due, status, target>>

\* complete_command writes the outcome whatever the row says; mark_polled moves
\* next_poll_at for either outcome.
HandleComplete(j, s) ==
    /\ status' = [status EXCEPT ![j] = s]
    /\ due' = due \ {target[j]}
    /\ UNCHANGED <<target, imported>>

Handle(r) ==
    \/ r.kind = "claiming" /\ HandleClaim
    \/ r.kind = "importing" /\ HandleImport(r.job)
    \/ r.kind = "succeeding" /\ HandleComplete(r.job, "succeeded")
    \/ r.kind = "failing" /\ HandleComplete(r.job, "failed")

-----------------------------------------------------------------------------
(* Collectors                                                              *)

Goto(c, place) == pc' = [pc EXCEPT ![c] = place]

\* runOnce asks for commands.
AskForCommands(c) ==
    /\ pc[c] = "idle" /\ Goto(c, "claiming")
    /\ UNCHANGED <<rowVars, schedVars, late, received, current, posts, faults>>

\* The request is handled and its answer arrives.
Serve(c) ==
    /\ pc[c] \in Waiting
    /\ Handle(Request(c))
    /\ Goto(c, CASE pc[c] = "claiming" -> "next"
                 [] pc[c] = "importing" -> "succeeding"
                 [] OTHER -> "closing")
    /\ received' = IF pc[c] = "claiming" THEN [received EXCEPT ![c] = Pending] ELSE received
    /\ UNCHANGED <<schedVars, late, current, posts, faults>>

\* The client sees an error, before or after the backend handles the request:
\* a failed claim ends the round, a failed upload or report is followed by
\* complete(failed), and a failure of that one is ignored.
GiveUp(c) ==
    /\ pc[c] \in Waiting /\ Fault
    /\ late' = late \cup {Request(c)}
    /\ Goto(c, CASE pc[c] = "claiming" -> "idle"
                 [] pc[c] \in {"importing", "succeeding"} -> "failing"
                 [] OTHER -> "closing")
    /\ UNCHANGED <<rowVars, schedVars, received, current, posts>>

ServeLate(r) ==
    /\ r \in late /\ late' = late \ {r}
    /\ Handle(r)
    /\ UNCHANGED <<schedVars, collectorVars, faults>>

Lose(r) ==
    /\ r \in late /\ late' = late \ {r}
    /\ UNCHANGED <<rowVars, schedVars, collectorVars, faults>>

\* The round is over when no command is left.
EndRound(c) ==
    /\ pc[c] = "next" /\ received[c] = {}
    /\ Goto(c, "idle")
    /\ UNCHANGED <<rowVars, schedVars, late, received, current, posts, faults>>

\* (fault) The outcome is reported before the upload.
CollectAndReport(c, j) ==
    /\ pc[c] = "next" /\ j \in received[c]
    /\ received' = [received EXCEPT ![c] = @ \ {j}]
    /\ current' = [current EXCEPT ![c] = j]
    /\ posts' = posts \cup {j} /\ Goto(c, "succeeding")
    /\ UNCHANGED <<rowVars, schedVars, late, faults>>

\* runCommand collects the source's posts and uploads them.
Collect(c, j) ==
    /\ pc[c] = "next" /\ j \in received[c]
    /\ received' = [received EXCEPT ![c] = @ \ {j}]
    /\ current' = [current EXCEPT ![c] = j]
    /\ posts' = posts \cup {j} /\ Goto(c, "importing")
    /\ UNCHANGED <<rowVars, schedVars, late, faults>>

\* X refuses or does not answer: complete(failed), with no session to close.
CollectFails(c, j) ==
    /\ pc[c] = "next" /\ j \in received[c]
    /\ received' = [received EXCEPT ![c] = @ \ {j}]
    /\ current' = [current EXCEPT ![c] = j]
    /\ Goto(c, "failing")
    /\ UNCHANGED <<rowVars, schedVars, late, posts, faults>>

\* The finally block: close the session and go on with the next command.
Close(c) ==
    /\ pc[c] = "closing"
    /\ current' = [current EXCEPT ![c] = NoJob] /\ Goto(c, "next")
    /\ UNCHANGED <<rowVars, schedVars, late, received, posts, faults>>

\* An exception from close leaves runOnce, and its other commands with it.
CloseThrows(c) ==
    /\ pc[c] = "closing" /\ current[c] \in posts /\ Fault
    /\ current' = [current EXCEPT ![c] = NoJob] /\ Goto(c, "idle")
    /\ received' = [received EXCEPT ![c] = {}]
    /\ UNCHANGED <<rowVars, schedVars, late, posts>>

\* launchd starts a dead collector again; it remembers nothing.
Die(c) ==
    /\ pc[c] # "idle" /\ Fault
    /\ late' = IF pc[c] \in Waiting THEN late \cup {Request(c)} ELSE late
    /\ current' = [current EXCEPT ![c] = NoJob] /\ Goto(c, "idle")
    /\ received' = [received EXCEPT ![c] = {}]
    /\ UNCHANGED <<rowVars, schedVars, posts>>

-----------------------------------------------------------------------------

Scheduler == ScanDue \/ (\E s \in Sources : SchedulerChecks(s)) \/ SchedulerInserts
Runs(c) == \/ AskForCommands(c) \/ Serve(c) \/ EndRound(c) \/ Close(c)
           \/ \E j \in Jobs : Collect(c, j) \/ CollectFails(c, j)

Next == \/ Scheduler
        \/ \E s \in Sources : PassTime(s) \/ UserPolls(s)
        \/ \E c \in Collectors : Runs(c) \/ GiveUp(c) \/ CloseThrows(c) \/ Die(c)
        \/ \E r \in late : ServeLate(r) \/ Lose(r)

Spec == Init /\ [][Next]_vars

\* The scheduler's timer, the backend and the collectors keep running; a late
\* request is handled or lost in the end.  An insert waits for an identifier only
\* in the model, so it is made when there is one again and again.
Fairness ==
    /\ WF_vars(Scheduler) /\ SF_vars(SchedulerInserts)
    /\ \A c \in Collectors : WF_vars(Runs(c))
    /\ WF_vars(\E r \in late : ServeLate(r) \/ Lose(r))

FairSpec == Spec /\ Fairness
-----------------------------------------------------------------------------
(* Properties                                                              *)

TypeOK ==
    /\ due \subseteq Sources /\ scan \subseteq Sources
    /\ checked \in Sources \cup {NoSource}
    /\ status \in [Jobs -> Status]
    /\ target \in [Jobs -> Sources \cup {NoSource}]
    /\ imported \subseteq Jobs /\ posts \subseteq Jobs
    /\ late \subseteq [kind : Waiting, job : Jobs \cup {NoJob}]
    /\ pc \in [Collectors -> Waiting \cup {"idle", "next", "closing"}]
    /\ received \in [Collectors -> SUBSET Jobs]
    /\ current \in [Collectors -> Jobs \cup {NoJob}]
    /\ faults \in Nat

\* A due source is polled and its next_poll_at moves on, unless a row that nobody
\* works on keeps poll_source's guard closed.
DueIsServed ==
    \A s \in Sources :
       s \in due ~> \/ s \notin due
                    \/ \E j \in Jobs : target[j] = s /\ status[j] = "running" /\ ~Held(j)

=============================================================================
