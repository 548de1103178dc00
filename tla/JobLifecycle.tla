---------------------------- MODULE JobLifecycle ----------------------------
(***************************************************************************)
(* What the task_job table promises its readers, without queue order,      *)
(* batches, sessions or documents: a row is inserted pending, at most one  *)
(* row is in the hands of the in-process worker, only the runner ends a    *)
(* row it started, a row it finished never changes again, and only a       *)
(* restart hands a row back whose runner is gone.  Rows of an external job *)
(* type belong to a collector outside the process.                         *)
(* TaskQueue implements this specification.                                *)
(***************************************************************************)
CONSTANTS Jobs,         \* identifiers of task_job rows
          External,     \* rows of a type run outside the process
          Recoverable,  \* rows a restart puts back
          NoJob

VARIABLES status,       \* [Jobs -> Status]
          runner        \* the row the worker is handling, or NoJob

Status == {"none", "pending", "running", "succeeded", "failed"}
Finished == {"succeeded", "failed"}

Init == status = [j \in Jobs |-> "none"] /\ runner = NoJob

\* New rows appear pending.
Insert ==
    /\ \E S \in SUBSET {j \in Jobs : status[j] = "none"} :
           status' = [j \in Jobs |-> IF j \in S THEN "pending" ELSE status[j]]
    /\ UNCHANGED runner

\* The worker takes one pending row; it never holds two.
Start(j) ==
    /\ runner = NoJob
    /\ j \notin External
    /\ status[j] = "pending"
    /\ status' = [status EXCEPT ![j] = "running"]
    /\ runner' = j

\* The runner ends its row, or puts it back to wait for outside work.
Stop ==
    /\ runner # NoJob
    /\ \E s \in Finished \cup {"pending"} : status' = [status EXCEPT ![runner] = s]
    /\ runner' = NoJob

\* A row nobody can run is refused without being started.
Refuse(j) ==
    /\ runner = NoJob
    /\ j \notin External
    /\ status[j] = "pending"
    /\ status' = [status EXCEPT ![j] = "failed"]
    /\ UNCHANGED runner

\* The runner is lost with its process or its database session.
Lose == runner # NoJob /\ runner' = NoJob /\ UNCHANGED status

\* A restart puts the interrupted rows it knows how to resume back in line.
Recover ==
    /\ runner = NoJob
    /\ status' = [j \in Jobs |->
                    IF j \in Recoverable /\ status[j] = "running" THEN "pending"
                                                                  ELSE status[j]]
    /\ UNCHANGED runner

\* The collector takes pending external rows and ends rows it has taken, even
\* one already ended: it cannot know whether its last answer arrived.
Collect ==
    /\ \/ \E S \in SUBSET {j \in External : status[j] = "pending"} :
              status' = [j \in Jobs |-> IF j \in S THEN "running" ELSE status[j]]
       \/ \E j \in External, s \in Finished :
              /\ status[j] \notin {"none", "pending"}
              /\ status' = [status EXCEPT ![j] = s]
    /\ UNCHANGED runner

Next == \/ Insert \/ Stop \/ Lose \/ Recover \/ Collect
        \/ \E j \in Jobs : Start(j) \/ Refuse(j)

Spec == Init /\ [][Next]_<<status, runner>>
=============================================================================
