------------------------------ MODULE XCommands ------------------------------
(***************************************************************************)
(* The x_web_collect rows as their users see them: which collector holds   *)
(* which row, which rows' posts are in the database, and what must be true *)
(* of both.  XCollector has the steps.                                     *)
(***************************************************************************)
CONSTANTS
    Jobs,           \* identifiers of x_web_collect rows
    Collectors,     \* collector processes
    NoJob

VARIABLES
    status,         \* task_job.status
    imported,       \* rows whose posts are investment items
    received,       \* commands a collector has received and not begun
    current         \* the command it is running

HeldBy(c) == (received[c] \cup {current[c]}) \ {NoJob}

\* A command is in the hands of one collector at a time, and one it has not begun
\* is running in the table, whatever late claims and reports are handled.
CommandsAreExclusive ==
    /\ \A c, d \in Collectors : c # d => HeldBy(c) \cap HeldBy(d) = {}
    /\ \A c \in Collectors, j \in Jobs :
          j \in received[c] => status[j] = "running" /\ j # current[c]

\* A row reported as succeeded has its posts in the database.
SucceededIsImported == \A j \in Jobs : status[j] = "succeeded" => j \in imported
=============================================================================
