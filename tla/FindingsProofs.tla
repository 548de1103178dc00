---------------------------- MODULE FindingsProofs ----------------------------
(***************************************************************************)
(* What work with a model leaves for its readers: a research task, for any *)
(* number of threads, requests and faults; in the second part, the facts,  *)
(* claims and signals of the feed, for any number of entries, facts,       *)
(* watchlists, extractions and requests; and in the third, the rows that   *)
(* pages of its sources become, for pages of any size.                     *)
(***************************************************************************)
EXTENDS Research, FeedPages, Sequences, FiniteSetTheorems, WellFoundedInduction, TLAPS

Places == Nodes \cup {"free", "load", "close", "fail"}

LEMMA TypeInit == Init => TypeOK
  BY ResearchAssumption DEF Init, TypeOK, NoTask, Task, Meta, Status, Nodes, YesNo, Idle,
     Columns, ResearchAssumption

LEMMA MergeTyped ==
  ASSUME row \in Task, NEW new \in Task, NEW cols
  PROVE  Merge(cols, new) \in Task
  BY DEF Merge, Task

LEMMA FreshTyped == Fresh \in Task /\ Request["import"] \in Task /\ NoTask \in Task
  BY DEF Fresh, Request, NoTask, Task, Meta, Status, Nodes, YesNo

LEMMA CompletedTyped ==
  ASSUME TypeOK, NEW t \in Threads, NEW n \in Nodes
  PROVE  /\ Completed(t, n) \in Task
         /\ Completed(t, n).status = mine[t].status
         /\ Completed(t, n).meta.report = mine[t].meta.report
         /\ Completed(t, n).meta.error = mine[t].meta.error
         /\ Completed(t, n).meta.steps = mine[t].meta.steps \cup {n}
<1>1. mine[t] \in Task BY DEF TypeOK
<1>2. QED BY <1>1 DEF Completed, Task, Meta

\* Every step keeps the types.
LEMMA TypeStep == TypeOK /\ [Next]_vars => TypeOK'
<1> SUFFICES ASSUME TypeOK, [Next]_vars PROVE TypeOK'
  OBVIOUS
<1>1. CASE UNCHANGED vars
  BY <1>1 DEF TypeOK, vars, threadVars
<1>2. CASE AskRetry
  <2>1. asks' \in 0..MaxAsks
    BY <1>2, ResearchAssumption DEF AskRetry, Ask, TypeOK, ResearchAssumption
  <2>2. asking' \in [kind : {"idle", "retry", "import"}, cols : SUBSET Columns]
    BY <1>2 DEF AskRetry, Ask, Columns
  <2>3. QED BY <1>2, <2>1, <2>2 DEF AskRetry, Ask, TypeOK, YesNo, threadVars
<1>3. CASE AskImport
  <2>1. asks' \in 0..MaxAsks
    BY <1>3, ResearchAssumption DEF AskImport, Ask, TypeOK, ResearchAssumption
  <2>2. asking' \in [kind : {"idle", "retry", "import"}, cols : SUBSET Columns]
    BY <1>3 DEF AskImport, Ask, Columns
  <2>3. QED BY <1>3, <2>1, <2>2 DEF AskImport, Ask, TypeOK, threadVars
<1>4. CASE Import
  <2>1. row' \in Task
    BY <1>4, MergeTyped, FreshTyped DEF Import, Answer, TypeOK
  <2>2. QED BY <1>4, <2>1 DEF Import, Answer, TypeOK, Idle, threadVars
<1>5. ASSUME NEW t \in Threads, Retry(t) PROVE TypeOK'
  <2>1. row' \in Task
    BY <1>5, MergeTyped, FreshTyped DEF Retry, Answer, TypeOK, Request
  <2>2. QED BY <1>5, <2>1 DEF Retry, Answer, TypeOK, Idle, StartThread
<1>6. CASE RequestRefused
  BY <1>6, ResearchAssumption DEF RequestRefused, TypeOK, Idle, threadVars, ResearchAssumption
<1>7. CASE Restart
  BY <1>7, ResearchAssumption, FreshTyped DEF Restart, TypeOK, Idle, ResearchAssumption
<1>8. ASSUME NEW t \in Threads, Create(t) PROVE TypeOK'
  BY <1>8, FreshTyped DEF Create, StartThread, TypeOK
<1>9. ASSUME NEW t \in Threads, Refused(t) PROVE TypeOK'
  BY <1>9, ResearchAssumption, FreshTyped DEF Refused, End, Goto, TypeOK, ResearchAssumption
<1>10. ASSUME NEW t \in Threads, Load(t) PROVE TypeOK'
  BY <1>10 DEF Load, Goto, TypeOK, Nodes
<1>11. ASSUME NEW t \in Threads, Plan(t) PROVE TypeOK'
  BY <1>11, CompletedTyped DEF Plan, Goto, Flush, Assigned, TypeOK, Nodes, After, Columns
<1>12. ASSUME NEW t \in Threads, Gather(t) PROVE TypeOK'
  BY <1>12, CompletedTyped DEF Gather, Goto, Flush, Assigned, TypeOK, Nodes, After, Columns
<1>13. ASSUME NEW t \in Threads, Check(t) PROVE TypeOK'
  BY <1>13, CompletedTyped DEF Check, Goto, Flush, Assigned, TypeOK, Nodes, After, Columns
<1>14. ASSUME NEW t \in Threads, Report(t) PROVE TypeOK'
  <2> DEFINE new == [Completed(t, "report") EXCEPT !.meta.report = "yes"]
  <2>1. new \in Task
    BY CompletedTyped DEF Task, Meta, YesNo, Nodes
  <2>2. row' \in Task /\ mine' = [mine EXCEPT ![t] = new]
    BY <1>14, <2>1, MergeTyped DEF Report, Commit, TypeOK
  <2>3. QED BY <1>14, <2>1, <2>2 DEF Report, Goto, TypeOK
<1>15. ASSUME NEW t \in Threads, Close(t) PROVE TypeOK'
  <2>1. [mine[t] EXCEPT !.status = "completed"] \in Task
    BY DEF TypeOK, Task, Status
  <2>2. row' \in Task
    BY <1>15, <2>1, MergeTyped DEF Close, Commit, TypeOK
  <2>3. QED BY <1>15, <2>2, FreshTyped DEF Close, End, Goto, TypeOK
<1>16. ASSUME NEW t \in Threads, NodeFails(t) PROVE TypeOK'
  BY <1>16, CompletedTyped DEF NodeFails, Goto, TypeOK, Nodes
<1>17. ASSUME NEW t \in Threads, Fail(t) PROVE TypeOK'
  <2> DEFINE node == FirstOpen(mine[t].meta.steps)
             new == [mine[t] EXCEPT !.meta.error = node, !.status = "failed"]
  <2>0. node \in Nodes \cup {"no", "import"}
    BY DEF FirstOpen, Nodes
  <2>1. new \in Task
    BY <2>0 DEF TypeOK, Task, Meta, Status
  <2>2. row' \in Task
    BY <1>17, <2>1, MergeTyped DEF Fail, FailAs, Commit, TypeOK
  <2>3. QED BY <1>17, <2>2, FreshTyped DEF Fail, FailAs, End, Goto, TypeOK
<1>18. QED
  BY <1>1, <1>2, <1>3, <1>4, <1>5, <1>6, <1>7, <1>8, <1>9, <1>10, <1>11, <1>12, <1>13,
     <1>14, <1>15, <1>16, <1>17 DEF Next, Runs, Commits

\* The row, the sessions and the requests of one task keep their types.
THEOREM TaskTyped == Spec => []TypeOK
  BY TypeInit, TypeStep, PTL DEF Spec

-----------------------------------------------------------------------------
(* A running task has a thread that will tell                              *)

\* No thread flushes a status without committing it.
NoStatusFlushed == \A t \in Threads : "status" \notin dirty[t]

WorkInv == TypeOK /\ NoStatusFlushed /\ RunningIsWorkedOn

LEMMA WorkInit == Init => WorkInv
<1> SUFFICES ASSUME Init PROVE WorkInv
  OBVIOUS
<1>1. TypeOK BY TypeInit
<1>2. QED BY <1>1 DEF Init, WorkInv, NoStatusFlushed, RunningIsWorkedOn, NoTask

LEMMA FlushStep == NoStatusFlushed /\ [Next]_vars => NoStatusFlushed'
<1> SUFFICES ASSUME NoStatusFlushed, [Next]_vars, dirty # dirty' PROVE NoStatusFlushed'
  BY DEF NoStatusFlushed
<1>1. ASSUME NEW t \in Threads, Plan(t) \/ Gather(t) \/ Check(t) PROVE NoStatusFlushed'
  <2>1. PICK cols \in SUBSET {"plan", "meta"} : dirty' = [dirty EXCEPT ![t] = @ \cup cols]
    <3>1. CASE Plan(t) BY <3>1 DEF Plan, Flush, Assigned
    <3>2. CASE Gather(t) BY <3>2 DEF Gather, Flush
    <3>3. CASE Check(t) BY <3>3 DEF Check, Flush, Assigned
    <3>4. QED BY <1>1, <3>1, <3>2, <3>3
  <2>2. QED BY <2>1 DEF NoStatusFlushed
<1>2. ASSUME NEW t \in Threads, Report(t) PROVE NoStatusFlushed'
  BY <1>2 DEF Report, NoStatusFlushed
<1>3. ASSUME NEW t \in Threads, End(t) PROVE NoStatusFlushed'
  BY <1>3 DEF End, NoStatusFlushed
<1>4. CASE Restart
  BY <1>4 DEF Restart, NoStatusFlushed
<1>5. QED
  BY <1>1, <1>2, <1>3, <1>4 DEF Next, Commits, Runs, Create, AskRetry, AskImport, Ask, Import,
     Retry, RequestRefused, Refused, Load, Close, NodeFails, Fail, FailAs, vars, threadVars

\* What a commit of the status leaves behind.
LEMMA LastWord ==
  ASSUME TypeOK, NoStatusFlushed, NEW t \in Threads, Working(t), NEW s \in {"completed", "failed"},
         NEW new, new.status = s, NEW cols, cols \subseteq {"meta"},
         Commit(t, new, cols \cup StatusCol(t, s)), row'.status = "running"
  PROVE  row.status = "running" /\ mine[t].status # "running"
  BY DEF Commit, Merge, StatusCol, NoStatusFlushed

LEMMA WorkStep == WorkInv /\ [Next]_vars => WorkInv'
<1> SUFFICES ASSUME WorkInv, [Next]_vars PROVE RunningIsWorkedOn'
  BY TypeStep, FlushStep DEF WorkInv
<1>0. TypeOK /\ TypeOK' /\ NoStatusFlushed /\ RunningIsWorkedOn
  BY TypeStep DEF WorkInv
<1> SUFFICES ASSUME row'.status = "running", ~(faults' > 0)
             PROVE  \E t \in Threads : WillTell(t)'
  BY DEF RunningIsWorkedOn
<1>1. CASE UNCHANGED <<row, mine, at, faults>>
  BY <1>0, <1>1 DEF RunningIsWorkedOn, WillTell, Working
<1>2. CASE Import
  BY <1>0, <1>2 DEF Import, Answer, Merge, Request, RunningIsWorkedOn, WillTell, Working,
     threadVars, NoTask
<1>3. ASSUME NEW t \in Threads, Create(t) \/ Retry(t) PROVE WillTell(t)'
  BY <1>0, <1>3 DEF Create, Retry, StartThread, WillTell, TypeOK
<1>4. CASE RequestRefused \/ Restart \/ \E t \in Threads : Refused(t)
  BY <1>0, <1>4 DEF RequestRefused, Restart, Refused, TypeOK
<1>5. ASSUME NEW t \in Threads, Load(t) PROVE \E u \in Threads : WillTell(u)'
  BY <1>0, <1>5 DEF Load, Goto, WillTell, Working, TypeOK
<1>6. ASSUME NEW t \in Threads, Plan(t) \/ Gather(t) \/ Check(t) \/ NodeFails(t)
      PROVE  \E u \in Threads : WillTell(u)'
  <2>1. /\ row' = row /\ faults' = faults
        /\ mine'[t].status = mine[t].status /\ at'[t] \notin {"free", "load"} /\ at[t] # "load"
        /\ \A u \in Threads \ {t} : mine'[u] = mine[u] /\ at'[u] = at[u]
    <3>1. ASSUME NEW n \in Nodes, NEW v, v \in {mine[t], Completed(t, n)}
          PROVE  v.status = mine[t].status
      BY <1>0, <3>1, CompletedTyped
    <3>2. /\ row' = row /\ faults' = faults
          /\ at[t] \in {"plan", "gather", "check"}
          /\ \E place \in {"gather", "check", "report", "fail"} : at' = [at EXCEPT ![t] = place]
      BY <1>6 DEF Plan, Gather, Check, NodeFails, Goto, After, Strict
    <3>3. \E n \in Nodes : \E v \in {mine[t], Completed(t, n)} : mine' = [mine EXCEPT ![t] = v]
      <4>1. CASE Plan(t) BY <4>1 DEF Plan, Flush, Nodes
      <4>2. CASE Gather(t) BY <4>2 DEF Gather, Flush, Nodes
      <4>3. CASE Check(t) BY <4>3 DEF Check, Flush, Nodes
      <4>4. CASE NodeFails(t)
        <5>1. mine' = mine \/ mine' = [mine EXCEPT ![t] = Completed(t, "check")]
          BY <4>4 DEF NodeFails
        <5>2. mine = [mine EXCEPT ![t] = mine[t]] BY <1>0 DEF TypeOK
        <5>3. QED BY <5>1, <5>2 DEF Nodes
      <4>5. QED BY <1>6, <4>1, <4>2, <4>3, <4>4
    <3>4. QED BY <1>0, <3>1, <3>2, <3>3 DEF TypeOK
  <2>2. QED BY <1>0, <2>1 DEF RunningIsWorkedOn, WillTell, Working
<1>7. ASSUME NEW t \in Threads, Report(t) PROVE \E u \in Threads : WillTell(u)'
  <2>1. /\ row'.status = IF "status" \in dirty[t] THEN mine[t].status ELSE row.status
        /\ mine'[t].status = mine[t].status
    BY <1>0, <1>7, CompletedTyped DEF Report, Commit, Merge, Assigned, TypeOK, Nodes, Task, Meta
  <2>2. /\ faults' = faults /\ at'[t] = "close" /\ at[t] = "report"
        /\ \A u \in Threads \ {t} : mine'[u] = mine[u] /\ at'[u] = at[u]
    BY <1>0, <1>7 DEF Report, Goto, TypeOK
  <2>3. QED BY <1>0, <2>1, <2>2 DEF RunningIsWorkedOn, WillTell, Working, NoStatusFlushed
<1>8. ASSUME NEW t \in Threads, Close(t) \/ Fail(t) PROVE \E u \in Threads : WillTell(u)'
  <2>1. Working(t) /\ at[t] # "load"
    BY <1>8 DEF Close, Fail, FailAs, Working
  <2>2. row.status = "running" /\ mine[t].status # "running"
    <3>1. CASE Close(t)
      <4> DEFINE new == [mine[t] EXCEPT !.status = "completed"]
      <4>1. new.status = "completed" BY <1>0 DEF TypeOK, Task
      <4>2. PICK cols \in SUBSET {"meta"} : Commit(t, new, cols \cup StatusCol(t, "completed"))
        <5>1. StatusCol(t, "completed") = {} \cup StatusCol(t, "completed") OBVIOUS
        <5>2. QED BY <3>1, <5>1 DEF Close
      <4> HIDE DEF new
      <4>3. QED BY <1>0, <2>1, <4>1, <4>2, LastWord
    <3>2. CASE Fail(t)
      <4> DEFINE node == FirstOpen(mine[t].meta.steps)
                 new == [mine[t] EXCEPT !.meta.error = node, !.status = "failed"]
      <4>1. new.status = "failed" BY <1>0 DEF TypeOK, Task
      <4>2. PICK cols \in SUBSET {"meta"} : Commit(t, new, cols \cup StatusCol(t, "failed"))
        BY <3>2 DEF Fail, FailAs, Assigned
      <4> HIDE DEF new
      <4>3. QED BY <1>0, <2>1, <4>1, <4>2, LastWord
    <3>3. QED BY <1>8, <3>1, <3>2
  <2>3. faults' = faults /\ \A u \in Threads \ {t} : mine'[u] = mine[u] /\ at'[u] = at[u]
    BY <1>0, <1>8 DEF Close, Fail, FailAs, End, Goto, TypeOK
  <2>4. QED BY <1>0, <2>1, <2>2, <2>3 DEF RunningIsWorkedOn, WillTell, Working
<1>9. QED
  BY <1>1, <1>2, <1>3, <1>4, <1>5, <1>6, <1>7, <1>8
     DEF Next, Commits, Runs, AskRetry, AskImport, Ask, vars, threadVars

\* However many retries start threads beside one another, and whatever they read
\* before they wait for the row: a task shown as running has a thread that is going
\* to change that, unless a restart or the database has ended one.
THEOREM SomebodyWorks == Spec => []RunningIsWorkedOn
<1>1. WorkInv => RunningIsWorkedOn BY DEF WorkInv
<1>2. QED BY <1>1, WorkInit, WorkStep, PTL DEF Spec

-----------------------------------------------------------------------------
(* A page is told the truth                                                *)

Before == {"plan", "gather", "check", "report", "fail"}
Done == [plan |-> {}, gather |-> {"plan"}, check |-> {"plan", "gather"},
         report |-> {"plan", "gather", "check"}]

Reported(r) == r.meta = [steps |-> Nodes, report |-> "yes", error |-> "no"]
\* The versions of the row that may be committed.
RowTold ==
    \/ row = NoTask
    \/ row = Fresh
    \/ Reported(row) /\ row.status \in {"running", "completed", "imported"}
    \/ row.status = "failed" /\ row.meta.report = "no" /\ row.meta.error # "no"

\* What a thread relies on: nobody has written the row since it was reset.
ThreadTold(t) ==
    /\ at[t] \in Before \cup {"load"} => row = Fresh
    /\ at[t] \in Before =>
          mine[t].status = "running" /\ mine[t].meta.report = "no" /\ mine[t].meta.error = "no"
    /\ at[t] \in Nodes => Done[at[t]] \subseteq mine[t].meta.steps
    /\ at[t] = "close" => Reported(row) /\ mine[t].status = "running" /\ dirty[t] = {}

NobodyWorks == \A t \in Threads : ~Working(t)
Alone == \A t, u \in Threads : Working(t) /\ Working(u) => t = u
\* A waiting handler will find the row as it has read it.
AskingTold ==
    /\ asking.kind = "retry" => NobodyWorks /\ asking.cols = Differing(row, Fresh)
    /\ asking.kind = "import" => Reported(row) /\ asking.cols \subseteq {"status"}
    /\ asking.kind \in {"retry", "import"} => row.status # "none"

Told == /\ RowTold /\ Alone /\ AskingTold
        /\ \A t \in Threads : ThreadTold(t)
        /\ row.status = "none" => NobodyWorks

ToldInv == TypeOK /\ NoStatusFlushed /\ (doubled = "no" => Told)

LEMMA ToldInit == Init => ToldInv
<1> SUFFICES ASSUME Init PROVE ToldInv
  OBVIOUS
<1>1. TypeOK /\ NoStatusFlushed
  BY TypeInit, WorkInit DEF WorkInv
<1>2. NobodyWorks /\ RowTold /\ Alone
  BY DEF Init, NobodyWorks, RowTold, Alone, Working
<1>3. AskingTold BY DEF Init, AskingTold, Idle
<1>4. \A t \in Threads : ThreadTold(t)
  BY DEF Init, ThreadTold, Before, Nodes
<1>5. QED BY <1>1, <1>2, <1>3, <1>4 DEF ToldInv, Told

\* A page that reads such a row is told the truth.
LEMMA RowTellsReport == RowTold => StatusTellsReport
<1> SUFFICES ASSUME RowTold PROVE StatusTellsReport
  OBVIOUS
<1>1. CASE row = NoTask BY <1>1 DEF StatusTellsReport, NoTask
<1>2. CASE row = Fresh
  <2>1. row.status = "running" BY <1>2 DEF Fresh, NoTask
  <2>2. QED BY <2>1 DEF StatusTellsReport
<1>3. CASE Reported(row) /\ row.status \in {"running", "completed", "imported"}
  BY <1>3 DEF Reported, StatusTellsReport
<1>4. CASE row.status = "failed" /\ row.meta.report = "no" /\ row.meta.error # "no"
  BY <1>4 DEF StatusTellsReport
<1>5. QED BY <1>1, <1>2, <1>3, <1>4 DEF RowTold

\* When the thread at work takes a step, it is all there is to look at.
LEMMA OneThreadSteps ==
  ASSUME TypeOK, Alone, NEW t \in Threads, Working(t), ThreadTold(t)',
         NEW place, at' = [at EXCEPT ![t] = place]
  PROVE  Alone' /\ \A u \in Threads : ThreadTold(u)'
<1>1. \A u \in Threads \ {t} : at'[u] = "free"
  BY DEF TypeOK, Alone, Working
<1>2. Alone' BY <1>1 DEF Alone, Working
<1>3. \A u \in Threads \ {t} : ThreadTold(u)'
  BY <1>1 DEF ThreadTold, Before, Nodes
<1>4. QED BY <1>2, <1>3

LEMMA FreshIs == Fresh.status = "running" /\ Fresh.meta.report = "no" /\ Fresh.meta.error = "no"
                 /\ ~Reported(Fresh) /\ Fresh # NoTask
  BY DEF Fresh, NoTask, Reported

\* A thread that writes nothing on its way.
LEMMA Onward ==
  ASSUME TypeOK, Told, NEW t \in Threads, Working(t), row' = row, asking' = asking,
         NEW place, at' = [at EXCEPT ![t] = place], ThreadTold(t)'
  PROVE  Told'
<1>1. Alone' /\ \A u \in Threads : ThreadTold(u)'
  BY OneThreadSteps DEF Told
<1>2. RowTold' BY DEF Told, RowTold
<1>3. row.status # "none" /\ asking.kind # "retry"
  BY DEF Told, AskingTold, NobodyWorks
<1>4. AskingTold' BY <1>3 DEF Told, AskingTold
<1>5. QED BY <1>1, <1>2, <1>3, <1>4 DEF Told

LEMMA ToldStep == ToldInv /\ [Next]_vars => ToldInv'
<1> SUFFICES ASSUME ToldInv, [Next]_vars, doubled' = "no" PROVE Told'
  BY TypeStep, FlushStep DEF ToldInv
<1>a. TypeOK /\ TypeOK' /\ NoStatusFlushed
  BY TypeStep DEF ToldInv
<1>b. doubled = "no"
  BY DEF Next, AskRetry, AskImport, Commits, Import, Retry, RequestRefused, Restart, Create, Runs,
     Refused, Load, Plan, Gather, Check, Report, Close, NodeFails, Fail, FailAs, vars
<1>c. Told BY <1>b DEF ToldInv
<1>1. CASE UNCHANGED vars
  <2>1. NobodyWorks' = NobodyWorks /\ Alone' = Alone
    BY <1>1 DEF vars, threadVars, NobodyWorks, Alone, Working
  <2>2. \A t \in Threads : ThreadTold(t)' = ThreadTold(t)
    BY <1>1 DEF vars, threadVars, ThreadTold
  <2>3. QED BY <1>1, <1>c, <2>1, <2>2 DEF vars, threadVars, Told, RowTold, AskingTold
<1>2. CASE AskRetry
  <2>1. NobodyWorks
    BY <1>2 DEF AskRetry, NobodyWorks
  <2>2. row' = row /\ at' = at /\ mine' = mine /\ dirty' = dirty
    BY <1>2 DEF AskRetry, Ask, threadVars
  <2>3. NobodyWorks' /\ Alone' /\ RowTold' /\ \A t \in Threads : ThreadTold(t)'
    BY <1>c, <2>1, <2>2 DEF Told, NobodyWorks, Alone, Working, RowTold, ThreadTold
  <2>4. AskingTold'
    <3>1. asking'.kind = "retry" /\ asking'.cols = Differing(row, Fresh)
      BY <1>2 DEF AskRetry, Ask, Request, Differing
    <3>2. QED BY <1>2, <2>2, <2>3, <3>1 DEF AskingTold, AskRetry
  <2>5. QED BY <2>3, <2>4 DEF Told
<1>3. CASE AskImport
  <2>1. Reported(row) /\ row.status # "none"
    <3>1. row.meta.report = "yes"
      BY <1>3 DEF AskImport
    <3>2. row # NoTask /\ row # Fresh
      BY <3>1 DEF NoTask, Fresh
    <3>3. QED BY <1>c, <3>1, <3>2 DEF Told, RowTold
  <2>2. row' = row /\ at' = at /\ mine' = mine /\ dirty' = dirty /\ asking'.kind = "import"
    BY <1>3 DEF AskImport, Ask, threadVars
  <2>3. Alone' /\ RowTold' /\ \A t \in Threads : ThreadTold(t)'
    BY <1>c, <2>2 DEF Told, Alone, Working, RowTold, ThreadTold
  <2>4. asking'.cols \subseteq {"status"}
    BY <1>3 DEF AskImport, Ask
  <2>5. QED BY <2>1, <2>2, <2>3, <2>4 DEF Told, AskingTold, Reported
<1>4. CASE Import
  <2>1. /\ Reported(row) /\ row.status # "none" /\ asking.cols \subseteq {"status"}
        /\ asking'.kind = "idle"
    BY <1>4, <1>c DEF Import, Answer, Told, AskingTold, Idle
  <2>2. at' = at /\ mine' = mine /\ dirty' = dirty
    BY <1>4 DEF Import, threadVars
  <2>3. Reported(row') /\ row'.status \in {row.status, "imported"}
    BY <1>4, <2>1 DEF Import, Answer, Merge, Request, Reported, NoTask
  <2>4. \A t \in Threads : at[t] \notin Before \cup {"load"}
    BY <1>c, <2>1, FreshIs DEF Told, ThreadTold
  <2>5. row.status \in {"running", "completed", "imported"}
    BY <1>c, <2>1, FreshIs DEF Told, RowTold, Reported, NoTask
  <2>6. Alone' /\ \A t \in Threads : ThreadTold(t)'
    BY <1>c, <2>2, <2>3, <2>4 DEF Told, Alone, Working, ThreadTold
  <2>7. RowTold' /\ AskingTold'
    BY <2>1, <2>3, <2>5 DEF RowTold, AskingTold
  <2>8. QED BY <2>3, <2>5, <2>6, <2>7 DEF Told
<1>5. ASSUME NEW t \in Threads, Retry(t) PROVE Told'
  <2>1. NobodyWorks /\ asking.cols = Differing(row, Fresh) /\ asking'.kind = "idle"
    BY <1>5, <1>c DEF Retry, Answer, Told, AskingTold, Idle
  <2>2. row' = Fresh
    <3>1. row' = Merge(Differing(row, Fresh), Fresh)
      BY <1>5, <2>1 DEF Retry, Answer, Request
    <3>2. Merge(Differing(row, Fresh), Fresh) = [status |-> Fresh.status, meta |-> Fresh.meta]
      BY DEF Merge, Differing
    <3>3. Fresh = [status |-> Fresh.status, meta |-> Fresh.meta]
      BY DEF Fresh, NoTask
    <3>4. QED BY <3>1, <3>2, <3>3
  <2>3. at' = [at EXCEPT ![t] = "load"]
    BY <1>5 DEF Retry, StartThread
  <2>4. \A u \in Threads : at'[u] = IF u = t THEN "load" ELSE "free"
    BY <2>1, <2>3, <1>a DEF NobodyWorks, Working, TypeOK
  <2>5. Alone' /\ \A u \in Threads : ThreadTold(u)'
    BY <2>2, <2>4 DEF Alone, Working, ThreadTold, Before, Nodes
  <2>6. QED BY <2>1, <2>2, <2>5, FreshIs DEF Told, RowTold, AskingTold
<1>6. ASSUME NEW t \in Threads, Create(t) PROVE Told'
  <2>1. NobodyWorks /\ row.status = "none" /\ row' = Fresh /\ asking' = asking
    BY <1>6, <1>c DEF Create, Told
  <2>2. asking'.kind \notin {"retry", "import"}
    BY <2>1, <1>c DEF Told, AskingTold
  <2>3. at' = [at EXCEPT ![t] = "load"]
    BY <1>6 DEF Create, StartThread
  <2>4. \A u \in Threads : at'[u] = IF u = t THEN "load" ELSE "free"
    BY <2>1, <2>3, <1>a DEF NobodyWorks, Working, TypeOK
  <2>5. Alone' /\ \A u \in Threads : ThreadTold(u)'
    BY <2>1, <2>4 DEF Alone, Working, ThreadTold, Before, Nodes
  <2>6. QED BY <2>1, <2>2, <2>5, FreshIs DEF Told, RowTold, AskingTold
<1>7. CASE RequestRefused
  <2>1. row' = row /\ at' = at /\ mine' = mine /\ dirty' = dirty /\ asking'.kind = "idle"
    BY <1>7 DEF RequestRefused, threadVars, Idle
  <2>2. NobodyWorks' = NobodyWorks /\ Alone' = Alone
    BY <2>1 DEF NobodyWorks, Alone, Working
  <2>3. \A t \in Threads : ThreadTold(t)' = ThreadTold(t)
    BY <2>1 DEF ThreadTold
  <2>4. QED BY <1>c, <2>1, <2>2, <2>3 DEF Told, RowTold, AskingTold
<1>8. CASE Restart
  <2>1. row' = row /\ asking'.kind = "idle" /\ \A t \in Threads : at'[t] = "free"
    BY <1>8 DEF Restart, Idle
  <2>2. NobodyWorks' /\ Alone' /\ \A t \in Threads : ThreadTold(t)'
    BY <2>1 DEF NobodyWorks, Alone, Working, ThreadTold, Before, Nodes
  <2>3. QED BY <1>c, <2>1, <2>2 DEF Told, RowTold, AskingTold
<1>9. ASSUME NEW t \in Threads, Refused(t) PROVE Told'
  <2>1. Working(t) /\ row' = row /\ asking' = asking /\ at' = [at EXCEPT ![t] = "free"]
    BY <1>9 DEF Refused, End, Goto, Working, Nodes
  <2>2. ThreadTold(t)'
    BY <1>a, <2>1 DEF TypeOK, ThreadTold, Before, Nodes
  <2>3. QED BY <1>a, <1>c, <2>1, <2>2, Onward
<1>10. ASSUME NEW t \in Threads, Load(t) PROVE Told'
  <2>1. /\ Working(t) /\ row' = row /\ asking' = asking /\ at' = [at EXCEPT ![t] = "plan"]
        /\ row = Fresh /\ mine' = [mine EXCEPT ![t] = row]
    BY <1>10, <1>c DEF Load, Goto, Working, Told, ThreadTold
  <2>2. ThreadTold(t)'
    BY <1>a, <2>1, FreshIs DEF TypeOK, ThreadTold, Before, Nodes, Done
  <2>3. QED BY <1>a, <1>c, <2>1, <2>2, Onward
<1>11. ASSUME NEW t \in Threads, NEW n \in {"plan", "gather", "check"}, at[t] = n,
              NEW place \in {After(n), "fail"}, at' = [at EXCEPT ![t] = place],
              NEW v \in {mine[t], Completed(t, n)}, mine' = [mine EXCEPT ![t] = v],
              v = Completed(t, n) \/ place = "fail",
              row' = row, asking' = asking
       PROVE  Told'
  <2>1. /\ Working(t) /\ row = Fresh /\ Done[n] \subseteq mine[t].meta.steps
        /\ mine[t].status = "running" /\ mine[t].meta.report = "no" /\ mine[t].meta.error = "no"
    BY <1>11, <1>c DEF Working, Told, ThreadTold, Before, Nodes
  <2>2. /\ v.status = "running" /\ v.meta.report = "no" /\ v.meta.error = "no"
        /\ v = Completed(t, n) => v.meta.steps = mine[t].meta.steps \cup {n}
    BY <1>11, <1>a, <2>1, CompletedTyped DEF Nodes
  <2>3. mine'[t] = v /\ at'[t] = place /\ place \in Before
    BY <1>11, <1>a DEF TypeOK, After, Before
  <2>4. place \in Nodes => Done[place] \subseteq v.meta.steps
    BY <1>11, <2>1, <2>2 DEF After, Done, Nodes
  <2>5. ThreadTold(t)'
    BY <1>11, <2>1, <2>2, <2>3, <2>4 DEF ThreadTold, Before
  <2>6. QED BY <1>11, <1>a, <1>c, <2>1, <2>5, Onward
<1>12. ASSUME NEW t \in Threads, Plan(t) PROVE Told'
  BY <1>11, <1>12 DEF Plan, Flush, Goto
<1>13. ASSUME NEW t \in Threads, Gather(t) PROVE Told'
  BY <1>11, <1>13 DEF Gather, Flush, Goto
<1>14. ASSUME NEW t \in Threads, Check(t) PROVE Told'
  BY <1>11, <1>14 DEF Check, Flush, Goto
<1>15. ASSUME NEW t \in Threads, NodeFails(t) PROVE Told'
  <2>1. mine = [mine EXCEPT ![t] = mine[t]] BY <1>a DEF TypeOK
  <2>2. CASE at[t] = "check" BY <1>11, <1>15, <2>2 DEF NodeFails, Goto
  <2>3. CASE at[t] # "check" BY <1>11, <1>15, <2>1, <2>3 DEF NodeFails, Goto, Strict
  <2>4. QED BY <2>2, <2>3
<1>16. ASSUME NEW t \in Threads, Report(t) PROVE Told'
  <2> DEFINE new == [Completed(t, "report") EXCEPT !.meta.report = "yes"]
  <2>1. /\ Working(t) /\ at[t] = "report" /\ row = Fresh
        /\ {"plan", "gather", "check"} \subseteq mine[t].meta.steps
        /\ mine[t].status = "running" /\ mine[t].meta.report = "no" /\ mine[t].meta.error = "no"
    BY <1>16, <1>c DEF Report, Working, Told, ThreadTold, Before, Nodes, Done
  <2>2. new.status = "running" /\ Reported(new)
    <3>1. mine[t].meta.steps \in SUBSET Nodes
      BY <1>a DEF TypeOK, Task, Meta
    <3>2. Completed(t, "report") \in Task
      BY <1>a, CompletedTyped DEF Nodes
    <3>3. /\ new.status = "running" /\ new.meta.steps = Nodes
          /\ new.meta.error = "no" /\ new.meta.report = "yes"
      BY <1>a, <2>1, <3>1, <3>2, CompletedTyped DEF Nodes, Task, Meta
    <3>4. new.meta \in Meta
      BY <3>2 DEF Task, Meta, YesNo
    <3>5. QED BY <3>3, <3>4 DEF Reported, Meta
  <2>3. /\ at' = [at EXCEPT ![t] = "close"] /\ mine' = [mine EXCEPT ![t] = new]
        /\ dirty' = [dirty EXCEPT ![t] = {}] /\ asking' = asking
    BY <1>16 DEF Report, Goto
  <2>4. row' = Merge(dirty[t] \cup {"meta"}, new)
    BY <1>16, <2>1 DEF Report, Assigned, Commit
  <2> HIDE DEF new
  <2>5. Reported(row') /\ row'.status = "running"
    BY <1>a, <2>1, <2>2, <2>4, FreshIs DEF Merge, Reported, NoStatusFlushed
  <2>6. ThreadTold(t)'
    BY <1>a, <2>2, <2>3, <2>5 DEF TypeOK, ThreadTold, Before, Nodes
  <2>7. Alone' /\ \A u \in Threads : ThreadTold(u)'
    BY <1>a, <1>c, <2>1, <2>3, <2>6, OneThreadSteps DEF Told
  <2>8. AskingTold'
    BY <1>c, <2>1, <2>3, FreshIs DEF Told, AskingTold, NobodyWorks
  <2>9. QED BY <2>5, <2>7, <2>8 DEF Told, RowTold
<1>17. ASSUME NEW t \in Threads, Close(t) PROVE Told'
  <2> DEFINE new == [mine[t] EXCEPT !.status = "completed"]
  <2>1. /\ Working(t) /\ at[t] = "close" /\ Reported(row)
        /\ mine[t].status = "running" /\ dirty[t] = {}
    BY <1>17, <1>c DEF Close, Working, Told, ThreadTold
  <2>2. row' = Merge({"status"}, new) /\ new.status = "completed"
    BY <1>17, <1>a, <2>1 DEF Close, Commit, StatusCol, TypeOK, Task
  <2> HIDE DEF new
  <2>3. Reported(row') /\ row'.status = "completed"
    BY <2>1, <2>2 DEF Merge, Reported
  <2>4. at' = [at EXCEPT ![t] = "free"] /\ asking' = asking
    BY <1>17 DEF Close, End, Goto
  <2>5. ThreadTold(t)'
    BY <1>a, <2>4 DEF TypeOK, ThreadTold, Before, Nodes
  <2>6. Alone' /\ \A u \in Threads : ThreadTold(u)'
    BY <1>a, <1>c, <2>1, <2>4, <2>5, OneThreadSteps DEF Told
  <2>7. AskingTold'
    BY <1>c, <2>1, <2>3, <2>4 DEF Told, AskingTold, NobodyWorks
  <2>8. QED BY <2>3, <2>6, <2>7 DEF Told, RowTold
<1>18. ASSUME NEW t \in Threads, Fail(t) PROVE Told'
  <2> DEFINE node == FirstOpen(mine[t].meta.steps)
             new == [mine[t] EXCEPT !.meta.error = node, !.status = "failed"]
  <2>1. /\ Working(t) /\ at[t] = "fail" /\ row = Fresh
        /\ mine[t].status = "running" /\ mine[t].meta.report = "no" /\ mine[t].meta.error = "no"
    BY <1>18, <1>c DEF Fail, FailAs, Working, Told, ThreadTold, Before
  <2>2. node # "no" BY DEF FirstOpen
  <2>3. row' = Merge(dirty[t] \cup ({"meta"} \cup {"status"}), new)
    BY <1>18, <2>1, <2>2 DEF Fail, FailAs, Assigned, Commit, StatusCol
  <2>4. new.status = "failed" /\ new.meta.report = "no" /\ new.meta.error # "no"
    BY <1>a, <2>1, <2>2 DEF TypeOK, Task, Meta
  <2> HIDE DEF new
  <2>5. row'.status = "failed" /\ row'.meta.report = "no" /\ row'.meta.error # "no"
    BY <2>3, <2>4 DEF Merge
  <2>6. at' = [at EXCEPT ![t] = "free"] /\ asking' = asking
    BY <1>18 DEF Fail, FailAs, End, Goto
  <2>7. ThreadTold(t)'
    BY <1>a, <2>6 DEF TypeOK, ThreadTold, Before, Nodes
  <2>8. Alone' /\ \A u \in Threads : ThreadTold(u)'
    BY <1>a, <1>c, <2>1, <2>6, <2>7, OneThreadSteps DEF Told
  <2>9. AskingTold'
    BY <1>c, <2>1, <2>5, <2>6, FreshIs DEF Told, AskingTold, NobodyWorks
  <2>10. QED BY <2>5, <2>8, <2>9 DEF Told, RowTold
<1>19. QED
  BY <1>1, <1>2, <1>3, <1>4, <1>5, <1>6, <1>7, <1>8, <1>9, <1>10, <1>12, <1>13, <1>14, <1>15,
     <1>16, <1>17, <1>18 DEF Next, Commits, Runs

\* Unless somebody asks for a retry beside a running thread: however imports and
\* retries meet the two commits of a workflow, and whatever faults do to it, a task
\* that is completed or imported has its report and all its steps, and one that has
\* failed says where.
THEOREM PageIsToldTruth == Spec => []StatusTellsReport
<1>1. ToldInv => StatusTellsReport
  <2>1. doubled # "no" => StatusTellsReport BY DEF StatusTellsReport
  <2>2. QED BY <2>1, RowTellsReport DEF ToldInv, Told
<1>2. QED BY <1>1, ToldInit, ToldStep, PTL DEF Spec

-----------------------------------------------------------------------------
(* Second part: the facts of the feed, the claims and the signals          *)

CONSTANTS Near, Lists, NoList, Limit, MaxJobs

VARIABLES past, list, open, job, worker, pass, jobs

S == INSTANCE Signals

-----------------------------------------------------------------------------
(* Numbers *)

\* A set of numbers has a least one.
LEMMA HasLeast ==
  ASSUME NEW T \in SUBSET Nat, T # {}
  PROVE  \E n \in T : \A m \in T : n <= m
<1>1. PICK n \in T : \A m \in T : ~ (<<m, n>> \in OpToRel(<, Nat))
  BY NatLessThanWellFounded, WFMin, Zenon
<1>2. \A m \in T : ~ (m < n)
  BY <1>1 DEF OpToRel
<1> QED  BY <1>2

\* A set of numbers that is bounded has a greatest one.
LEMMA HasGreatest ==
  ASSUME NEW T \in SUBSET Nat, T # {}, NEW b \in Nat, \A m \in T : m <= b
  PROVE  \E n \in T : \A m \in T : m <= n
<1> DEFINE Below == {i \in Nat : \E m \in T : m + i = b}
<1>1. Below \in SUBSET Nat /\ Below # {}
  <2>1. PICK m \in T : TRUE
    OBVIOUS
  <2>2. b - m \in Nat /\ m + (b - m) = b
    BY <2>1
  <2> QED  BY <2>2
<1>2. PICK d \in Below : \A e \in Below : d <= e
  <2> HIDE DEF Below
  <2> QED  BY <1>1, HasLeast
<1>3. PICK n \in T : n + d = b
  BY <1>2
<1>4. ASSUME NEW m \in T PROVE m <= n
  <2>1. b - m \in Below
    <3>1. b - m \in Nat /\ m + (b - m) = b
      OBVIOUS
    <3> QED  BY <3>1
  <2>2. d <= b - m
    BY <1>2, <2>1
  <2>3. d \in Nat /\ n \in Nat /\ m \in Nat
    BY <1>2
  <2> HIDE DEF Below
  <2> QED  BY <2>2, <2>3, <1>3
<1> QED  BY <1>4

\* A finite sequence of numbers has a bound.
LEMMA SequenceHasBound ==
  ASSUME NEW n \in Nat, NEW v \in [1..n -> Nat]
  PROVE  \E b \in Nat : \A i \in 1..n : v[i] <= b
<1> DEFINE Bounds(b, k) == \A i \in 1..n : i <= k => v[i] <= b
           Bad == {k \in Nat : k <= n /\ \A b \in Nat : ~Bounds(b, k)}
<1>1. Bad \in SUBSET Nat
  OBVIOUS
<1>2. ASSUME Bad # {} PROVE FALSE
  <2>1. PICK k \in Bad : \A j \in Bad : k <= j
    <3> HIDE DEF Bad
    <3> QED  BY <1>1, <1>2, HasLeast
  <2>2. k \in Nat /\ k <= n /\ \A b \in Nat : ~Bounds(b, k)
    BY <2>1
  <2>3. Bounds(0, 0)
    OBVIOUS
  <2>4. k # 0
    <3> HIDE DEF Bounds, Bad
    <3> QED  BY <2>2, <2>3
  <2>5. k - 1 \in Nat /\ k - 1 <= n /\ k - 1 < k /\ k \in 1..n
    BY <2>2, <2>4
  <2>6. k - 1 \notin Bad
    <3> HIDE DEF Bad
    <3> QED  BY <2>1, <2>2, <2>5
  <2>7. PICK b \in Nat : Bounds(b, k - 1)
    BY <2>5, <2>6
  <2>8. v[k] \in Nat
    BY <2>5
  <2>9. b + v[k] \in Nat
    <3> HIDE DEF Bad, Bounds
    <3> QED  BY <2>8
  <2>10. Bounds(b + v[k], k)
    <3>1. ASSUME NEW i \in 1..n, i <= k PROVE v[i] <= b + v[k]
      <4> HIDE DEF Bad
      <4>1. v[i] \in Nat
        OBVIOUS
      <4>2. CASE i = k
        BY <4>2, <2>8
      <4>3. CASE i # k
        <5>1. v[i] <= b
          BY <2>7, <3>1, <4>3, <2>2
        <5> QED  BY <5>1, <4>1, <2>8
      <4> QED  BY <4>2, <4>3
    <3> QED  BY <3>1
  <2> HIDE DEF Bounds, Bad
  <2> QED  BY <2>2, <2>9, <2>10
<1>3. n \notin Bad
  <2> HIDE DEF Bad
  <2> QED  BY <1>2
<1>4. PICK b \in Nat : Bounds(b, n)
  BY <1>3
<1> QED  BY <1>4

\* So have the numbers that finitely many things are given.
LEMMA HasBound ==
  ASSUME NEW T, IsFiniteSet(T), NEW w \in [T -> Nat]
  PROVE  \E b \in Nat : \A s \in T : w[s] <= b
<1>1. PICK n \in Nat : ExistsSurjection(1..n, T)
  BY FS_NatSurjection
<1>2. PICK e \in [1..n -> T] : \A s \in T : \E k \in 1..n : e[k] = s
  BY <1>1 DEF ExistsSurjection, Surjection
<1> DEFINE v == [i \in 1..n |-> w[e[i]]]
<1>3. v \in [1..n -> Nat]
  BY <1>2
<1>4. PICK b \in Nat : \A i \in 1..n : v[i] <= b
  BY <1>3, SequenceHasBound
<1>5. ASSUME NEW s \in T PROVE w[s] <= b
  <2>1. PICK k \in 1..n : e[k] = s
    BY <1>2
  <2> QED  BY <1>4, <2>1
<1> QED  BY <1>5

\* What an entry is raised to is at least each of the weights, and what it was.
LEMMA HeaviestIs ==
  ASSUME NEW T \in SUBSET Facts, NEW low \in Nat
  PROVE  /\ S!Heaviest(T, low) \in Nat /\ low <= S!Heaviest(T, low)
         /\ \A f \in T : Weight[f] <= S!Heaviest(T, low)
<1> DEFINE W == {Weight[f] : f \in T} \cup {low}
<1>1. W \subseteq Nat /\ W # {} /\ low \in W /\ \A f \in T : Weight[f] \in W
  BY FeedFactsAssumption DEF FeedFactsAssumption
<1>2. PICK b \in Nat : \A f \in Facts : Weight[f] <= b
  BY FeedFactsAssumption, HasBound DEF FeedFactsAssumption
<1>3. b + low \in Nat /\ \A m \in W : m <= b + low
  BY <1>2, FeedFactsAssumption DEF FeedFactsAssumption
<1>4. \E n \in W : \A m \in W : m <= n
  BY <1>1, <1>3, HasGreatest
<1> DEFINE h == CHOOSE n \in W : \A m \in W : m <= n
<1>5. h \in W /\ \A m \in W : m <= h
  BY <1>4
<1>6. S!Heaviest(T, low) = h
  BY DEF S!Heaviest
<1> HIDE DEF h, W
<1> QED  BY <1>1, <1>5, <1>6

-----------------------------------------------------------------------------
(* An entry keeps a fact *)

\* An answer takes from an entry only what it replaces, so an entry with facts keeps one.
\* The watchlists and the bounds play no part, so nothing is assumed of them.
THEOREM EntriesKeepFacts == S!Spec => FactsOutlive
<1>1. ASSUME [S!Next]_S!vars
      PROVE  [\A i \in Items : FactsOf(i) \cap Active # {}
                             => (FactsOf(i) \cap Active)' # {}]_fact
  <2> SUFFICES ASSUME fact' # fact, NEW i \in Items, NEW f \in FactsOf(i) \cap Active
               PROVE  (FactsOf(i) \cap Active)' # {}
    OBVIOUS
  <2>1. f \in Facts /\ ItemOf[f] = i /\ fact[f].is = "active"
    BY DEF FactsOf, Active
  <2>2. PICK A \in SUBSET Facts : S!Extract(A) \/ S!ExtractCollides(A)
    BY <1>1 DEF S!Next, S!vars, S!AskRefresh, S!EndRefresh, S!Bind, S!UpdateThesis,
       S!ClassifyItem, S!Enqueue, S!Start, S!NextItem, S!ExtractFails, S!Match, S!JobReads,
       S!JobEnds, S!JobSticks, S!Read, S!Regroup
  <2>3. ASSUME NEW g \in Facts, ItemOf[g] = i, fact'[g].is = "active"
        PROVE  (FactsOf(i) \cap Active)' # {}
    BY <2>3 DEF FactsOf, Active
  <2>4. CASE S!ExtractCollides(A)
    <3>1. fact'[f].is = "active"
      BY <2>1, <2>4 DEF S!ExtractCollides
    <3> QED  BY <2>1, <2>3, <3>1
  <2>5. CASE S!Extract(A)
    <3>1. fact' = S!Kept(A) /\ A \subseteq FactsOf(worker.item)
      BY <2>5 DEF S!Extract, S!FactsOf, FactsOf
    <3>2. CASE A = {} \/ i # worker.item
      <4>1. f \notin A
        BY <2>1, <3>1, <3>2 DEF FactsOf
      <4>2. fact'[f] = fact[f]
        BY <2>1, <3>1, <3>2, <4>1 DEF S!Kept
      <4> QED  BY <2>1, <2>3, <4>2
    <3>3. CASE A # {} /\ i = worker.item
      <4>1. PICK g \in A : TRUE
        BY <3>3
      <4>2. g \in Facts /\ ItemOf[g] = i /\ fact'[g].is = "active"
        BY <3>1, <3>3 DEF FactsOf, S!Kept
      <4> QED  BY <2>3, <4>2
    <3> QED  BY <3>2, <3>3
  <2> QED  BY <2>2, <2>4, <2>5
<1> QED  BY <1>1, PTL DEF S!Spec, FactsOutlive

-----------------------------------------------------------------------------
(* An entry shows the strongest *)

Ats == {"idle", "next", "extract", "match", "refresh"}

WorkerTyped ==
    /\ worker \in [at : Ats, todo : SUBSET Items, item : Nat,
                   seen : [Items -> Nat], owed : [Items -> Nat]]
    /\ worker.at \in {"extract", "match"} => worker.item \in Items

FeedTyped == claim \subseteq Facts /\ impact \in [Items -> Nat] /\ judged \subseteq Items

\* What the session has seen of an entry is what the row says, or what the session is
\* about to write there, and that is more.  The classifier's entries are excepted.
Accounted(i) ==
    \/ worker.owed[i] = 0 /\ worker.seen[i] = impact[i]
    \/ worker.owed[i] = worker.seen[i] /\ worker.owed[i] >= impact[i]

SessionAgrees ==
    /\ worker.at # "idle" => \A i \in Items \ judged : Accounted(i)
    /\ worker.at = "match" => \A i \in Items : worker.owed[i] = 0

ShowInv == FeedTyped /\ WorkerTyped /\ SessionAgrees /\ StrongestShows

\* Nothing is claimed at first.
LEMMA ShowInit == S!Init => ShowInv
  BY DEF S!Init, S!Idle, ShowInv, FeedTyped, WorkerTyped, SessionAgrees, StrongestShows, Ats

\* A commit writes what the session owes; no claim is weakened by it.
LEMMA Settled ==
  ASSUME ShowInv, worker.at # "idle", S!Settle
  PROVE  /\ FeedTyped' /\ StrongestShows'
         /\ \A i \in Items \ judged : worker.seen[i] = impact'[i]
<1>1. /\ claim' = claim /\ judged' = judged
      /\ impact' = [i \in Items |-> IF worker.owed[i] = 0 THEN impact[i] ELSE worker.owed[i]]
  BY DEF S!Settle, S!Paid
<1>2. claim \subseteq Facts /\ judged \subseteq Items /\ impact \in [Items -> Nat]
  BY DEF ShowInv, FeedTyped
<1>3. worker.owed \in [Items -> Nat] /\ worker.seen \in [Items -> Nat]
  BY DEF ShowInv, WorkerTyped
<1>4. FeedTyped'
  BY <1>1, <1>2, <1>3 DEF FeedTyped
<1>5. \A i \in Items \ judged : Accounted(i)
  BY DEF ShowInv, SessionAgrees
<1>6. ASSUME NEW i \in Items \ judged
      PROVE  worker.seen[i] = impact'[i] /\ impact[i] <= impact'[i]
  <2>1. worker.owed[i] \in Nat /\ worker.seen[i] \in Nat /\ impact[i] \in Nat
    BY <1>2, <1>3
  <2>2. impact'[i] = IF worker.owed[i] = 0 THEN impact[i] ELSE worker.owed[i]
    BY <1>1
  <2>3. Accounted(i)
    BY <1>5
  <2> QED  BY <2>1, <2>2, <2>3 DEF Accounted
<1>7. ASSUME NEW f \in claim', ItemOf[f] \notin judged'
      PROVE  impact'[ItemOf[f]] >= Weight[f]
  <2>1. f \in Facts /\ ItemOf[f] \in Items /\ Weight[f] \in Nat
    BY <1>1, <1>2, FeedFactsAssumption DEF FeedFactsAssumption
  <2>2. impact[ItemOf[f]] >= Weight[f]
    BY <1>1, <1>7 DEF ShowInv, StrongestShows
  <2>3. impact[ItemOf[f]] <= impact'[ItemOf[f]]
    BY <1>1, <1>6, <1>7, <2>1
  <2>4. impact[ItemOf[f]] \in Nat /\ impact'[ItemOf[f]] \in Nat
    BY <1>2, <1>4, <2>1 DEF FeedTyped
  <2> QED  BY <2>1, <2>2, <2>3, <2>4
<1>8. StrongestShows'
  BY <1>7 DEF StrongestShows
<1> QED  BY <1>4, <1>6, <1>8

\* What the classifier writes is not the matcher's any more.
LEMMA ClassifyShows ==
  ASSUME ShowInv, NEW i \in Items, S!ClassifyItem(i)
  PROVE  ShowInv'
<1>1. PICK w \in {0} \cup {Weight[f] : f \in Facts} : impact' = [impact EXCEPT ![i] = w]
  BY DEF S!ClassifyItem
<1>2. w \in Nat
  BY FeedFactsAssumption DEF FeedFactsAssumption
<1>3. claim' = claim /\ worker' = worker /\ judged' = judged \cup {i}
  BY DEF S!ClassifyItem
<1>4. FeedTyped' /\ WorkerTyped'
  BY <1>1, <1>2, <1>3 DEF ShowInv, FeedTyped, WorkerTyped
<1>5. ASSUME NEW j \in Items \ judged' PROVE impact'[j] = impact[j] /\ j \in Items \ judged
  BY <1>1, <1>3, <1>5 DEF ShowInv, FeedTyped
<1>6. SessionAgrees'
  BY <1>3, <1>5 DEF ShowInv, SessionAgrees, Accounted
<1>7. StrongestShows'
  <2> SUFFICES ASSUME NEW f \in claim, ItemOf[f] \notin judged'
               PROVE  impact'[ItemOf[f]] >= Weight[f]
    BY <1>3 DEF StrongestShows
  <2>1. ItemOf[f] \in Items
    BY FeedFactsAssumption DEF FeedFactsAssumption, ShowInv, FeedTyped
  <2>2. ItemOf[f] \notin judged /\ impact'[ItemOf[f]] = impact[ItemOf[f]]
    BY <1>5, <2>1
  <2> QED  BY <2>2 DEF ShowInv, StrongestShows
<1> QED  BY <1>4, <1>6, <1>7 DEF ShowInv

\* A claim is made by the commit that raises the entry, or raises nothing.
LEMMA MatchShows ==
  ASSUME ShowInv, S!Match
  PROVE  ShowInv'
<1> DEFINE i == worker.item
           matched == S!Matching(i)
           high == S!Raised(matched, worker.seen[i])
           rises == high # worker.seen[i]
           created == matched \ claim # {}
<1>1. /\ worker.at = "match" /\ claim' = claim \cup matched /\ judged' = judged
      /\ impact' = IF created /\ rises THEN [impact EXCEPT ![i] = high] ELSE impact
      /\ worker' = [worker EXCEPT !.at = "next", !.seen[i] = high,
                                  !.owed[i] = IF rises /\ ~created THEN high ELSE 0]
  BY DEF S!Match
<1>2. /\ i \in Items /\ worker.seen \in [Items -> Nat] /\ worker.owed \in [Items -> Nat]
      /\ \A j \in Items : worker.owed[j] = 0
      /\ \A j \in Items \ judged : worker.seen[j] = impact[j]
  <2>1. i \in Items /\ worker.seen \in [Items -> Nat] /\ worker.owed \in [Items -> Nat]
    BY <1>1 DEF ShowInv, WorkerTyped
  <2>2. \A j \in Items : worker.owed[j] = 0
    BY <1>1 DEF ShowInv, SessionAgrees
  <2>3. ASSUME NEW j \in Items \ judged PROVE worker.seen[j] = impact[j]
    <3>1. worker.owed[j] = 0 /\ worker.seen[j] \in Nat /\ impact[j] \in Nat
      BY <2>1, <2>2 DEF ShowInv, FeedTyped
    <3>2. Accounted(j)
      BY <1>1 DEF ShowInv, SessionAgrees
    <3> QED  BY <3>1, <3>2 DEF Accounted
  <2> QED  BY <2>1, <2>2, <2>3
<1>3. matched \subseteq Facts /\ \A f \in matched : ItemOf[f] = i
  BY DEF S!Matching, S!FactsOf
<1>4. /\ high \in Nat /\ worker.seen[i] <= high
      /\ \A f \in matched : Weight[f] <= high
  <2>1. worker.seen[i] \in Nat
    BY <1>2
  <2> HIDE DEF matched, i
  <2> QED  BY <2>1, <1>3, HeaviestIs DEF S!Raised
<1> HIDE DEF i, matched, high
<1>5. claim \subseteq Facts /\ judged \subseteq Items /\ impact \in [Items -> Nat]
  BY DEF ShowInv, FeedTyped
<1>6. FeedTyped'
  BY <1>1, <1>2, <1>3, <1>4, <1>5 DEF FeedTyped
<1>7. /\ worker'.at = "next" /\ worker'.todo = worker.todo /\ worker'.item = worker.item
      /\ worker'.seen = [worker.seen EXCEPT ![i] = high]
      /\ worker'.owed = [worker.owed EXCEPT ![i] = IF rises /\ ~created THEN high ELSE 0]
      /\ worker' \in [at : Ats, todo : SUBSET Items, item : Nat,
                      seen : [Items -> Nat], owed : [Items -> Nat]]
  BY <1>1, <1>2, <1>4 DEF ShowInv, WorkerTyped, Ats
<1>8. WorkerTyped'
  BY <1>7 DEF WorkerTyped
<1>9. ASSUME NEW j \in Items \ judged PROVE Accounted(j)'
  <2>1. impact[j] \in Nat /\ worker.seen[j] = impact[j] /\ worker.owed[j] = 0
    BY <1>2, <1>5
  <2>2. CASE j # i
    <3>1. impact'[j] = impact[j] /\ worker'.seen[j] = worker.seen[j]
          /\ worker'.owed[j] = worker.owed[j]
      BY <1>1, <1>2, <1>5, <1>7, <2>2
    <3> QED  BY <2>1, <3>1 DEF Accounted
  <2>3. CASE j = i
    <3>1. worker'.seen[i] = high
          /\ worker'.owed[i] = IF rises /\ ~created THEN high ELSE 0
      BY <1>2, <1>7
    <3>2. impact'[i] = IF created /\ rises THEN high ELSE impact[i]
      BY <1>1, <1>2, <1>5
    <3> QED  BY <2>1, <2>3, <3>1, <3>2, <1>4 DEF Accounted
  <2> QED  BY <2>2, <2>3
<1>10. SessionAgrees'
  BY <1>1, <1>7, <1>9 DEF SessionAgrees
<1>11. StrongestShows'
  <2> SUFFICES ASSUME NEW f \in claim', ItemOf[f] \notin judged
               PROVE  impact'[ItemOf[f]] >= Weight[f]
    BY <1>1 DEF StrongestShows
  <2>1. f \in Facts /\ ItemOf[f] \in Items /\ Weight[f] \in Nat
    BY <1>1, <1>3, <1>5, FeedFactsAssumption DEF FeedFactsAssumption
  <2>2. impact[ItemOf[f]] \in Nat /\ worker.seen[ItemOf[f]] = impact[ItemOf[f]]
    BY <1>2, <1>5, <2>1
  <2>3. CASE f \in claim
    <3>1. impact[ItemOf[f]] >= Weight[f]
      BY <2>3 DEF ShowInv, StrongestShows
    <3>2. impact'[ItemOf[f]] >= impact[ItemOf[f]]
      BY <1>1, <1>2, <1>4, <1>5, <2>1, <2>2
    <3>3. impact'[ItemOf[f]] \in Nat
      BY <1>6, <2>1 DEF FeedTyped
    <3> QED  BY <2>1, <2>2, <3>1, <3>2, <3>3
  <2>4. CASE f \notin claim
    <3>1. f \in matched /\ ItemOf[f] = i /\ Weight[f] <= high /\ created
      BY <1>1, <1>3, <1>4, <2>4
    <3>2. impact'[i] = high
      BY <1>1, <1>2, <1>5, <2>2, <3>1
    <3> QED  BY <2>1, <1>4, <3>1, <3>2
  <2> QED  BY <2>3, <2>4
<1> QED  BY <1>6, <1>8, <1>10, <1>11 DEF ShowInv

\* Each step keeps the strongest shown.
LEMMA ShowStep == ShowInv /\ [S!Next]_S!vars => ShowInv'
<1> SUFFICES ASSUME ShowInv, [S!Next]_S!vars PROVE ShowInv'
  OBVIOUS
<1>1. ASSUME UNCHANGED <<claim, impact, judged, worker>> PROVE ShowInv'
  BY <1>1 DEF ShowInv, FeedTyped, WorkerTyped, SessionAgrees, Accounted, StrongestShows
<1>2. ASSUME S!Settle, worker' = S!Idle, worker.at # "idle" PROVE ShowInv'
  <2>1. FeedTyped' /\ StrongestShows'
    BY <1>2, Settled
  <2>2. WorkerTyped' /\ SessionAgrees'
    BY <1>2 DEF S!Idle, WorkerTyped, SessionAgrees, Ats
  <2> QED  BY <2>1, <2>2 DEF ShowInv
<1>3. ASSUME UNCHANGED <<claim, impact, judged>>, worker' = S!Idle PROVE ShowInv'
  BY <1>3 DEF ShowInv, FeedTyped, WorkerTyped, SessionAgrees, StrongestShows, S!Idle, Ats
<1>4. CASE S!AskRefresh \/ S!EndRefresh \/ S!Bind \/ S!UpdateThesis \/ S!Enqueue
  BY <1>1, <1>4 DEF S!AskRefresh, S!EndRefresh, S!Bind, S!UpdateThesis, S!Enqueue, S!claimVars
<1>5. CASE \E i \in Items : S!ClassifyItem(i)
  BY <1>5, ClassifyShows
<1>6. CASE S!Start
  <2>1. /\ worker.at = "idle" /\ UNCHANGED <<claim, impact, judged>>
        /\ worker' = [at |-> "next", todo |-> S!Oldest, item |-> 0, seen |-> impact,
                      owed |-> [i \in Items |-> 0]]
    BY <1>6 DEF S!Start, S!Idle, S!claimVars
  <2>2. S!Oldest \subseteq Items
    BY DEF S!Oldest
  <2>3. FeedTyped' /\ StrongestShows'
    BY <2>1 DEF ShowInv, FeedTyped, StrongestShows
  <2>4. WorkerTyped'
    BY <2>1, <2>2 DEF ShowInv, FeedTyped, WorkerTyped, Ats
  <2>5. SessionAgrees'
    BY <2>1 DEF SessionAgrees, Accounted
  <2> QED  BY <2>3, <2>4, <2>5 DEF ShowInv
<1>7. CASE S!NextItem
  <2> DEFINE i == CHOOSE i \in worker.todo : \A j \in worker.todo : i <= j
  <2>1. /\ worker.at = "next" /\ worker.todo # {} /\ UNCHANGED <<claim, impact, judged>>
        /\ worker' = [worker EXCEPT !.at = "extract", !.item = i, !.todo = @ \ {i}]
    BY <1>7 DEF S!NextItem, S!claimVars
  <2>2. worker.todo \in SUBSET Nat /\ worker.todo \subseteq Items
    BY FeedFactsAssumption DEF ShowInv, WorkerTyped, FeedFactsAssumption
  <2>3. \E k \in worker.todo : \A j \in worker.todo : k <= j
    BY <2>1, <2>2, HasLeast
  <2>4. i \in Items /\ i \in Nat
    BY <2>2, <2>3
  <2> HIDE DEF i
  <2>5. /\ worker'.at = "extract" /\ worker'.seen = worker.seen /\ worker'.owed = worker.owed
        /\ WorkerTyped'
    BY <2>1, <2>4 DEF ShowInv, WorkerTyped, Ats
  <2> QED  BY <2>1, <2>5 DEF ShowInv, FeedTyped, SessionAgrees, Accounted, StrongestShows
<1>8. CASE \E A \in SUBSET Facts : S!Extract(A)
  <2>1. /\ worker.at = "extract" /\ S!Settle
        /\ worker' = [worker EXCEPT !.at = "match", !.owed = [i \in Items |-> 0]]
    BY <1>8 DEF S!Extract, S!Idle
  <2>2. /\ FeedTyped' /\ StrongestShows' /\ judged' = judged
        /\ \A i \in Items \ judged : worker.seen[i] = impact'[i]
    BY <2>1, Settled DEF S!Settle
  <2>3. /\ worker'.at = "match" /\ worker'.seen = worker.seen
        /\ worker'.owed = [i \in Items |-> 0] /\ WorkerTyped'
    BY <2>1 DEF ShowInv, WorkerTyped, Ats
  <2>4. SessionAgrees'
    BY <2>2, <2>3 DEF SessionAgrees, Accounted
  <2> QED  BY <2>2, <2>3, <2>4 DEF ShowInv
<1>9. CASE S!ExtractFails \/ S!JobEnds \/ \E A \in SUBSET Facts : S!ExtractCollides(A)
  BY <1>2, <1>9 DEF S!ExtractFails, S!JobEnds, S!ExtractCollides
<1>10. CASE S!Match
  BY <1>10, MatchShows
<1>11. CASE S!JobReads
  <2>1. /\ worker.at = "next" /\ UNCHANGED <<claim, impact, judged>>
        /\ worker' = [worker EXCEPT !.at = "refresh"]
    BY <1>11 DEF S!JobReads, S!claimVars
  <2>2. /\ worker'.at = "refresh" /\ worker'.seen = worker.seen /\ worker'.owed = worker.owed
        /\ WorkerTyped'
    BY <2>1 DEF ShowInv, WorkerTyped, Ats
  <2> QED  BY <2>1, <2>2 DEF ShowInv, FeedTyped, SessionAgrees, Accounted, StrongestShows
<1>12. CASE S!JobSticks
  BY <1>3, <1>12 DEF S!JobSticks, S!claimVars
<1>13. CASE UNCHANGED S!vars
  BY <1>1, <1>13 DEF S!vars, S!claimVars
<1> QED
  BY <1>4, <1>5, <1>6, <1>7, <1>8, <1>9, <1>10, <1>11, <1>12, <1>13 DEF S!Next

\* Refreshes, bindings and failures of the job included, an entry shows the strongest claim.
THEOREM StrongestIsShown == S!Spec => []StrongestShows
<1>1. ShowInv => StrongestShows
  BY DEF ShowInv
<1> QED  BY <1>1, ShowInit, ShowStep, PTL DEF S!Spec

-----------------------------------------------------------------------------
(* A refresh repairs *)

N == Cardinality(Facts)

\* Clusters divide a set of facts.
Divide(cs, T) ==
    /\ cs \in Seq(SUBSET Facts)
    /\ \A k \in 1..Len(cs) : cs[k] # {} /\ cs[k] \subseteq T
    /\ \A g \in T : \E k \in 1..Len(cs) : g \in cs[k]
    /\ \A j, k \in 1..Len(cs) : j # k => cs[j] \cap cs[k] = {}

\* A fact joins one cluster or begins one.
LEMMA JoinedDivides ==
  ASSUME NEW T \in SUBSET Facts, NEW cs, Divide(cs, T), NEW f \in Facts \ T
  PROVE  Divide(S!Joined(cs, f), T \cup {f})
<1> DEFINE fits == {k \in DOMAIN cs : S!Joins(f, cs[k])}
           first == CHOOSE k \in fits : \A m \in fits : k <= m
           ds == S!Joined(cs, f)
<1> SUFFICES Divide(ds, T \cup {f})
  OBVIOUS
<1>1. cs \in Seq(SUBSET Facts) /\ DOMAIN cs = 1..Len(cs) /\ Len(cs) \in Nat
  BY DEF Divide
<1>2. CASE fits = {}
  <2>1. ds = Append(cs, {f})
    BY <1>2 DEF S!Joined
  <2>2. /\ ds \in Seq(SUBSET Facts) /\ Len(ds) = Len(cs) + 1 /\ ds[Len(cs) + 1] = {f}
        /\ \A k \in 1..Len(cs) : ds[k] = cs[k]
    BY <1>1, <2>1
  <2> HIDE DEF ds, fits, first
  <2>3. ASSUME NEW k \in 1..Len(ds)
        PROVE  \/ k = Len(cs) + 1 /\ ds[k] = {f}
               \/ k \in 1..Len(cs) /\ ds[k] = cs[k]
    BY <1>1, <2>2
  <2>4. \A k \in 1..Len(ds) : ds[k] # {} /\ ds[k] \subseteq T \cup {f}
    BY <2>3 DEF Divide
  <2>5. ASSUME NEW g \in T \cup {f} PROVE \E k \in 1..Len(ds) : g \in ds[k]
    <3>1. CASE g = f
      <4>1. Len(cs) + 1 \in 1..Len(ds) /\ g \in ds[Len(cs) + 1]
        BY <1>1, <2>2, <3>1
      <4> QED  BY <4>1
    <3>2. CASE g # f
      <4>1. PICK k \in 1..Len(cs) : g \in cs[k]
        BY <3>2 DEF Divide
      <4>2. k \in 1..Len(ds) /\ g \in ds[k]
        BY <1>1, <2>2, <4>1
      <4> QED  BY <4>2
    <3> QED  BY <3>1, <3>2
  <2>6. ASSUME NEW j \in 1..Len(ds), NEW k \in 1..Len(ds), j # k PROVE ds[j] \cap ds[k] = {}
    BY <2>3, <2>6 DEF Divide
  <2>7. \A j, k \in 1..Len(ds) : j # k => ds[j] \cap ds[k] = {}
    BY <2>6
  <2>8. \A g \in T \cup {f} : \E k \in 1..Len(ds) : g \in ds[k]
    BY <2>5
  <2> QED  BY ONLY <2>2, <2>4, <2>7, <2>8, Zenon DEF Divide
<1>3. CASE fits # {}
  <2>1. fits \in SUBSET Nat
    BY <1>1
  <2>2. \E k \in fits : \A m \in fits : k <= m
    <3> HIDE DEF fits
    <3> QED  BY <1>3, <2>1, HasLeast
  <2>3. first \in 1..Len(cs)
    BY <1>1, <2>2
  <2>4. ds = [cs EXCEPT ![first] = @ \cup {f}]
    BY <1>3 DEF S!Joined
  <2> HIDE DEF ds, fits, first
  <2>5. /\ ds \in Seq(SUBSET Facts) /\ Len(ds) = Len(cs)
        /\ \A k \in 1..Len(cs) : ds[k] = IF k = first THEN cs[k] \cup {f} ELSE cs[k]
    <3>1. PICK c : c = cs[first] \cup {f}
      OBVIOUS
    <3>2. c \in SUBSET Facts
      BY <1>1, <2>3, <3>1
    <3>3. ds = [cs EXCEPT ![first] = c]
      BY <2>4, <3>1
    <3>4. ds \in Seq(SUBSET Facts) /\ Len(ds) = Len(cs)
      BY <1>1, <2>3, <3>2, <3>3
    <3>5. \A k \in 1..Len(cs) : ds[k] = IF k = first THEN c ELSE cs[k]
      BY <1>1, <3>3
    <3> QED  BY <3>1, <3>4, <3>5
  <2>6. \A k \in 1..Len(ds) : ds[k] # {} /\ ds[k] \subseteq T \cup {f}
    BY <2>5 DEF Divide
  <2>7. ASSUME NEW g \in T \cup {f} PROVE \E k \in 1..Len(ds) : g \in ds[k]
    <3>1. CASE g = f
      BY <2>3, <2>5, <3>1
    <3>2. CASE g # f
      <4>1. PICK k \in 1..Len(cs) : g \in cs[k]
        BY <3>2 DEF Divide
      <4> QED  BY <2>5, <4>1
    <3> QED  BY <3>1, <3>2
  <2>8. ASSUME NEW j \in 1..Len(ds), NEW k \in 1..Len(ds), j # k PROVE ds[j] \cap ds[k] = {}
    <3>1. f \notin cs[j] /\ f \notin cs[k] /\ cs[j] \cap cs[k] = {}
      BY <2>5, <2>8 DEF Divide
    <3> QED  BY <2>5, <2>8, <3>1
  <2>9. \A j, k \in 1..Len(ds) : j # k => ds[j] \cap ds[k] = {}
    BY <2>8
  <2>10. \A g \in T \cup {f} : \E k \in 1..Len(ds) : g \in ds[k]
    BY <2>7
  <2> QED  BY ONLY <2>5, <2>6, <2>9, <2>10, Zenon DEF Divide
<1> QED  BY <1>2, <1>3

\* What the recursion in Clusters says of the clusters of the first n facts.
Grows(h, T, m) == h = [n \in 0..m |-> IF n = 0 THEN <<>>
                                      ELSE IF n \in T THEN S!Joined(h[n - 1], n) ELSE h[n - 1]]

\* Facts are numbered from 1.
LEMMA Numbered == N \in Nat /\ Facts = 1..N
  BY FeedFactsAssumption, FS_CardinalityType DEF FeedFactsAssumption, N

\* There is a function that does it.
LEMMA GrowthExists ==
  ASSUME NEW T, NEW top \in Nat
  PROVE  \E h : Grows(h, T, top)
<1> DEFINE Bad == {m \in Nat : m <= top /\ ~ \E h : Grows(h, T, m)}
<1>1. Bad \in SUBSET Nat
  OBVIOUS
<1>2. ASSUME Bad # {} PROVE FALSE
  <2>1. PICK m \in Bad : \A j \in Bad : m <= j
    <3> HIDE DEF Bad
    <3> QED  BY <1>1, <1>2, HasLeast
  <2>2. m \in Nat /\ m <= top /\ ~ \E h : Grows(h, T, m)
    BY <2>1
  <2>3. m # 0
    <3> DEFINE h == [n \in 0..0 |-> <<>>]
    <3>1. Grows(h, T, 0)
      BY DEF Grows
    <3> HIDE DEF h, Bad
    <3> QED  BY <2>2, <3>1
  <2>4. m - 1 \in Nat /\ m - 1 <= top /\ m - 1 < m
    <3> HIDE DEF Bad
    <3> QED  BY <2>2, <2>3
  <2>5. m - 1 \notin Bad
    <3> HIDE DEF Bad
    <3> QED  BY <2>1, <2>2, <2>4
  <2>6. PICK h : Grows(h, T, m - 1)
    BY <2>4, <2>5
  <2> DEFINE next == IF m \in T THEN S!Joined(h[m - 1], m) ELSE h[m - 1]
             k == [n \in 0..m |-> IF n < m THEN h[n] ELSE next]
  <2>7. ASSUME NEW n \in 0..m
        PROVE  k[n] = IF n = 0 THEN <<>>
                      ELSE IF n \in T THEN S!Joined(k[n - 1], n) ELSE k[n - 1]
    <3> HIDE DEF Bad
    <3>1. CASE n = m
      <4>1. k[n] = next /\ k[n - 1] = h[m - 1]
        BY <2>4, <3>1
      <4> QED  BY <2>3, <3>1, <4>1
    <3>2. CASE n # m
      <4>1. n \in 0..(m - 1)
        BY <2>2, <3>2
      <4>2. k[n] = h[n] /\ (n # 0 => k[n - 1] = h[n - 1])
        BY <2>2, <4>1
      <4>3. h[n] = IF n = 0 THEN <<>>
                   ELSE IF n \in T THEN S!Joined(h[n - 1], n) ELSE h[n - 1]
        BY <2>6, <4>1 DEF Grows
      <4> QED  BY <4>2, <4>3
    <3> QED  BY <3>1, <3>2
  <2>8. k = [n \in 0..m |-> k[n]]
    OBVIOUS
  <2>9. Grows(k, T, m)
    <3> HIDE DEF k, Bad
    <3> QED  BY <2>7, <2>8 DEF Grows
  <2> HIDE DEF Bad, k
  <2> QED  BY <2>2, <2>9
<1>3. top \notin Bad
  <2> HIDE DEF Bad
  <2> QED  BY <1>2
<1> QED  BY <1>3

\* The clusters of some facts divide them.
LEMMA ClustersDivide ==
  ASSUME NEW T \in SUBSET Facts
  PROVE  \E cs : Divide(cs, T) /\ S!Clusters(T) = {cs[k] : k \in 1..Len(cs)}
<1> DEFINE g == CHOOSE h : Grows(h, T, N)
           Bad == {n \in Nat : n <= N /\ ~Divide(g[n], T \cap 1..n)}
<1>1. Grows(g, T, N)
  BY GrowthExists, Numbered
<1> HIDE DEF g
<1>2. /\ g[0] = <<>>
      /\ \A n \in 1..N : g[n] = IF n \in T THEN S!Joined(g[n - 1], n) ELSE g[n - 1]
  BY <1>1, Numbered DEF Grows
<1>3. Bad \in SUBSET Nat
  OBVIOUS
<1>4. ASSUME Bad # {} PROVE FALSE
  <2>1. PICK n \in Bad : \A j \in Bad : n <= j
    <3> HIDE DEF Bad
    <3> QED  BY <1>3, <1>4, HasLeast
  <2>2. n \in Nat /\ n <= N /\ ~Divide(g[n], T \cap 1..n)
    BY <2>1
  <2>3. n # 0
    <3>1. Divide(<<>>, {}) /\ T \cap 1..0 = {}
      BY DEF Divide
    <3> HIDE DEF Bad
    <3> QED  BY <1>2, <2>2, <3>1
  <2>4. n - 1 \in Nat /\ n - 1 <= N /\ n - 1 < n /\ n \in 1..N
    <3> HIDE DEF Bad
    <3> QED  BY <2>2, <2>3, Numbered
  <2>5. n - 1 \notin Bad
    <3> HIDE DEF Bad
    <3> QED  BY <2>1, <2>2, <2>4
  <2>6. Divide(g[n - 1], T \cap 1..(n - 1))
    BY <2>4, <2>5
  <2> HIDE DEF Bad
  <2>7. CASE n \in T
    <3>1. n \in Facts \ (T \cap 1..(n - 1)) /\ T \cap 1..(n - 1) \in SUBSET Facts
      BY <2>4, <2>7
    <3>2. T \cap 1..n = (T \cap 1..(n - 1)) \cup {n}
      BY <2>4, <2>7
    <3>3. g[n] = S!Joined(g[n - 1], n)
      BY <1>2, <2>4, <2>7
    <3> QED  BY <2>2, <2>6, <3>1, <3>2, <3>3, JoinedDivides
  <2>8. CASE n \notin T
    <3>1. T \cap 1..n = T \cap 1..(n - 1)
      BY <2>4, <2>8, Numbered
    <3>2. g[n] = g[n - 1]
      BY <1>2, <2>4, <2>8
    <3> QED  BY <2>2, <2>6, <3>1, <3>2
  <2> QED  BY <2>7, <2>8
<1>5. Divide(g[N], T)
  <2>1. N \notin Bad
    <3> HIDE DEF Bad
    <3> QED  BY <1>4
  <2>2. T \cap 1..N = T
    BY Numbered
  <2> HIDE DEF Bad
  <2>3. N \in Nat /\ N <= N
    BY Numbered
  <2>4. Divide(g[N], T \cap 1..N)
    BY <2>1, <2>3 DEF Bad
  <2> QED  BY <2>2, <2>4
<1>6. S!Clusters(T) = S!ToSet(g[N])
  <2>1. S!Cardinality(Facts) = Cardinality(Facts)
    BY Zenon DEF S!Cardinality, Cardinality
  <2> QED  BY <2>1, Zenon DEF S!Clusters, g, Grows, N
<1>7. S!ToSet(g[N]) = {g[N][k] : k \in 1..Len(g[N])}
  BY <1>5 DEF S!ToSet, Divide
<1> QED  BY <1>5, <1>6, <1>7

\* The same of the set of clusters.
LEMMA ClustersAre ==
  ASSUME NEW T \in SUBSET Facts
  PROVE  /\ \A c \in S!Clusters(T) : c # {} /\ c \subseteq T
         /\ \A f \in T : \E c \in S!Clusters(T) : f \in c
         /\ \A c, d \in S!Clusters(T) : c # d => c \cap d = {}
<1>1. PICK cs : Divide(cs, T) /\ S!Clusters(T) = {cs[k] : k \in 1..Len(cs)}
  BY ClustersDivide
<1> QED  BY <1>1 DEF Divide

\* The active facts of a watchlist, and what a refresh makes of those of some.
Of(l) == {f \in Facts : fact[f].is = "active" /\ fact[f].list = l}

LEMMA GroupsAre ==
  ASSUME NEW scope \in SUBSET S!AnyList
  PROVE  /\ \A k \in S!Groups(scope) :
               /\ k \in S!Key /\ k.list \in scope /\ k.members # {}
               /\ k.members \subseteq Of(k.list)
         /\ \A l \in scope : \A f \in Of(l) :
               \E k \in S!Groups(scope) : {m \in S!Groups(scope) : f \in m.members} = {k}
<1>1. \A l : Of(l) \in SUBSET Facts
  BY DEF Of
<1>2. \A k : k \in S!Groups(scope) <=>
            \E l \in scope : \E c \in S!Clusters(Of(l)) : k = [list |-> l, members |-> c]
  <2>1. \A l : {f \in S!Active : fact[f].list = l} = Of(l)
    BY DEF S!Active, Of
  <2>2. \A l : S!Clusters({f \in S!Active : fact[f].list = l}) = S!Clusters(Of(l))
    BY <2>1
  <2> DEFINE made(l) == {[list |-> l, members |-> c] :
                           c \in S!Clusters({f \in S!Active : fact[f].list = l})}
  <2>3. S!Groups(scope) = UNION {made(l) : l \in scope}
    BY DEF S!Groups
  <2>4. \A k, l : k \in made(l) <=> \E c \in S!Clusters(Of(l)) : k = [list |-> l, members |-> c]
    BY <2>2
  <2> HIDE DEF made
  <2>5. \A k : k \in S!Groups(scope) <=> \E l \in scope : k \in made(l)
    BY <2>3
  <2> QED  BY <2>4, <2>5
<1>3. ASSUME NEW k \in S!Groups(scope)
      PROVE  /\ k \in S!Key /\ k.list \in scope /\ k.members # {}
             /\ k.members \subseteq Of(k.list)
  <2>0. PICK l \in scope : \E c \in S!Clusters(Of(l)) : k = [list |-> l, members |-> c]
    BY <1>2
  <2>1. PICK c \in S!Clusters(Of(l)) : k = [list |-> l, members |-> c]
    BY <2>0
  <2>2. c # {} /\ c \subseteq Of(l)
    BY <1>1, ClustersAre
  <2> QED  BY <1>1, <2>1, <2>2 DEF S!Key
<1>4. ASSUME NEW l \in scope, NEW f \in Of(l)
      PROVE  \E k \in S!Groups(scope) : {m \in S!Groups(scope) : f \in m.members} = {k}
  <2>1. PICK c \in S!Clusters(Of(l)) : f \in c
    BY <1>1, ClustersAre
  <2>2. PICK k : k = [list |-> l, members |-> c]
    OBVIOUS
  <2>3. k \in S!Groups(scope) /\ f \in k.members
    BY <1>2, <2>1, <2>2
  <2>4. ASSUME NEW m \in S!Groups(scope), f \in m.members PROVE m = k
    <3>0. PICK j \in scope : \E d \in S!Clusters(Of(j)) : m = [list |-> j, members |-> d]
      BY <1>2
    <3>1. PICK d \in S!Clusters(Of(j)) : m = [list |-> j, members |-> d]
      BY <3>0
    <3>2. f \in Of(j)
      BY <1>1, <2>4, <3>1, ClustersAre
    <3>3. j = l
      BY <3>2 DEF Of
    <3>4. d = c
      BY <1>1, <2>1, <2>4, <3>1, <3>3, ClustersAre
    <3> QED  BY <2>2, <3>1, <3>3, <3>4
  <2> QED  BY <2>3, <2>4
<1> QED  BY <1>3, <1>4

\* What facts and watchlists say now decides the groups.
LEMMA GroupsStay ==
  ASSUME fact' = fact
  PROVE  S!Groups(S!AnyList)' = S!Groups(S!AnyList)
  BY DEF S!Groups, S!Active, S!AnyList

RowsTyped ==
    /\ fact \in [Facts -> S!Fact] /\ live \subseteq S!Key /\ past \subseteq S!Key
    /\ list \in S!AnyList /\ settled \in BOOLEAN
    /\ pass \in [S!Passes -> [on : BOOLEAN, groups : SUBSET S!Key, prior : SUBSET S!Key,
                              quiet : BOOLEAN]]

\* While nothing has changed, the signals are what the facts make, or a refresh of
\* everything has read them and the facts as they are.
QuietKnows ==
    /\ settled => live = S!Groups(S!AnyList)
    /\ \A p \in S!Passes : pass[p].quiet =>
          pass[p].groups = S!Groups(S!AnyList) /\ pass[p].prior = live

RepairInv == RowsTyped /\ QuietKnows

\* No facts make no signals.
LEMMA RepairInit == S!Init => RepairInv
<1> SUFFICES ASSUME S!Init PROVE RepairInv
  OBVIOUS
<1>1. /\ fact = [f \in Facts |-> [is |-> "none", list |-> NoList]]
      /\ live = {} /\ past = {} /\ settled = TRUE /\ list \in S!AnyList
      /\ pass = [p \in S!Passes |-> S!NoPass]
  BY DEF S!Init
<1>2. \A l : Of(l) = {}
  BY <1>1 DEF Of
<1>3. S!Groups(S!AnyList) = {}
  BY <1>2, GroupsAre
<1> QED  BY <1>1, <1>3 DEF RepairInv, RowsTyped, QuietKnows, S!NoPass, S!Fact, S!AnyList

\* A refresh that reads everything knows what it has read.
LEMMA ReadRepairs ==
  ASSUME RepairInv, NEW p \in S!Passes, NEW scope \in SUBSET S!AnyList, S!Read(p, scope),
         UNCHANGED <<fact, live, past, list, settled>>
  PROVE  RepairInv'
<1>1. S!Groups(scope) \in SUBSET S!Key
  BY GroupsAre
<1> DEFINE taken == [on |-> TRUE, groups |-> S!Groups(scope),
                     prior |-> {k \in live : k.list \in scope}, quiet |-> scope = S!AnyList]
<1>2. pass' = [pass EXCEPT ![p] = taken]
  BY DEF S!Read
<1>3. taken \in [on : BOOLEAN, groups : SUBSET S!Key, prior : SUBSET S!Key, quiet : BOOLEAN]
  BY <1>1 DEF RepairInv, RowsTyped
<1>4. taken.quiet => taken.groups = S!Groups(S!AnyList) /\ taken.prior = live
  BY DEF RepairInv, RowsTyped, S!Key
<1> HIDE DEF taken
<1>5. RowsTyped'
  BY <1>2, <1>3 DEF RepairInv, RowsTyped, S!Fact, S!Key, S!AnyList, S!Passes
<1>6. \A q \in S!Passes : pass'[q] = IF q = p THEN taken ELSE pass[q]
  BY <1>2 DEF RepairInv, RowsTyped
<1>7. QuietKnows'
  BY <1>4, <1>6, GroupsStay DEF RepairInv, QuietKnows, S!Passes
<1> QED  BY <1>5, <1>7 DEF RepairInv

\* A commit ends the quiet of all the others.
LEMMA NoiseIs ==
  ASSUME RepairInv, NEW p, pass' = S!Noise(p)
  PROVE  /\ pass' \in [S!Passes -> [on : BOOLEAN, groups : SUBSET S!Key,
                                    prior : SUBSET S!Key, quiet : BOOLEAN]]
         /\ \A q \in S!Passes : ~pass'[q].quiet
  BY DEF RepairInv, RowsTyped, S!Noise, S!NoPass

\* A refresh that commits in quiet leaves what the facts make.
LEMMA RegroupRepairs ==
  ASSUME RepairInv, NEW p \in S!Passes, S!Regroup(p), UNCHANGED <<fact, list>>
  PROVE  RepairInv'
<1>1. /\ live' = (live \cup (pass[p].groups \ pass[p].prior)) \ (pass[p].prior \ pass[p].groups)
      /\ past' = past \cup (pass[p].prior \ pass[p].groups)
      /\ settled' = pass[p].quiet /\ pass' = S!Noise(p)
  BY DEF S!Regroup
<1>2. RowsTyped'
  <2>1. pass[p].groups \subseteq S!Key /\ pass[p].prior \subseteq S!Key
        /\ pass[p].quiet \in BOOLEAN
    BY DEF RepairInv, RowsTyped
  <2>2. live' \subseteq S!Key /\ past' \subseteq S!Key /\ settled' \in BOOLEAN
    BY <1>1, <2>1 DEF RepairInv, RowsTyped
  <2>3. fact' = fact /\ list' = list
    OBVIOUS
  <2> QED
    BY <1>1, <2>2, <2>3, NoiseIs
       DEF RepairInv, RowsTyped, S!Fact, S!Key, S!AnyList, S!Passes
<1>3. settled' => live' = S!Groups(S!AnyList)
  BY <1>1 DEF RepairInv, QuietKnows
<1>4. QuietKnows'
  BY <1>1, <1>3, NoiseIs, GroupsStay DEF QuietKnows, S!Passes
<1> QED  BY <1>2, <1>4 DEF RepairInv

\* Facts that change are no refresh's business any more.
LEMMA DisturbRepairs ==
  ASSUME RepairInv, S!Disturb, fact' \in [Facts -> S!Fact], UNCHANGED <<live, past, list>>
  PROVE  RepairInv'
<1>1. settled' = FALSE /\ pass' = S!Noise("none")
  BY DEF S!Disturb
<1>2. RowsTyped'
  BY <1>1, NoiseIs DEF RepairInv, RowsTyped, S!Fact, S!Key, S!AnyList, S!Passes
<1>3. QuietKnows'
  BY <1>1, NoiseIs DEF QuietKnows, S!Passes
<1> QED  BY <1>2, <1>3 DEF RepairInv

\* Each step keeps what the quiet know.
LEMMA RepairStep == RepairInv /\ [S!Next]_S!vars => RepairInv'
<1> SUFFICES ASSUME RepairInv, [S!Next]_S!vars PROVE RepairInv'
  OBVIOUS
<1>1. ASSUME UNCHANGED <<fact, live, past, settled, pass>>, list' \in S!AnyList PROVE RepairInv'
  <2>1. RowsTyped'
    BY <1>1 DEF RepairInv, RowsTyped, S!Fact, S!Key, S!AnyList, S!Passes
  <2>2. QuietKnows'
    BY <1>1, GroupsStay DEF RepairInv, QuietKnows, S!Passes
  <2> QED  BY <2>1, <2>2 DEF RepairInv
<1>2. list \in S!AnyList
  BY DEF RepairInv, RowsTyped
<1>3. ASSUME NEW p \in S!Passes, pass' = [pass EXCEPT ![p] = S!NoPass],
             UNCHANGED <<fact, live, past, list, settled>>
      PROVE  RepairInv'
  <2>1. pass' \in [S!Passes -> [on : BOOLEAN, groups : SUBSET S!Key, prior : SUBSET S!Key,
                               quiet : BOOLEAN]]
    BY <1>3 DEF RepairInv, RowsTyped, S!NoPass
  <2>2. \A q \in S!Passes : pass'[q].quiet => pass'[q] = pass[q]
    BY <1>3 DEF RepairInv, RowsTyped, S!NoPass
  <2>3. RowsTyped'
    BY <1>3, <2>1 DEF RepairInv, RowsTyped, S!Fact, S!Key, S!AnyList, S!Passes
  <2>4. QuietKnows'
    BY <1>3, <2>2, GroupsStay DEF RepairInv, QuietKnows, S!Passes
  <2> QED  BY <2>3, <2>4 DEF RepairInv
<1>4. CASE S!AskRefresh
  <2>1. PICK scope \in {{l} : l \in Lists} \cup {S!AnyList} : S!Read("request", scope)
    BY <1>4 DEF S!AskRefresh
  <2>2. scope \in SUBSET S!AnyList /\ "request" \in S!Passes
    BY DEF S!AnyList, S!Passes
  <2> QED  BY <1>4, <2>1, <2>2, ReadRepairs DEF S!AskRefresh
<1>5. CASE S!EndRefresh
  <2>1. "request" \in S!Passes /\ UNCHANGED <<fact, list>>
    BY <1>5 DEF S!EndRefresh, S!Passes
  <2>2. CASE S!Collides("request")
    BY <1>3, <1>5, <2>1, <2>2 DEF S!EndRefresh
  <2>3. CASE ~S!Collides("request")
    BY <1>5, <2>1, <2>3, RegroupRepairs DEF S!EndRefresh
  <2> QED  BY <2>2, <2>3
<1>6. CASE S!Bind \/ S!UpdateThesis \/ S!Enqueue \/ S!Start \/ S!NextItem \/ S!ExtractFails
           \/ S!Match \/ \E i \in Items : S!ClassifyItem(i)
  BY <1>1, <1>2, <1>6 DEF S!Bind, S!UpdateThesis, S!Enqueue, S!Start, S!NextItem,
     S!ExtractFails, S!Match, S!ClassifyItem, S!signalVars
<1>7. CASE \E A \in SUBSET Facts : S!Extract(A) \/ S!ExtractCollides(A)
  <2>1. PICK A \in SUBSET Facts : S!Extract(A) \/ S!ExtractCollides(A)
    BY <1>7
  <2>2. /\ UNCHANGED <<live, past, list>>
        /\ IF fact' = fact THEN UNCHANGED <<settled, pass>> ELSE S!Disturb
    BY <2>1 DEF S!Extract, S!ExtractCollides
  <2>3. fact' \in [Facts -> S!Fact]
    <3>1. [is |-> "active", list |-> list] \in S!Fact
      BY <1>2 DEF S!Fact
    <3>2. \A f \in Facts : fact[f] \in S!Fact /\ [fact[f] EXCEPT !.is = "inactive"] \in S!Fact
      BY DEF RepairInv, RowsTyped, S!Fact
    <3>3. CASE S!Extract(A)
      <4>1. fact' = S!Kept(A)
        BY <3>3 DEF S!Extract
      <4>2. S!Kept(A) \in [Facts -> S!Fact]
        BY <3>1, <3>2 DEF S!Kept
      <4> QED  BY <4>1, <4>2
    <3>4. CASE S!ExtractCollides(A)
      BY <3>1, <3>2, <3>4 DEF S!ExtractCollides
    <3> QED  BY <2>1, <3>3, <3>4
  <2>4. CASE fact' = fact
    BY <1>1, <1>2, <2>2, <2>4
  <2>5. CASE fact' # fact
    BY <2>2, <2>3, <2>5, DisturbRepairs
  <2> QED  BY <2>4, <2>5
<1>8. CASE S!JobReads
  <2>1. S!AnyList \in SUBSET S!AnyList /\ "worker" \in S!Passes
    BY DEF S!Passes
  <2> QED  BY <1>8, <2>1, ReadRepairs DEF S!JobReads
<1>9. CASE S!JobEnds
  BY <1>9, RegroupRepairs DEF S!JobEnds, S!Passes
<1>10. CASE S!JobSticks
  BY <1>3, <1>10 DEF S!JobSticks, S!Passes
<1>11. CASE UNCHANGED S!vars
  BY <1>1, <1>2, <1>11 DEF S!vars, S!signalVars
<1> QED
  BY <1>4, <1>5, <1>6, <1>7, <1>8, <1>9, <1>10, <1>11 DEF S!Next

\* What the facts make is what a reader wants.
LEMMA RepairedIsRight == RepairInv => RefreshRepairs
<1> SUFFICES ASSUME RepairInv, settled
             PROVE  /\ \A f \in Active : Cardinality({k \in live : f \in k.members}) = 1
                    /\ \A k \in live : \A f \in k.members : f \in Active /\ fact[f].list = k.list
  BY DEF RefreshRepairs
<1>1. live = S!Groups(S!AnyList) /\ S!AnyList \in SUBSET S!AnyList
  BY DEF RepairInv, QuietKnows
<1>2. ASSUME NEW f \in Active PROVE Cardinality({k \in live : f \in k.members}) = 1
  <2>1. fact[f].list \in S!AnyList /\ f \in Of(fact[f].list)
    BY DEF RepairInv, RowsTyped, Active, Of, S!Fact
  <2>2. \E k \in S!Groups(S!AnyList) : {m \in S!Groups(S!AnyList) : f \in m.members} = {k}
    BY <1>1, <2>1, GroupsAre
  <2>3. PICK k : {m \in live : f \in m.members} = {k}
    BY <1>1, <2>2
  <2> QED  BY <2>3, FS_Singleton
<1>3. ASSUME NEW k \in live, NEW f \in k.members PROVE f \in Active /\ fact[f].list = k.list
  <2>1. f \in Of(k.list)
    BY <1>1, GroupsAre
  <2> QED  BY <2>1 DEF Of, Active
<1> QED  BY <1>2, <1>3

\* After a refresh of everything that nobody came between, each active fact is in one
\* active signal, with the facts of its watchlist, however refreshes overlapped before.
THEOREM RefreshIsRight == S!Spec => []RefreshRepairs
  BY RepairedIsRight, RepairInit, RepairStep, PTL DEF S!Spec

-----------------------------------------------------------------------------
(* Types *)

BoundsTyped ==
    /\ open \in BOOLEAN /\ job \in {"none", "pending", "running", "stuck"}
    /\ jobs \in 0..MaxJobs /\ asks \in 0..MaxAsks

\* Each step keeps the bounds and the small columns.
LEMMA BoundsStep ==
  ASSUME S!SignalsAssumption, BoundsTyped, [S!Next]_S!vars
  PROVE  BoundsTyped'
<1>1. MaxJobs \in Nat /\ MaxAsks \in Nat
  BY DEF S!SignalsAssumption
<1>2. asks' \in 0..MaxAsks /\ jobs' \in 0..MaxJobs
  BY <1>1 DEF BoundsTyped, S!Next, S!vars, S!boundVars, S!Asked, S!AskRefresh, S!EndRefresh,
     S!Bind, S!UpdateThesis, S!ClassifyItem, S!Enqueue, S!Start, S!NextItem, S!Extract,
     S!ExtractCollides, S!ExtractFails, S!Match, S!JobReads, S!JobEnds, S!JobSticks
<1>3. open' \in BOOLEAN /\ job' \in {"none", "pending", "running", "stuck"}
  BY DEF BoundsTyped, S!Next, S!vars, S!boundVars, S!AskRefresh, S!EndRefresh,
     S!Bind, S!UpdateThesis, S!ClassifyItem, S!Enqueue, S!Start, S!NextItem, S!Extract,
     S!ExtractCollides, S!ExtractFails, S!Match, S!JobReads, S!JobEnds, S!JobSticks
<1> QED  BY <1>2, <1>3 DEF BoundsTyped

\* Every row of the feed's facts, signals and claims has values of its columns.
THEOREM FeedIsTyped == S!SignalsAssumption /\ S!Spec => []S!TypeOK
<1> DEFINE Inv == S!SignalsAssumption /\ BoundsTyped /\ RepairInv /\ ShowInv
<1>1. S!SignalsAssumption /\ S!Init => Inv
  <2>1. S!SignalsAssumption /\ S!Init => BoundsTyped
    BY DEF S!SignalsAssumption, S!Init, BoundsTyped
  <2> QED  BY <2>1, RepairInit, ShowInit
<1>2. Inv /\ [S!Next]_S!vars => Inv'
  <2>1. S!SignalsAssumption => S!SignalsAssumption'
    BY DEF S!SignalsAssumption
  <2> QED  BY <2>1, BoundsStep, RepairStep, ShowStep
<1>3. Inv => S!TypeOK
  BY DEF BoundsTyped, RepairInv, RowsTyped, ShowInv, FeedTyped, S!TypeOK
<1> QED  BY <1>1, <1>2, <1>3, PTL DEF S!Spec

-----------------------------------------------------------------------------
(* Pages that are fetched again                                            *)

\* What the recursion in FetchAll says of the table after the first m entries.
Fetches(h, table, raws, m) ==
  h = [n \in 0..m |-> IF n = 0 THEN table
                      ELSE IF n \in DOMAIN raws THEN Upsert(h[n - 1], raws[n]) ELSE h[n - 1]]

LEMMA FetchesExists ==
  ASSUME NEW table, NEW raws, NEW top \in Nat
  PROVE  \E h : Fetches(h, table, raws, top)
<1> DEFINE Bad == {m \in Nat : m <= top /\ ~ \E h : Fetches(h, table, raws, m)}
<1>1. Bad \in SUBSET Nat
  OBVIOUS
<1>2. ASSUME Bad # {} PROVE FALSE
  <2>1. PICK m \in Bad : \A j \in Bad : m <= j
    <3> HIDE DEF Bad
    <3> QED  BY <1>1, <1>2, HasLeast
  <2>2. m \in Nat /\ m <= top /\ ~ \E h : Fetches(h, table, raws, m)
    BY <2>1
  <2>3. m # 0
    <3> DEFINE h == [n \in 0..0 |-> table]
    <3>1. Fetches(h, table, raws, 0)
      BY DEF Fetches
    <3> HIDE DEF h, Bad
    <3> QED  BY <2>2, <3>1
  <2>4. m - 1 \in Nat /\ m - 1 <= top /\ m - 1 < m
    <3> HIDE DEF Bad
    <3> QED  BY <2>2, <2>3
  <2>5. m - 1 \notin Bad
    <3> HIDE DEF Bad
    <3> QED  BY <2>1, <2>2, <2>4
  <2>6. PICK h : Fetches(h, table, raws, m - 1)
    BY <2>4, <2>5
  <2> DEFINE next == IF m \in DOMAIN raws THEN Upsert(h[m - 1], raws[m]) ELSE h[m - 1]
             k == [n \in 0..m |-> IF n < m THEN h[n] ELSE next]
  <2>7. ASSUME NEW n \in 0..m
        PROVE  k[n] = IF n = 0 THEN table
                      ELSE IF n \in DOMAIN raws THEN Upsert(k[n - 1], raws[n]) ELSE k[n - 1]
    <3> HIDE DEF Bad
    <3>1. CASE n = m
      <4>1. k[n] = next /\ k[n - 1] = h[m - 1]
        BY <2>4, <3>1
      <4> QED  BY <2>3, <3>1, <4>1
    <3>2. CASE n # m
      <4>1. n \in 0..(m - 1)
        BY <2>2, <3>2
      <4>2. k[n] = h[n] /\ (n # 0 => k[n - 1] = h[n - 1])
        BY <2>2, <4>1
      <4>3. h[n] = IF n = 0 THEN table
                   ELSE IF n \in DOMAIN raws THEN Upsert(h[n - 1], raws[n]) ELSE h[n - 1]
        BY <2>6, <4>1 DEF Fetches
      <4> QED  BY <4>2, <4>3
    <3> QED  BY <3>1, <3>2
  <2>8. k = [n \in 0..m |-> k[n]]
    OBVIOUS
  <2>9. Fetches(k, table, raws, m)
    <3> HIDE DEF k, Bad
    <3> QED  BY <2>7, <2>8 DEF Fetches
  <2> HIDE DEF Bad, k
  <2> QED  BY <2>2, <2>9
<1>3. top \notin Bad
  <2> HIDE DEF Bad
  <2> QED  BY <1>2
<1> QED  BY <1>3

\* A page's entries are upserted one after the other, up to the last of them.
Stages(h, table, raws, last) ==
  /\ last \in Nat /\ last \in {0} \cup DOMAIN raws /\ DOMAIN raws \subseteq 1..last
  /\ h[0] = table /\ h[last] = FetchAll(table, raws)
  /\ \A n \in 1..last :
        h[n] = IF n \in DOMAIN raws THEN Upsert(h[n - 1], raws[n]) ELSE h[n - 1]

LEMMA FetchAllIs ==
  ASSUME NEW table, NEW raws, NEW bound \in Nat, DOMAIN raws \subseteq 1..bound
  PROVE  \E last, h : Stages(h, table, raws, last)
<1> DEFINE last == Max({0} \cup DOMAIN raws)
           h == CHOOSE g : Fetches(g, table, raws, last)
<1>1. last \in {0} \cup DOMAIN raws /\ \A i \in {0} \cup DOMAIN raws : i <= last
  <2>1. PICK T : T = {0} \cup DOMAIN raws OBVIOUS
  <2>2. T \in SUBSET Nat /\ T # {} /\ \A i \in T : i <= bound BY <2>1
  <2>3. \E n \in T : \A m \in T : m <= n BY <2>2, HasGreatest
  <2>4. PICK n \in T : \A m \in T : n >= m BY <2>2, <2>3
  <2>5. Max(T) \in T /\ \A m \in T : Max(T) >= m BY <2>4 DEF Max
  <2>6. last = Max(T) BY <2>1
  <2> HIDE DEF last
  <2> QED  BY <2>1, <2>2, <2>5, <2>6
<1>2. last \in Nat /\ last \in {0} \cup DOMAIN raws /\ DOMAIN raws \subseteq 1..last
  <2> HIDE DEF last
  <2> QED  BY <1>1
<1>3. FetchAll(table, raws) = h[last] BY Zenon DEF FetchAll, Fetches
<1> HIDE DEF last
<1>4. Fetches(h, table, raws, last) BY <1>2, FetchesExists
<1> HIDE DEF h
<1>5. h[0] = table BY <1>2, <1>4 DEF Fetches
<1>6. \A n \in 1..last :
        h[n] = IF n \in DOMAIN raws THEN Upsert(h[n - 1], raws[n]) ELSE h[n - 1]
  BY <1>2, <1>4 DEF Fetches
<1> QED  BY <1>2, <1>3, <1>5, <1>6 DEF Stages

\* Numbers each of which has a smaller one among them are none.
LEMMA NoneIsLeast ==
  ASSUME NEW T \in SUBSET Nat, \A n \in T : \E m \in T : m < n
  PROVE  T = {}
<1> SUFFICES ASSUME T # {} PROVE FALSE
  OBVIOUS
<1>1. PICK n \in T : \A m \in T : n <= m
  BY HasLeast
<1> QED  BY <1>1

\* The rows are those of the entries so far, and those there were.
LEMMA KeysAre ==
  ASSUME NEW table, NEW raws, NEW h, NEW last, Stages(h, table, raws, last), NEW n \in 0..last
  PROVE  DOMAIN h[n] = DOMAIN table \cup {raws[i].key : i \in DOMAIN raws \cap 1..n}
<1> DEFINE Rows(m) == DOMAIN table \cup {raws[i].key : i \in DOMAIN raws \cap 1..m}
           Bad == {m \in 0..last : DOMAIN h[m] # Rows(m)}
<1>1. last \in Nat BY DEF Stages
<1>2. ASSUME NEW m \in Bad PROVE \E l \in Bad : l < m
  <2>1. m \in 0..last /\ DOMAIN h[m] # Rows(m) OBVIOUS
  <2>2. m # 0
    <3>1. Rows(0) = DOMAIN table OBVIOUS
    <3> HIDE DEF Rows
    <3> QED  BY <2>1, <3>1 DEF Stages
  <2>3. m - 1 \in 0..last /\ m \in 1..last /\ m - 1 < m BY <1>1, <2>1, <2>2
  <2>4. ASSUME DOMAIN h[m - 1] = Rows(m - 1) PROVE FALSE
    <3>1. CASE m \in DOMAIN raws
      <4>1. h[m] = Upsert(h[m - 1], raws[m]) BY <2>3, <3>1 DEF Stages
      <4>2. DOMAIN h[m] = DOMAIN h[m - 1] \cup {raws[m].key} BY <4>1 DEF Upsert
      <4>3. DOMAIN raws \cap 1..m = (DOMAIN raws \cap 1..(m - 1)) \cup {m} BY <2>3, <3>1
      <4>4. Rows(m) = Rows(m - 1) \cup {raws[m].key} BY <4>3
      <4> HIDE DEF Rows
      <4> QED  BY <2>1, <2>4, <4>2, <4>4
    <3>2. CASE m \notin DOMAIN raws
      <4>1. h[m] = h[m - 1] BY <2>3, <3>2 DEF Stages
      <4>2. DOMAIN raws \cap 1..m = DOMAIN raws \cap 1..(m - 1) BY <2>3, <3>2
      <4>3. Rows(m) = Rows(m - 1) BY <4>2
      <4> HIDE DEF Rows
      <4> QED  BY <2>1, <2>4, <4>1, <4>3
    <3> QED  BY <3>1, <3>2
  <2>5. m - 1 \in Bad BY <2>3, <2>4
  <2> QED  BY <2>3, <2>5
<1>3. Bad = {}
  <2>1. Bad \in SUBSET Nat BY <1>1
  <2> HIDE DEF Bad
  <2> QED  BY <1>2, <2>1, NoneIsLeast
<1> QED  BY <1>3

\* Whatever is read of a page is upserted into rows of its own.
LEMMA FetchedKeys ==
  ASSUME NEW table, NEW raws, NEW bound \in Nat, DOMAIN raws \subseteq 1..bound
  PROVE  DOMAIN FetchAll(table, raws) = DOMAIN table \cup {raws[i].key : i \in DOMAIN raws}
<1>1. PICK last, h : Stages(h, table, raws, last) BY FetchAllIs
<1>2. last \in 0..last /\ h[last] = FetchAll(table, raws) /\ DOMAIN raws \cap 1..last = DOMAIN raws
  BY <1>1 DEF Stages
<1>3. DOMAIN h[last] = DOMAIN table \cup {raws[i].key : i \in DOMAIN raws \cap 1..last}
  BY <1>1, <1>2, KeysAre
<1> QED  BY <1>2, <1>3

-----------------------------------------------------------------------------

LEMMA PairIs ==
  ASSUME NEW x, NEW y, x # y PROVE Cardinality({x, y}) = 2
<1>1. IsFiniteSet({x}) /\ Cardinality({x}) = 1 BY FS_Singleton
<1>2. Cardinality({x} \cup {y}) = 2 BY <1>1, FS_AddElement
<1>3. {x, y} = {x} \cup {y} OBVIOUS
<1> QED  BY <1>2, <1>3

LEMMA PageSizeIs == PageSize \in Nat BY FetchersAssumption DEF FetchersAssumption

\* A whole page is read if the limit allows.
LEMMA FirstIsAll ==
  ASSUME NEW n \in Nat PROVE First(n, 1..n) = 1..n
<1>1. ASSUME NEW i \in 1..n PROVE Cardinality({j \in 1..n : j <= i}) <= n
  <2>1. PICK T : T = {j \in 1..n : j <= i} OBVIOUS
  <2>2. T = 1..i BY <2>1
  <2>3. Cardinality(T) = i BY <2>2, FS_Interval
  <2>4. Cardinality(T) <= n BY <2>3
  <2> QED  BY <2>1, <2>4
<1> QED  BY <1>1 DEF First

\* Entries whose links lead to different pages, and those whose identifiers do and whose
\* links are not Google's, are different; Google's telling makes a difference for its
\* links only.
LEMMA IdentitiesDiffer ==
  ASSUME NEW one, NEW other, NEW told \in BOOLEAN,
         {one.link, one.id, other.link, other.id} \subseteq Addresses \cup {None},
         \/ ~SamePage(one.link, other.link, told)
         \/ /\ ~SamePage(one.id, other.id, told) /\ None \notin {one.id, other.id}
            /\ {one.link, other.link} \cap News = {}
  PROVE  Identity(one, told) # Identity(other, told)
<1> USE FetchersAssumption DEF FetchersAssumption
<1>1. ASSUME NEW e \in {one, other}
      PROVE  /\ FeedLink(e) \in Addresses \cup {Feedpage}
             /\ Decoded(FeedLink(e), told) = IF FeedLink(e) \in News /\ told
                                             THEN Publisher[FeedLink(e)] ELSE None
             /\ Url(e, told) = IF FeedLink(e) \in News /\ told
                               THEN Publisher[FeedLink(e)] ELSE FeedLink(e)
  BY DEF FeedLink, Decoded, Url
<1>2. CASE ~SamePage(one.link, other.link, told)
  <2>1. ~SamePage(FeedLink(one), FeedLink(other), told) BY <1>2 DEF FeedLink, SamePage
  <2>2. Url(one, told) # Url(other, told) BY <1>1, <2>1 DEF SamePage
  <2> QED  BY <2>2 DEF Identity
<1>3. CASE /\ ~SamePage(one.id, other.id, told) /\ None \notin {one.id, other.id}
           /\ {one.link, other.link} \cap News = {}
  <2>1. ASSUME NEW e \in {one, other}
        PROVE  External(e, told) = IF e.id \in News /\ told THEN Publisher[e.id] ELSE e.id
    <3>1. Url(e, told) = FeedLink(e) BY <1>1, <1>3 DEF FeedLink
    <3> QED  BY <1>3, <3>1 DEF External, Decoded
  <2>2. External(one, told) # External(other, told) BY <1>3, <2>1 DEF SamePage
  <2> QED  BY <2>2 DEF Identity
<1> QED  BY <1>2, <1>3

LEMMA IdentityStays ==
  ASSUME NEW entry, NEW told \in BOOLEAN, NEW again \in BOOLEAN,
         told = again \/ {entry.link, entry.id} \cap News = {}
  PROVE  Identity(entry, told) = Identity(entry, again)
<1>1. CASE told = again BY <1>1
<1>2. CASE {entry.link, entry.id} \cap News = {}
  <2>1. FeedLink(entry) \notin News
    BY <1>2, FetchersAssumption DEF FetchersAssumption, FeedLink
  <2>2. \A t \in BOOLEAN : Decoded(FeedLink(entry), t) = None /\ Decoded(entry.id, t) = None
    BY <1>2, <2>1 DEF Decoded
  <2> QED  BY <2>2 DEF Identity, External, Url
<1> QED  BY <1>1, <1>2

LEMMA IdentityIsKept == IdentityKept
<1> SUFFICES ASSUME NEW feed \in Feeds, NEW told \in BOOLEAN, NEW again \in BOOLEAN,
                    NEW i \in 1..PageSize
             PROVE  LET once == FetchAll(Empty, ReadFeed(feed, told, FALSE, NoPages, PageSize)) IN
                    /\ \A j \in 1..PageSize :
                          \/ ~SamePage(feed[i].link, feed[j].link, told)
                          \/ /\ ~SamePage(feed[i].id, feed[j].id, told)
                             /\ None \notin {feed[i].id, feed[j].id}
                             /\ {feed[i].link, feed[j].link} \cap News = {}
                          => LET keys == {Identity(feed[i], told), Identity(feed[j], told)} IN
                             keys \subseteq DOMAIN once /\ Cardinality(keys) = 2
                    /\ Identity(feed[i], again) \notin DOMAIN once =>
                          told # again /\ {feed[i].link, feed[i].id} \cap News # {}
  BY DEF IdentityKept
<1>1. PICK raws : raws = ReadFeed(feed, told, FALSE, NoPages, PageSize) OBVIOUS
<1>2. PICK once : once = FetchAll(Empty, raws) OBVIOUS
<1>3. /\ DOMAIN feed = 1..PageSize
      /\ \A j \in 1..PageSize : {feed[j].link, feed[j].id} \subseteq Addresses \cup {None}
  BY DEF Feeds
<1>4. DOMAIN raws = 1..PageSize /\ \A j \in 1..PageSize : raws[j].key = Identity(feed[j], told)
  BY <1>1, <1>3, PageSizeIs, FirstIsAll DEF ReadFeed, Raw
<1>5. DOMAIN once = {raws[j].key : j \in 1..PageSize}
  <2>1. DOMAIN Empty = {} BY DEF Empty
  <2> QED  BY <1>2, <1>4, <2>1, PageSizeIs, FetchedKeys
<1>6. \A j \in 1..PageSize : Identity(feed[j], told) \in DOMAIN once BY <1>4, <1>5
<1>7. ASSUME NEW j \in 1..PageSize,
             \/ ~SamePage(feed[i].link, feed[j].link, told)
             \/ /\ ~SamePage(feed[i].id, feed[j].id, told)
                /\ None \notin {feed[i].id, feed[j].id}
                /\ {feed[i].link, feed[j].link} \cap News = {}
      PROVE  LET keys == {Identity(feed[i], told), Identity(feed[j], told)} IN
             keys \subseteq DOMAIN once /\ Cardinality(keys) = 2
  <2>1. Identity(feed[i], told) # Identity(feed[j], told)
    BY <1>3, <1>7, IdentitiesDiffer
  <2> QED  BY <1>6, <2>1, PairIs
<1>8. Identity(feed[i], again) \notin DOMAIN once =>
         told # again /\ {feed[i].link, feed[i].id} \cap News # {}
  BY <1>6, IdentityStays
<1> QED  BY <1>1, <1>2, <1>7, <1>8

-----------------------------------------------------------------------------

Summaries == Texts \cup {NoText}

\* A text of a page is not empty, and no text is shorter than a title.
LEMMA SummaryIs ==
  /\ \A t \in Summaries : /\ t.length \in Nat /\ {t.chrome, t.files, t.title} \subseteq BOOLEAN
                          /\ t = NoText <=> t.length = 0
                          /\ t = NoText => ~t.chrome /\ ~t.files /\ ~t.title
                          /\ t.title => ~t.chrome /\ ~t.files
  /\ \A t, u \in Summaries : t.title /\ u # NoText => t.length <= u.length
<1> USE FetchersAssumption DEF FetchersAssumption
<1>1. ASSUME NEW t \in Summaries
      PROVE  /\ t.length \in Nat /\ {t.chrome, t.files, t.title} \subseteq BOOLEAN
             /\ t = NoText <=> t.length = 0
             /\ t = NoText => ~t.chrome /\ ~t.files /\ ~t.title
             /\ t.title => ~t.chrome /\ ~t.files
  <2>1. CASE t = NoText BY <2>1 DEF NoText
  <2>2. CASE t \in Texts
    <3>1. t \in AllTexts /\ (t.title => ~t.chrome /\ ~t.files) BY <2>2 DEF Texts
    <3>2. t.length \in Lengths /\ t.chrome \in BOOLEAN /\ t.files \in BOOLEAN /\ t.title \in BOOLEAN
      BY <3>1 DEF AllTexts
    <3>3. t.length # 0 /\ t.length \in Nat BY <3>2
    <3>4. NoText.length = 0 BY DEF NoText
    <3>5. t # NoText BY <3>3, <3>4
    <3> QED  BY <3>1, <3>2, <3>3, <3>5
  <2> QED  BY <2>1, <2>2 DEF Summaries
<1>2. ASSUME NEW t \in Summaries, NEW u \in Summaries, t.title, u # NoText
      PROVE  t.length <= u.length
  <2>1. t \in Texts /\ u \in Texts BY <1>1, <1>2 DEF Summaries
  <2>2. t.length = Min(Lengths) /\ u.length \in Lengths BY <1>2, <2>1 DEF Texts, AllTexts
  <2>3. PICK n \in Lengths : \A m \in Lengths : n <= m
    <3>1. Lengths \in SUBSET Nat /\ Lengths # {} BY <2>2
    <3> QED  BY <3>1, HasLeast
  <2>4. \A m \in Lengths : Min(Lengths) <= m BY <2>3 DEF Min
  <2> QED  BY <2>2, <2>4
<1> QED  BY <1>1, <1>2

\* Of two summaries, it is not the case that each is better than the other.
Decided(a, b) == ~(Better(a, b) /\ Better(b, a))

\* What is better than something better is better, if summaries are decided.
LEMMA BetterGoesOn ==
  ASSUME NEW a \in Summaries, NEW b \in Summaries, NEW c \in Summaries,
         Decided(a, b), Decided(b, c), Decided(a, c), Better(a, b), Better(b, c)
  PROVE  Better(a, c)
<1>1. Margin \in Nat /\ Shrink \in Nat /\ Long \in Nat /\ Margin <= Shrink
  BY FetchersAssumption DEF FetchersAssumption
<1> QED  BY <1>1, SummaryIs DEF Decided, Better

LEMMA ItselfNotBetter ==
  ASSUME NEW a \in Summaries PROVE ~Better(a, a)
<1>1. Margin \in Nat /\ Shrink \in Nat /\ Long \in Nat
  BY FetchersAssumption DEF FetchersAssumption
<1> QED  BY <1>1, SummaryIs DEF Better

\* Entries that share a row have the same title, and summaries that are decided.
Agreeing(raws) ==
  \A i \in DOMAIN raws : raws[i].summary \in Summaries /\
     \A j \in DOMAIN raws : raws[i].key = raws[j].key =>
        raws[i].title = raws[j].title /\ Decided(raws[i].summary, raws[j].summary)

\* A row has the title of its entries so far, and a summary of theirs that none is better than.
RowIs(record, raws, k, n) ==
  /\ record = [title |-> record.title, titleZh |-> record.titleZh,
               summary |-> record.summary, summaryZh |-> record.summaryZh]
  /\ \A i \in DOMAIN raws \cap 1..n : raws[i].key = k =>
        raws[i].title = record.title /\ ~Better(record.summary, raws[i].summary)
  /\ \E i \in DOMAIN raws \cap 1..n : raws[i].key = k /\ raws[i].summary = record.summary

LEMMA RowGoesOn ==
  ASSUME NEW raws, Agreeing(raws), NEW n \in Nat \ {0}, n \in DOMAIN raws, NEW table, NEW k,
         DOMAIN table = {raws[i].key : i \in DOMAIN raws \cap 1..(n - 1)},
         k \in DOMAIN table => RowIs(table[k], raws, k, n - 1),
         k \in DOMAIN table \cup {raws[n].key}
  PROVE  RowIs(Upsert(table, raws[n])[k], raws, k, n)
<1>1. DOMAIN raws \cap 1..n = (DOMAIN raws \cap 1..(n - 1)) \cup {n} OBVIOUS
<1>2. PICK raw : raw = raws[n] OBVIOUS
<1>3. PICK new : new = Upsert(table, raw)[k] OBVIOUS
<1>4. new = IF k # raw.key THEN table[k]
            ELSE IF k \in DOMAIN table THEN Refreshed(table[k], raw) ELSE Created(raw)
  BY <1>2, <1>3 DEF Upsert
<1>5. CASE k # raw.key
  <2>1. new = table[k] /\ k \in DOMAIN table BY <1>2, <1>4, <1>5
  <2>2. RowIs(new, raws, k, n - 1) BY <2>1
  <2>3. RowIs(new, raws, k, n) BY <1>1, <1>2, <1>5, <2>2 DEF RowIs
  <2> QED  BY <1>2, <1>3, <2>3
<1>6. CASE k = raw.key /\ k \notin DOMAIN table
  <2>1. new = Created(raw) BY <1>4, <1>6
  <2>2. new = [title |-> raw.title, titleZh |-> FALSE, summary |-> raw.summary, summaryZh |-> FALSE]
    BY <2>1 DEF Created
  <2>3. /\ new.title = raw.title /\ new.titleZh = FALSE /\ new.summary = raw.summary
        /\ new.summaryZh = FALSE
    BY <2>2
  <2>4. \A i \in DOMAIN raws \cap 1..n : raws[i].key = k => i = n BY <1>1, <1>6
  <2>5. ~Better(raw.summary, raw.summary) BY <1>2, ItselfNotBetter DEF Agreeing
  <2>6. RowIs(new, raws, k, n)
    <3>1. new = [title |-> new.title, titleZh |-> new.titleZh,
                 summary |-> new.summary, summaryZh |-> new.summaryZh]
      BY <2>2, <2>3
    <3>2. \A i \in DOMAIN raws \cap 1..n : raws[i].key = k =>
             raws[i].title = new.title /\ ~Better(new.summary, raws[i].summary)
      BY <1>2, <2>3, <2>4, <2>5
    <3>3. \E i \in DOMAIN raws \cap 1..n : raws[i].key = k /\ raws[i].summary = new.summary
      BY <1>1, <1>2, <1>6, <2>3
    <3> QED  BY <3>1, <3>2, <3>3 DEF RowIs
  <2> QED  BY <1>2, <1>3, <2>6
<1>7. CASE k = raw.key /\ k \in DOMAIN table
  <2>1. PICK old : old = table[k] OBVIOUS
  <2>2. RowIs(old, raws, k, n - 1) BY <1>7, <2>1
  <2>3. PICK better \in BOOLEAN : better = Better(old.summary, raw.summary) BY DEF Better
  <2>4. new = Refreshed(old, raw) BY <1>4, <1>7, <2>1
  <2>5. new = [title |-> raw.title, titleZh |-> old.titleZh /\ raw.title = old.title,
               summary |-> IF better THEN raw.summary ELSE old.summary,
               summaryZh |-> old.summaryZh /\ ~better]
    BY <2>3, <2>4 DEF Refreshed
  <2>6. new.title = raw.title /\ new.summary = IF better THEN raw.summary ELSE old.summary
    BY <2>5
  <2>7. PICK j \in DOMAIN raws \cap 1..(n - 1) : raws[j].key = k /\ raws[j].summary = old.summary
    BY <2>2 DEF RowIs
  <2>8. ASSUME NEW i \in DOMAIN raws \cap 1..n, raws[i].key = k
        PROVE  raws[i].title = new.title /\ ~Better(new.summary, raws[i].summary)
    <3>1. /\ raws[i].title = raw.title
          /\ old.summary \in Summaries /\ raw.summary \in Summaries /\ raws[i].summary \in Summaries
          /\ Decided(old.summary, raw.summary) /\ Decided(raw.summary, raws[i].summary)
          /\ Decided(old.summary, raws[i].summary)
      BY <1>2, <1>7, <2>7, <2>8 DEF Agreeing
    <3>2. i # n => ~Better(old.summary, raws[i].summary)
      <4>1. i # n => i \in DOMAIN raws \cap 1..(n - 1) BY <1>1
      <4> QED  BY <4>1, <2>2, <2>8 DEF RowIs
    <3>3. ~Better(new.summary, raws[i].summary)
      <4>1. CASE better
        <5>1. i = n => raws[i].summary = raw.summary BY <1>2
        <5> QED  BY <4>1, <2>3, <2>6, <3>1, <3>2, <5>1, BetterGoesOn, ItselfNotBetter
      <4>2. CASE ~better
        <5>1. i = n => raws[i].summary = raw.summary BY <1>2
        <5> QED  BY <4>2, <2>3, <2>6, <3>2, <5>1
      <4> QED  BY <4>1, <4>2
    <3> QED  BY <2>6, <3>1, <3>3
  <2>9. \E i \in DOMAIN raws \cap 1..n : raws[i].key = k /\ raws[i].summary = new.summary
    BY <1>1, <1>2, <1>7, <2>6, <2>7
  <2>10. new = [title |-> new.title, titleZh |-> new.titleZh,
                summary |-> new.summary, summaryZh |-> new.summaryZh]
    BY <2>5
  <2>11. RowIs(new, raws, k, n) BY <2>8, <2>9, <2>10 DEF RowIs
  <2> QED  BY <1>2, <1>3, <2>11
<1> QED  BY <1>2, <1>5, <1>6, <1>7

LEMMA RowsAre ==
  ASSUME NEW raws, Agreeing(raws), NEW h, NEW last, Stages(h, Empty, raws, last),
         NEW n \in 0..last, NEW k \in DOMAIN h[n]
  PROVE  RowIs(h[n][k], raws, k, n)
<1> DEFINE Fine(m) == \A x \in DOMAIN h[m] : RowIs(h[m][x], raws, x, m)
           Bad == {m \in 0..last : ~Fine(m)}
<1>1. last \in Nat BY DEF Stages
<1>2. DOMAIN Empty = {} BY DEF Empty
<1>3. ASSUME NEW m \in Bad PROVE \E l \in Bad : l < m
  <2>1. m \in 0..last /\ ~Fine(m) OBVIOUS
  <2>2. m # 0
    <3>1. h[0] = Empty BY DEF Stages
    <3>2. Fine(0) BY <1>2, <3>1
    <3> HIDE DEF Fine
    <3> QED  BY <2>1, <3>2
  <2>3. m - 1 \in 0..last /\ m \in 1..last /\ m - 1 < m /\ m \in Nat \ {0} BY <1>1, <2>1, <2>2
  <2>4. ASSUME Fine(m - 1) PROVE Fine(m)
    <3>1. CASE m \in DOMAIN raws
      <4>1. PICK table : table = h[m - 1] OBVIOUS
      <4>2. h[m] = Upsert(table, raws[m]) BY <2>3, <3>1, <4>1 DEF Stages
      <4>3. DOMAIN h[m] = DOMAIN table \cup {raws[m].key} BY <4>2 DEF Upsert
      <4>4. DOMAIN table = {raws[i].key : i \in DOMAIN raws \cap 1..(m - 1)}
        BY <1>2, <2>3, <4>1, KeysAre
      <4>5. ASSUME NEW x \in DOMAIN h[m] PROVE RowIs(h[m][x], raws, x, m)
        <5>1. x \in DOMAIN table => RowIs(table[x], raws, x, m - 1) BY <2>4, <4>1
        <5>2. x \in DOMAIN table \cup {raws[m].key} BY <4>3
        <5>3. RowIs(Upsert(table, raws[m])[x], raws, x, m)
          BY <2>3, <3>1, <4>4, <5>1, <5>2, RowGoesOn
        <5> QED  BY <4>2, <5>3
      <4> QED  BY <4>5
    <3>2. CASE m \notin DOMAIN raws
      <4>1. h[m] = h[m - 1] BY <2>3, <3>2 DEF Stages
      <4>2. DOMAIN raws \cap 1..m = DOMAIN raws \cap 1..(m - 1) BY <2>3, <3>2
      <4>3. \A x, r : RowIs(r, raws, x, m - 1) => RowIs(r, raws, x, m) BY <4>2 DEF RowIs
      <4> QED  BY <2>4, <4>1, <4>3
    <3> QED  BY <3>1, <3>2
  <2>5. m - 1 \in Bad
    <3> HIDE DEF Fine
    <3> QED  BY <2>1, <2>3, <2>4
  <2> QED  BY <2>3, <2>5
<1>4. Bad = {}
  <2>1. Bad \in SUBSET Nat BY <1>1
  <2> HIDE DEF Bad
  <2> QED  BY <1>3, <2>1, NoneIsLeast
<1>5. Fine(n)
  <2> HIDE DEF Fine
  <2> QED  BY <1>4
<1> QED  BY <1>5

\* Entries that none of the rows differ from, or are worse than, change nothing.
LEMMA NothingIsChanged ==
  ASSUME NEW table, NEW raws, NEW bound \in Nat, DOMAIN raws \subseteq 1..bound,
         \A i \in DOMAIN raws : Upsert(table, raws[i]) = table
  PROVE  FetchAll(table, raws) = table
<1>1. PICK last, h : Stages(h, table, raws, last) BY FetchAllIs
<1>2. last \in Nat BY <1>1 DEF Stages
<1> DEFINE Bad == {m \in 0..last : h[m] # table}
<1>3. ASSUME NEW m \in Bad PROVE \E l \in Bad : l < m
  <2>1. m \in 0..last /\ h[m] # table OBVIOUS
  <2>2. m # 0 BY <1>1, <2>1 DEF Stages
  <2>3. m - 1 \in 0..last /\ m \in 1..last /\ m - 1 < m BY <1>2, <2>1, <2>2
  <2>4. h[m - 1] # table
    <3>1. h[m] = IF m \in DOMAIN raws THEN Upsert(h[m - 1], raws[m]) ELSE h[m - 1]
      BY <1>1, <2>3 DEF Stages
    <3> HIDE DEF Bad
    <3> QED  BY <2>1, <3>1
  <2> QED  BY <2>3, <2>4
<1>4. Bad = {}
  <2>1. Bad \in SUBSET Nat BY <1>2
  <2> HIDE DEF Bad
  <2> QED  BY <1>3, <2>1, NoneIsLeast
<1>5. last \in 0..last BY <1>2
<1> QED  BY <1>1, <1>4, <1>5 DEF Stages

\* An entry that says nothing new leaves the row as it is, with its translation.
LEMMA TranslatedStays ==
  ASSUME NEW table, table = [x \in DOMAIN table |-> table[x]],
         NEW raw, raw.key \in DOMAIN table, NEW s, ~Better(s, raw.summary),
         table[raw.key] = [title |-> raw.title, titleZh |-> TRUE, summary |-> s, summaryZh |-> TRUE]
  PROVE  Upsert(table, raw) = table
<1>1. PICK old : old = table[raw.key] OBVIOUS
<1>2. /\ old.title = raw.title /\ old.titleZh = TRUE /\ old.summary = s /\ old.summaryZh = TRUE
  BY <1>1
<1>3. Refreshed(old, raw)
         = [title |-> raw.title, titleZh |-> TRUE, summary |-> s, summaryZh |-> TRUE]
  BY <1>2 DEF Refreshed
<1>4. Refreshed(table[raw.key], raw) = table[raw.key] BY <1>1, <1>3
<1>5. DOMAIN table \cup {raw.key} = DOMAIN table OBVIOUS
<1>6. Upsert(table, raw) = [x \in DOMAIN table |-> table[x]] BY <1>4, <1>5 DEF Upsert
<1> QED  BY <1>6

LEMMA FetchedIsQuiet ==
  ASSUME NEW raws, NEW bound \in Nat, DOMAIN raws \subseteq 1..bound, Agreeing(raws),
         NEW table, table = Translated(FetchAll(Empty, raws))
  PROVE  FetchAll(table, raws) = table
<1>1. PICK last, h : Stages(h, Empty, raws, last) BY FetchAllIs
<1>2. PICK first : first = h[last] OBVIOUS
<1>3. /\ last \in 0..last /\ first = FetchAll(Empty, raws)
      /\ DOMAIN raws \cap 1..last = DOMAIN raws
  BY <1>1, <1>2 DEF Stages
<1>4. DOMAIN first = {raws[i].key : i \in DOMAIN raws}
  <2>1. DOMAIN Empty = {} BY DEF Empty
  <2>2. DOMAIN h[last] = DOMAIN Empty \cup {raws[i].key : i \in DOMAIN raws \cap 1..last}
    BY <1>1, <1>3, KeysAre
  <2> QED  BY <1>2, <1>3, <2>1, <2>2
<1>5. \A k \in DOMAIN first : RowIs(first[k], raws, k, last) BY <1>1, <1>2, <1>3, RowsAre
<1>6. table = [k \in DOMAIN first |-> [first[k] EXCEPT !.titleZh = TRUE, !.summaryZh = TRUE]]
  BY <1>3 DEF Translated
<1>7. ASSUME NEW i \in DOMAIN raws PROVE Upsert(table, raws[i]) = table
  <2>1. PICK raw : raw = raws[i] OBVIOUS
  <2>2. PICK k : k = raw.key OBVIOUS
  <2>3. k \in DOMAIN first /\ k \in DOMAIN table /\ DOMAIN table = DOMAIN first
    BY <1>4, <1>6, <2>1, <2>2
  <2>4. PICK old : old = first[k] OBVIOUS
  <2>5. RowIs(old, raws, k, last) BY <1>5, <2>3, <2>4
  <2>6. raw.title = old.title /\ ~Better(old.summary, raw.summary)
    BY <1>3, <2>1, <2>2, <2>5 DEF RowIs
  <2>7. table[k] = [old EXCEPT !.titleZh = TRUE, !.summaryZh = TRUE] BY <1>6, <2>3, <2>4
  <2>8. table[k]
           = [title |-> raw.title, titleZh |-> TRUE, summary |-> old.summary, summaryZh |-> TRUE]
    <3>1. PICK t, u, s, v : old = [title |-> t, titleZh |-> u, summary |-> s, summaryZh |-> v]
      BY <2>5 DEF RowIs
    <3> QED  BY <2>6, <2>7, <3>1
  <2>9. table = [x \in DOMAIN table |-> table[x]] BY <1>6
  <2>10. Upsert(table, raw) = table BY <2>2, <2>3, <2>6, <2>8, <2>9, TranslatedStays
  <2> QED  BY <2>1, <2>10
<1> QED  BY <1>7, NothingIsChanged

-----------------------------------------------------------------------------

LEMMA ReadingIs ==
  \A raws \in Readings :
     DOMAIN raws \subseteq 1..PageSize /\ \A i \in DOMAIN raws : raws[i].summary \in Summaries
<1> TAKE raws \in Readings
<1>1. CASE raws \in [1..PageSize ->
                        [key : {1, 2}, title : Headlines, summary : Texts \cup {NoText}]]
  BY <1>1 DEF Summaries
<1>2. \A limit, places : First(limit, places) \subseteq places BY DEF First
<1>3. CASE \E links \in [1..PageSize -> [to : Addresses, title : Headlines \cup {None}]] :
              raws = ReadLinks(links)
  BY <1>3 DEF ReadLinks, Raw, Summaries
<1>4. CASE \E s \in Addresses, o \in [1..PageSize -> [date : 1..2, value : 1..2]] :
              raws = ReadSeries(s, o, PageSize)
  <2>1. PICK s \in Addresses, o \in [1..PageSize -> [date : 1..2, value : 1..2]] :
           raws = ReadSeries(s, o, PageSize)
    BY <1>4
  <2>2. DOMAIN o = 1..PageSize OBVIOUS
  <2>3. First(PageSize, DOMAIN o) \subseteq 1..PageSize BY <1>2, <2>2
  <2>4. raws = [i \in First(PageSize, DOMAIN o) |->
                   Raw(<<<<s, o[i].date, o[i].value>>, s>>, <<o[i].date, o[i].value>>, NoText)]
    BY <2>1 DEF ReadSeries
  <2>5. NoText \in Summaries BY DEF Summaries
  <2>6. \A key, title : Raw(key, title, NoText).summary = NoText BY DEF Raw
  <2> QED  BY <2>3, <2>4, <2>5, <2>6
<1>5. CASE \E f \in [1..PageSize -> [accession : 1..2, file : Addresses, form : Forms,
                                     title : Headlines]],
              forms \in SUBSET Forms, limit \in 1..PageSize : raws = ReadFilings(f, forms, limit)
  <2>1. PICK f \in [1..PageSize -> [accession : 1..2, file : Addresses, form : Forms,
                                     title : Headlines]],
             forms \in SUBSET Forms, limit \in 1..PageSize : raws = ReadFilings(f, forms, limit)
    BY <1>5
  <2>2. DOMAIN f = 1..PageSize OBVIOUS
  <2>3. PICK wanted : wanted = {i \in DOMAIN f : f[i].form \in forms} OBVIOUS
  <2>4. First(limit, wanted) \subseteq 1..PageSize BY <1>2, <2>2, <2>3
  <2>5. raws = [i \in First(limit, wanted) |->
                   Raw(<<f[i].accession, f[i].file>>, f[i].title, NoText)]
    BY <2>1, <2>3 DEF ReadFilings
  <2> QED  BY <2>4, <2>5 DEF Raw, Summaries
<1> QED  BY <1>1, <1>3, <1>4, <1>5 DEF Readings

LEMMA RefetchingIsQuiet == RefetchIsQuiet
<1> SUFFICES ASSUME NEW raws \in Readings,
                    \A i \in DOMAIN raws, j \in DOMAIN raws : raws[i].key = raws[j].key =>
                       /\ raws[i].title = raws[j].title
                       /\ ~(Better(raws[i].summary, raws[j].summary)
                            /\ Better(raws[j].summary, raws[i].summary))
             PROVE  FetchAll(Translated(FetchAll(Empty, raws)), raws)
                       = Translated(FetchAll(Empty, raws))
  BY DEF RefetchIsQuiet
<1>1. Agreeing(raws) BY ReadingIs DEF Agreeing, Decided
<1>2. DOMAIN raws \subseteq 1..PageSize BY ReadingIs
<1> QED  BY <1>1, <1>2, PageSizeIs, FetchedIsQuiet

\* A page with one entry.
LEMMA OneEntry ==
  ASSUME NEW table, NEW raws, DOMAIN raws = 1..1
  PROVE  FetchAll(table, raws) = Upsert(table, raws[1])
<1>1. PICK last, h : Stages(h, table, raws, last) BY FetchAllIs
<1>2. last = 1 BY <1>1 DEF Stages
<1> QED  BY <1>1, <1>2 DEF Stages

\* A summary that is read with the page, or without it.
LEMMA BriefAndPage ==
  ASSUME NEW brief \in Summaries, NEW page \in Texts, ~page.chrome, ~brief.chrome,
         ~(page.files /\ page.length > Long), ~(brief.files /\ brief.length > Long)
  PROVE  Decided(brief, page) /\ page \in Summaries /\ page # NoText
<1>1. Margin \in Nat /\ Shrink \in Nat /\ Long \in Nat /\ Margin <= Shrink
  BY FetchersAssumption DEF FetchersAssumption
<1>2. page \in Summaries BY DEF Summaries
<1>3. page # NoText
  <2>1. page.length \in Lengths /\ NoText.length = 0 BY DEF Texts, AllTexts, NoText
  <2>2. page.length # 0 BY <2>1, FetchersAssumption DEF FetchersAssumption
  <2> QED  BY <2>1, <2>2
<1> QED  BY <1>1, <1>2, <1>3, SummaryIs DEF Decided, Better

LEMMA TranslatedIs ==
  ASSUME NEW t, NEW u, NEW s, NEW v, NEW row2,
         row2 = [title |-> t, titleZh |-> u, summary |-> s, summaryZh |-> v],
         NEW new, new = [row2 EXCEPT !.titleZh = TRUE, !.summaryZh = TRUE]
  PROVE  new = [title |-> t, titleZh |-> TRUE, summary |-> s, summaryZh |-> TRUE]
  OBVIOUS

LEMMA SummariesAreSettled == SummariesSettle
<1> SUFFICES ASSUME NEW brief \in Texts \cup {NoText}, NEW page \in Texts, NEW enrich \in BOOLEAN
             PROVE  LET entry == [link |-> CHOOSE a \in Addresses \ News : TRUE, id |-> None,
                                  title |-> CHOOSE t \in Headlines : TRUE, summary |-> brief]
                        Reads(online) == ReadFeed(<<entry>>, FALSE, enrich,
                                                  <<IF online THEN page ELSE NoText>>, 1) IN
                    \A order \in [1..3 -> BOOLEAN] :
                       LET once == FetchAll(Empty, Reads(order[1]))
                           table == Translated(FetchAll(once, Reads(~order[1]))) IN
                       ~page.chrome /\ ~brief.chrome /\ ~(page.files /\ page.length > Long)
                           /\ ~(brief.files /\ brief.length > Long)
                       => FetchAll(FetchAll(table, Reads(order[2])), Reads(order[3])) = table
  BY Zenon DEF SummariesSettle
<1> DEFINE entry == [link |-> CHOOSE a \in Addresses \ News : TRUE, id |-> None,
                     title |-> CHOOSE t \in Headlines : TRUE, summary |-> brief]
           Reads(online) == ReadFeed(<<entry>>, FALSE, enrich,
                                     <<IF online THEN page ELSE NoText>>, 1)
<1> SUFFICES ASSUME NEW order \in [1..3 -> BOOLEAN], ~page.chrome, ~brief.chrome,
                    ~(page.files /\ page.length > Long), ~(brief.files /\ brief.length > Long)
             PROVE  LET once == FetchAll(Empty, Reads(order[1]))
                        table == Translated(FetchAll(once, Reads(~order[1]))) IN
                    FetchAll(FetchAll(table, Reads(order[2])), Reads(order[3])) = table
  BY Zenon
<1> DEFINE once == FetchAll(Empty, Reads(order[1]))
           table == Translated(FetchAll(once, Reads(~order[1])))
           says(online) == IF LooksAtPage(entry, FALSE, enrich) /\ online THEN page ELSE brief
<1>1. PICK key : key = Identity(entry, FALSE) OBVIOUS
<1>2. PICK title : title = entry.title OBVIOUS
<1>3. brief \in Summaries /\ Decided(brief, page) /\ page \in Summaries /\ page # NoText
  BY BriefAndPage DEF Summaries
<1>4. entry.summary = brief OBVIOUS
<1> HIDE DEF entry
<1>5. ASSUME NEW online \in BOOLEAN
      PROVE  DOMAIN Reads(online) = 1..1 /\ Reads(online)[1] = Raw(key, title, says(online))
  <2>1. PICK pages : pages = <<IF online THEN page ELSE NoText>> OBVIOUS
  <2>2. pages[1] = IF online THEN page ELSE NoText BY <2>1
  <2>3. PICK entries : entries = <<entry>> OBVIOUS
  <2>4. First(1, DOMAIN entries) = 1..1 /\ entries[1] = entry
    <3>1. DOMAIN entries = 1..1 /\ entries[1] = entry BY <2>3
    <3> QED  BY <3>1, FirstIsAll
  <2>5. Summary(entry, FALSE, enrich, pages[1]) = says(online)
    BY <1>3, <1>4, <2>2 DEF Summary
  <2>6. PICK raws : raws = ReadFeed(entries, FALSE, enrich, pages, 1) OBVIOUS
  <2>7. raws = [i \in First(1, DOMAIN entries) |->
                   Raw(Identity(entries[i], FALSE), entries[i].title,
                       Summary(entries[i], FALSE, enrich, pages[i]))]
    BY <2>6, Zenon DEF ReadFeed
  <2>8. Reads(online) = raws BY <2>1, <2>3, <2>6
  <2> HIDE DEF Reads, says
  <2>9. DOMAIN raws = 1..1 /\ 1 \in 1..1 BY <2>4, <2>7
  <2>10. raws[1] = Raw(Identity(entries[1], FALSE), entries[1].title,
                       Summary(entries[1], FALSE, enrich, pages[1]))
    BY <2>4, <2>7, <2>9
  <2>11. raws[1] = Raw(key, title, says(online)) BY <1>1, <1>2, <2>4, <2>5, <2>10
  <2> QED  BY <2>8, <2>9, <2>11
<1>6. \A a, b \in BOOLEAN : says(a) \in Summaries /\ Decided(says(a), says(b))
  BY <1>3, ItselfNotBetter DEF Decided
<1>7. \A a \in BOOLEAN : says(a) = says(order[1]) \/ says(a) = says(~order[1]) OBVIOUS
<1>8. PICK o \in BOOLEAN : o = order[1] OBVIOUS
<1>9. PICK p \in BOOLEAN : p = ~order[1] OBVIOUS
<1> HIDE DEF Reads, says
<1>10. \A r : Raw(key, title, r).key = key /\ Raw(key, title, r).title = title
              /\ Raw(key, title, r).summary = r
  BY DEF Raw
<1>11. once = [k \in {key} |-> Created(Raw(key, title, says(o)))]
  <2>1. once = Upsert(Empty, Raw(key, title, says(o))) BY <1>5, <1>8, OneEntry
  <2> QED  BY <2>1, <1>10 DEF Upsert, Empty
<1> HIDE DEF once
<1>12. PICK s \in {says(o), says(p)} :
          /\ table = [k \in {key} |-> [title |-> title, titleZh |-> TRUE,
                                       summary |-> s, summaryZh |-> TRUE]]
          /\ ~Better(s, says(o)) /\ ~Better(s, says(p))
  <2>1. PICK first : first = Created(Raw(key, title, says(o))) OBVIOUS
  <2>2. first.title = title /\ first.titleZh = FALSE /\ first.summary = says(o)
        /\ first.summaryZh = FALSE
    BY <1>10, <2>1 DEF Created
  <2>3. PICK two : two = Upsert(once, Raw(key, title, says(p))) OBVIOUS
  <2>4. two = [k \in {key} |-> Refreshed(first, Raw(key, title, says(p)))]
    BY <1>10, <1>11, <2>1, <2>3 DEF Upsert
  <2>5. PICK s : s = IF Better(says(o), says(p)) THEN says(p) ELSE says(o) OBVIOUS
  <2>6. PICK zh : Refreshed(first, Raw(key, title, says(p))) =
                     [title |-> title, titleZh |-> FALSE, summary |-> s, summaryZh |-> zh]
    BY <1>10, <2>2, <2>5 DEF Refreshed
  <2>7. FetchAll(once, Reads(p)) = two BY <1>5, <2>3, OneEntry
  <2>8. table = [k \in {key} |-> [title |-> title, titleZh |-> TRUE,
                                  summary |-> s, summaryZh |-> TRUE]]
    <3>1. PICK now : now = Refreshed(first, Raw(key, title, says(p))) OBVIOUS
    <3>2. PICK new : new = [now EXCEPT !.titleZh = TRUE, !.summaryZh = TRUE] OBVIOUS
    <3>3. new = [title |-> title, titleZh |-> TRUE, summary |-> s, summaryZh |-> TRUE]
      <4>1. PICK no : no = FALSE OBVIOUS
      <4>2. now = [title |-> title, titleZh |-> no, summary |-> s, summaryZh |-> zh]
        BY <2>6, <3>1, <4>1
      <4> QED  BY <3>2, <4>2, TranslatedIs, Zenon
    <3>4. two = [k \in {key} |-> now] BY <2>4, <3>1
    <3>5. Translated(two) = [k \in {key} |-> new] BY <3>2, <3>4 DEF Translated
    <3>6. table = Translated(two) BY <1>9, <2>7
    <3> QED  BY <3>3, <3>5, <3>6
  <2>9. ~Better(s, says(o)) /\ ~Better(s, says(p))
    BY <1>6, <2>5, ItselfNotBetter DEF Decided
  <2> QED  BY <2>5, <2>8, <2>9
<1> HIDE DEF table
<1>13. ASSUME NEW a \in BOOLEAN PROVE FetchAll(table, Reads(a)) = table
  <2>1. PICK raw : raw = Raw(key, title, says(a)) OBVIOUS
  <2>2. FetchAll(table, Reads(a)) = Upsert(table, raw) BY <1>5, <2>1, OneEntry
  <2>3. raw.key = key /\ raw.title = title /\ raw.summary = says(a) BY <1>10, <2>1
  <2>4. ~Better(s, raw.summary) BY <1>7, <1>8, <1>9, <1>12, <2>3
  <2>5. table[key] = [title |-> title, titleZh |-> TRUE, summary |-> s, summaryZh |-> TRUE]
        /\ key \in DOMAIN table
    BY <1>12
  <2>6. table = [x \in DOMAIN table |-> table[x]] BY <1>12
  <2>7. Upsert(table, raw) = table BY <2>3, <2>4, <2>5, <2>6, TranslatedStays
  <2> QED  BY <2>2, <2>7
<1>14. FetchAll(FetchAll(table, Reads(order[2])), Reads(order[3])) = table BY <1>13
<1> QED  BY <1>14 DEF table, once, Reads, entry

\* Entries keep their rows: two that can be told apart have two, and reading a page
\* again makes a row only for a link of Google News that is told differently.  Reading
\* a page again, when its own entries agree, changes no row and loses no translation;
\* nor does any order of polls that find the entry's page and polls that do not.  For
\* any addresses, titles and lengths, and for pages of any size.
THEOREM PagesAreFetchedOnce == FetchedOnce /\ (S!Spec => []FetchesSettle)
<1>1. FetchedOnce
  BY IdentityIsKept, RefetchingIsQuiet, SummariesAreSettled DEF FetchedOnce
<1>2. FetchesSettle
  BY <1>1 DEF FetchesSettle
<1> QED  BY <1>1, <1>2, PTL
=============================================================================
