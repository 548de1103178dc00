------------------------------- MODULE Signals -------------------------------
(***************************************************************************)
(* What the investment feed makes of its entries.  A job asks a model for  *)
(* the facts of an entry, keeps those whose quote is found in the source   *)
(* and retires the ones the answer no longer has; claims about a thesis    *)
(* follow from the facts, and at the end facts that are alike are grouped  *)
(* into signals.  Requests group them too, while the job runs: both read,  *)
(* decide and commit.  A fact's identifier is made of its content and a    *)
(* signal's of its members, so that one that comes back after it was       *)
(* retired meets its own row.  Nodes and edges of the provenance graph are *)
(* written by the same commits and are not here.                           *)
(***************************************************************************)
EXTENDS FeedFacts, SequencesExt

CONSTANTS
    Near,           \* pairs of facts that are near duplicates
    Lists,          \* watchlists
    NoList,
    Limit,          \* entries a job takes
    MaxJobs,        \* bound on extraction jobs
    MaxAsks         \* bound on requests

ASSUME SignalsAssumption ==
    /\ Near \subseteq Facts \X Facts /\ NoList \notin Lists
    /\ Limit \in Nat /\ MaxJobs \in Nat /\ MaxAsks \in Nat

VARIABLES
    past,       \* inactive investment_signal rows
    list,       \* the watchlist that the source names first
    open,       \* whether the thesis is active
    job,        \* the source's investment_fact_extract row
    worker,     \* what the job is doing
    pass,       \* refreshes that have read and not yet committed
    jobs, asks

signalVars == <<live, past, settled, pass>>
claimVars == <<claim, impact, judged>>
boundVars == <<jobs, asks>>
vars == <<fact, signalVars, list, open, claimVars, job, worker, boundVars>>

Passes == {"worker", "request"}
AnyList == Lists \cup {NoList}
Key == [list : AnyList, members : SUBSET Facts]
Fact == [is : {"none", "active", "inactive"}, list : AnyList]
Idle == [at |-> "idle", todo |-> {}, item |-> 0,
         seen |-> [i \in Items |-> 0], owed |-> [i \in Items |-> 0]]
NoPass == [on |-> FALSE, groups |-> {}, prior |-> {}, quiet |-> FALSE]

Retired == {f \in Facts : fact[f].is = "inactive"}
Known(i) == \E f \in FactsOf(i) : fact[f].is # "none"
Heaviest(S, low) == CHOOSE n \in {Weight[f] : f \in S} \cup {low} :
                       \A m \in {Weight[f] : f \in S} \cup {low} : m <= n

Init ==
    /\ fact = [f \in Facts |-> [is |-> "none", list |-> NoList]]
    /\ live = {} /\ past = {} /\ settled = TRUE
    /\ pass = [p \in Passes |-> NoPass]
    /\ list \in AnyList /\ open \in BOOLEAN
    /\ claim = {} /\ impact = [i \in Items |-> 0] /\ judged = {}
    /\ job = "none" /\ worker = Idle
    /\ jobs = 0 /\ asks = 0

\* A commit that changes facts or signals ends the quiet of every refresh under way.
Noise(p) == [q \in Passes |-> IF q = p THEN NoPass ELSE [pass[q] EXCEPT !.quiet = FALSE]]
Disturb == settled' = FALSE /\ pass' = Noise("none")

-----------------------------------------------------------------------------
(* Signals                                                                 *)

\* _semantic_clusters: a fact joins the first cluster that has one near to it.
Joins(f, c) == \E g \in c : <<f, g>> \in Near \/ <<g, f>> \in Near
Joined(cs, f) ==
    LET fits == {k \in DOMAIN cs : Joins(f, cs[k])} IN
    IF fits = {} THEN Append(cs, {f})
    ELSE LET first == CHOOSE k \in fits : \A m \in fits : k <= m
         IN [cs EXCEPT ![first] = @ \cup {f}]
Clusters(S) ==
    LET grown[n \in 0..Cardinality(Facts)] ==
            IF n = 0 THEN <<>>
            ELSE IF n \in S THEN Joined(grown[n - 1], n) ELSE grown[n - 1]
    IN ToSet(grown[Cardinality(Facts)])

\* _group_facts: facts of one watchlist and of one type.
Groups(scope) ==
    UNION {{[list |-> l, members |-> c] : c \in Clusters({f \in Active : fact[f].list = l})}
             : l \in scope}

\* refresh_signals, up to its commit.
Read(p, scope) ==
    pass' = [pass EXCEPT ![p] = [on |-> TRUE, groups |-> Groups(scope),
                                 prior |-> {k \in live : k.list \in scope},
                                 quiet |-> scope = AnyList]]

\* The identifier of a new signal is that of a row that exists.
Collides(p) == (pass[p].groups \ pass[p].prior) \cap (live \cup past) # {}

\* (fault) What the facts no longer make is left active.
RegroupKeeps(p) ==
    LET new == pass[p].groups \ pass[p].prior IN
    /\ live' = live \cup new /\ past' = past
    /\ settled' = pass[p].quiet
    /\ pass' = Noise(p)

\* The commit.  A signal the refresh saw active is not written active again.
Regroup(p) ==
    LET gone == pass[p].prior \ pass[p].groups
        new == pass[p].groups \ pass[p].prior
    IN
    /\ live' = (live \cup new) \ gone
    /\ past' = past \cup gone
    /\ settled' = pass[p].quiet
    /\ pass' = Noise(p)

-----------------------------------------------------------------------------
(* Requests                                                                *)

Asked == asks < MaxAsks /\ asks' = asks + 1 /\ UNCHANGED jobs

\* POST signals/refresh, of one watchlist or of all.
AskRefresh ==
    /\ Asked /\ ~pass["request"].on
    /\ \E scope \in {{l} : l \in Lists} \cup {AnyList} : Read("request", scope)
    /\ UNCHANGED <<fact, live, past, settled, list, open, claimVars, job, worker>>

\* A collision ends the request with an error.
EndRefresh ==
    /\ pass["request"].on
    /\ IF Collides("request")
       THEN pass' = [pass EXCEPT !["request"] = NoPass] /\ UNCHANGED <<live, past, settled>>
       ELSE Regroup("request")
    /\ UNCHANGED <<fact, list, open, claimVars, job, worker, boundVars>>

\* bind_source_to_watchlist and unbind_source_from_watchlist
Bind ==
    /\ Asked /\ list' \in AnyList \ {list}
    /\ UNCHANGED <<fact, signalVars, open, claimVars, job, worker>>

UpdateThesis ==
    /\ Asked /\ open' = ~open
    /\ UNCHANGED <<fact, signalVars, list, claimVars, job, worker>>

\* The classifier writes the field that the matcher raises.
ClassifyItem(i) ==
    /\ Asked
    /\ impact' \in {[impact EXCEPT ![i] = w] : w \in {0} \cup {Weight[f] : f \in Facts}}
    /\ judged' = judged \cup {i}
    /\ UNCHANGED <<fact, signalVars, list, open, claim, job, worker>>

\* enqueue_investment_post_processing, when the source is fetched
Enqueue ==
    /\ job = "none" /\ jobs < MaxJobs /\ \E i \in Items : ~Known(i)
    /\ job' = "pending" /\ jobs' = jobs + 1
    /\ UNCHANGED <<fact, signalVars, list, open, claimVars, worker, asks>>

-----------------------------------------------------------------------------
(* The job                                                                 *)

\* The oldest entries of the source, those that have facts included.
Oldest == {i \in Items : Cardinality({j \in Items : j < i}) < Limit}

Start ==
    /\ job = "pending" /\ worker.at = "idle"
    /\ job' = "running"
    /\ worker' = [Idle EXCEPT !.at = "next", !.todo = Oldest, !.seen = impact]
    /\ UNCHANGED <<fact, signalVars, list, open, claimVars, boundVars>>

NextItem ==
    /\ worker.at = "next" /\ worker.todo # {}
    /\ LET i == CHOOSE i \in worker.todo : \A j \in worker.todo : i <= j IN
       worker' = [worker EXCEPT !.at = "extract", !.item = i, !.todo = @ \ {i}]
    /\ UNCHANGED <<fact, signalVars, list, open, claimVars, job, boundVars>>

\* What a match without a new claim has left in the session goes with this commit.
Paid == [i \in Items |-> IF worker.owed[i] = 0 THEN impact[i] ELSE worker.owed[i]]
Settle == impact' = Paid /\ UNCHANGED <<claim, judged>>

\* (fault) What the answer does not have is history, whatever was wrong with it.
KeptOnly(A) == [f \in Facts |->
    IF f \in A THEN [is |-> "active", list |-> list]
    ELSE IF ItemOf[f] = worker.item /\ f \in Active THEN [fact[f] EXCEPT !.is = "inactive"]
    ELSE fact[f]]

\* The answer's facts are active, with the watchlist the source has now; the
\* others of the entry are history, unless nothing in the answer could be kept.
Kept(A) == [f \in Facts |->
    CASE f \in A -> [is |-> "active", list |-> list]
      [] f \notin A /\ A # {} /\ ItemOf[f] = worker.item /\ f \in Active ->
            [fact[f] EXCEPT !.is = "inactive"]
      [] OTHER -> fact[f]]

Extract(A) ==
    /\ worker.at = "extract" /\ A \subseteq FactsOf(worker.item) /\ A \cap Retired = {}
    /\ fact' = Kept(A)
    /\ IF fact' = fact THEN UNCHANGED <<settled, pass>> ELSE Disturb
    /\ Settle
    /\ worker' = [worker EXCEPT !.at = "match", !.owed = Idle.owed]
    /\ UNCHANGED <<live, past, list, open, job, boundVars>>

\* A retired fact comes back and its row refuses it.  The facts before it in the
\* answer are in the transaction that records the failure.
ExtractCollides(A) ==
    /\ worker.at = "extract" /\ A \subseteq FactsOf(worker.item) \ Retired
    /\ FactsOf(worker.item) \cap Retired # {}
    /\ fact' = [f \in Facts |-> IF f \in A THEN [is |-> "active", list |-> list] ELSE fact[f]]
    /\ IF fact' = fact THEN UNCHANGED <<settled, pass>> ELSE Disturb
    /\ Settle
    /\ worker' = Idle /\ job' = "none"
    /\ UNCHANGED <<live, past, list, open, boundVars>>

\* The model fails, and the job with it.
ExtractFails ==
    /\ worker.at = "extract"
    /\ Settle
    /\ worker' = Idle /\ job' = "none"
    /\ UNCHANGED <<fact, signalVars, list, open, boundVars>>

\* match_item_facts: every fact of the entry, the retired ones too.  The suggestion
\* only rises above what the session has seen of it.
Matching(i) == {f \in FactsOf(i) : /\ fact[f].is # "none" /\ fact[f].list # NoList
                                   /\ open /\ Weight[f] > 0}
\* (fault) The fact matched last decides.
RaisedLast(S, low) == IF S = {} THEN low ELSE Weight[CHOOSE f \in S : \A g \in S : g <= f]
Raised(S, low) == Heaviest(S, low)

Match ==
    LET i == worker.item
        matched == Matching(i)
        high == Raised(matched, worker.seen[i])
        rises == high # worker.seen[i]
        created == matched \ claim # {}
    IN
    /\ worker.at = "match"
    /\ claim' = claim \cup matched
    /\ impact' = IF created /\ rises THEN [impact EXCEPT ![i] = high] ELSE impact
    /\ worker' = [worker EXCEPT !.at = "next", !.seen[i] = high,
                                !.owed[i] = IF rises /\ ~created THEN high ELSE 0]
    /\ UNCHANGED <<fact, signalVars, list, open, judged, job, boundVars>>

JobReads ==
    /\ worker.at = "next" /\ worker.todo = {} /\ ~pass["worker"].on
    /\ Read("worker", AnyList)
    /\ worker' = [worker EXCEPT !.at = "refresh"]
    /\ UNCHANGED <<fact, live, past, settled, list, open, claimVars, job, boundVars>>

JobEnds ==
    /\ worker.at = "refresh" /\ ~Collides("worker")
    /\ Regroup("worker") /\ Settle
    /\ worker' = Idle /\ job' = "none"
    /\ UNCHANGED <<fact, list, open, boundVars>>

\* The session cannot be used after the refused insert, so the failure cannot be
\* recorded either: the row stays running and its like are never queued again.
JobSticks ==
    /\ worker.at = "refresh" /\ Collides("worker")
    /\ pass' = [pass EXCEPT !["worker"] = NoPass]
    /\ worker' = Idle /\ job' = "stuck"
    /\ UNCHANGED <<fact, live, past, settled, list, open, claimVars, boundVars>>

Next ==
    \/ AskRefresh \/ EndRefresh \/ Bind \/ UpdateThesis
    \/ \E i \in Items : ClassifyItem(i)
    \/ Enqueue \/ Start \/ NextItem
    \/ \E A \in SUBSET Facts : Extract(A) \/ ExtractCollides(A)
    \/ ExtractFails \/ Match \/ JobReads \/ JobEnds \/ JobSticks

Spec == Init /\ [][Next]_vars
-----------------------------------------------------------------------------
(* Properties                                                              *)

\* Every variable holds values of its columns.
TypeOK ==
    /\ fact \in [Facts -> Fact] /\ live \subseteq Key /\ past \subseteq Key
    /\ list \in AnyList /\ open \in BOOLEAN
    /\ claim \subseteq Facts /\ impact \in [Items -> Nat] /\ judged \subseteq Items
    /\ job \in {"none", "pending", "running", "stuck"}
    /\ settled \in BOOLEAN
    /\ jobs \in 0..MaxJobs /\ asks \in 0..MaxAsks
=============================================================================
