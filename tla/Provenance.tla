----------------------------- MODULE Provenance -----------------------------
(***************************************************************************)
(* The audited objects around one investment claim: the claim, the         *)
(* conclusion that is drawn from it, a normalised event, the anchors that  *)
(* point at exact fragments of stored sources, the edges between them, and *)
(* the trace node by which the provenance page shows each of them.         *)
(*                                                                         *)
(* A node is a copy: whoever registers an object writes the object's       *)
(* status into the node, and whoever only changes the object does not.     *)
(* The rebuild job copies all statuses, which it has listed some time      *)
(* before, and the backfill script registers everything stage by stage.    *)
(* Handlers of the API are atomic; the job and the script run beside them. *)
(* Versions and reviews of an edge are TraceLinks.                         *)
(***************************************************************************)
EXTENDS FiniteSets, Naturals

CONSTANTS
    Anchors,        \* fragments that can be cited
    Stages,         \* stages of the backfill, six in the code
    MaxAsks,        \* bound on operations, rebuilds and runs of the script
    MaxFaults       \* bound on refused statements and on crashes of the script

ASSUME ProvenanceAssumption ==
    /\ IsFiniteSet(Anchors)
    /\ Anchors \cap {"claim", "review", "validation", "event"} = {}
    /\ Stages \in Nat /\ Stages >= 2
    /\ {MaxAsks, MaxFaults} \subseteq Nat

VARIABLES
    object,         \* status of each object, or "none"
    shown,          \* status of each object as its trace node has it, or "none"
    edges,          \* <<source, relation, target>>
    bare,           \* does the conclusion's validation rest on no edge?
    did,            \* what the last operation on the claim was
    rebuild,        \* the rebuild job and what has changed since it listed
    row,            \* the backfill's job row
    script,         \* the backfill process
    asks, faults

audit == <<object, shown, edges, bare, did>>
jobs == <<rebuild, row, script>>
vars == <<audit, jobs, asks, faults>>

\* The conclusion has a review and a validation status, and a node for both.
Objects == {"claim", "review", "validation", "event"} \cup Anchors
NodesOnly == Objects \ {"validation"}
\* The order in which the script registers; a failure leaves one of these done.
StagePrefixes == {{}, Anchors, Anchors \cup {"event"}, Anchors \cup {"event", "review"}}

ClaimStatus == {"pending", "verifying", "verified", "refuted", "local_only", "ignored"}
Review == {"pending_review", "confirmed"}     \* two of the four are told apart
Validation == {"unverified", "supported", "refuted", "conflicted", "insufficient"}
StatusOf(o) == CASE o = "claim" -> ClaimStatus
                 [] o = "review" -> Review
                 [] o = "validation" -> Validation
                 [] o = "event" -> {"ai_generated"}
                 [] OTHER -> {"valid", "stale"}

Stances == {"supports", "refutes", "qualifies"}
\* What is neither a stance nor a derivation is one relation.
Relations == Stances \cup {"derived_from", "explains"}

Exists(o) == object[o] # "none"
Shown(o) == shown[o] # "none"

\* Register: the node of an object gets the status the caller gives, whether it is
\* new or not.
Register(nodes, status) == [o \in Objects |-> IF o \in nodes THEN status[o] ELSE shown[o]]

\* The two statuses of a conclusion are registered together.
OfNode(o) == IF o = "review" THEN {"review", "validation"} ELSE {o}

\* What a rebuild that has listed its registrations does not know of.
Touch == rebuild' = [rebuild EXCEPT !.touched = @ \cup
                        {o \in Objects : <<object[o], shown[o]>>' # <<object[o], shown[o]>>}]

NoJob == [stage |-> "idle", seen |-> [o \in Objects |-> "none"], touched |-> {}, failed |-> {}]
NoRow == [status |-> "none", stored |-> 0, progress |-> 0, due |-> {}]
NoScript == [at |-> "idle", done |-> 0, wrote |-> "no"]

Init ==
    /\ object = [o \in Objects |-> "none"]
    /\ shown = [o \in Objects |-> "none"]
    /\ edges = {}
    /\ bare = "no" /\ did = "other"
    /\ rebuild = NoJob /\ row = NoRow /\ script = NoScript
    /\ asks = 0 /\ faults = 0

-----------------------------------------------------------------------------
(* Operations on the claim and its conclusion                              *)

Ask == asks < MaxAsks /\ asks' = asks + 1 /\ UNCHANGED <<row, script, faults>>

\* create_claim and the hypothesis matcher.
CreateClaim ==
    /\ ~Exists("claim")
    /\ object' = [object EXCEPT !["claim"] = "pending"]
    /\ did' = "other"
    /\ UNCHANGED <<shown, edges, bare, row, script, asks, faults>> /\ Touch

\* set_claim_status and update_claim: the node is not registered.
SetClaimStatus(s) ==
    /\ Ask /\ Exists("claim")
    /\ object' = [object EXCEPT !["claim"] = s]
    /\ did' = "other"
    /\ UNCHANGED <<shown, edges, bare>> /\ Touch

\* (faults) The web is asked first.
VerdictOfWeb(stances, web) == IF web THEN "verified" ELSE IF "refutes" \in stances THEN "refuted" ELSE "local_only"

\* _status_summary: every stance counts, with an anchor or without.
Verdict(stances, web) ==
    CASE {"supports", "refutes"} \subseteq stances -> "local_only"
      [] "refutes" \in stances /\ "supports" \notin stances -> "refuted"
      [] "refutes" \notin stances /\ web -> "verified"
      [] OTHER -> "local_only"

\* _CLAIM_STATUS: the conclusion that is first drawn from a claim.
FirstReview(s) == IF s \in {"verified", "refuted"} THEN "confirmed" ELSE "pending_review"
FirstValidation(s) == CASE s = "pending" -> "unverified" [] s = "verified" -> "supported"
                        [] s = "refuted" -> "refuted" [] s = "local_only" -> "insufficient"

\* _persist_provenance: the validation, from the stances that have an anchor.
Validated(stances) ==
    CASE {"supports", "refutes"} \subseteq stances -> "conflicted"
      [] "refutes" \in stances /\ "supports" \notin stances -> "refuted"
      [] "supports" \in stances /\ "refutes" \notin stances -> "supported"
      [] OTHER -> "insufficient"

\* EvidenceAnchorService.create: an anchor that exists is returned as it is.
Anchored(as) == [o \in Objects |-> IF o \in as /\ ~Exists(o) THEN "valid" ELSE object[o]]

\* (faults) The conclusion follows every new verdict.
ConcludedAnew(old, review, validation) == [old EXCEPT !["review"] = review, !["validation"] = validation]

\* ConclusionService.create: a conclusion that exists is only registered.
Concluded(old, review, validation) ==
    IF old["review"] # "none" THEN old
    ELSE [old EXCEPT !["review"] = review, !["validation"] = validation]

\* _find_candidate: the judgments that give edges, on candidates with an anchor.  The
\* model names a candidate by its identifier, by that of its source, or by the latter
\* as a chunk's.
CitedJudgments == SUBSET (Anchors \X Stances)

\* _judgment_matches: the stances that make the verdict.  Candidates without an anchor
\* count, and judgments that name a source as a chunk's do not.
CountedStances == SUBSET Stances

\* verify: the verdict is over one set of judgments and the edges over the other.
Verify(cited, counted, web) ==
    LET as == {j[1] : j \in cited}
        firm == {j[2] : j \in cited}
        verdict == Verdict(counted, web)
        claim == [Anchored(as) EXCEPT !["claim"] = verdict]
        first == Concluded(claim, FirstReview(verdict), FirstValidation(verdict))
    IN  /\ Ask /\ Exists("claim")
        /\ object' = IF firm = {} THEN first
                     ELSE [first EXCEPT !["validation"] = Validated(firm)]
        /\ shown' = Register(as \cup {"claim", "review", "validation"}, object')
        /\ edges' = edges \cup {<<a, "derived_from", "claim">> : a \in as}
                          \cup {<<"claim", s, "review">> : s \in firm}
        /\ bare' = IF firm # {} THEN "no" ELSE IF Exists("review") THEN bare ELSE "yes"
        /\ did' = CASE firm = {} -> "bare"
                    [] firm # {} /\ firm \subseteq counted -> "anchored"
                    [] OTHER -> "uncounted"
        /\ Touch

\* POST /conclusions for this claim, with any statuses.
CreateConclusion(review, validation) ==
    /\ Ask /\ Exists("claim")
    /\ object' = Concluded(object, review, validation)
    /\ shown' = Register({"review", "validation"}, object')
    /\ bare' = IF Exists("review") THEN bare ELSE "yes"
    /\ did' = "other"
    /\ UNCHANGED edges /\ Touch

-----------------------------------------------------------------------------
(* Services with no route yet                                              *)

\* ConclusionLinker: the relations into the conclusion decide, and others than the
\* three stances leave the validation as it is.
Recomputed(relations) ==
    CASE relations = {} -> "insufficient"
      [] {"supports", "refutes"} \subseteq relations -> "conflicted"
      [] "refutes" \in relations /\ "supports" \notin relations -> "refuted"
      [] relations \cap {"supports", "qualifies"} # {} /\ "refutes" \notin relations -> "supported"
      [] OTHER -> object["validation"]

Into(es) == {e[2] : e \in {e \in es : e[3] = "review"}}

\* link: the edge is skipped when its source has no node, the validation is computed
\* in any case, and the conclusion's node is not registered.
Link(source, relation) ==
    /\ Ask /\ Exists("review") /\ Shown("review")
    /\ edges' = IF Shown(source) THEN edges \cup {<<source, relation, "review">>} ELSE edges
    /\ object' = [object EXCEPT !["validation"] = Recomputed(Into(edges'))]
    /\ bare' = IF Into(edges') \cap Stances # {} \/ Into(edges') = {} THEN "no" ELSE bare
    /\ did' = "other"
    /\ UNCHANGED shown /\ Touch

\* create_or_match: an event with the same key is returned as it is.
Matched == [object EXCEPT !["event"] = IF Exists("event") THEN @ ELSE "ai_generated"]

\* extract: events that cite anchors which exist; the nodes of the anchors say valid
\* whatever the anchors say.
Extract(as) ==
    /\ Ask /\ as # {} /\ \A a \in as : Exists(a)
    /\ object' = Matched
    /\ shown' = Register(as \cup {"event"}, [o \in Objects |-> IF o \in as THEN "valid" ELSE Matched[o]])
    /\ edges' = edges \cup {<<a, "derived_from", "event">> : a \in as}
    /\ did' = "other"
    /\ UNCHANGED bare /\ Touch

\* mark_stale_for_version: the quote is no longer where the anchor points.
MarkStale(a) ==
    /\ Ask /\ object[a] = "valid"
    /\ object' = [object EXCEPT ![a] = "stale"]
    /\ did' = "other"
    /\ UNCHANGED <<shown, edges, bare>> /\ Touch

-----------------------------------------------------------------------------
(* The rebuild job                                                         *)

\* enqueue: a job that is pending or running is returned.
Enqueue ==
    /\ Ask /\ rebuild.stage = "idle"
    /\ rebuild' = [NoJob EXCEPT !.stage = "pending"]
    /\ UNCHANGED audit

\* handle and _registrations: the statuses are listed up front.
List ==
    /\ rebuild.stage = "pending"
    /\ rebuild' = [rebuild EXCEPT !.stage = "register_objects", !.seen = object]
    /\ UNCHANGED <<audit, row, script, asks, faults>>

\* (faults) The savepoint of one failure takes all later objects with it, unnoticed.
RegisterListedUncounted(failed) ==
    /\ rebuild.stage = "register_objects"
    /\ shown' = Register({o \in Objects : rebuild.seen[o] # "none"} \ failed, rebuild.seen)
    /\ rebuild' = [rebuild EXCEPT !.stage = "project_graph"]
    /\ failed # {} => faults < MaxFaults
    /\ faults' = IF failed = {} THEN faults ELSE faults + 1
    /\ UNCHANGED <<object, edges, bare, did, row, script, asks>>

\* Every listed object is registered in a savepoint of its own, so those that fail
\* are counted and the others committed.
RegisterListed(failed) ==
    /\ rebuild.stage = "register_objects"
    /\ shown' = Register({o \in Objects : rebuild.seen[o] # "none"} \ failed, rebuild.seen)
    /\ rebuild' = [rebuild EXCEPT !.stage = "project_graph", !.failed = failed]
    /\ failed # {} => faults < MaxFaults
    /\ faults' = IF failed = {} THEN faults ELSE faults + 1
    /\ UNCHANGED <<object, edges, bare, did, row, script, asks>>

\* The projection may fail, which is counted too; the job succeeds.
FinishRebuild ==
    /\ rebuild.stage = "project_graph"
    /\ rebuild' = NoJob
    /\ UNCHANGED <<audit, row, script, asks, faults>>

-----------------------------------------------------------------------------
(* The backfill script                                                     *)

\* run: one job row per workspace, whatever its status.  A row that has succeeded
\* with stages missing is taken to have them all.
StartBackfill ==
    /\ script.at = "idle" /\ asks < MaxAsks /\ asks' = asks + 1
    /\ script' = [at |-> "stages", wrote |-> "no",
                  done |-> IF row.status = "succeeded" THEN Stages ELSE row.stored]
    /\ row' = IF row.status # "none" THEN row
              ELSE [row EXCEPT !.due = {o \in NodesOnly : Exists(o)}]
    /\ UNCHANGED <<audit, rebuild, faults>>

\* job.output is given the same dict every time.  The session finds a difference only
\* the first time, so from then on the row keeps its first checkpoint.
Stored(done) == IF script.wrote = "no" THEN done ELSE row.stored

\* _register_objects: the two properties of a conclusion's node are replaced by one
\* that says backfill.
Backfilled(nodes) ==
    Register({o \in nodes : Exists(o)} \cup (IF "review" \in nodes /\ Exists("review")
                                             THEN {"validation"} ELSE {}),
             [object EXCEPT !["validation"] = "none"])

\* A stage and its checkpoint are one commit; the first two stages register.
BackfillStage ==
    /\ script.at = "stages" /\ script.done < Stages
    /\ shown' = IF script.done < 2 THEN Backfilled(NodesOnly) ELSE shown
    /\ script' = [script EXCEPT !.done = @ + 1, !.wrote = "yes"]
    /\ row' = [row EXCEPT !.status = IF @ = "none" THEN "running" ELSE @,
                          !.stored = Stored(script.done + 1), !.progress = script.done + 1]
    /\ UNCHANGED <<object, edges, bare, did, asks, faults>> /\ Touch

\* (faults) The stage is a checkpoint although it has failed.
FailAfter(nodes, stored) ==
    /\ script.at = "stages" /\ script.done < Stages /\ faults < MaxFaults
    /\ shown' = IF script.done < 2 THEN Backfilled(nodes) ELSE shown
    /\ script' = NoScript
    /\ row' = [row EXCEPT !.status = "failed", !.stored = stored]
    /\ faults' = faults + 1
    /\ UNCHANGED <<object, edges, bare, did, asks>> /\ Touch
FailCountingStage(nodes) == FailAfter(nodes, Stored(script.done + 1))

\* What was registered before the exception is committed with the failure.
BackfillFails(nodes) == FailAfter(nodes, Stored(script.done))

FinishBackfill ==
    /\ script.at = "stages" /\ script.done = Stages
    /\ script' = NoScript
    /\ row' = [row EXCEPT !.status = "succeeded", !.progress = Stages, !.stored = Stored(Stages)]
    /\ UNCHANGED <<audit, rebuild, asks, faults>>

\* A row that was inserted and not committed goes with the process.
Crash ==
    /\ script.at = "stages" /\ faults < MaxFaults
    /\ faults' = faults + 1
    /\ script' = NoScript
    /\ row' = IF row.status = "none" THEN NoRow ELSE row
    /\ UNCHANGED <<audit, rebuild, asks>>

-----------------------------------------------------------------------------

OnClaim == \/ CreateClaim \/ \E s \in ClaimStatus : SetClaimStatus(s)
           \/ \E cited \in CitedJudgments, counted \in CountedStances, web \in BOOLEAN :
                  Verify(cited, counted, web)
           \/ \E r \in Review, v \in Validation : CreateConclusion(r, v)
Unrouted == \/ \E o \in {"claim", "event"} \cup Anchors, r \in Relations : Link(o, r)
            \/ \E as \in SUBSET Anchors : Extract(as)
            \/ \E a \in Anchors : MarkStale(a)
Rebuild == Enqueue \/ List \/ FinishRebuild \/ RegisterListed({}) \/ \E o \in NodesOnly : RegisterListed(OfNode(o))
Backfill == \/ StartBackfill \/ BackfillStage \/ FinishBackfill \/ Crash
            \/ \E nodes \in StagePrefixes : BackfillFails(nodes)

Next == OnClaim \/ Unrouted \/ Rebuild \/ Backfill

Spec == Init /\ [][Next]_vars

-----------------------------------------------------------------------------
(* Properties                                                              *)

TypeOK ==
    /\ \A o \in Objects : {object[o], shown[o]} \subseteq StatusOf(o) \cup {"none"}
    /\ edges \subseteq (Objects \X Relations \X {"claim", "review", "event"})
    /\ bare \in {"yes", "no"} /\ did \in {"anchored", "uncounted", "bare", "other"}
    /\ rebuild.stage \in {"idle", "pending", "register_objects", "project_graph"}
    /\ row.status \in {"none", "running", "failed", "succeeded"}
    /\ {row.stored, row.progress, script.done} \subseteq 0..Stages
    /\ script.at \in {"idle", "stages"}
    /\ asks \in 0..MaxAsks /\ faults \in 0..MaxFaults

\* A conclusion is shown as supported, refuted or in conflict only if edges into it say
\* so, whichever verifications and links came one after another, except for the one
\* that its first verification or a user made without any anchor.
EvidenceBacked ==
    bare = "no" =>
        /\ object["validation"] = "conflicted" => {"supports", "refutes"} \subseteq Into(edges)
        /\ object["validation"] = "refuted" => "refutes" \in Into(edges)
        /\ object["validation"] = "supported" => Into(edges) \cap {"supports", "qualifies"} # {}

\* verify reads the model's judgments twice, for the claim's verdict and for the edges
\* that decide its conclusion.  When the verdict has counted every stance that became an
\* edge, no refuted claim has a supported or conflicting conclusion and no verified claim
\* a refuted or conflicting one, whatever candidates without an anchor and the web add.
\* A stance that came only from judgments in the form document_chunk:<id> is not counted
\* (did = "uncounted"); the two may contradict each other then.
VerdictsAgree ==
    did = "anchored" =>
        /\ object["claim"] = "refuted" => object["validation"] \in {"refuted", "insufficient"}
        /\ object["claim"] = "verified" => object["validation"] \in {"supported", "insufficient"}

\* Once a rebuild has committed, every node it did not report as failed shows its
\* object, except those somebody has changed since the statuses were listed.
RebuildRepairs ==
    rebuild.stage = "project_graph" =>
        \A o \in Objects \ (rebuild.touched \cup rebuild.failed) : shown[o] = object[o]

\* A backfill that has a checkpoint or has succeeded, in one run or in several after
\* crashes and failures, has given every object it was started for a node.
BackfillReaches ==
    row.stored > 0 \/ row.status = "succeeded" => \A o \in row.due : Shown(o)

=============================================================================
