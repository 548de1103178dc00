--------------------------- MODULE ProvenanceProofs ---------------------------
(***************************************************************************)
(* Claims, conclusions, their nodes, the rebuild and the backfill, for any *)
(* number of anchors, stages, operations, rebuilds, crashes and failures;  *)
(* the quotes of anchors, for texts of any length; and what is read from   *)
(* the graph of entities and from the trace graph, for any graph.          *)
(***************************************************************************)
EXTENDS Answers, FiniteSetTheorems, SequenceTheorems, WellFoundedInduction, TLAPS

-----------------------------------------------------------------------------
(* Statuses                                                                *)

Statuses == (UNION {StatusOf(o) : o \in Objects}) \cup {"none"}
Typed(f) == f \in [Objects -> Statuses] /\ \A o \in Objects : f[o] \in StatusOf(o) \cup {"none"}

Named == {"claim", "review", "validation", "event"}

\* The identifiers of different tables are different.
LEMMA TablesDiffer ==
  /\ \A a \in Anchors : a \notin Named /\ a \in Objects /\ a \in NodesOnly
                        /\ StatusOf(a) = {"valid", "stale"}
  /\ Named \subseteq Objects /\ Named \ {"validation"} \subseteq NodesOnly
  /\ NodesOnly \subseteq Objects /\ "validation" \notin NodesOnly
  /\ StatusOf("claim") = ClaimStatus /\ StatusOf("review") = Review
  /\ StatusOf("validation") = Validation /\ StatusOf("event") = {"ai_generated"}
  BY ProvenanceAssumption DEF ProvenanceAssumption, Named, Objects, NodesOnly, StatusOf

LEMMA NoneIsNoStatus ==
  \A o \in Objects : "none" \notin StatusOf(o) /\ StatusOf(o) \subseteq Statuses
<1>1. \A o \in Objects : "none" \notin StatusOf(o)
  BY DEF StatusOf, ClaimStatus, Review, Validation
<1>2. ASSUME NEW o \in Objects PROVE StatusOf(o) \subseteq Statuses
  BY Zenon DEF Statuses
<1>3. QED BY <1>1, <1>2

LEMMA TypedExcept ==
  ASSUME NEW f, Typed(f), NEW o \in Objects, NEW s \in StatusOf(o) \cup {"none"}
  PROVE  Typed([f EXCEPT ![o] = s])
<1>1. s \in Statuses BY NoneIsNoStatus, Zenon DEF Statuses
<1>2. QED BY <1>1 DEF Typed

LEMMA TypedNone == Typed([o \in Objects |-> "none"])
<1>1. "none" \in Statuses BY Zenon DEF Statuses
<1>2. QED BY <1>1 DEF Typed

\* What registering does to the nodes.
LEMMA RegisterIs ==
  ASSUME Typed(shown), NEW nodes, NEW status,
         \A o \in Objects : o \in nodes => status[o] \in StatusOf(o) \cup {"none"}
  PROVE  /\ Typed(Register(nodes, status))
         /\ \A o \in Objects : Register(nodes, status)[o] = IF o \in nodes THEN status[o] ELSE shown[o]
<1>1. \A o \in Objects : StatusOf(o) \cup {"none"} \subseteq Statuses
  BY NoneIsNoStatus, Zenon DEF Statuses
<1>2. QED BY <1>1 DEF Typed, Register

-----------------------------------------------------------------------------
(* The invariant                                                           *)

\* Nothing has a node that does not exist, and a conclusion has both its statuses.
NodesAreReal ==
    /\ Typed(object) /\ Typed(shown)
    /\ \A o \in Objects : Shown(o) => Exists(o)
    /\ Exists("review") <=> Exists("validation")

\* What the rebuild has listed is true of what nobody has touched since.
ListIsFresh ==
    /\ rebuild \in [stage : {"idle", "pending", "register_objects", "project_graph"},
                    seen : [Objects -> Statuses], touched : SUBSET Objects,
                    failed : SUBSET Objects]
    /\ Typed(rebuild.seen)
    /\ rebuild.stage \in {"register_objects", "project_graph"} =>
          /\ \A o \in Objects \ rebuild.touched : rebuild.seen[o] = object[o]
          /\ \A o \in Objects : rebuild.seen[o] # "none" => Exists(o)

\* A script that has a stage behind it has given what was due a node.
StagesReach ==
    /\ row \in [status : {"none", "running", "failed", "succeeded"}, stored : 0..Stages,
                progress : 0..Stages, due : SUBSET NodesOnly]
    /\ script \in [at : {"idle", "stages"}, done : 0..Stages, wrote : {"yes", "no"}]
    /\ \A o \in row.due : Exists(o)
    /\ script.at = "stages" /\ script.done > 0 => \A o \in row.due : Shown(o)
    /\ row.status = "none" => row.stored = 0 /\ (script.at = "idle" => row = NoRow)
    /\ script.at = "idle" => script = NoScript

Bounded == /\ edges \subseteq (Objects \X Relations \X {"claim", "review", "event"})
           /\ bare \in {"yes", "no"} /\ did \in {"anchored", "uncounted", "bare", "other"}
           /\ asks \in 0..MaxAsks /\ faults \in 0..MaxFaults

IInv == /\ NodesAreReal /\ ListIsFresh /\ StagesReach /\ Bounded
        /\ EvidenceBacked /\ VerdictsAgree /\ RebuildRepairs /\ BackfillReaches

LEMMA InitInv == Init => IInv
<1> SUFFICES ASSUME Init PROVE IInv
  OBVIOUS
<1>1. NodesAreReal
  BY TypedNone, TablesDiffer DEF Init, NodesAreReal, Shown, Exists, Named
<1>2. ListIsFresh
  BY TypedNone DEF Init, ListIsFresh, NoJob, Typed
<1>3. StagesReach
  BY ProvenanceAssumption DEF Init, StagesReach, NoRow, NoScript, ProvenanceAssumption
<1>4. Bounded
  BY ProvenanceAssumption DEF Init, Bounded, ProvenanceAssumption
<1>5. object["validation"] = "none"
  BY TablesDiffer DEF Init, Named
<1>6. EvidenceBacked /\ VerdictsAgree /\ RebuildRepairs /\ BackfillReaches
  BY <1>5 DEF Init, EvidenceBacked, VerdictsAgree, RebuildRepairs, BackfillReaches, NoJob, NoRow
<1>7. QED BY <1>1, <1>2, <1>3, <1>4, <1>6 DEF IInv

\* The parts of the invariant say that everything has its type.
LEMMA InvTyped == IInv => TypeOK
<1> SUFFICES ASSUME IInv PROVE TypeOK
  OBVIOUS
<1>1. \A o \in Objects : {object[o], shown[o]} \subseteq StatusOf(o) \cup {"none"}
  BY DEF IInv, NodesAreReal, Typed
<1>2. /\ rebuild.stage \in {"idle", "pending", "register_objects", "project_graph"}
      /\ row.status \in {"none", "running", "failed", "succeeded"}
      /\ {row.stored, row.progress, script.done} \subseteq 0..Stages
      /\ script.at \in {"idle", "stages"}
  BY DEF IInv, ListIsFresh, StagesReach
<1>3. QED BY <1>1, <1>2 DEF IInv, Bounded, TypeOK

-----------------------------------------------------------------------------
(* Objects and nodes only appear                                           *)

\* What no step takes back.
Onward == /\ NodesAreReal'
          /\ \A o \in Objects : Exists(o) => Exists(o)'
          /\ \A o \in NodesOnly : Shown(o) => Shown(o)'

\* An operation that gives objects a status, and some of them a node.
LEMMA OnwardIf ==
  ASSUME NodesAreReal, Typed(object'), Typed(shown'),
         \A o \in Objects : Exists(o) => Exists(o)',
         \A o \in Objects : shown'[o] # shown[o] => Exists(o)',
         \A o \in NodesOnly : shown'[o] # shown[o] => Shown(o)',
         Exists("review")' <=> Exists("validation")'
  PROVE  Onward
<1>1. \A o \in Objects : Shown(o)' => Exists(o)'
  BY DEF NodesAreReal, Shown, Exists
<1>2. NodesOnly \subseteq Objects BY TablesDiffer
<1>3. QED BY <1>1, <1>2 DEF Onward, NodesAreReal, Shown

LEMMA OnwardStutter == NodesAreReal /\ UNCHANGED <<object, shown>> => Onward
  BY DEF Onward, NodesAreReal, Shown, Exists

\* One object of its own gets a status.
LEMMA OnwardSet ==
  ASSUME NodesAreReal, UNCHANGED shown, NEW o \in Objects, NEW s \in StatusOf(o),
         object' = [object EXCEPT ![o] = s],
         o \in {"review", "validation"} => Exists("review")
  PROVE  Onward
<1>1. Typed(object') BY TypedExcept DEF NodesAreReal
<1>2. \A q \in Objects : Exists(q) => Exists(q)'
  BY NoneIsNoStatus DEF NodesAreReal, Typed, Exists
<1>3. Exists("review")' <=> Exists("validation")'
  BY NoneIsNoStatus, TablesDiffer DEF NodesAreReal, Typed, Exists, Named
<1>4. QED BY <1>1, <1>2, <1>3, OnwardIf DEF NodesAreReal, Typed

LEMMA OnwardClaim ==
  ASSUME NodesAreReal, CreateClaim \/ \E s \in ClaimStatus : SetClaimStatus(s)
  PROVE  Onward
<1>1. PICK s \in ClaimStatus : object' = [object EXCEPT !["claim"] = s] /\ shown' = shown
  BY DEF CreateClaim, SetClaimStatus, ClaimStatus
<1>2. QED BY <1>1, TablesDiffer, OnwardSet DEF Named

LEMMA OnwardStale ==
  ASSUME NodesAreReal, NEW a \in Anchors, MarkStale(a)
  PROVE  Onward
<1>1. object' = [object EXCEPT ![a] = "stale"] /\ shown' = shown
  BY DEF MarkStale
<1>2. QED BY <1>1, TablesDiffer, OnwardSet DEF Named

LEMMA OnwardLink ==
  ASSUME NodesAreReal, NEW o, NEW r, Link(o, r)
  PROVE  Onward
<1>1. PICK s : /\ s = Recomputed(Into(edges')) /\ object' = [object EXCEPT !["validation"] = s]
               /\ shown' = shown /\ Exists("review")
  BY DEF Link
<1>2. object["validation"] \in Validation
  BY <1>1, TablesDiffer DEF NodesAreReal, Typed, Exists, Named
<1>3. s \in Validation
  BY <1>1, <1>2 DEF Recomputed, Validation
<1>4. QED BY <1>1, <1>3, TablesDiffer, OnwardSet DEF Named

\* Concluding gives a conclusion both its statuses, once.
LEMMA ConcludedIs ==
  ASSUME NEW f, Typed(f), NEW review \in Review, NEW validation \in Validation,
         f["review"] # "none" <=> f["validation"] # "none"
  PROVE  LET new == Concluded(f, review, validation)
         IN  /\ Typed(new) /\ new["review"] # "none" /\ new["validation"] # "none"
             /\ \A o \in Objects : f[o] # "none" => new[o] = f[o]
             /\ \A o \in Objects \ {"review", "validation"} : new[o] = f[o]
<1> DEFINE one == [f EXCEPT !["review"] = review]
           two == [one EXCEPT !["validation"] = validation]
<1>0. {"review", "validation"} \subseteq Objects BY TablesDiffer DEF Named
<1>1. CASE f["review"] # "none"
  BY <1>1 DEF Concluded
<1>2. CASE f["review"] = "none"
  <2>1. Typed(one) BY TypedExcept, TablesDiffer DEF Named
  <2>2. Typed(two) BY <2>1, TypedExcept, TablesDiffer DEF Named
  <2>3. Concluded(f, review, validation) = two BY <1>2 DEF Concluded
  <2>4. review # "none" /\ validation # "none" BY DEF Review, Validation
  <2>5. /\ two["review"] = review /\ two["validation"] = validation
        /\ \A o \in Objects \ {"review", "validation"} : two[o] = f[o]
    BY <1>0 DEF Typed
  <2> HIDE DEF two
  <2>6. QED BY <1>0, <1>2, <2>2, <2>3, <2>4, <2>5
<1>3. QED BY <1>1, <1>2

LEMMA OnwardConclusion ==
  ASSUME NodesAreReal, NEW review \in Review, NEW validation \in Validation,
         CreateConclusion(review, validation)
  PROVE  Onward /\ Exists("review")' /\ (Exists("review") => object' = object)
<1>0. {"review", "validation"} \subseteq Objects BY TablesDiffer DEF Named
<1>1. /\ object' = Concluded(object, review, validation)
      /\ shown' = Register({"review", "validation"}, object')
  BY DEF CreateConclusion
<1>2. /\ Typed(object') /\ Exists("review")' /\ Exists("validation")'
      /\ \A o \in Objects : Exists(o) => object'[o] = object[o]
  BY <1>1, ConcludedIs DEF NodesAreReal, Exists
<1>3. /\ Typed(shown')
      /\ \A o \in Objects : shown'[o] = IF o \in {"review", "validation"} THEN object'[o] ELSE shown[o]
  BY <1>1, <1>2, RegisterIs DEF NodesAreReal, Typed
<1>4. Onward
  BY <1>0, <1>2, <1>3, OnwardIf DEF Exists, Shown, NodesOnly
<1>5. Exists("review") => object' = object
  BY <1>1 DEF Concluded, Exists
<1>6. QED BY <1>2, <1>4, <1>5

LEMMA OnwardExtract ==
  ASSUME NodesAreReal, NEW cited \in SUBSET Anchors, Extract(cited)
  PROVE  Onward
<1>1. PICK status :
      /\ status = [o \in Objects |-> IF o \in cited THEN "valid" ELSE Matched[o]]
      /\ object' = Matched /\ shown' = Register(cited \cup {"event"}, status)
      /\ \A a \in cited : Exists(a)
  BY DEF Extract
<1>2. Matched = IF Exists("event") THEN object ELSE [object EXCEPT !["event"] = "ai_generated"]
  <2>1. object \in [Objects -> Statuses] BY DEF NodesAreReal, Typed
  <2>2. QED BY <2>1 DEF Matched
<1>3. /\ Typed(object') /\ \A o \in Objects \ {"event"} : object'[o] = object[o]
      /\ Exists("event")' /\ \A o \in Objects : Exists(o) => Exists(o)'
  <2>1. CASE Exists("event")
    BY <1>1, <1>2, <2>1 DEF NodesAreReal, Exists
  <2>2. CASE ~Exists("event")
    <3>1. Typed(object')
      BY <1>1, <1>2, <2>2, TypedExcept, TablesDiffer DEF NodesAreReal, Named
    <3>2. QED BY <1>1, <1>2, <2>2, <3>1, TablesDiffer DEF NodesAreReal, Exists, Typed, Named
  <2>3. QED BY <2>1, <2>2
<1>4. \A o \in Objects : o \in cited \cup {"event"} =>
         status[o] \in StatusOf(o) /\ status[o] # "none" /\ Exists(o)'
  BY <1>1, <1>3, TablesDiffer DEF Named, Typed, Exists
<1>5. /\ Typed(shown')
      /\ \A o \in Objects : shown'[o] = IF o \in cited \cup {"event"} THEN status[o] ELSE shown[o]
  <2>0. PICK nodes : nodes = cited \cup {"event"} OBVIOUS
  <2>1. shown' = Register(nodes, status) BY <1>1, <2>0
  <2>2. Typed(shown) BY DEF NodesAreReal
  <2>3. \A o \in Objects : o \in nodes => status[o] \in StatusOf(o) \cup {"none"} BY <1>4, <2>0
  <2>4. Typed(shown') BY <2>1, <2>2, <2>3, RegisterIs
  <2>5. \A o \in Objects : shown'[o] = IF o \in nodes THEN status[o] ELSE shown[o]
    BY <2>1, <2>2, <2>3, RegisterIs
  <2>6. QED BY <2>0, <2>4, <2>5
<1>6. Exists("review")' <=> Exists("validation")'
  BY <1>3, TablesDiffer DEF Named, NodesAreReal, Exists
<1>7. \A o \in Objects : shown'[o] # shown[o] => Exists(o)' /\ Shown(o)'
  BY <1>4, <1>5 DEF Shown
<1>8. NodesOnly \subseteq Objects BY TablesDiffer
<1>9. QED BY <1>3, <1>5, <1>6, <1>7, <1>8, OnwardIf

\* What a verification does, in terms of the anchors it cites, the stances on them and the
\* stances it counts.
Verification(as, firm, counted, web) ==
    /\ Typed(object')
    /\ \A o \in Objects : Exists(o) => Exists(o)'
    /\ \A o \in as \cup {"claim", "review", "validation"} : Exists(o)'
    /\ object'["claim"] = Verdict(counted, web)
    /\ firm # {} => object'["validation"] = Validated(firm)
    /\ firm = {} /\ Exists("review") => object'["validation"] = object["validation"]
    /\ shown' = Register(as \cup {"claim", "review", "validation"}, object')
    /\ edges' = edges \cup {<<a, "derived_from", "claim">> : a \in as}
                      \cup {<<"claim", s, "review">> : s \in firm}
    /\ bare' = IF firm # {} THEN "no" ELSE IF Exists("review") THEN bare ELSE "yes"
    /\ did' \in {"anchored", "uncounted", "bare"}
    /\ did' = "anchored" => firm # {} /\ firm \subseteq counted

LEMMA VerifyIs ==
  ASSUME NodesAreReal, NEW cited \in CitedJudgments, NEW counted \in CountedStances,
         NEW web \in BOOLEAN, Verify(cited, counted, web)
  PROVE  \E as \in SUBSET Anchors, firm \in SUBSET Stances : Verification(as, firm, counted, web)
<1>1. PICK as, firm, verdict, claim, first :
        /\ as = {j[1] : j \in cited}
        /\ firm = {j[2] : j \in cited}
        /\ verdict = Verdict(counted, web)
        /\ claim = [Anchored(as) EXCEPT !["claim"] = verdict]
        /\ first = Concluded(claim, FirstReview(verdict), FirstValidation(verdict))
        /\ object' = IF firm = {} THEN first ELSE [first EXCEPT !["validation"] = Validated(firm)]
        /\ shown' = Register(as \cup {"claim", "review", "validation"}, object')
        /\ edges' = edges \cup {<<a, "derived_from", "claim">> : a \in as}
                          \cup {<<"claim", s, "review">> : s \in firm}
        /\ bare' = IF firm # {} THEN "no" ELSE IF Exists("review") THEN bare ELSE "yes"
        /\ did' = CASE firm = {} -> "bare"
                    [] firm # {} /\ firm \subseteq counted -> "anchored"
                    [] OTHER -> "uncounted"
  BY DEF Verify
<1>2. as \in SUBSET Anchors /\ firm \in SUBSET Stances
  BY <1>1 DEF CitedJudgments
<1>3. verdict \in {"verified", "refuted", "local_only"}
  BY <1>1 DEF Verdict
<1>4. FirstReview(verdict) \in Review /\ FirstValidation(verdict) \in Validation
  BY <1>3 DEF FirstReview, FirstValidation, Review, Validation
<1>5. Validated(firm) \in Validation
  BY DEF Validated, Validation
<1>6. /\ Typed(Anchored(as))
      /\ \A o \in Objects : Exists(o) => Anchored(as)[o] = object[o]
      /\ \A o \in as : Anchored(as)[o] # "none"
      /\ \A o \in Named : Anchored(as)[o] = object[o]
  <2>1. \A o \in Objects : (IF o \in as /\ ~Exists(o) THEN "valid" ELSE object[o])
                            \in StatusOf(o) \cup {"none"}
    BY <1>2, TablesDiffer DEF NodesAreReal, Typed
  <2>2. \A o \in Objects : StatusOf(o) \cup {"none"} \subseteq Statuses
    BY NoneIsNoStatus, Zenon DEF Statuses
  <2>3. Typed(Anchored(as)) BY <2>1, <2>2 DEF Typed, Anchored
  <2>4. QED BY <1>2, <2>3, TablesDiffer DEF Anchored, Exists
<1>7. /\ Typed(claim) /\ claim["claim"] = verdict
      /\ \A o \in Objects : Exists(o) => claim[o] # "none"
      /\ \A o \in as : claim[o] # "none"
      /\ claim["review"] = object["review"] /\ claim["validation"] = object["validation"]
  <2>1. "claim" \in Objects /\ verdict \in StatusOf("claim") \cup {"none"}
    BY <1>3, TablesDiffer DEF ClaimStatus, Named
  <2>2. Typed(claim) BY <1>1, <1>6, <2>1, TypedExcept
  <2>3. /\ claim["claim"] = verdict
        /\ \A o \in Objects \ {"claim"} : claim[o] = Anchored(as)[o]
    BY <1>1, <1>6, <2>1 DEF Typed
  <2>4. QED BY <1>2, <1>3, <1>6, <2>2, <2>3, TablesDiffer DEF Named, Exists
<1>8. /\ Typed(first) /\ first["review"] # "none" /\ first["validation"] # "none"
      /\ \A o \in Objects : claim[o] # "none" => first[o] = claim[o]
      /\ first["claim"] = verdict
  <2>1. claim["review"] # "none" <=> claim["validation"] # "none"
    BY <1>7 DEF NodesAreReal, Exists
  <2>2. /\ Typed(first) /\ first["review"] # "none" /\ first["validation"] # "none"
        /\ \A o \in Objects : claim[o] # "none" => first[o] = claim[o]
    <3>1. PICK r \in Review, v \in Validation : first = Concluded(claim, r, v)
      BY <1>1, <1>4
    <3>2. QED BY <1>7, <2>1, <3>1, ConcludedIs
  <2>3. QED BY <1>3, <1>7, <2>2, TablesDiffer DEF Named
<1>9. /\ Typed(object')
      /\ \A o \in Objects \ {"validation"} : object'[o] = first[o]
      /\ object'["validation"] = IF firm = {} THEN first["validation"] ELSE Validated(firm)
  <2>1. CASE firm = {} BY <1>1, <1>8, <2>1
  <2>2. CASE firm # {}
    <3>1. Typed([first EXCEPT !["validation"] = Validated(firm)])
      BY <1>5, <1>8, TypedExcept, TablesDiffer DEF Named
    <3>2. QED BY <1>1, <1>8, <2>2, <3>1, TablesDiffer DEF Typed, Named
  <2>3. QED BY <2>1, <2>2
<1>10. Validated(firm) # "none" BY DEF Validated
<1>11. \A o \in Objects : Exists(o) => Exists(o)'
  BY <1>7, <1>8, <1>9, <1>10 DEF Exists
<1>12. \A o \in as \cup {"claim", "review", "validation"} : Exists(o)'
  BY <1>2, <1>3, <1>7, <1>8, <1>9, <1>10, TablesDiffer DEF Exists, Named
<1>13. object'["claim"] = Verdict(counted, web)
  BY <1>1, <1>8, <1>9, TablesDiffer DEF Named
<1>14. firm = {} /\ Exists("review") => object'["validation"] = object["validation"]
  BY <1>7, <1>8, <1>9, TablesDiffer DEF Exists, Named, NodesAreReal
<1>15. /\ did' \in {"anchored", "uncounted", "bare"}
       /\ did' = "anchored" => firm # {} /\ firm \subseteq counted
  BY <1>1
<1>16. Verification(as, firm, counted, web)
  BY <1>1, <1>9, <1>11, <1>12, <1>13, <1>14, <1>15 DEF Verification
<1>17. QED BY <1>2, <1>16

LEMMA OnwardVerify ==
  ASSUME NodesAreReal, NEW as \in SUBSET Anchors, NEW firm, NEW counted, NEW web,
         Verification(as, firm, counted, web)
  PROVE  Onward
<1>1. PICK nodes : nodes = as \cup {"claim", "review", "validation"} OBVIOUS
<1>2. /\ Typed(object') /\ \A o \in Objects : Exists(o) => Exists(o)'
      /\ \A o \in nodes : Exists(o)'
  BY <1>1 DEF Verification
<1>3. /\ Typed(shown') /\ \A o \in Objects : shown'[o] = IF o \in nodes THEN object'[o] ELSE shown[o]
  <2>1. shown' = [o \in Objects |-> IF o \in nodes THEN object'[o] ELSE shown[o]]
    BY <1>1 DEF Verification, Register
  <2>2. \A o \in Objects : (IF o \in nodes THEN object'[o] ELSE shown[o])
                            \in Statuses \cap (StatusOf(o) \cup {"none"})
    BY <1>2 DEF Typed, NodesAreReal
  <2>3. QED BY <2>1, <2>2 DEF Typed
<1>4. \A o \in Objects : shown'[o] # shown[o] => Exists(o)' /\ Shown(o)'
  BY <1>2, <1>3 DEF Exists, Shown
<1>5. Exists("review")' <=> Exists("validation")' BY <1>1, <1>2
<1>6. NodesOnly \subseteq Objects BY TablesDiffer
<1>7. QED BY <1>2, <1>3, <1>4, <1>5, <1>6, OnwardIf

LEMMA OnwardListed ==
  ASSUME NodesAreReal, ListIsFresh, NEW failed, RegisterListed(failed)
  PROVE  /\ Onward
         /\ \A o \in Objects \ failed : rebuild.seen[o] # "none" => shown'[o] = rebuild.seen[o]
         /\ \A o \in Objects : rebuild.seen[o] = "none" => shown'[o] = shown[o]
<1>1. PICK nodes : nodes = {o \in Objects : rebuild.seen[o] # "none"} \ failed OBVIOUS
<1>2. shown' = Register(nodes, rebuild.seen) /\ object' = object
      /\ rebuild.stage = "register_objects"
  BY <1>1 DEF RegisterListed
<1>3. /\ Typed(shown')
      /\ \A o \in Objects : shown'[o] = IF o \in nodes THEN rebuild.seen[o] ELSE shown[o]
  BY <1>2, RegisterIs DEF NodesAreReal, Typed, ListIsFresh
<1>4. \A o \in Objects : shown'[o] # shown[o] => Exists(o) /\ Shown(o)'
  BY <1>1, <1>2, <1>3 DEF ListIsFresh, Shown
<1>5. NodesOnly \subseteq Objects BY TablesDiffer
<1>6. Onward BY <1>2, <1>3, <1>4, <1>5, OnwardIf DEF NodesAreReal, Exists
<1>7. QED BY <1>1, <1>3, <1>6

LEMMA OnwardBackfilled ==
  ASSUME NodesAreReal, NEW nodes \in SUBSET NodesOnly,
         shown' = Backfilled(nodes), object' = object
  PROVE  Onward /\ \A o \in nodes : Exists(o) => Shown(o)'
<1>1. PICK all, status :
        /\ all = {o \in nodes : Exists(o)} \cup (IF "review" \in nodes /\ Exists("review")
                                                 THEN {"validation"} ELSE {})
        /\ status = [object EXCEPT !["validation"] = "none"]
  OBVIOUS
<1>2. shown' = Register(all, status) BY <1>1 DEF Backfilled
<1>3. Typed(status) /\ \A o \in NodesOnly : status[o] = object[o]
  BY <1>1, TypedExcept, TablesDiffer DEF NodesAreReal, Typed, Named
<1>4. /\ Typed(shown') /\ \A o \in Objects : shown'[o] = IF o \in all THEN status[o] ELSE shown[o]
  BY <1>2, <1>3, RegisterIs DEF NodesAreReal, Typed
<1>5. \A o \in Objects : o \in all => Exists(o)
  BY <1>1 DEF NodesAreReal
<1>6. \A o \in NodesOnly : o \in all => Shown(o)'
  BY <1>3, <1>4, <1>5, TablesDiffer DEF Shown, Exists
<1>7. Onward
  <2>1. \A o \in Objects : Exists(o)' = Exists(o) BY DEF Exists
  <2>2. Typed(object') /\ (Exists("review")' <=> Exists("validation")')
    BY <2>1, TablesDiffer DEF NodesAreReal, Named
  <2>3. \A o \in Objects : shown'[o] # shown[o] => Exists(o)'
    BY <1>4, <1>5, <2>1
  <2>4. \A o \in NodesOnly : shown'[o] # shown[o] => Shown(o)'
    BY <1>4, <1>6, TablesDiffer
  <2>5. QED BY <1>4, <2>1, <2>2, <2>3, <2>4, OnwardIf
<1>8. QED BY <1>1, <1>6, <1>7

-----------------------------------------------------------------------------
(* The rebuild                                                             *)

\* Whoever changes an object or a node beside a rebuild is noted there.
LEMMA TouchStep ==
  ASSUME ListIsFresh, RebuildRepairs, NodesAreReal, Onward, Touch
  PROVE  ListIsFresh' /\ RebuildRepairs'
<1>1. PICK changed \in SUBSET Objects :
        /\ rebuild' = [rebuild EXCEPT !.touched = @ \cup changed]
        /\ \A o \in Objects \ changed : object'[o] = object[o] /\ shown'[o] = shown[o]
  <2>1. PICK changed :
          /\ changed = {o \in Objects : <<object[o], shown[o]>>' # <<object[o], shown[o]>>}
          /\ rebuild' = [rebuild EXCEPT !.touched = @ \cup changed]
    BY DEF Touch
  <2>2. \A o \in Objects \ changed : object'[o] = object[o] /\ shown'[o] = shown[o]
    BY <2>1
  <2>3. QED BY <2>1, <2>2
<1>2. /\ rebuild'.stage = rebuild.stage /\ rebuild'.seen = rebuild.seen
      /\ rebuild'.failed = rebuild.failed /\ rebuild'.touched = rebuild.touched \cup changed
  BY <1>1 DEF ListIsFresh
<1>3. ListIsFresh'
  <2>1. rebuild' \in [stage : {"idle", "pending", "register_objects", "project_graph"},
                      seen : [Objects -> Statuses], touched : SUBSET Objects,
                      failed : SUBSET Objects]
    BY <1>1 DEF ListIsFresh
  <2>2. Typed(rebuild'.seen) BY <1>2 DEF ListIsFresh
  <2>3. ASSUME rebuild.stage \in {"register_objects", "project_graph"}
        PROVE  /\ \A o \in Objects \ rebuild'.touched : rebuild.seen[o] = object'[o]
               /\ \A o \in Objects : rebuild.seen[o] # "none" => Exists(o)'
    BY <1>1, <1>2, <2>3 DEF ListIsFresh, Onward
  <2>4. QED BY <1>2, <2>1, <2>2, <2>3 DEF ListIsFresh
<1>4. RebuildRepairs'
  BY <1>1, <1>2 DEF RebuildRepairs
<1>5. QED BY <1>3, <1>4

LEMMA RebuildStutter ==
  ListIsFresh /\ RebuildRepairs /\ UNCHANGED <<rebuild, object, shown>>
  => ListIsFresh' /\ RebuildRepairs'
  BY DEF ListIsFresh, RebuildRepairs, Exists

LEMMA EnqueueStep ==
  ASSUME ListIsFresh, Enqueue
  PROVE  ListIsFresh' /\ RebuildRepairs'
<1>1. rebuild' = [NoJob EXCEPT !.stage = "pending"] BY DEF Enqueue
<1>2. rebuild' = [stage |-> "pending", seen |-> [o \in Objects |-> "none"],
                  touched |-> {}, failed |-> {}]
  BY <1>1 DEF NoJob
<1>3. QED BY <1>2, TypedNone DEF ListIsFresh, RebuildRepairs, Typed

LEMMA FinishRebuildStep ==
  ASSUME FinishRebuild
  PROVE  ListIsFresh' /\ RebuildRepairs'
  BY TypedNone DEF FinishRebuild, NoJob, ListIsFresh, RebuildRepairs, Typed

LEMMA ListStep ==
  ASSUME NodesAreReal, ListIsFresh, List
  PROVE  ListIsFresh' /\ RebuildRepairs'
<1>1. /\ rebuild' = [rebuild EXCEPT !.stage = "register_objects", !.seen = object]
      /\ object' = object
  BY DEF List, audit
<1>2. /\ rebuild'.stage = "register_objects" /\ rebuild'.seen = object
      /\ rebuild' \in [stage : {"idle", "pending", "register_objects", "project_graph"},
                       seen : [Objects -> Statuses], touched : SUBSET Objects,
                       failed : SUBSET Objects]
  BY <1>1 DEF ListIsFresh, NodesAreReal, Typed
<1>3. Typed(rebuild'.seen) BY <1>2 DEF NodesAreReal
<1>4. QED BY <1>1, <1>2, <1>3 DEF ListIsFresh, RebuildRepairs, Exists

\* What was listed is written, and what was not has no node to be wrong.
LEMMA RegisterListedStep ==
  ASSUME NodesAreReal, ListIsFresh, NEW failed \in SUBSET Objects, RegisterListed(failed)
  PROVE  ListIsFresh' /\ RebuildRepairs'
<1>1. /\ rebuild' = [rebuild EXCEPT !.stage = "project_graph", !.failed = failed]
      /\ object' = object /\ rebuild.stage = "register_objects"
  BY DEF RegisterListed
<1>2. /\ rebuild'.stage = "project_graph" /\ rebuild'.seen = rebuild.seen
      /\ rebuild'.failed = failed /\ rebuild'.touched = rebuild.touched
      /\ rebuild' \in [stage : {"idle", "pending", "register_objects", "project_graph"},
                       seen : [Objects -> Statuses], touched : SUBSET Objects,
                       failed : SUBSET Objects]
  BY <1>1 DEF ListIsFresh
<1>3. /\ \A o \in Objects \ failed : rebuild.seen[o] # "none" => shown'[o] = rebuild.seen[o]
      /\ \A o \in Objects : rebuild.seen[o] = "none" => shown'[o] = shown[o]
  BY OnwardListed
<1>4. ASSUME NEW o \in Objects \ (rebuild.touched \cup failed) PROVE shown'[o] = object[o]
  <2>1. rebuild.seen[o] = object[o] BY <1>1 DEF ListIsFresh
  <2>2. object[o] = "none" => shown[o] = "none" BY DEF NodesAreReal, Shown, Exists
  <2>3. QED BY <1>3, <2>1, <2>2
<1>5. ListIsFresh'
  BY <1>1, <1>2 DEF ListIsFresh, Exists
<1>6. QED BY <1>1, <1>2, <1>4, <1>5 DEF RebuildRepairs

-----------------------------------------------------------------------------
(* The backfill                                                            *)

LEMMA RowQuiet ==
  ASSUME StagesReach, BackfillReaches, Onward, UNCHANGED <<row, script>>
  PROVE  StagesReach' /\ BackfillReaches'
<1>1. \A o \in row.due : o \in NodesOnly /\ o \in Objects
  BY TablesDiffer DEF StagesReach
<1>2. \A o \in row.due : Exists(o)' /\ (Shown(o) => Shown(o)')
  BY <1>1 DEF StagesReach, Onward
<1>3. QED BY <1>2 DEF StagesReach, BackfillReaches

LEMMA StartStep ==
  ASSUME StagesReach, BackfillReaches, StartBackfill
  PROVE  StagesReach' /\ BackfillReaches'
<1>0. Stages \in Nat /\ Stages >= 2 BY ProvenanceAssumption DEF ProvenanceAssumption
<1>1. PICK done \in 0..Stages :
        /\ done = IF row.status = "succeeded" THEN Stages ELSE row.stored
        /\ script' = [at |-> "stages", wrote |-> "no", done |-> done]
  BY <1>0 DEF StartBackfill, StagesReach
<1>2. PICK due \in SUBSET NodesOnly :
        /\ \A o \in due : Exists(o)
        /\ row.status # "none" => due = row.due
        /\ row' = [row EXCEPT !.due = due]
  <2>1. CASE row.status = "none"
    BY <2>1 DEF StartBackfill
  <2>2. CASE row.status # "none"
    <3>1. row' = [row EXCEPT !.due = row.due] BY <2>2 DEF StartBackfill, StagesReach
    <3>2. QED BY <2>2, <3>1 DEF StagesReach
  <2>3. QED BY <2>1, <2>2
<1>3. UNCHANGED <<object, shown>> BY DEF StartBackfill, audit
<1>4. /\ row'.status = row.status /\ row'.stored = row.stored /\ row'.due = due
      /\ row' \in [status : {"none", "running", "failed", "succeeded"}, stored : 0..Stages,
                   progress : 0..Stages, due : SUBSET NodesOnly]
      /\ script'.at = "stages" /\ script'.done = done
      /\ script' \in [at : {"idle", "stages"}, done : 0..Stages, wrote : {"yes", "no"}]
  BY <1>1, <1>2 DEF StagesReach
<1>5. \A o \in due : Exists(o)' /\ Shown(o)' = Shown(o)
  BY <1>2, <1>3 DEF Exists, Shown
<1>6. done > 0 => \A o \in due : Shown(o)
  BY <1>0, <1>1, <1>2 DEF StagesReach, BackfillReaches
<1>7. row.stored > 0 \/ row.status = "succeeded" => \A o \in due : Shown(o)
  BY <1>2 DEF StagesReach, BackfillReaches
<1>8. row.status = "none" => row.stored = 0 BY DEF StagesReach
<1>9. QED BY <1>4, <1>5, <1>6, <1>7, <1>8 DEF StagesReach, BackfillReaches

\* A stage of a script, whether it goes on or fails: what the row says is stored has
\* been registered.
LEMMA StageStep ==
  ASSUME NodesAreReal, StagesReach, BackfillReaches, script.at = "stages", Onward,
         NEW done \in 0..Stages, NEW stored \in 0..Stages, NEW progress \in 0..Stages,
         NEW status \in {"running", "failed", "succeeded"},
         row' = [row EXCEPT !.status = status, !.stored = stored, !.progress = progress],
         \/ script' = NoScript
         \/ script' = [script EXCEPT !.done = done, !.wrote = "yes"],
         \/ \A o \in row.due : Shown(o)'
         \/ script'.done = 0 /\ stored = 0 /\ status # "succeeded"
  PROVE  StagesReach' /\ BackfillReaches'
<1>1. /\ row'.status = status /\ row'.stored = stored /\ row'.due = row.due
      /\ row' \in [status : {"none", "running", "failed", "succeeded"}, stored : 0..Stages,
                   progress : 0..Stages, due : SUBSET NodesOnly]
  BY DEF StagesReach
<1>2. /\ script' \in [at : {"idle", "stages"}, done : 0..Stages, wrote : {"yes", "no"}]
      /\ script'.at = "idle" => script' = NoScript
      /\ script'.at = "stages" => script'.done = done
  <2>1. CASE script' = NoScript
    BY <2>1, ProvenanceAssumption DEF NoScript, ProvenanceAssumption
  <2>2. CASE script' = [script EXCEPT !.done = done, !.wrote = "yes"]
    <3>1. script'.at = "stages" /\ script'.done = done BY <2>2 DEF StagesReach
    <3>2. script' \in [at : {"idle", "stages"}, done : 0..Stages, wrote : {"yes", "no"}]
      BY <2>2 DEF StagesReach
    <3>3. QED BY <3>1, <3>2
  <2>3. QED BY <2>1, <2>2
<1>3. \A o \in row.due : Exists(o)'
  BY TablesDiffer DEF StagesReach, Onward
<1>4. BackfillReaches'
  BY <1>1 DEF BackfillReaches
<1>5. script'.at = "stages" /\ script'.done > 0 => \A o \in row'.due : Shown(o)'
  BY <1>1
<1>6. status # "none" OBVIOUS
<1>7. QED BY <1>1, <1>2, <1>3, <1>4, <1>5, <1>6 DEF StagesReach

LEMMA NodesInPrefixes == \A nodes \in StagePrefixes : nodes \in SUBSET NodesOnly
  BY TablesDiffer DEF StagePrefixes, Named

LEMMA BackfillStageStep ==
  ASSUME NodesAreReal, StagesReach, BackfillReaches, BackfillStage
  PROVE  Onward /\ StagesReach' /\ BackfillReaches'
<1>0. Stages \in Nat BY ProvenanceAssumption DEF ProvenanceAssumption
<1>1. PICK done, stored, status :
        /\ done = script.done + 1 /\ stored = Stored(done)
        /\ status = IF row.status = "none" THEN "running" ELSE row.status
        /\ row' = [row EXCEPT !.status = status, !.stored = stored, !.progress = done]
        /\ script' = [script EXCEPT !.done = done, !.wrote = "yes"]
  BY DEF BackfillStage, StagesReach
<1>2. /\ script.at = "stages" /\ script.done < Stages /\ object' = object
      /\ shown' = IF script.done < 2 THEN Backfilled(NodesOnly) ELSE shown
  BY DEF BackfillStage
<1>3. done \in 0..Stages /\ stored \in 0..Stages /\ status \in {"running", "failed", "succeeded"}
  BY <1>0, <1>1, <1>2 DEF StagesReach, Stored
<1>4. Onward /\ \A o \in row.due : Shown(o)'
  <2>1. CASE script.done < 2
    <3>1. Onward /\ \A o \in NodesOnly : Exists(o) => Shown(o)'
      BY <1>2, <2>1, OnwardBackfilled
    <3>2. QED BY <3>1 DEF StagesReach
  <2>2. CASE ~(script.done < 2)
    <3>1. script.done > 0 BY <1>0, <2>2 DEF StagesReach
    <3>2. Onward BY <1>2, <2>2, OnwardStutter
    <3>3. \A o \in row.due : Shown(o) BY <1>2, <3>1 DEF StagesReach
    <3>4. QED BY <1>2, <2>2, <3>2, <3>3 DEF Shown
  <2>3. QED BY <2>1, <2>2
<1>5. QED BY <1>1, <1>2, <1>3, <1>4, StageStep

LEMMA BackfillFailsStep ==
  ASSUME NodesAreReal, StagesReach, BackfillReaches, NEW nodes \in StagePrefixes,
         BackfillFails(nodes)
  PROVE  Onward /\ StagesReach' /\ BackfillReaches'
<1>0. Stages \in Nat BY ProvenanceAssumption DEF ProvenanceAssumption
<1>1. PICK stored :
        /\ stored = Stored(script.done) /\ script' = NoScript
        /\ row' = [row EXCEPT !.status = "failed", !.stored = stored]
  BY DEF BackfillFails, FailAfter
<1>2. /\ script.at = "stages" /\ object' = object
      /\ shown' = IF script.done < 2 THEN Backfilled(nodes) ELSE shown
  BY DEF BackfillFails, FailAfter
<1>3. stored \in 0..Stages
  BY <1>1 DEF StagesReach, Stored
<1>4. Onward
  BY <1>2, OnwardBackfilled, OnwardStutter, NodesInPrefixes
<1>5. (\A o \in row.due : Shown(o)) \/ stored = 0
  <2>1. CASE script.done > 0 BY <1>2, <2>1 DEF StagesReach
  <2>2. CASE script.done = 0 BY <1>1, <2>2 DEF StagesReach, BackfillReaches, Stored
  <2>3. QED BY <2>1, <2>2 DEF StagesReach
<1>6. (\A o \in row.due : Shown(o)') \/ stored = 0
  BY <1>4, <1>5 DEF Onward, StagesReach
<1>7. PICK progress \in 0..Stages, status \in {"running", "failed", "succeeded"} :
        /\ status = "failed"
        /\ row' = [row EXCEPT !.status = status, !.stored = stored, !.progress = progress]
  <2>1. row' = [row EXCEPT !.status = "failed", !.stored = stored, !.progress = row.progress]
    BY <1>1 DEF StagesReach
  <2>2. QED BY <2>1 DEF StagesReach
<1>8. /\ 0 \in 0..Stages
      /\ \/ \A o \in row.due : Shown(o)'
         \/ script'.done = 0 /\ stored = 0 /\ status # "succeeded"
  BY <1>0, <1>1, <1>6, <1>7 DEF NoScript
<1>9. StagesReach' /\ BackfillReaches'
  BY <1>1, <1>2, <1>3, <1>4, <1>7, <1>8, StageStep
<1>10. QED BY <1>4, <1>9

LEMMA FinishBackfillStep ==
  ASSUME NodesAreReal, StagesReach, BackfillReaches, FinishBackfill
  PROVE  Onward /\ StagesReach' /\ BackfillReaches'
<1>0. Stages \in Nat /\ Stages >= 2 BY ProvenanceAssumption DEF ProvenanceAssumption
<1>1. PICK stored :
        /\ stored = Stored(Stages) /\ script' = NoScript
        /\ row' = [row EXCEPT !.status = "succeeded", !.progress = Stages, !.stored = stored]
  BY DEF FinishBackfill
<1>2. /\ script.at = "stages" /\ script.done = Stages /\ UNCHANGED <<object, shown>>
  BY DEF FinishBackfill, audit
<1>3. stored \in 0..Stages /\ Stages \in 0..Stages
  BY <1>0, <1>1 DEF StagesReach, Stored
<1>4. Onward BY <1>2, OnwardStutter
<1>5. \A o \in row.due : Shown(o)'
  BY <1>0, <1>2 DEF StagesReach, Shown
<1>6. row' = [row EXCEPT !.status = "succeeded", !.stored = stored, !.progress = Stages]
  BY <1>1 DEF StagesReach
<1>7. StagesReach' /\ BackfillReaches'
  BY <1>1, <1>2, <1>3, <1>4, <1>5, <1>6, StageStep
<1>8. QED BY <1>4, <1>7

LEMMA CrashStep ==
  ASSUME NodesAreReal, StagesReach, BackfillReaches, Crash
  PROVE  Onward /\ StagesReach' /\ BackfillReaches'
<1>0. Stages \in Nat BY ProvenanceAssumption DEF ProvenanceAssumption
<1>1. UNCHANGED <<object, shown>> /\ script' = NoScript
  BY DEF Crash, audit
<1>2. Onward BY <1>1, OnwardStutter
<1>3. CASE row.status = "none"
  <2>1. row' = NoRow BY <1>3 DEF Crash
  <2>2. StagesReach' BY <1>0, <1>1, <2>1 DEF StagesReach, NoRow, NoScript
  <2>3. BackfillReaches' BY <2>1 DEF BackfillReaches, NoRow
  <2>4. QED BY <1>2, <2>2, <2>3
<1>4. CASE row.status # "none"
  <2>1. row' = row BY <1>4 DEF Crash
  <2>2. \A o \in row.due : Exists(o)' /\ (Shown(o) => Shown(o)')
    BY <1>1 DEF StagesReach, Exists, Shown
  <2>3. QED BY <1>0, <1>1, <1>2, <1>4, <2>1, <2>2 DEF StagesReach, BackfillReaches, NoScript
<1>5. QED BY <1>2, <1>3, <1>4

-----------------------------------------------------------------------------
(* Verdicts                                                                *)

\* Edges into the conclusion only become more.
LEMMA EvidenceGrows ==
  ASSUME EvidenceBacked, object'["validation"] = object["validation"], edges \subseteq edges',
         bare' = "no" => bare = "no"
  PROVE  EvidenceBacked'
<1>1. Into(edges) \subseteq Into(edges') BY DEF Into
<1>2. QED BY <1>1 DEF EvidenceBacked

LEMMA VerifyVerdicts ==
  ASSUME EvidenceBacked, NEW as \in SUBSET Anchors, NEW firm \in SUBSET Stances,
         NEW counted \in SUBSET Stances, NEW web, Verification(as, firm, counted, web)
  PROVE  EvidenceBacked' /\ VerdictsAgree'
<1>1. firm \subseteq Into(edges')
  <2>1. \A s \in firm : <<"claim", s, "review">> \in edges' BY DEF Verification
  <2>2. PICK all : all = edges' OBVIOUS
  <2>3. ASSUME NEW s \in firm PROVE s \in Into(all)
    <3>1. PICK e \in all : e = <<"claim", s, "review">> BY <2>1, <2>2
    <3>2. e[2] = s /\ e[3] = "review" BY <3>1
    <3>3. QED BY <3>2 DEF Into
  <2>4. QED BY <2>2, <2>3
<1>2. CASE firm # {}
  <2>1. object'["validation"] = Validated(firm) BY <1>2 DEF Verification
  <2>2. EvidenceBacked'
    BY <1>1, <2>1 DEF EvidenceBacked, Validated
  <2>3. /\ object'["claim"] = Verdict(counted, web)
        /\ did' = "anchored" => firm \subseteq counted
    BY DEF Verification
  <2>4. CASE did' = "anchored"
    <3>1. VerdictsAgree' BY <2>1, <2>3, <2>4 DEF VerdictsAgree, Validated, Verdict
    <3>2. QED BY <2>2, <3>1
  <2>5. CASE did' # "anchored"
    <3>1. VerdictsAgree' BY <2>5 DEF VerdictsAgree
    <3>2. QED BY <2>2, <3>1
  <2>6. QED BY <2>4, <2>5
<1>3. CASE firm = {}
  <2>1. did' # "anchored" BY <1>3 DEF Verification
  <2>2. VerdictsAgree' BY <2>1 DEF VerdictsAgree
  <2>3. CASE Exists("review")
    <3>1. edges \subseteq edges' /\ bare' = bare /\ object'["validation"] = object["validation"]
      BY <1>3, <2>3 DEF Verification
    <3>2. QED BY <2>2, <3>1, EvidenceGrows
  <2>4. CASE ~Exists("review")
    <3>1. bare' = "yes" BY <1>3, <2>4 DEF Verification
    <3>2. QED BY <2>2, <3>1 DEF EvidenceBacked
  <2>5. QED BY <2>3, <2>4
<1>4. QED BY <1>2, <1>3

\* A link computes the validation from what leads into the conclusion from now on.
LEMMA LinkVerdicts ==
  ASSUME NodesAreReal, EvidenceBacked, NEW o, NEW r, Link(o, r)
  PROVE  EvidenceBacked' /\ VerdictsAgree'
<1>1. PICK into :
        /\ into = Into(edges') /\ edges \subseteq edges'
        /\ object' = [object EXCEPT !["validation"] = Recomputed(into)]
        /\ bare' = IF into \cap Stances # {} \/ into = {} THEN "no" ELSE bare
        /\ did' = "other"
  BY DEF Link
<1>2. object'["validation"] = Recomputed(into)
  BY <1>1, TablesDiffer DEF NodesAreReal, Typed, Named
<1>3. VerdictsAgree' BY <1>1 DEF VerdictsAgree
<1>4. CASE into \cap Stances # {}
  <2>1. "supports" \in into \/ "refutes" \in into \/ "qualifies" \in into
    BY <1>4 DEF Stances
  <2>2. QED BY <1>1, <1>2, <1>3, <2>1 DEF EvidenceBacked, Recomputed
<1>5. CASE into = {}
  BY <1>1, <1>2, <1>3, <1>5 DEF EvidenceBacked, Recomputed
<1>6. CASE into # {} /\ into \cap Stances = {}
  <2>1. object'["validation"] = object["validation"]
    BY <1>2, <1>6 DEF Recomputed, Stances
  <2>2. bare' = bare BY <1>1, <1>6
  <2>3. QED BY <1>1, <1>3, <2>1, <2>2, EvidenceGrows
<1>7. QED BY <1>4, <1>5, <1>6

\* The edges and labels of an operation.
LEMMA VerifyBounded ==
  ASSUME Bounded, NEW as \in SUBSET Anchors, NEW firm \in SUBSET Stances, NEW counted, NEW web,
         Verification(as, firm, counted, web), Ask
  PROVE  Bounded'
<1>1. \A a \in as : <<a, "derived_from", "claim">>
                         \in Objects \X Relations \X {"claim", "review", "event"}
  BY TablesDiffer DEF Relations
<1>2. \A s \in firm : <<"claim", s, "review">>
                         \in Objects \X Relations \X {"claim", "review", "event"}
  BY TablesDiffer DEF Relations, Named
<1>3. edges' \subseteq (Objects \X Relations \X {"claim", "review", "event"})
  <2>1. edges' = edges \cup {<<a, "derived_from", "claim">> : a \in as}
                       \cup {<<"claim", s, "review">> : s \in firm}
    BY DEF Verification
  <2>2. QED BY <1>1, <1>2, <2>1 DEF Bounded
<1>4. bare' \in {"yes", "no"} /\ did' \in {"anchored", "uncounted", "bare", "other"}
  BY DEF Verification, Bounded
<1>5. asks' \in 0..MaxAsks /\ faults' = faults
  BY ProvenanceAssumption DEF Ask, Bounded, ProvenanceAssumption
<1>6. QED BY <1>3, <1>4, <1>5 DEF Bounded

LEMMA AskBounded ==
  ASSUME Bounded, Ask, edges' \subseteq (Objects \X Relations \X {"claim", "review", "event"}),
         bare' \in {"yes", "no"}, did' = "other"
  PROVE  Bounded'
  BY ProvenanceAssumption DEF Ask, Bounded, ProvenanceAssumption

-----------------------------------------------------------------------------
(* Every step                                                              *)

\* An operation on the claim, its conclusion, an event or an anchor.
LEMMA OperationStep ==
  ASSUME IInv, Onward, Touch, UNCHANGED <<row, script>>, Bounded', EvidenceBacked',
         VerdictsAgree'
  PROVE  IInv'
<1>1. ListIsFresh' /\ RebuildRepairs' BY TouchStep DEF IInv
<1>2. StagesReach' /\ BackfillReaches' BY RowQuiet DEF IInv
<1>3. QED BY <1>1, <1>2 DEF IInv, Onward

LEMMA OnClaimStep == IInv /\ OnClaim => IInv'
<1> SUFFICES ASSUME IInv, OnClaim PROVE IInv'
  OBVIOUS
<1>0. NodesAreReal /\ Bounded /\ EvidenceBacked BY DEF IInv
<1>1. CASE CreateClaim \/ \E s \in ClaimStatus : SetClaimStatus(s)
  <2>1. Onward BY <1>0, <1>1, OnwardClaim
  <2>2. /\ UNCHANGED <<row, script, edges, bare, faults>> /\ Touch /\ did' = "other"
        /\ asks' = asks \/ Ask
    BY <1>1 DEF CreateClaim, SetClaimStatus, Ask
  <2>3. object'["validation"] = object["validation"]
    BY <1>0, <1>1, TablesDiffer DEF CreateClaim, SetClaimStatus, NodesAreReal, Typed, Named
  <2>4. EvidenceBacked' BY <1>0, <2>2, <2>3, EvidenceGrows
  <2>5. VerdictsAgree' BY <2>2 DEF VerdictsAgree
  <2>6. Bounded' BY <1>0, <2>2, AskBounded DEF Bounded
  <2>7. QED BY <2>1, <2>2, <2>4, <2>5, <2>6, OperationStep
<1>2. ASSUME NEW cited \in CitedJudgments, NEW counted \in CountedStances, NEW web \in BOOLEAN,
             Verify(cited, counted, web)
      PROVE  IInv'
  <2>1. PICK as \in SUBSET Anchors, firm \in SUBSET Stances :
           Verification(as, firm, counted, web) /\ counted \in SUBSET Stances
    BY <1>0, <1>2, VerifyIs DEF CountedStances
  <2>2. Onward BY <1>0, <2>1, OnwardVerify
  <2>3. EvidenceBacked' /\ VerdictsAgree' BY <1>0, <2>1, VerifyVerdicts
  <2>4. Touch /\ Ask BY <1>2 DEF Verify
  <2>5. Bounded' BY <1>0, <2>1, <2>4, VerifyBounded
  <2>6. UNCHANGED <<row, script>> BY <2>4 DEF Ask
  <2>7. QED BY <2>2, <2>3, <2>4, <2>5, <2>6, OperationStep
<1>3. ASSUME NEW r \in Review, NEW v \in Validation, CreateConclusion(r, v) PROVE IInv'
  <2>1. Onward /\ (Exists("review") => object' = object) BY <1>0, <1>3, OnwardConclusion
  <2>2. /\ Ask /\ Touch /\ edges' = edges /\ did' = "other"
        /\ bare' = IF Exists("review") THEN bare ELSE "yes"
    BY <1>3 DEF CreateConclusion
  <2>3. EvidenceBacked'
    <3>1. CASE Exists("review") BY <1>0, <2>1, <2>2, <3>1, EvidenceGrows
    <3>2. CASE ~Exists("review") BY <2>2, <3>2 DEF EvidenceBacked
    <3>3. QED BY <3>1, <3>2
  <2>4. VerdictsAgree' BY <2>2 DEF VerdictsAgree
  <2>5. Bounded' BY <1>0, <2>2, AskBounded DEF Bounded
  <2>6. UNCHANGED <<row, script>> BY <2>2 DEF Ask
  <2>7. QED BY <2>1, <2>2, <2>3, <2>4, <2>5, <2>6, OperationStep
<1>4. QED BY <1>1, <1>2, <1>3 DEF OnClaim

LEMMA UnroutedStep == IInv /\ Unrouted => IInv'
<1> SUFFICES ASSUME IInv, Unrouted PROVE IInv'
  OBVIOUS
<1>0. NodesAreReal /\ Bounded /\ EvidenceBacked BY DEF IInv
<1>1. ASSUME NEW o \in {"claim", "event"} \cup Anchors, NEW r \in Relations, Link(o, r)
      PROVE  IInv'
  <2>1. Onward BY <1>0, <1>1, OnwardLink
  <2>2. EvidenceBacked' /\ VerdictsAgree' BY <1>0, <1>1, LinkVerdicts
  <2>3. Ask /\ Touch /\ did' = "other" /\ bare' \in {"yes", "no"}
    BY <1>0, <1>1 DEF Link, Bounded
  <2>4. edges' \subseteq (Objects \X Relations \X {"claim", "review", "event"})
    <3>1. <<o, r, "review">> \in Objects \X Relations \X {"claim", "review", "event"}
      BY TablesDiffer DEF Named
    <3>2. edges' = edges \/ edges' = edges \cup {<<o, r, "review">>} BY <1>1 DEF Link
    <3>3. QED BY <1>0, <3>1, <3>2 DEF Bounded
  <2>5. Bounded' BY <1>0, <2>3, <2>4, AskBounded
  <2>6. UNCHANGED <<row, script>> BY <2>3 DEF Ask
  <2>7. QED BY <2>1, <2>2, <2>3, <2>5, <2>6, OperationStep
<1>2. ASSUME NEW cited \in SUBSET Anchors, Extract(cited) PROVE IInv'
  <2>1. Onward BY <1>0, <1>2, OnwardExtract
  <2>2. /\ Ask /\ Touch /\ did' = "other" /\ bare' = bare /\ object' = Matched
        /\ edges' = edges \cup {<<a, "derived_from", "event">> : a \in cited}
    BY <1>2 DEF Extract
  <2>3. object'["validation"] = object["validation"]
    BY <1>0, <2>2, TablesDiffer DEF Matched, NodesAreReal, Typed, Named
  <2>4. EvidenceBacked' BY <1>0, <2>2, <2>3, EvidenceGrows
  <2>5. VerdictsAgree' BY <2>2 DEF VerdictsAgree
  <2>6. edges' \subseteq (Objects \X Relations \X {"claim", "review", "event"})
    <3>1. \A a \in cited : <<a, "derived_from", "event">>
                             \in Objects \X Relations \X {"claim", "review", "event"}
      BY TablesDiffer DEF Relations
    <3>2. QED BY <1>0, <2>2, <3>1 DEF Bounded
  <2>7. Bounded' BY <1>0, <2>2, <2>6, AskBounded DEF Bounded
  <2>8. UNCHANGED <<row, script>> BY <2>2 DEF Ask
  <2>9. QED BY <2>1, <2>2, <2>4, <2>5, <2>7, <2>8, OperationStep
<1>3. ASSUME NEW a \in Anchors, MarkStale(a) PROVE IInv'
  <2>1. Onward BY <1>0, <1>3, OnwardStale
  <2>2. /\ Ask /\ Touch /\ did' = "other" /\ UNCHANGED <<edges, bare>>
        /\ object' = [object EXCEPT ![a] = "stale"]
    BY <1>3 DEF MarkStale
  <2>3. object'["validation"] = object["validation"]
    BY <1>0, <2>2, TablesDiffer DEF NodesAreReal, Typed, Named
  <2>4. EvidenceBacked' BY <1>0, <2>2, <2>3, EvidenceGrows
  <2>5. VerdictsAgree' BY <2>2 DEF VerdictsAgree
  <2>6. Bounded' BY <1>0, <2>2, AskBounded DEF Bounded
  <2>7. UNCHANGED <<row, script>> BY <2>2 DEF Ask
  <2>8. QED BY <2>1, <2>2, <2>4, <2>5, <2>6, <2>7, OperationStep
<1>4. QED BY <1>1, <1>2, <1>3 DEF Unrouted

\* The rebuild and the backfill leave the objects, the edges and the verdicts alone.
LEMMA VerdictsStay ==
  ASSUME EvidenceBacked, VerdictsAgree, UNCHANGED <<object, edges, bare, did>>
  PROVE  EvidenceBacked' /\ VerdictsAgree'
<1>1. EvidenceBacked' BY EvidenceGrows
<1>2. QED BY <1>1 DEF VerdictsAgree

LEMMA JobsBounded ==
  ASSUME Bounded, UNCHANGED <<edges, bare, did>>,
         asks' = asks \/ (asks < MaxAsks /\ asks' = asks + 1),
         faults' = faults \/ (faults < MaxFaults /\ faults' = faults + 1)
  PROVE  Bounded'
  BY ProvenanceAssumption DEF Bounded, ProvenanceAssumption

LEMMA RebuildStep == IInv /\ Rebuild => IInv'
<1> SUFFICES ASSUME IInv, Rebuild PROVE IInv'
  OBVIOUS
<1>0. /\ NodesAreReal /\ ListIsFresh /\ Bounded /\ EvidenceBacked /\ VerdictsAgree
      /\ StagesReach /\ BackfillReaches
  BY DEF IInv
<1>1. PICK failed \in SUBSET Objects :
         Enqueue \/ List \/ FinishRebuild \/ RegisterListed(failed)
  <2>1. \A o \in NodesOnly : OfNode(o) \in SUBSET Objects
    BY TablesDiffer DEF OfNode, Named
  <2>2. QED BY <2>1 DEF Rebuild
<1>2. Onward
  <2>1. CASE Enqueue \/ List \/ FinishRebuild
    BY <1>0, <2>1, OnwardStutter DEF Enqueue, List, FinishRebuild, audit
  <2>2. CASE RegisterListed(failed) BY <1>0, <2>2, OnwardListed
  <2>3. QED BY <1>1, <2>1, <2>2
<1>3. ListIsFresh' /\ RebuildRepairs'
  BY <1>0, <1>1, EnqueueStep, ListStep, FinishRebuildStep, RegisterListedStep
<1>4. /\ UNCHANGED <<object, edges, bare, did, row, script>>
      /\ asks' = asks \/ (asks < MaxAsks /\ asks' = asks + 1)
      /\ faults' = faults \/ (faults < MaxFaults /\ faults' = faults + 1)
  BY <1>1 DEF Enqueue, Ask, List, FinishRebuild, RegisterListed, audit
<1>5. EvidenceBacked' /\ VerdictsAgree' BY <1>0, <1>4, VerdictsStay
<1>6. Bounded' BY <1>0, <1>4, JobsBounded
<1>7. StagesReach' /\ BackfillReaches' BY <1>0, <1>2, <1>4, RowQuiet
<1>8. QED BY <1>2, <1>3, <1>5, <1>6, <1>7 DEF IInv, Onward

LEMMA BackfillStep == IInv /\ Backfill => IInv'
<1> SUFFICES ASSUME IInv, Backfill PROVE IInv'
  OBVIOUS
<1>0. /\ NodesAreReal /\ ListIsFresh /\ Bounded /\ EvidenceBacked /\ VerdictsAgree
      /\ StagesReach /\ BackfillReaches /\ RebuildRepairs
  BY DEF IInv
<1>1. /\ UNCHANGED <<object, edges, bare, did>>
      /\ asks' = asks \/ (asks < MaxAsks /\ asks' = asks + 1)
      /\ faults' = faults \/ (faults < MaxFaults /\ faults' = faults + 1)
      /\ Touch \/ UNCHANGED <<rebuild, shown>>
  BY DEF Backfill, StartBackfill, BackfillStage, FinishBackfill, Crash, BackfillFails, FailAfter,
     audit
<1>2. Onward /\ StagesReach' /\ BackfillReaches'
  <2>1. CASE StartBackfill
    <3>1. Onward BY <1>0, <2>1, OnwardStutter DEF StartBackfill, audit
    <3>2. QED BY <1>0, <2>1, <3>1, StartStep
  <2>2. CASE BackfillStage BY <1>0, <2>2, BackfillStageStep
  <2>3. CASE FinishBackfill BY <1>0, <2>3, FinishBackfillStep
  <2>4. CASE Crash BY <1>0, <2>4, CrashStep
  <2>5. ASSUME NEW nodes \in StagePrefixes, BackfillFails(nodes)
        PROVE  Onward /\ StagesReach' /\ BackfillReaches'
    BY <1>0, <2>5, BackfillFailsStep
  <2>6. QED BY <2>1, <2>2, <2>3, <2>4, <2>5 DEF Backfill
<1>3. ListIsFresh' /\ RebuildRepairs'
  BY <1>0, <1>1, <1>2, TouchStep, RebuildStutter
<1>4. EvidenceBacked' /\ VerdictsAgree' BY <1>0, <1>1, VerdictsStay
<1>5. Bounded' BY <1>0, <1>1, JobsBounded
<1>6. QED BY <1>2, <1>3, <1>4, <1>5 DEF IInv, Onward

LEMMA StepInv == IInv /\ [Next]_vars => IInv'
<1>1. ASSUME IInv, UNCHANGED vars PROVE IInv'
  <2>1. UNCHANGED <<object, shown, edges, bare, did, rebuild, row, script, asks, faults>>
    BY <1>1 DEF vars, audit, jobs
  <2>2. Onward BY <1>1, <2>1, OnwardStutter DEF IInv
  <2>3. ListIsFresh' /\ RebuildRepairs' BY <1>1, <2>1, RebuildStutter DEF IInv
  <2>4. StagesReach' /\ BackfillReaches' BY <1>1, <2>1, <2>2, RowQuiet DEF IInv
  <2>5. EvidenceBacked' /\ VerdictsAgree' BY <1>1, <2>1, VerdictsStay DEF IInv
  <2>6. Bounded' BY <1>1, <2>1 DEF IInv, Bounded
  <2>7. QED BY <2>2, <2>3, <2>4, <2>5, <2>6 DEF IInv, Onward
<1>2. QED BY <1>1, OnClaimStep, UnroutedStep, RebuildStep, BackfillStep DEF Next

LEMMA Invariant == Spec => []IInv
  BY InitInv, StepInv, PTL DEF Spec

-----------------------------------------------------------------------------

\* Objects, nodes, edges, the rebuild and the backfill's row keep their types.
THEOREM AuditTyped == Spec => []TypeOK
  BY Invariant, InvTyped, PTL

\* Nothing has a trace node before it exists, and a conclusion has both its statuses or
\* none: registering never runs ahead of the table it is about.
THEOREM NodesHaveObjects == Spec => []NodesAreReal
<1>1. IInv => NodesAreReal BY DEF IInv
<1>2. QED BY <1>1, Invariant, PTL

\* However verifications, links and conclusions follow one another: what a conclusion
\* says is in the edges that lead into it, unless it was made without an anchor.
THEOREM ConclusionsRestOnEdges == Spec => []EvidenceBacked
<1>1. IInv => EvidenceBacked BY DEF IInv
<1>2. QED BY <1>1, Invariant, PTL

\* verify computes the claim's verdict from the judgments that _judgment_matches accepts
\* and the conclusion's validation from the anchored ones that _find_candidate accepts.
\* When the former has every stance of the latter, which only the form
\* document_chunk:<id> can prevent, the two never contradict each other.
THEOREM VerdictsDoNotClash == Spec => []VerdictsAgree
<1>1. IInv => VerdictsAgree BY DEF IInv
<1>2. QED BY <1>1, Invariant, PTL

\* A rebuild that lists statuses and writes them later leaves no node stale but those it
\* counts as failed and those of objects that others have changed meanwhile.
THEOREM RebuildIsRight == Spec => []RebuildRepairs
<1>1. IInv => RebuildRepairs BY DEF IInv
<1>2. QED BY <1>1, Invariant, PTL

\* Wherever the script is killed or fails, and whichever checkpoint its row keeps: it
\* never passes over the stages that register with something due left out.
THEOREM BackfillIsComplete == Spec => []BackfillReaches
<1>1. IInv => BackfillReaches BY DEF IInv
<1>2. QED BY <1>1, Invariant, PTL

-----------------------------------------------------------------------------
(* Quotes and their places                                                 *)

\* The smaller of two numbers.
LEMMA MinOfTwo ==
  ASSUME NEW a \in Int, NEW b \in Int
  PROVE  Min({a, b}) = IF a < b THEN a ELSE b
  BY DEF Min

\* A slice is the characters between two places, as far as the text goes.
LEMMA SliceIs ==
  ASSUME NEW A, NEW text \in Seq(A), NEW from \in Nat, NEW to \in Nat
  PROVE  LET end == IF to < Len(text) THEN to ELSE Len(text) IN
         /\ Slice(text, from, to) \in Seq(A)
         /\ Len(Slice(text, from, to)) = IF from < end THEN end - from ELSE 0
         /\ \A i \in 1..Len(Slice(text, from, to)) : Slice(text, from, to)[i] = text[from + i]
<1> DEFINE end == IF to < Len(text) THEN to ELSE Len(text)
<1>1. end \in Nat /\ end <= Len(text) OBVIOUS
<1>2. Min({to, Len(text)}) = end BY MinOfTwo
<1>3. Slice(text, from, to) = SubSeq(text, from + 1, end) BY <1>2, Zenon DEF Slice
<1> HIDE DEF end
<1>4. QED BY <1>1, <1>3, SubSeqProperties DEF end

\* A text that is cut behind its end is whole.
LEMMA WholeSlice ==
  ASSUME NEW A, NEW text \in Seq(A), NEW to \in Nat, Len(text) <= to
  PROVE  Slice(text, 0, to) = text
<1>1. Len(Slice(text, 0, to)) = Len(text) BY SliceIs
<1>2. QED BY <1>1, SliceIs, SeqEqual

\* Where a quote is placed, it stands.
LEMMA PlaceIs ==
  ASSUME NEW A, NEW quote \in Seq(A), NEW text \in Seq(A), NEW i \in Places(quote, text)
  PROVE  /\ i \in Nat /\ i + Len(quote) <= Len(text)
         /\ Slice(text, i, i + Len(quote)) = quote
  BY DEF Places

\* What is sliced from a text has its place there.
LEMMA SliceIsPlaced ==
  ASSUME NEW A, NEW text \in Seq(A), NEW from \in Nat, NEW to \in Nat, NEW quote,
         quote # <<>>, Slice(text, from, to) = quote
  PROVE  /\ from < to /\ from \in Places(quote, text) /\ 0 \in Places(quote, quote)
<1> DEFINE end == IF to < Len(text) THEN to ELSE Len(text)
<1>1. quote \in Seq(A) /\ Len(quote) \in Nat \ {0} BY SliceIs
<1>2. from < end /\ Len(quote) = end - from BY <1>1, SliceIs
<1>3. Slice(text, from, from + Len(quote)) = quote
  <2>1. \A j \in 1..Len(quote) : quote[j] = text[from + j] BY SliceIs
  <2>2. Len(Slice(text, from, from + Len(quote))) = Len(quote) BY <1>1, <1>2, SliceIs
  <2>3. QED BY <1>1, <2>1, <2>2, SliceIs, SeqEqual
<1>4. Slice(quote, 0, Len(quote)) = quote BY <1>1, WholeSlice
<1>5. QED BY <1>1, <1>2, <1>3, <1>4 DEF Places

\* A quote has finitely many places, and the only one is the sole one.
LEMMA PlacesFinite ==
  ASSUME NEW A, NEW quote \in Seq(A), NEW text \in Seq(A)
  PROVE  IsFiniteSet(Places(quote, text))
<1>1. Places(quote, text) \subseteq 0..Len(text) BY DEF Places
<1>2. IsFiniteSet(0..Len(text)) BY FS_Interval
<1>3. QED BY <1>1, <1>2, FS_Subset

LEMMA SoleIs ==
  ASSUME NEW S, IsFiniteSet(S)
  PROVE  /\ \A x \in Sole(S) : S = {x}
         /\ \A x : S = {x} => Sole(S) = {x}
  BY FS_Singleton DEF Sole

\* What a text is made of.
Signs == Letters \cup {Break}

LEMMA LineIs == \A text \in Lines : text \in Seq(Signs) /\ Len(text) \in Nat \ {0} /\ text # <<>>
<1> TAKE text \in Lines
<1>1. PICK n \in 1..MaxText : text \in [1..n -> Signs] BY Zenon DEF Lines, Signs
<1>2. n \in Nat \ {0} BY EvidenceAssumption DEF EvidenceAssumption
<1>3. text \in Seq(Signs) /\ Len(text) = n BY <1>1, <1>2
<1>4. QED BY <1>2, <1>3

LEMMA WordIs ==
  \A text \in Words : text \in Seq(Signs) /\ Len(text) = 1 /\ text # <<>> /\ text[1] \in Letters
  BY DEF Words, Signs

LEMMA FieldIs ==
  \A text \in Words \cup {<<>>} :
     text \in Seq(Signs) /\ Len(text) \in Nat /\ (text # <<>> => Len(text) = 1)
  BY WordIs, EmptySeq

\* The service accepts what it is asked for, and whoever follows the locator finds it.
LEMMA SpanHolds ==
  ASSUME NEW source, source.kind # "item", source.says \in Seq(Signs),
         NEW from \in Nat, NEW to \in Nat, NEW quote,
         quote # <<>>, Slice(source.says, from, to) = quote
  PROVE  LET r == Request(source, Span(from, to), quote) IN Accepted(r) /\ Holds(r)
<1> DEFINE r == Request(source, Span(from, to), quote)
<1>1. /\ r.source = source /\ r.quote = quote
      /\ r.locator.type = "span" /\ r.locator.from = from /\ r.locator.to = to
  BY DEF Request, Span
<1> HIDE DEF r
<1>2. from < to /\ Places(quote, quote) # {} BY SliceIsPlaced
<1>3. Accepted(r) BY <1>1, <1>2 DEF Accepted, WellFormed, Matches, Says
<1>4. Found(r) = quote BY <1>1 DEF Found
<1>5. QED BY <1>1, <1>2, <1>3, <1>4 DEF Holds, r

LEMMA ClipHolds ==
  ASSUME NEW source, NEW times, NEW quote, quote # <<>>, Places(quote, Says(source)) # {}
  PROVE  LET r == Request(source, Clip(times), quote) IN
         /\ times[1] < times[2] => Accepted(r)
         /\ source.times = <<times[1], times[2]>> => Holds(r)
         /\ r.locator.type = "clip"
<1> DEFINE r == Request(source, Clip(times), quote)
<1>1. /\ r.source = source /\ r.quote = quote
      /\ r.locator.type = "clip" /\ r.locator.from = times[1] /\ r.locator.to = times[2]
  BY DEF Request, Clip
<1> HIDE DEF r
<1>2. times[1] < times[2] => Accepted(r) BY <1>1 DEF Accepted, WellFormed, Matches
<1>3. source.times = <<times[1], times[2]>> => Found(r) = Says(source) BY <1>1 DEF Found
<1>4. QED BY <1>1, <1>2, <1>3 DEF Holds, r

LEMMA RegionHolds ==
  ASSUME NEW source, NEW quote, quote # <<>>, Places(quote, Says(source)) # {}
  PROVE  LET r == Request(source, Region(source.page, source.box), quote) IN
         (source.box = "box" => Accepted(r)) /\ Holds(r)
<1> DEFINE r == Request(source, Region(source.page, source.box), quote)
<1>1. /\ r.source = source /\ r.quote = quote
      /\ r.locator.type = "region" /\ r.locator.page = source.page /\ r.locator.box = source.box
  BY DEF Request, Region
<1> HIDE DEF r
<1>2. source.box = "box" => Accepted(r) BY <1>1 DEF Accepted, WellFormed, Matches
<1>3. Found(r) = Says(source) BY <1>1 DEF Found
<1>4. QED BY <1>1, <1>2, <1>3 DEF Holds, r

LEMMA OtherHolds ==
  ASSUME NEW source, NEW quote, quote # <<>>, Places(quote, Says(source)) # {},
         NEW at \in {Image, Fragment(quote)}
  PROVE  LET r == Request(source, at, quote) IN Accepted(r) /\ Holds(r)
<1> DEFINE r == Request(source, at, quote)
<1>1. /\ r.source = source /\ r.quote = quote
      /\ \/ r.locator.type = "image"
         \/ r.locator.type = "fragment" /\ r.locator.quote = quote
  BY DEF Request, Image, Fragment
<1> HIDE DEF r
<1>2. Accepted(r) BY <1>1 DEF Accepted, WellFormed, Matches
<1>3. Found(r) = Says(source) BY <1>1 DEF Found
<1>4. QED BY <1>1, <1>2, <1>3 DEF Holds, r

LEMMA ChunkIs ==
  \A chunk \in Chunks :
     /\ chunk.kind = "chunk" /\ chunk.says \in Lines /\ Says(chunk) = chunk.says
     /\ chunk.video \in BOOLEAN /\ chunk.times \in {<<>>, <<0, 1>>, <<1, 1>>}
     /\ chunk.page \in {None, 1} /\ chunk.box \in {"none", "box", "odd"}
  BY DEF Chunks, Says

\* The times of a chunk, as a locator has them.
LEMMA TimesAre ==
  \A times \in {<<>>, <<0, 1>>, <<1, 1>>} :
     /\ times # <<>> => times = <<times[1], times[2]>>
     /\ Lasting(times) <=> times = <<0, 1>>
     /\ Lasting(times) => times # <<>> /\ times[1] < times[2]
<1> TAKE times \in {<<>>, <<0, 1>>, <<1, 1>>}
<1>1. CASE times = <<>> BY <1>1 DEF Lasting
<1>2. CASE times = <<0, 1>> BY <1>2 DEF Lasting
<1>3. CASE times = <<1, 1>> BY <1>3 DEF Lasting
<1>4. QED BY <1>1, <1>2, <1>3

\* What the reading desk asks for is accepted and found: insights, corroborations and
\* the candidates of a chunk.
LEMMA InsightHolds ==
  ASSUME NEW chunk \in Chunks, NEW quote \in Lines, NEW from \in Nat, NEW to \in Nat,
         NEW r \in InsightRequest(chunk, from, to, quote)
  PROVE  Accepted(r) /\ Holds(r)
<1> USE ChunkIs, LineIs
<1>1. PICK at \in InsightPlace(chunk, from, to, quote) : r = Request(chunk, at, quote)
  BY Zenon DEF InsightRequest
<1>2. CASE Slice(chunk.says, from, to) = quote
  <2>1. at = Span(from, to) BY <1>1, <1>2 DEF InsightPlace
  <2>2. QED BY <1>1, <1>2, <2>1, SpanHolds
<1>3. CASE Slice(chunk.says, from, to) # quote
  <2>1. PICK i \in Sole(Places(quote, chunk.says)) : at = Span(i, i + Len(quote))
    BY <1>1, <1>3 DEF InsightPlace
  <2>2. i \in Places(quote, chunk.says) BY <2>1 DEF Sole
  <2>3. i \in Nat /\ i + Len(quote) \in Nat /\ Slice(chunk.says, i, i + Len(quote)) = quote
    BY <2>2, PlaceIs
  <2>4. QED BY <1>1, <2>1, <2>3, SpanHolds
<1>4. QED BY <1>2, <1>3

LEMMA CorroborationHolds ==
  ASSUME NEW chunk \in Chunks, NEW quote \in Lines, NEW r \in CorroborationRequest(chunk, quote)
  PROVE  Accepted(r) /\ Holds(r)
<1> USE ChunkIs, LineIs
<1>1. PICK i \in Sole(Places(quote, chunk.says)) :
         r = Request(chunk, Span(i, i + Len(quote)), quote)
  BY Zenon DEF CorroborationRequest
<1>2. i \in Places(quote, chunk.says) BY DEF Sole
<1>3. i \in Nat /\ i + Len(quote) \in Nat /\ Slice(chunk.says, i, i + Len(quote)) = quote
  BY <1>2, PlaceIs
<1>4. QED BY <1>1, <1>3, SpanHolds

LEMMA CandidateHolds ==
  ASSUME NEW chunk \in Chunks
  PROVE  Accepted(CandidateRequest(chunk)) /\ Holds(CandidateRequest(chunk))
<1> USE ChunkIs, LineIs, EvidenceAssumption DEF EvidenceAssumption
<1> DEFINE quote == Excerpt(chunk.says)
<1>1. /\ quote \in Seq(Signs) /\ quote # <<>>
      /\ Len(quote) \in Nat \ {0} /\ Len(quote) <= Len(chunk.says)
  <2>1. Len(quote) \in Nat \ {0} /\ Len(quote) <= Len(chunk.says) /\ quote \in Seq(Signs)
    BY SliceIs DEF Excerpt
  <2>2. quote # <<>> BY <2>1
  <2>3. QED BY <2>1, <2>2
<1>2. 0 \in Places(quote, chunk.says) /\ Slice(chunk.says, 0, Len(quote)) = quote
  <2>1. Slice(chunk.says, 0, Cut) = quote BY DEF Excerpt
  <2>2. 0 \in Places(quote, chunk.says) BY <2>1, <1>1, SliceIsPlaced
  <2>3. QED BY <2>2, <1>1, PlaceIs
<1>3. CandidateRequest(chunk) = Request(chunk, ChunkLocator(chunk), quote)
  BY DEF CandidateRequest
<1> HIDE DEF quote
<1>4. CASE chunk.video /\ Lasting(chunk.times)
  <2>1. ChunkLocator(chunk) = Clip(chunk.times) BY <1>4 DEF ChunkLocator
  <2>2. QED BY <1>1, <1>2, <1>3, <1>4, <2>1, TimesAre, ClipHolds
<1>5. CASE ~(chunk.video /\ Lasting(chunk.times)) /\ chunk.page # None /\ chunk.box = "box"
  <2>1. ChunkLocator(chunk) = Region(chunk.page, chunk.box) BY <1>5 DEF ChunkLocator
  <2>2. QED BY <1>1, <1>2, <1>3, <1>5, <2>1, RegionHolds
<1>6. CASE ~(chunk.video /\ Lasting(chunk.times)) /\ ~(chunk.page # None /\ chunk.box = "box")
  <2>1. ChunkLocator(chunk) = Span(0, Len(quote)) BY <1>6 DEF ChunkLocator, quote
  <2>2. QED BY <1>1, <1>2, <1>3, <2>1, SpanHolds
<1>7. QED BY <1>4, <1>5, <1>6

\* A quote in a chunk is anchored in research, but for a chunk of a video without a
\* length and for a box out of range.
LEMMA ResearchHolds ==
  ASSUME NEW chunk \in Chunks, NEW quote \in Lines, NEW r \in ResearchRequest(chunk, quote)
  PROVE  /\ Holds(r)
         /\ Accepted(r) \/ (chunk.video /\ chunk.times = <<1, 1>>)
                        \/ (chunk.page # None /\ chunk.box = "odd")
<1> USE ChunkIs, LineIs
<1>1. PICK i \in Sole(Places(quote, chunk.says)) :
         \E at \in ResearchLocator(chunk, i, quote) : r = Request(chunk, at, quote)
  BY DEF ResearchRequest
<1>2. PICK at \in ResearchLocator(chunk, i, quote) : r = Request(chunk, at, quote) BY <1>1
<1>3. i \in Places(quote, chunk.says) BY DEF Sole
<1>4. i \in Nat /\ i + Len(quote) \in Nat /\ Slice(chunk.says, i, i + Len(quote)) = quote
  BY <1>3, PlaceIs
<1>5. CASE chunk.video
  <2>1. at = Clip(chunk.times) /\ chunk.times # <<>> BY <1>2, <1>5 DEF ResearchLocator
  <2>2. QED BY <1>2, <1>3, <1>5, <2>1, TimesAre, ClipHolds
<1>6. CASE ~chunk.video /\ chunk.page = None
  <2>1. at = Span(i, i + Len(quote)) BY <1>2, <1>6 DEF ResearchLocator
  <2>2. QED BY <1>2, <1>4, <2>1, SpanHolds
<1>7. CASE ~chunk.video /\ chunk.page # None
  <2>1. at = Region(chunk.page, chunk.box) /\ chunk.box # "none" BY <1>2, <1>7 DEF ResearchLocator
  <2>2. QED BY <1>2, <1>3, <1>7, <2>1, RegionHolds
<1>8. QED BY <1>5, <1>6, <1>7

LEMMA SnippetHolds ==
  ASSUME NEW snippet \in Snippets, NEW quote \in Lines, NEW r \in ResearchRequest(snippet, quote)
  PROVE  Accepted(r) /\ Holds(r)
<1>1. snippet.kind = "snippet" /\ Says(snippet) = snippet.says BY DEF Snippets, Says
<1>2. r = Request(snippet, Fragment(quote), quote) /\ Places(quote, snippet.says) # {}
  BY <1>1 DEF ResearchRequest
<1>3. QED BY <1>1, <1>2, LineIs, OtherHolds

\* A fact's quote is in the segment that the model names, at a place that it has there.
LEMMA CitedIs ==
  ASSUME NEW segment, NEW ref, NEW r \in Cited(segment, ref)
  PROVE  \E start \in Places(ref.quote, Says(segment)) :
            \E at \in SegmentLocator(segment, ref, start) : r = Request(segment, at, ref.quote)
  BY Zenon DEF Cited

\* A fact's quote is found, but for times in a video that the model gives.
LEMMA FactHolds ==
  ASSUME NEW segment \in Chunks \cup Frames \cup Items,
         NEW ref \in References(IF segment.kind = "item" THEN Words ELSE Lines),
         NEW r \in Kept(Cited(segment, ref))
  PROVE  Holds(r) \/ (r.locator.type = "clip" /\ ref.times # <<>>)
<1>1. r \in Cited(segment, ref) BY DEF Kept
<1>2. PICK start \in Places(ref.quote, Says(segment)) :
         \E at \in SegmentLocator(segment, ref, start) : r = Request(segment, at, ref.quote)
  BY <1>1, CitedIs
<1>3. PICK at \in SegmentLocator(segment, ref, start) : r = Request(segment, at, ref.quote)
  BY <1>2
<1>4. ref.quote \in Words \cup Lines BY DEF References
<1>5. PICK quote : quote = ref.quote OBVIOUS
<1>6. quote \in Seq(Signs) /\ quote # <<>> BY <1>4, <1>5, LineIs, WordIs
<1>7. Places(quote, Says(segment)) # {} /\ r = Request(segment, at, quote) BY <1>2, <1>3, <1>5
<1>8. CASE segment \in Items
  <2>1. at = Fragment(quote) BY <1>3, <1>5, <1>8 DEF Items, SegmentLocator
  <2>2. QED BY <1>6, <1>7, <2>1, OtherHolds
<1>9. CASE segment \in Frames
  <2>1. at = Image BY <1>3, <1>9 DEF Frames, SegmentLocator
  <2>2. QED BY <1>6, <1>7, <2>1, OtherHolds
<1>10. CASE segment \in Chunks /\ segment.video
  <2> USE ChunkIs
  <2>1. \/ ref.times # <<>> /\ at = Clip(ref.times)
        \/ Lasting(segment.times) /\ at = Clip(segment.times)
    BY <1>3, <1>10 DEF SegmentLocator
  <2>2. QED BY <1>6, <1>7, <1>10, <2>1, TimesAre, ClipHolds
<1>11. CASE segment \in Chunks /\ ~segment.video
  <2> USE ChunkIs
  <2>1. \/ at = Span(start, start + Len(quote))
        \/ at = Region(segment.page, segment.box)
    BY <1>3, <1>5, <1>11 DEF SegmentLocator
  <2>2. start \in Nat /\ start + Len(quote) \in Nat
        /\ Slice(segment.says, start, start + Len(quote)) = quote
    BY <1>2, <1>5, <1>6, <1>11, PlaceIs, LineIs
  <2>3. CASE at = Span(start, start + Len(quote))
    <3>1. segment.kind # "item" /\ segment.says \in Seq(Signs) BY <1>11, LineIs
    <3>2. QED BY <1>6, <1>7, <2>2, <2>3, <3>1, SpanHolds
  <2>4. CASE at = Region(segment.page, segment.box) BY <1>6, <1>7, <2>4, RegionHolds
  <2>5. QED BY <2>1, <2>3, <2>4
<1>12. QED BY <1>8, <1>9, <1>10, <1>11

\* A quote that stands in one place of a chunk that can be told is cited there.
LEMMA CitedVerbatim ==
  ASSUME NEW chunk \in Chunks, NEW quote \in Lines, NEW i \in Sole(Places(quote, chunk.says)),
         IF chunk.video THEN chunk.times = <<0, 1>> ELSE chunk.page = None \/ chunk.box # "odd",
         NEW ref, ref.quote = quote, ref.start \in {None, i}, ref.times = <<>>
  PROVE  Kept(Cited(chunk, ref)) # {}
<1> USE ChunkIs, LineIs
<1>1. Places(quote, chunk.says) = {i} BY PlacesFinite, SoleIs
<1>2. i \in Nat /\ i + Len(quote) \in Nat /\ Slice(chunk.says, i, i + Len(quote)) = quote
  BY <1>1, PlaceIs
<1>3. ASSUME NEW at \in SegmentLocator(chunk, ref, i)
      PROVE  Request(chunk, at, quote) \in Cited(chunk, ref)
  <2> DEFINE starts == {k \in Places(ref.quote, Says(chunk)) :
                           IF ref.start = None THEN \A j \in Places(ref.quote, Says(chunk)) : k <= j
                           ELSE k = ref.start}
  <2>1. Places(ref.quote, Says(chunk)) = {i} BY <1>1
  <2>2. i \in starts BY <2>1, <1>2
  <2> HIDE DEF starts
  <2>3. Cited(chunk, ref) = UNION {{Request(chunk, a, ref.quote) : a \in SegmentLocator(chunk, ref, k)} :
                                      k \in starts}
    BY Zenon DEF Cited, starts
  <2>4. Request(chunk, at, ref.quote) \in Cited(chunk, ref) BY <2>2, <2>3, <1>3
  <2>5. QED BY <2>4
<1>4. \E at \in SegmentLocator(chunk, ref, i) : Accepted(Request(chunk, at, quote))
  <2>1. CASE chunk.video
    <3>1. SegmentLocator(chunk, ref, i) = {Clip(chunk.times)} BY <2>1, TimesAre DEF SegmentLocator
    <3>2. QED BY <3>1, <2>1, <1>1, TimesAre, ClipHolds
  <2>2. CASE ~chunk.video /\ (chunk.page = None \/ chunk.box = "none")
    <3>1. SegmentLocator(chunk, ref, i) = {Span(i, i + Len(quote))} BY <2>2 DEF SegmentLocator
    <3>2. QED BY <3>1, <1>2, SpanHolds
  <2>3. CASE ~chunk.video /\ chunk.page # None /\ chunk.box = "box"
    <3>1. SegmentLocator(chunk, ref, i) = {Region(chunk.page, chunk.box)}
      BY <2>3 DEF SegmentLocator
    <3>2. QED BY <3>1, <2>3, <1>1, RegionHolds
  <2>4. QED BY <2>1, <2>2, <2>3
<1>5. QED BY <1>3, <1>4 DEF Kept

LEMMA ResolvedVerbatim ==
  ASSUME NEW chunk \in Chunks, NEW other, NEW quote \in Lines,
         NEW i \in Sole(Places(quote, chunk.says)),
         IF chunk.video THEN chunk.times = <<0, 1>> ELSE chunk.page = None \/ chunk.box # "odd",
         Places(quote, Says(other)) = {}
  PROVE  Kept(Resolved(<<chunk, other>>, quote)) # {}
<1> DEFINE ref == [quote |-> quote, start |-> None, times |-> <<>>, box |-> FALSE]
           segments == <<chunk, other>>
           having == {k \in DOMAIN segments : Places(quote, Says(segments[k])) # {}}
<1>1. ref.quote = quote /\ ref.start = None /\ ref.times = <<>> OBVIOUS
<1>2. having = {1} BY ChunkIs DEF Sole
<1>3. Sole(having) = {1} BY <1>2, SoleIs, FS_Singleton
<1>4. Resolved(segments, quote) = UNION {Cited(segments[k], ref) : k \in Sole(having)}
  BY Zenon DEF Resolved
<1> HIDE DEF ref, having
<1>5. Resolved(segments, quote) = Cited(segments[1], ref)
  <2>1. {Cited(segments[k], ref) : k \in {1}} = {Cited(segments[1], ref)} OBVIOUS
  <2>2. PICK cited : cited = Cited(segments[1], ref) OBVIOUS
  <2>3. UNION {cited} = cited OBVIOUS
  <2>4. QED BY <1>3, <1>4, <2>1, <2>2, <2>3
<1>6. segments[1] = chunk OBVIOUS
<1>7. QED BY <1>1, <1>5, <1>6, CitedVerbatim

\* Fields that are put together: the first stays in front, and something is between.
Joined(A, text, field, between, all) ==
  /\ all \in Seq(A) /\ Len(all) \in Nat /\ Len(all) >= Len(text)
  /\ \A i \in 1..Len(text) : all[i] = text[i]
  /\ field = <<>> => all = text
  /\ text # <<>> /\ field # <<>> =>
        Len(all) = Len(text) + 1 + Len(field) /\ all[Len(text) + 1] = between

LEMMA TogetherIs ==
  ASSUME NEW A, NEW text \in Seq(A), NEW field \in Seq(A), NEW between \in A,
         NEW all, all = Together(text, field, between)
  PROVE  Joined(A, text, field, between, all)
<1> USE DEF Joined
<1>1. CASE field = <<>>
  <2>1. all = text BY <1>1, ConcatEmptySeq DEF Together
  <2>2. QED BY <1>1, <2>1
<1>2. CASE text = <<>>
  <2>1. all = field BY <1>2, ConcatEmptySeq DEF Together
  <2>2. QED BY <1>2, <2>1
<1>3. CASE text # <<>> /\ field # <<>>
  <2>1. PICK head : head = text \o <<between>> OBVIOUS
  <2>2. <<between>> \in Seq(A) /\ Len(<<between>>) = 1 OBVIOUS
  <2>3. /\ head \in Seq(A) /\ Len(head) = Len(text) + 1
        /\ head[Len(text) + 1] = between
        /\ \A i \in 1..Len(text) : head[i] = text[i]
    BY <2>1, <2>2, ConcatProperties
  <2>4. all = head \o field BY <1>3, <2>1 DEF Together
  <2>5. /\ all \in Seq(A) /\ Len(all) = Len(head) + Len(field)
        /\ \A i \in 1..Len(head) + Len(field) :
              all[i] = IF i <= Len(head) THEN head[i] ELSE field[i - Len(head)]
    <3>1. PICK joined : joined = head \o field OBVIOUS
    <3>2. head \in Seq(A) BY <2>3
    <3>3. /\ joined \in Seq(A) /\ Len(joined) = Len(head) + Len(field)
          /\ \A i \in 1..Len(head) + Len(field) :
                joined[i] = IF i <= Len(head) THEN head[i] ELSE field[i - Len(head)]
      BY <3>1, <3>2, ConcatProperties
    <3>4. joined = all BY <2>4, <3>1
    <3>5. QED BY <3>3, <3>4
  <2>6. Len(field) \in Nat /\ Len(head) \in Nat BY <2>3
  <2>7. \A i \in 1..Len(head) : all[i] = head[i] BY <2>5, <2>6
  <2>8. QED BY <1>3, <2>3, <2>5, <2>6, <2>7
<1>4. QED BY <1>1, <1>2, <1>3

LEMMA ItemIs ==
  ASSUME NEW item \in Items
  PROVE  /\ item.kind = "item" /\ item.title \in Words
         /\ item.summary \in Words \cup {<<>>} /\ item.summaryZh \in Words \cup {<<>>}
         /\ Says(item) \in Seq(Signs) /\ Len(Says(item)) \in Nat \ {0}
         /\ Says(item)[1] = item.title[1]
<1>1. /\ item.kind = "item" /\ item.title \in Words
      /\ {item.summary, item.titleZh, item.summaryZh} \subseteq Words \cup {<<>>}
  BY DEF Items
<1>2. /\ item.title \in Seq(Signs) /\ item.summary \in Seq(Signs)
      /\ item.titleZh \in Seq(Signs) /\ item.summaryZh \in Seq(Signs)
      /\ Len(item.title) = 1 /\ Break \in Signs
  BY <1>1, WordIs, FieldIs DEF Signs
<1>3. PICK two : two = Together(item.title, item.summary, Break) OBVIOUS
<1>4. two \in Seq(Signs) /\ Len(two) \in Nat /\ Len(two) >= 1 /\ two[1] = item.title[1]
  <2>1. Joined(Signs, item.title, item.summary, Break, two) BY <1>2, <1>3, TogetherIs, Zenon
  <2>2. QED BY <2>1, <1>2, <1>3 DEF Joined
<1>5. PICK three : three = Together(two, item.titleZh, Break) OBVIOUS
<1>6. three \in Seq(Signs) /\ Len(three) \in Nat /\ Len(three) >= 1 /\ three[1] = two[1]
  <2>1. Joined(Signs, two, item.titleZh, Break, three) BY <1>2, <1>4, <1>5, TogetherIs, Zenon
  <2>2. QED BY <2>1, <1>2, <1>4, <1>5 DEF Joined
<1>7. PICK four : four = Together(three, item.summaryZh, Break) OBVIOUS
<1>8. four \in Seq(Signs) /\ Len(four) \in Nat /\ Len(four) >= 1 /\ four[1] = three[1]
  <2>1. Joined(Signs, three, item.summaryZh, Break, four) BY <1>2, <1>6, <1>7, TogetherIs, Zenon
  <2>2. QED BY <2>1, <1>2, <1>6, <1>7 DEF Joined
<1>9. Says(item) = four BY <1>1, <1>3, <1>5, <1>7 DEF Says
<1>10. QED BY <1>1, <1>4, <1>6, <1>8, <1>9

\* An item that was found by its title is accepted; one found by several fields is not,
\* as the service does not have the gap between them.
LEMMA ItemCandidate ==
  ASSUME NEW item \in Items
  PROVE  Accepted(CandidateRequest(item)) <=> (item.summary = <<>> /\ item.summaryZh = <<>>)
<1>1. PICK A : A = Signs \cup {Gap} OBVIOUS
<1>2. PICK title : title = item.title OBVIOUS
<1>3. PICK summary : summary = item.summary OBVIOUS
<1>4. PICK zh : zh = item.summaryZh OBVIOUS
<1>5. PICK two : two = Together(title, summary, Gap) OBVIOUS
<1>6. PICK text : text = Together(two, zh, Gap) OBVIOUS
<1>7. PICK quote : quote = Excerpt(text) OBVIOUS
<1>8. PICK says : says = Says(item) OBVIOUS
<1>9. CandidateRequest(item) = Request(item, Fragment(quote), quote)
  BY <1>2, <1>3, <1>4, <1>5, <1>6, <1>7, ItemIs DEF CandidateRequest, FoundText
<1>10. /\ title \in Seq(Signs) /\ Len(title) = 1 /\ title # <<>>
       /\ summary \in Seq(Signs) /\ Len(summary) \in Nat /\ (summary # <<>> => Len(summary) = 1)
       /\ zh \in Seq(Signs) /\ Len(zh) \in Nat
       /\ says \in Seq(Signs) /\ Len(says) \in Nat \ {0} /\ says[1] = title[1]
  BY <1>2, <1>3, <1>4, <1>8, ItemIs, WordIs, FieldIs
<1>11. /\ title \in Seq(A) /\ summary \in Seq(A) /\ zh \in Seq(A) /\ says \in Seq(A) /\ Gap \in A
  BY <1>1, <1>10, SeqMonotonic
<1>12. Joined(A, title, summary, Gap, two) BY <1>5, <1>11, TogetherIs, Zenon
<1>13. /\ two \in Seq(A) /\ Len(two) \in Nat /\ Len(two) >= 1
       /\ summary = <<>> => two = title
       /\ summary # <<>> => two[2] = Gap /\ Len(two) >= 2
  BY <1>10, <1>12 DEF Joined
<1>14. Joined(A, two, zh, Gap, text) BY <1>6, <1>11, <1>13, TogetherIs, Zenon
<1>15. ASSUME summary = <<>>, zh = <<>> PROVE Accepted(CandidateRequest(item))
  <2>1. text = title BY <1>13, <1>14, <1>15 DEF Joined
  <2>2. quote = title
    <3>1. Cut \in Nat /\ 1 <= Cut BY EvidenceAssumption DEF EvidenceAssumption
    <3>2. QED BY <1>7, <1>10, <2>1, <3>1, WholeSlice DEF Excerpt
  <2>3. PICK slice : slice = Slice(says, 0, 1) OBVIOUS
  <2>4. slice \in Seq(Signs) /\ Len(slice) = 1 /\ \A i \in 1..Len(slice) : slice[i] = says[0 + i]
    BY <1>10, <2>3, SliceIs
  <2>5. slice = title BY <1>10, <2>4, SeqEqual
  <2>6. 0 \in Places(title, says) BY <1>10, <2>3, <2>5, SliceIsPlaced
  <2>7. QED BY <1>8, <1>9, <1>10, <2>2, <2>6, OtherHolds
<1>16. ASSUME ~(summary = <<>> /\ zh = <<>>), Accepted(CandidateRequest(item)) PROVE FALSE
  <2>1. text \in Seq(A) /\ Len(text) \in Nat /\ Len(text) >= 2 /\ text[2] = Gap
    <3>1. CASE summary # <<>> BY <3>1, <1>13, <1>14 DEF Joined
    <3>2. CASE summary = <<>> /\ zh # <<>>
      <4>1. two # <<>> /\ Len(two) = 1 BY <3>2, <1>10, <1>13
      <4>2. Len(text) = Len(two) + 1 + Len(zh) /\ text[Len(two) + 1] = Gap /\ text \in Seq(A)
        BY <3>2, <4>1, <1>14 DEF Joined
      <4>3. QED BY <4>1, <4>2, <1>10
    <3>3. QED BY <3>1, <3>2, <1>16
  <2>2. quote \in Seq(A) /\ Len(quote) \in Nat /\ Len(quote) >= 2 /\ quote[2] = Gap
    <3>1. Cut \in Nat /\ 2 <= Cut BY EvidenceAssumption DEF EvidenceAssumption
    <3>2. quote = Slice(text, 0, Cut) BY <1>7 DEF Excerpt
    <3>3. QED BY <2>1, <3>1, <3>2, SliceIs
  <2>3. Places(quote, says) # {}
    BY <1>8, <1>9, <1>16, ItemIs DEF Accepted, Matches, Request, Fragment
  <2>4. PICK i \in Places(quote, says) : TRUE BY <2>3
  <2>5. /\ i \in Nat /\ i + Len(quote) <= Len(says)
        /\ Slice(says, i, i + Len(quote)) = quote
    BY <1>11, <2>2, <2>4, PlaceIs
  <2>6. quote[2] = says[i + 2] BY <1>11, <2>2, <2>5, SliceIs
  <2>7. says[i + 2] \in Signs BY <1>10, <2>2, <2>5
  <2>8. QED BY <2>2, <2>6, <2>7, EvidenceAssumption DEF Signs, EvidenceAssumption
<1>17. QED BY <1>3, <1>4, <1>15, <1>16

\* An anchor's quote is found where its locator says, whoever made it; those who count
\* on an anchor get it; and no quote that stands in one place of one source is lost.
\* It holds for texts of any length, over any alphabet, and excerpts of any size.
THEOREM QuotesAreFound == EvidenceKept /\ (Spec => []EvidenceIsFound)
<1>1. \A n \in 0..MaxText : n \in Nat BY EvidenceAssumption DEF EvidenceAssumption
<1>2. MaxText \in Nat BY EvidenceAssumption DEF EvidenceAssumption
<1>3. AnchorsHold
  BY <1>1, InsightHolds, CorroborationHolds, CandidateHolds, ResearchHolds, FactHolds, SnippetHolds
     DEF AnchorsHold
<1>4. NobodyIsRefused
  BY <1>1, InsightHolds, CorroborationHolds, CandidateHolds, ResearchHolds, SnippetHolds,
     ItemCandidate DEF NobodyIsRefused
<1>5. VerbatimIsKept
  <2>1. ASSUME NEW chunk \in Chunks, NEW other \in Items \cup Frames, NEW quote \in Lines,
               NEW start \in Sole(Places(quote, chunk.says)),
               IF chunk.video THEN chunk.times = <<0, 1>> ELSE chunk.page = None \/ chunk.box # "odd"
        PROVE  LET ref == [quote |-> quote, start |-> start, times |-> <<>>, box |-> FALSE] IN
               /\ Kept(Cited(chunk, ref)) # {}
               /\ Places(quote, Says(other)) = {} => Kept(Resolved(<<chunk, other>>, quote)) # {}
    <3> DEFINE ref == [quote |-> quote, start |-> start, times |-> <<>>, box |-> FALSE]
    <3>1. ref.quote = quote /\ ref.start = start /\ ref.times = <<>> OBVIOUS
    <3> HIDE DEF ref
    <3>2. Kept(Cited(chunk, ref)) # {} BY <2>1, <3>1, CitedVerbatim
    <3>3. QED BY <2>1, <3>2, ResolvedVerbatim DEF ref
  <2>2. ASSUME NEW chunk \in Chunks, NEW quote \in Lines, NEW from \in 0..MaxText,
               Sole(Places(quote, chunk.says)) # {}
        PROVE  InsightRequest(chunk, from, MaxText, quote) # {}
    <3>1. PICK i \in Sole(Places(quote, chunk.says)) : TRUE BY <2>2
    <3>2. InsightPlace(chunk, from, MaxText, quote) # {} BY <3>1 DEF InsightPlace
    <3>3. QED BY <3>2 DEF InsightRequest
  <2>3. QED BY <2>1, <2>2 DEF VerbatimIsKept
<1>6. EvidenceKept BY <1>3, <1>4, <1>5 DEF EvidenceKept
<1>7. EvidenceIsFound BY <1>6 DEF EvidenceIsFound
<1>8. QED BY <1>6, <1>7, PTL

-----------------------------------------------------------------------------
(* Walks over a graph: least members, orders and queues                    *)

\* A set of numbers has a least one.
LEMMA HasLeast ==
  ASSUME NEW T \in SUBSET Nat, T # {}
  PROVE  \E n \in T : \A m \in T : n <= m
<1>1. PICK n \in T : \A m \in T : ~ (<<m, n>> \in OpToRel(<, Nat))
  BY NatLessThanWellFounded, WFMin, Zenon
<1>2. \A m \in T : ~ (m < n)
  BY <1>1 DEF OpToRel
<1> QED  BY <1>2

LEMMA NoneIsLeast ==
  ASSUME NEW T \in SUBSET Nat, \A n \in T : \E m \in T : m < n
  PROVE  T = {}
<1> SUFFICES ASSUME T # {} PROVE FALSE
  OBVIOUS
<1>1. PICK n \in T : \A m \in T : n <= m
  BY HasLeast
<1> QED  BY <1>1

\* Members of a finite set in an order, P[a] being those before a.  Where a comes is
\* the number of those before it.
Ordered(S, P) ==
  /\ IsFiniteSet(S) /\ P \in [S -> SUBSET S]
  /\ \A a \in S : a \notin P[a]
  /\ \A a \in S : \A b \in P[a] : P[b] \subseteq P[a]
  /\ \A a \in S, b \in S : a = b \/ a \in P[b] \/ b \in P[a]

LEMMA RanksDiffer ==
  ASSUME NEW S, NEW P, Ordered(S, P), NEW b \in S, NEW a \in P[b]
  PROVE  a \in S /\ Cardinality(P[a]) \in Nat /\ Cardinality(P[a]) < Cardinality(P[b])
<1>1. a \in S /\ P[a] \subseteq P[b] /\ a \notin P[a] /\ P[b] \subseteq S BY DEF Ordered
<1>2. IsFiniteSet(P[b]) BY <1>1, FS_Subset DEF Ordered
<1>3. /\ IsFiniteSet(P[a]) /\ Cardinality(P[a]) <= Cardinality(P[b])
      /\ Cardinality(P[b]) = Cardinality(P[a]) => P[b] = P[a]
  BY <1>1, <1>2, FS_Subset
<1>4. Cardinality(P[a]) \in Nat /\ Cardinality(P[b]) \in Nat BY <1>2, <1>3, FS_CardinalityType
<1> QED  BY <1>1, <1>3, <1>4

LEMMA RankIsBelow ==
  ASSUME NEW S, NEW P, Ordered(S, P), NEW b \in S
  PROVE  Cardinality(P[b]) \in Nat /\ Cardinality(P[b]) < Cardinality(S)
<1>1. P[b] \subseteq S /\ b \notin P[b] /\ IsFiniteSet(S) BY DEF Ordered
<1>2. /\ IsFiniteSet(P[b]) /\ Cardinality(P[b]) <= Cardinality(S)
      /\ Cardinality(S) = Cardinality(P[b]) => S = P[b]
  BY <1>1, FS_Subset
<1>3. Cardinality(S) \in Nat /\ Cardinality(P[b]) \in Nat BY <1>1, <1>2, FS_CardinalityType
<1> QED  BY <1>1, <1>2, <1>3

\* Every place is taken once.
LEMMA RanksOnce ==
  ASSUME NEW S, NEW P, Ordered(S, P), NEW a \in S, NEW b \in S,
         Cardinality(P[a]) = Cardinality(P[b])
  PROVE  a = b
<1>1. a = b \/ a \in P[b] \/ b \in P[a] BY DEF Ordered
<1>2. ASSUME a \in P[b] PROVE FALSE BY <1>2, RanksDiffer, RankIsBelow
<1>3. ASSUME b \in P[a] PROVE FALSE BY <1>3, RanksDiffer, RankIsBelow
<1> QED  BY <1>1, <1>2, <1>3

LEMMA RankTaken ==
  ASSUME NEW S, NEW P, Ordered(S, P), NEW k \in Nat, k < Cardinality(S)
  PROVE  \E a \in S : Cardinality(P[a]) = k
<1>2. PICK n \in Nat : n = Cardinality(S) /\ IsFiniteSet(S)
  <2>1. IsFiniteSet(S) BY DEF Ordered
  <2> QED  BY <2>1, FS_CardinalityType
<1> DEFINE f == [a \in S |-> Cardinality(P[a])]
<1>3. f \in [S -> 0..(n - 1)]
  <2>1. ASSUME NEW a \in S PROVE Cardinality(P[a]) \in 0..(n - 1)
    BY <1>2, RankIsBelow
  <2> QED  BY <2>1
<1>4. \A a \in S, b \in S : f[a] = f[b] => a = b BY RanksOnce
<1> HIDE DEF f
<1>5. f \in Injection(S, 0..(n - 1)) BY <1>3, <1>4 DEF Injection, IsInjective
<1>6. IsFiniteSet(0..(n - 1)) /\ Cardinality(0..(n - 1)) = n
  <2>1. 0 \in Int /\ n - 1 \in Int OBVIOUS
  <2> QED  BY <2>1, FS_Interval
<1>7. f \in Surjection(S, 0..(n - 1)) BY <1>2, <1>5, <1>6, FS_Injection
<1>8. \E a \in S : f[a] = k
  <2>1. k \in 0..(n - 1) BY <1>2
  <2> QED  BY <1>7, <2>1 DEF Surjection
<1>9. \A a \in S : f[a] = Cardinality(P[a]) BY DEF f
<1> QED  BY <1>8, <1>9

\* As many come before place c as there are places before it.
LEMMA RanksBelow ==
  ASSUME NEW S, NEW P, Ordered(S, P), NEW c \in Nat
  PROVE  LET below == {a \in S : Cardinality(P[a]) < c} IN
         /\ IsFiniteSet(below)
         /\ Cardinality(below) = IF c <= Cardinality(S) THEN c ELSE Cardinality(S)
<1>1. PICK n \in Nat : n = Cardinality(S) /\ IsFiniteSet(S)
  <2>1. IsFiniteSet(S) BY DEF Ordered
  <2> QED  BY <2>1, FS_CardinalityType
<1>2. PICK below : below = {a \in S : Cardinality(P[a]) < c} OBVIOUS
<1>3. IsFiniteSet(below) BY <1>1, <1>2, FS_Subset
<1>4. CASE c <= n
  <2> DEFINE f == [a \in below |-> Cardinality(P[a])]
  <2>1. f \in [below -> 0..(c - 1)]
    <3>1. ASSUME NEW a \in below PROVE Cardinality(P[a]) \in 0..(c - 1)
      <4>1. a \in S /\ Cardinality(P[a]) < c BY <1>2
      <4>2. Cardinality(P[a]) \in Nat BY <4>1, RankIsBelow
      <4> QED  BY <4>1, <4>2
    <3> QED  BY <3>1
  <2>2. \A a \in below, b \in below : f[a] = f[b] => a = b BY <1>2, RanksOnce
  <2>3. ASSUME NEW k \in 0..(c - 1) PROVE \E a \in below : f[a] = k
    <3>1. k \in Nat /\ k < Cardinality(S) /\ k < c BY <1>1, <1>4
    <3>2. PICK a \in S : Cardinality(P[a]) = k BY <3>1, RankTaken
    <3>3. a \in below BY <1>2, <3>1, <3>2
    <3> QED  BY <3>2, <3>3
  <2> HIDE DEF f
  <2>4. f \in Bijection(below, 0..(c - 1))
    <3>1. f \in Injection(below, 0..(c - 1)) BY <2>1, <2>2 DEF Injection, IsInjective
    <3>2. f \in Surjection(below, 0..(c - 1)) BY <2>1, <2>3 DEF Surjection
    <3> QED  BY <3>1, <3>2 DEF Bijection
  <2>5. Cardinality(0..(c - 1)) = Cardinality(below)
    BY <1>3, <2>4, FS_Bijection DEF ExistsBijection
  <2>6. Cardinality(0..(c - 1)) = c
    <3>1. 0 \in Int /\ c - 1 \in Int OBVIOUS
    <3> QED  BY <3>1, FS_Interval
  <2> QED  BY <1>1, <1>2, <1>3, <1>4, <2>5, <2>6
<1>5. CASE ~ (c <= n)
  <2>1. below = S
    <3>1. ASSUME NEW a \in S PROVE Cardinality(P[a]) < c
      <4>1. Cardinality(P[a]) \in Nat /\ Cardinality(P[a]) < n BY <1>1, RankIsBelow
      <4> QED  BY <1>5, <4>1
    <3> QED  BY <1>2, <3>1
  <2> QED  BY <1>1, <1>2, <1>5, <2>1
<1> QED  BY <1>4, <1>5

-----------------------------------------------------------------------------

LEMMA EdgesOrdered ==
  ASSUME NEW S \in SUBSET Nat, IsFiniteSet(S)
  PROVE  Ordered(S, [i \in S |-> Earlier(S, i)])
<1> DEFINE P == [i \in S |-> Earlier(S, i)]
<1>1. P \in [S -> SUBSET S] BY DEF Earlier
<1>2. \A a \in S : a \notin P[a] BY DEF Earlier
<1>3. ASSUME NEW a \in S, NEW b \in P[a] PROVE P[b] \subseteq P[a]
  <2>1. a \in Nat /\ b \in S /\ b \in Nat /\ b < a BY DEF Earlier
  <2>2. ASSUME NEW d \in P[b] PROVE d \in P[a]
    <3>1. d \in S /\ d \in Nat /\ d < b BY <2>1, <2>2 DEF Earlier
    <3> QED  BY <2>1, <3>1 DEF Earlier
  <2> QED  BY <2>2
<1>4. \A a \in S, b \in S : a = b \/ a \in P[b] \/ b \in P[a] BY DEF Earlier
<1> HIDE DEF P
<1>5. Ordered(S, P) BY <1>1, <1>2, <1>3, <1>4 DEF Ordered
<1> QED  BY <1>5 DEF P

\* What is appended is found at the edges, once for each.
Appends(q, queue, found, place) ==
  /\ Len(q) = Len(queue) + Cardinality(DOMAIN found)
  /\ \A j \in 1..Len(queue) : q[j] = queue[j]
  /\ place \in [(Len(queue) + 1)..Len(q) -> DOMAIN found]
  /\ \A j \in (Len(queue) + 1)..Len(q) : q[j] = found[place[j]]
  /\ \A i \in DOMAIN found : \E j \in (Len(queue) + 1)..Len(q) : place[j] = i
  /\ \A j \in (Len(queue) + 1)..Len(q), k \in (Len(queue) + 1)..Len(q) :
        place[j] = place[k] => j = k

LEMMA BehindIs ==
  ASSUME NEW T, NEW queue \in Seq(T), NEW found, IsFiniteSet(DOMAIN found),
         DOMAIN found \subseteq Nat, \A i \in DOMAIN found : found[i] \in T
  PROVE  /\ Behind(queue, found) \in Seq(T)
         /\ \E place : Appends(Behind(queue, found), queue, found, place)
<1>1. PICK S : S = DOMAIN found /\ S \in SUBSET Nat /\ IsFiniteSet(S) OBVIOUS
<1>2. PICK c \in Nat : c = Cardinality(S) BY <1>1, FS_CardinalityType
<1>0. PICK P : P = [i \in S |-> Earlier(S, i)] /\ Ordered(S, P) BY <1>1, EdgesOrdered
<1>3. Ordered(S, P) BY <1>0
<1>4. \A i \in S : P[i] = Earlier(S, i) BY <1>0
<1> DEFINE nth(k) == CHOOSE i \in S : Cardinality(Earlier(S, i)) = k - 1
<1>5. ASSUME NEW k \in 1..c
      PROVE  nth(k) \in S /\ Cardinality(Earlier(S, nth(k))) = k - 1
  <2>1. k - 1 \in Nat /\ k - 1 < Cardinality(S) BY <1>2
  <2>2. \E i \in S : Cardinality(P[i]) = k - 1 BY <1>3, <2>1, RankTaken
  <2>3. \E i \in S : Cardinality(Earlier(S, i)) = k - 1 BY <1>4, <2>2
  <2> QED  BY <2>3
<1>6. ASSUME NEW i \in S PROVE \E k \in 1..c : nth(k) = i
  <2>1. PICK r \in Nat : r = Cardinality(Earlier(S, i)) /\ r < c
    BY <1>2, <1>3, <1>4, RankIsBelow
  <2>2. r + 1 \in 1..c /\ (r + 1) - 1 = r BY <2>1
  <2>3. nth(r + 1) \in S /\ Cardinality(Earlier(S, nth(r + 1))) = r BY <1>5, <2>2
  <2>4. Cardinality(P[nth(r + 1)]) = Cardinality(P[i]) BY <1>4, <2>1, <2>3
  <2>5. nth(r + 1) = i BY <1>3, <2>3, <2>4, RanksOnce
  <2> QED  BY <2>2, <2>5
<1>7. PICK n \in Nat : n = Len(queue) /\ DOMAIN queue = 1..n OBVIOUS
<1> DEFINE new == [k \in 1..c |-> found[nth(k)]]
           q == queue \o new
           place == [j \in (n + 1)..(n + c) |-> nth(j - n)]
<1>8. Behind(queue, found) = q BY <1>1, <1>2 DEF Behind
<1>9. new \in Seq(T) /\ Len(new) = c BY <1>1, <1>5
<1> HIDE DEF nth
<1>10. q \in Seq(T) /\ Len(q) = n + c BY <1>7, <1>9
<1>11. \A j \in 1..n : q[j] = queue[j] BY <1>7, <1>9
<1>12. \A j \in (n + 1)..(n + c) : j - n \in 1..c OBVIOUS
<1>13. \A j \in (n + 1)..(n + c) : q[j] = found[place[j]]
  <2>1. ASSUME NEW j \in (n + 1)..(n + c) PROVE q[j] = new[j - n] BY <1>7, <1>9
  <2> QED  BY <1>12, <2>1
<1>14. place \in [(n + 1)..(n + c) -> S] BY <1>5, <1>12
<1>15. ASSUME NEW i \in S PROVE \E j \in (n + 1)..(n + c) : place[j] = i
  <2>1. PICK k \in 1..c : nth(k) = i BY <1>6
  <2>2. k + n \in (n + 1)..(n + c) /\ (k + n) - n = k OBVIOUS
  <2> QED  BY <2>1, <2>2
<1>16. ASSUME NEW j \in (n + 1)..(n + c), NEW k \in (n + 1)..(n + c), place[j] = place[k]
       PROVE  j = k
  <2>1. j - n \in 1..c /\ k - n \in 1..c /\ nth(j - n) = nth(k - n) BY <1>16
  <2>2. (j - n) - 1 = (k - n) - 1 BY <1>5, <2>1
  <2> QED  BY <2>2
<1> HIDE DEF q, place
<1>17. Appends(q, queue, found, place)
  BY <1>1, <1>2, <1>7, <1>10, <1>11, <1>13, <1>14, <1>15, <1>16 DEF Appends
<1> QED  BY <1>8, <1>10, <1>17

LEMMA FirstsAre ==
  ASSUME NEW to, DOMAIN to \subseteq Nat, NEW known
  PROVE  /\ Firsts(to, known) \subseteq DOMAIN to
         /\ \A i \in Firsts(to, known) : to[i] \notin known
         /\ \A i \in Firsts(to, known), j \in Firsts(to, known) : to[i] = to[j] => i = j
         /\ \A i \in DOMAIN to : to[i] \in known \/ \E j \in Firsts(to, known) : to[j] = to[i]
<1>1. Firsts(to, known) \subseteq DOMAIN to /\ \A i \in Firsts(to, known) : to[i] \notin known
  BY DEF Firsts
<1>2. ASSUME NEW i \in Firsts(to, known), NEW j \in Firsts(to, known), to[i] = to[j]
      PROVE  i = j
  <2>1. i \in Nat /\ j \in Nat BY <1>1
  <2> QED  BY <1>2, <2>1 DEF Firsts, Earlier
<1>3. ASSUME NEW i \in DOMAIN to, to[i] \notin known
      PROVE  \E j \in Firsts(to, known) : to[j] = to[i]
  <2> DEFINE same == {j \in DOMAIN to : to[j] = to[i]}
  <2>1. same \in SUBSET Nat /\ same # {} OBVIOUS
  <2>2. PICK j \in same : \A k \in same : j <= k
    <3> HIDE DEF same
    <3> QED  BY <2>1, HasLeast
  <2>3. \A k \in Earlier(DOMAIN to, j) : to[k] # to[j]
    <3>1. ASSUME NEW k \in Earlier(DOMAIN to, j), to[k] = to[j] PROVE FALSE
      <4>1. k \in same /\ k < j /\ k \in Nat /\ j \in Nat BY <3>1 DEF Earlier
      <4> QED  BY <2>2, <4>1
    <3> QED  BY <3>1
  <2> QED  BY <1>3, <2>3 DEF Firsts
<1> QED  BY <1>1, <1>2, <1>3

-----------------------------------------------------------------------------

\* A walk that is given by its first state and its steps.
Iteration(h, n, a, F) == h = [k \in 0..n |-> IF k = 0 THEN a ELSE F[<<k, h[k - 1]>>]]

LEMMA Iterates ==
  ASSUME NEW n \in Nat, NEW S, NEW a \in S, NEW F \in [Nat \X S -> S]
  PROVE  \E h \in [0..n -> S] : Iteration(h, n, a, F)
<1> DEFINE Is(m, h) == h = [k \in 0..m |-> IF k = 0 THEN a ELSE F[<<k, h[k - 1]>>]]
           Bad == {m \in Nat : ~ \E h \in [0..m -> S] : Is(m, h)}
<1>1. ASSUME NEW m \in Bad PROVE \E l \in Bad : l < m
  <2>1. m \in Nat /\ ~ \E h \in [0..m -> S] : Is(m, h) OBVIOUS
  <2>2. ASSUME m = 0 PROVE FALSE
    <3> DEFINE h == [k \in 0..0 |-> a]
    <3>1. h \in [0..0 -> S] /\ Is(0, h)
      <4>1. \A k \in 0..0 : k = 0 OBVIOUS
      <4> QED  BY <4>1
    <3> HIDE DEF h, Is, Bad
    <3> QED  BY <2>1, <2>2, <3>1
  <2>3. m - 1 \in Nat /\ m - 1 < m BY <2>1, <2>2
  <2>4. ASSUME m - 1 \notin Bad PROVE FALSE
    <3>1. PICK h \in [0..(m - 1) -> S] : Is(m - 1, h) BY <2>3, <2>4
    <3>2. PICK v : v = F[<<m, h[m - 1]>>] OBVIOUS
    <3>3. v \in S
      <4>1. m - 1 \in 0..(m - 1) BY <2>3
      <4>2. <<m, h[m - 1]>> \in Nat \X S BY <2>1, <4>1
      <4> QED  BY <3>2, <4>2
    <3> HIDE DEF Bad
    <3> DEFINE g == [k \in 0..m |-> IF k < m THEN h[k] ELSE v]
    <3>4. ASSUME NEW k \in 0..m
          PROVE  g[k] \in S /\ g[k] = IF k = 0 THEN a ELSE F[<<k, g[k - 1]>>]
      <4>1. CASE k = m
        <5>1. g[k] = v /\ g[k - 1] = h[m - 1] /\ k # 0 BY <2>1, <2>2, <2>3, <4>1
        <5> QED  BY <3>2, <3>3, <4>1, <5>1
      <4>2. CASE k # m
        <5>1. k \in 0..(m - 1) BY <2>1, <4>2
        <5>2. g[k] = h[k] /\ (k # 0 => g[k - 1] = h[k - 1]) BY <2>1, <5>1
        <5>3. h[k] = IF k = 0 THEN a ELSE F[<<k, h[k - 1]>>] BY <3>1, <5>1
        <5> QED  BY <3>1, <5>1, <5>2, <5>3
      <4> QED  BY <4>1, <4>2
    <3>5. g \in [0..m -> S] /\ Is(m, g)
      <4>1. g = [k \in 0..m |-> g[k]] OBVIOUS
      <4> HIDE DEF g
      <4> QED  BY <3>4, <4>1
    <3> HIDE DEF g, Is
    <3> QED  BY <2>1, <3>5
  <2> QED  BY <2>3, <2>4
<1>2. Bad = {}
  <2>1. Bad \in SUBSET Nat OBVIOUS
  <2> HIDE DEF Bad
  <2> QED  BY <1>1, <2>1, NoneIsLeast
<1>3. \E h \in [0..n -> S] : Is(n, h) BY <1>2
<1> QED  BY <1>3 DEF Iteration

LEMMA MemberIs == ASSUME NEW T, NEW q \in Seq(T), NEW k \in 1..Len(q) PROVE q[k] \in T
OBVIOUS
LEMMA OneIsSeq == ASSUME NEW T, NEW x \in T PROVE <<x>> \in Seq(T)
OBVIOUS

\* What is true of the first state and kept by every step is true of the last one.
LEMMA Steady ==
  ASSUME NEW n \in Nat, NEW good, \* the steps after which it is true
         0 \in good, \A k \in 1..n : k - 1 \in good => k \in good
  PROVE  n \in good
<1> DEFINE Bad == {m \in Nat : m <= n /\ m \notin good}
<1>1. ASSUME NEW m \in Bad PROVE \E l \in Bad : l < m
  <2>1. m \in Nat /\ m <= n /\ m \notin good /\ m # 0 OBVIOUS
  <2>2. m \in 1..n /\ m - 1 \in Nat /\ m - 1 <= n /\ m - 1 < m BY <2>1
  <2>3. m - 1 \notin good BY <2>1, <2>2
  <2> QED  BY <2>2, <2>3
<1>2. Bad = {}
  <2>1. Bad \in SUBSET Nat OBVIOUS
  <2> HIDE DEF Bad
  <2> QED  BY <1>1, <2>1, NoneIsLeast
<1> QED  BY <1>2

Distinct(q) == \A i \in 1..Len(q), j \in 1..Len(q) : q[i] = q[j] => i = j

LEMMA DistinctCount ==
  ASSUME NEW T, NEW q \in Seq(T), Distinct(q)
  PROVE  IsFiniteSet(ToSet(q)) /\ Cardinality(ToSet(q)) = Len(q)
<1>1. PICK n \in Nat : n = Len(q) /\ DOMAIN q = 1..n OBVIOUS
<1>2. IsFiniteSet(1..n) /\ Cardinality(1..n) = n
  <2>1. 1 \in Int /\ n \in Int OBVIOUS
  <2> QED  BY <2>1, FS_Interval
<1>3. q \in [1..n -> ToSet(q)] BY <1>1 DEF ToSet
<1>4. \A i \in 1..n, j \in 1..n : q[i] = q[j] => i = j BY <1>1 DEF Distinct
<1>5. \A x \in ToSet(q) : \E i \in 1..n : q[i] = x BY <1>1 DEF ToSet
<1>6. q \in Injection(1..n, ToSet(q)) BY <1>3, <1>4 DEF Injection, IsInjective
<1>7. q \in Surjection(1..n, ToSet(q)) BY <1>3, <1>5 DEF Surjection
<1>8. ExistsBijection(1..n, ToSet(q)) BY <1>6, <1>7 DEF Bijection, ExistsBijection
<1> QED  BY <1>1, <1>2, <1>8, FS_Bijection

LEMMA DistinctBounded ==
  ASSUME NEW T, IsFiniteSet(T), NEW q \in Seq(T), Distinct(q)
  PROVE  Len(q) <= Cardinality(T)
<1>1. ToSet(q) \subseteq T BY DEF ToSet
<1>2. Cardinality(ToSet(q)) <= Cardinality(T) BY <1>1, FS_Subset
<1> QED  BY <1>2, DistinctCount

-----------------------------------------------------------------------------
(* The trace graph                                                         *)

TraceGraph(g) ==
  /\ IsFiniteSet(g.node) /\ IsFiniteSet(DOMAIN g.edge) /\ DOMAIN g.edge \subseteq Nat
  /\ \A i \in DOMAIN g.edge : g.edge[i][1] \in g.node /\ g.edge[i][2] \in g.node

TraceState(g) == [queue : Seq(g.node), edges : SUBSET DOMAIN g.edge, more : BOOLEAN]

\* An edge from a node that has been popped is shown, or the answer is full and says so.
Answered(g, ahead, max, s, i) ==
  IF g.edge[i][ahead] \in ToSet(s.queue) THEN i \in s.edges
  ELSE Len(s.queue) >= max /\ s.more

TraceKept(g, start, ahead, max, s, k) ==
  /\ s \in TraceState(g) /\ start \in ToSet(s.queue)
  /\ Distinct(s.queue) /\ Len(s.queue) <= max
  /\ \A i \in s.edges : Ends(g.edge[i]) \subseteq ToSet(s.queue)
  /\ \A j \in 1..Len(s.queue), i \in DOMAIN g.edge :
        j <= k /\ g.edge[i][3 - ahead] = s.queue[j] => Answered(g, ahead, max, s, i)

LEMMA FollowIs ==
  ASSUME NEW g, TraceGraph(g), NEW ahead \in 1..2, NEW max \in Nat \ {0},
         NEW s \in TraceState(g), NEW k
  PROVE  Follow(g, ahead, max, s, k) \in TraceState(g)
<1> DEFINE from == {i \in DOMAIN g.edge : g.edge[i][3 - ahead] = s.queue[k]}
           to == [i \in from |-> g.edge[i][ahead]]
           new == Firsts(to, ToSet(s.queue))
           room == {i \in new : Len(s.queue) + Cardinality(Earlier(new, i)) < max}
           found == [i \in room |-> g.edge[i][ahead]]
           queue == Behind(s.queue, found)
           taken == {i \in from : g.edge[i][ahead] \in ToSet(queue)}
<1>1. from \subseteq DOMAIN g.edge /\ DOMAIN to = from /\ new \subseteq from /\ room \subseteq from
  BY DEF Firsts
<1>2. IsFiniteSet(room) /\ room \subseteq Nat
  <2> HIDE DEF room, new, to, from
  <2> QED  BY <1>1, FS_Subset DEF TraceGraph
<1>3. \A i \in from : g.edge[i][ahead] \in g.node BY DEF TraceGraph
<1>4. DOMAIN found = room /\ \A i \in room : found[i] \in g.node BY <1>1, <1>3
<1>5. s.queue \in Seq(g.node) BY DEF TraceState
<1>6. queue \in Seq(g.node)
  <2> HIDE DEF found
  <2> QED  BY <1>2, <1>4, <1>5, BehindIs
<1>7. Follow(g, ahead, max, s, k) =
         [queue |-> queue, edges |-> s.edges \cup taken, more |-> s.more \/ taken # from]
  BY DEF Follow
<1>8. s.edges \cup taken \subseteq DOMAIN g.edge BY <1>1 DEF TraceState
<1> HIDE DEF queue, taken, from
<1> QED  BY <1>6, <1>7, <1>8 DEF TraceState

\* New members behind those that are there.
LEMMA StaysDistinct ==
  ASSUME NEW T, NEW queue \in Seq(T), NEW found, IsFiniteSet(DOMAIN found),
         DOMAIN found \subseteq Nat, \A i \in DOMAIN found : found[i] \in T,
         Distinct(queue), \A i \in DOMAIN found : found[i] \notin ToSet(queue),
         \A i \in DOMAIN found, j \in DOMAIN found : found[i] = found[j] => i = j,
         NEW q, q = Behind(queue, found)
  PROVE  /\ q \in Seq(T) /\ Len(q) = Len(queue) + Cardinality(DOMAIN found)
         /\ \A j \in 1..Len(queue) : q[j] = queue[j]
         /\ ToSet(q) = ToSet(queue) \cup {found[i] : i \in DOMAIN found}
         /\ Distinct(q)
<1>1. q \in Seq(T) BY BehindIs
<1>2. PICK place : Appends(q, queue, found, place) BY BehindIs
<1>3. PICK n \in Nat : n = Len(queue) /\ DOMAIN queue = 1..n OBVIOUS
<1>4. PICK m \in Nat : m = Len(q) /\ DOMAIN q = 1..m OBVIOUS
<1>5. PICK c \in Nat : c = Cardinality(DOMAIN found) BY FS_CardinalityType
<1>6. /\ m = n + c /\ \A j \in 1..n : q[j] = queue[j]
      /\ \A j \in (n + 1)..m : place[j] \in DOMAIN found /\ q[j] = found[place[j]]
      /\ \A i \in DOMAIN found : \E j \in (n + 1)..m : place[j] = i
      /\ \A j \in (n + 1)..m, k \in (n + 1)..m : place[j] = place[k] => j = k
  BY <1>2, <1>3, <1>4, <1>5 DEF Appends
<1>7. \A j \in 1..n : q[j] \in ToSet(queue) BY <1>3, <1>6 DEF ToSet
<1>11. \A j \in (n + 1)..m : q[j] \notin ToSet(queue) BY <1>6
<1>8. \A j \in 1..m : j \in 1..n \/ j \in (n + 1)..m OBVIOUS
<1>9. Distinct(q)
  <2>1. ASSUME NEW i \in 1..m, NEW j \in 1..m, q[i] = q[j] PROVE i = j
    <3>1. CASE i \in 1..n /\ j \in 1..n BY <1>3, <1>6, <2>1, <3>1 DEF Distinct
    <3>2. CASE i \in 1..n /\ j \in (n + 1)..m BY <1>7, <1>11, <2>1, <3>2
    <3>3. CASE i \in (n + 1)..m /\ j \in 1..n BY <1>7, <1>11, <2>1, <3>3
    <3>4. CASE i \in (n + 1)..m /\ j \in (n + 1)..m
      <4>1. place[i] \in DOMAIN found /\ place[j] \in DOMAIN found BY <1>6, <3>4
      <4>2. found[place[i]] = found[place[j]] BY <1>6, <2>1, <3>4
      <4>3. place[i] = place[j] BY <4>1, <4>2
      <4> QED  BY <1>6, <3>4, <4>3
    <3> QED  BY <1>8, <3>1, <3>2, <3>3, <3>4
  <2> QED  BY <1>4, <2>1 DEF Distinct
<1>10. ToSet(q) = ToSet(queue) \cup {found[i] : i \in DOMAIN found}
  <2>1. ASSUME NEW x \in ToSet(q) PROVE x \in ToSet(queue) \/ \E i \in DOMAIN found : x = found[i]
    <3>1. PICK j \in 1..m : x = q[j] BY <1>4 DEF ToSet
    <3> QED  BY <1>6, <1>7, <1>8, <3>1
  <2>2. ASSUME NEW x \in ToSet(queue) PROVE x \in ToSet(q)
    <3>1. PICK j \in 1..n : x = queue[j] BY <1>3 DEF ToSet
    <3>2. j \in 1..m /\ q[j] = x BY <1>6, <3>1
    <3> QED  BY <1>4, <3>2 DEF ToSet
  <2>3. ASSUME NEW i \in DOMAIN found PROVE found[i] \in ToSet(q)
    <3>1. PICK j \in (n + 1)..m : place[j] = i BY <1>6
    <3>2. j \in 1..m /\ q[j] = found[i] BY <1>6, <3>1
    <3> QED  BY <1>4, <3>2 DEF ToSet
  <2> QED  BY <2>1, <2>2, <2>3
<1> QED  BY <1>1, <1>3, <1>4, <1>5, <1>6, <1>9, <1>10

\* What is taken while there is room fills it or is everything.
RoomFor(new, n, max) == {i \in new : n + Cardinality(Earlier(new, i)) < max}
LEMMA RoomIs ==
  ASSUME NEW new \in SUBSET Nat, IsFiniteSet(new), NEW n \in Nat, NEW max \in Nat, n <= max,
         NEW room, room = RoomFor(new, n, max)
  PROVE  /\ IsFiniteSet(room) /\ Cardinality(room) \in Nat
         /\ n + Cardinality(room) <= max
         /\ room # new => n + Cardinality(room) = max
         /\ n = max => room = {}
<1>2. PICK P : P = [i \in new |-> Earlier(new, i)] OBVIOUS
<1>3. Ordered(new, P) BY <1>2, EdgesOrdered
<1>4. PICK d \in Nat : n + d = max
  <2>1. max - n \in Nat /\ n + (max - n) = max OBVIOUS
  <2> QED  BY <2>1
<1>5. ASSUME NEW i \in new PROVE Cardinality(P[i]) \in Nat /\ P[i] = Earlier(new, i)
  BY <1>2, <1>3, RankIsBelow
<1>1. ASSUME NEW i \in new PROVE i \in room <=> Cardinality(P[i]) < d
  <2>1. i \in room <=> n + Cardinality(Earlier(new, i)) < max BY DEF RoomFor
  <2>2. PICK r \in Nat : r = Cardinality(P[i]) /\ r = Cardinality(Earlier(new, i)) BY <1>5
  <2> QED  BY <1>4, <2>1, <2>2
<1>6. room = {i \in new : Cardinality(P[i]) < d} BY <1>1 DEF RoomFor
<1>7. PICK c \in Nat : c = Cardinality(new) BY FS_CardinalityType
<1>8. IsFiniteSet(room) /\ Cardinality(room) = IF d <= c THEN d ELSE c
  BY <1>3, <1>6, <1>7, RanksBelow
<1>9. ASSUME room # new PROVE d <= c
  <2>1. PICK i \in new : ~ (Cardinality(P[i]) < d) BY <1>6, <1>9
  <2>2. Cardinality(P[i]) < c BY <1>3, <1>7, RankIsBelow
  <2>3. Cardinality(P[i]) \in Nat BY <1>5
  <2> QED  BY <2>1, <2>2, <2>3
<1>10. ASSUME n = max PROVE room = {}
  <2>1. d = 0 BY <1>4, <1>10
  <2>2. ASSUME NEW i \in new PROVE ~ (Cardinality(P[i]) < d)
    <3>1. PICK r \in Nat : r = Cardinality(P[i]) BY <1>5
    <3> QED  BY <2>1, <3>1
  <2> QED  BY <1>6, <2>2
<1> QED  BY <1>4, <1>7, <1>8, <1>9, <1>10

LEMMA FollowKeeps ==
  ASSUME NEW g, TraceGraph(g), NEW start, NEW ahead \in 1..2, NEW max \in Nat \ {0}, NEW s,
         NEW k \in Nat \ {0}, TraceKept(g, start, ahead, max, s, k - 1), k <= Len(s.queue)
  PROVE  TraceKept(g, start, ahead, max, Follow(g, ahead, max, s, k), k)
<1>1. PICK old : old = s.queue OBVIOUS
<1>2. /\ s \in TraceState(g) /\ old \in Seq(g.node) /\ start \in ToSet(old)
      /\ Distinct(old) /\ Len(old) <= max
  BY <1>1 DEF TraceKept, TraceState
<1>3. PICK n \in Nat : n = Len(old) /\ DOMAIN old = 1..n BY <1>2
<1>4. PICK from : from = {i \in DOMAIN g.edge : g.edge[i][3 - ahead] = old[k]} OBVIOUS
<1>5. PICK to : to = [i \in from |-> g.edge[i][ahead]] OBVIOUS
<1>6. PICK new : new = Firsts(to, ToSet(old)) OBVIOUS
<1>7. PICK room : room = RoomFor(new, n, max) OBVIOUS
<1>8. PICK found : found = [i \in room |-> g.edge[i][ahead]] OBVIOUS
<1>9. PICK queue : queue = Behind(old, found) OBVIOUS
<1>10. PICK taken : taken = {i \in from : g.edge[i][ahead] \in ToSet(queue)} OBVIOUS
<1>11. PICK t : t = Follow(g, ahead, max, s, k) OBVIOUS
<1>12. t = [queue |-> queue, edges |-> s.edges \cup taken, more |-> s.more \/ taken # from]
  BY <1>1, <1>3, <1>4, <1>5, <1>6, <1>7, <1>8, <1>9, <1>10, <1>11 DEF Follow, RoomFor
<1>13. from \subseteq DOMAIN g.edge /\ DOMAIN to = from /\ from \subseteq Nat
  BY <1>4, <1>5 DEF TraceGraph
<1>14. /\ new \subseteq from /\ \A i \in new : to[i] \notin ToSet(old)
       /\ \A i \in new, j \in new : to[i] = to[j] => i = j
       /\ \A i \in from : to[i] \in ToSet(old) \/ \E j \in new : to[j] = to[i]
  BY <1>6, <1>13, FirstsAre
<1>15. IsFiniteSet(new) /\ new \in SUBSET Nat
  <2>1. new \subseteq DOMAIN g.edge /\ IsFiniteSet(DOMAIN g.edge) BY <1>13, <1>14 DEF TraceGraph
  <2> QED  BY <1>13, <1>14, <2>1, FS_Subset
<1>16. /\ IsFiniteSet(room) /\ Cardinality(room) \in Nat /\ n + Cardinality(room) <= max
       /\ room # new => n + Cardinality(room) = max
       /\ n = max => room = {}
  <2>1. n <= max /\ max \in Nat BY <1>2, <1>3
  <2>2. n \in Nat BY <1>3
  <2>3. /\ new \in SUBSET Nat /\ IsFiniteSet(new) /\ n \in Nat /\ max \in Nat /\ n <= max
        /\ room = RoomFor(new, n, max)
    BY <1>7, <1>15, <2>1, <2>2
  <2>4. IsFiniteSet(room) /\ Cardinality(room) \in Nat BY <2>3, RoomIs
  <2>5. n + Cardinality(room) <= max BY <2>3, RoomIs
  <2>6. room # new => n + Cardinality(room) = max BY <2>3, RoomIs
  <2>7. n = max => room = {} BY <2>3, RoomIs
  <2> QED  BY <2>4, <2>5, <2>6, <2>7
<1>17. room \subseteq new BY <1>7 DEF RoomFor
<1>18. DOMAIN found = room /\ \A i \in room : found[i] = to[i] /\ to[i] = g.edge[i][ahead]
  BY <1>5, <1>8, <1>14, <1>17
<1>19. \A i \in room : found[i] \in g.node
  <2>1. \A i \in DOMAIN g.edge : g.edge[i][ahead] \in g.node BY DEF TraceGraph
  <2> QED  BY <1>13, <1>14, <1>17, <1>18, <2>1
<1>20. /\ queue \in Seq(g.node) /\ Len(queue) = n + Cardinality(room)
       /\ \A j \in 1..n : queue[j] = old[j]
       /\ ToSet(queue) = ToSet(old) \cup {found[i] : i \in room}
       /\ Distinct(queue)
  <2>1. \A i \in room : found[i] \notin ToSet(old) BY <1>14, <1>17, <1>18
  <2>2. \A i \in room, j \in room : found[i] = found[j] => i = j BY <1>14, <1>17, <1>18
  <2>3. room \subseteq Nat BY <1>15, <1>17
  <2>4. /\ IsFiniteSet(DOMAIN found) /\ DOMAIN found \subseteq Nat
        /\ \A i \in DOMAIN found : found[i] \in g.node
        /\ \A i \in DOMAIN found : found[i] \notin ToSet(old)
        /\ \A i \in DOMAIN found, j \in DOMAIN found : found[i] = found[j] => i = j
    BY <1>16, <1>18, <1>19, <2>1, <2>2, <2>3
  <2>5. /\ queue \in Seq(g.node) /\ Len(queue) = Len(old) + Cardinality(DOMAIN found)
        /\ \A j \in 1..Len(old) : queue[j] = old[j]
        /\ ToSet(queue) = ToSet(old) \cup {found[i] : i \in DOMAIN found}
        /\ Distinct(queue)
    BY <1>2, <1>9, <2>4, StaysDistinct
  <2> QED  BY <1>3, <1>18, <2>5
<1>21. t \in TraceState(g) BY <1>2, <1>11, FollowIs
<1>22. t.queue = queue /\ t.edges = s.edges \cup taken /\ t.more = (s.more \/ taken # from)
  BY <1>12
<1>23. ASSUME NEW i \in t.edges PROVE Ends(g.edge[i]) \subseteq ToSet(queue)
  <2>1. CASE i \in s.edges
    <3>1. Ends(g.edge[i]) \subseteq ToSet(old) BY <1>1, <2>1 DEF TraceKept
    <3> QED  BY <1>20, <3>1
  <2>2. CASE i \in taken
    <3>1. g.edge[i][ahead] \in ToSet(queue) /\ g.edge[i][3 - ahead] = old[k]
      BY <1>4, <1>10, <2>2
    <3>2. k \in 1..n BY <1>1, <1>3
    <3>3. old[k] \in ToSet(queue) BY <1>3, <1>20, <3>2 DEF ToSet
    <3>4. Ends(g.edge[i]) = {g.edge[i][ahead], g.edge[i][3 - ahead]}
      <4>1. CASE ahead = 1 BY <4>1 DEF Ends
      <4>2. CASE ahead = 2 BY <4>2 DEF Ends
      <4> QED  BY <4>1, <4>2
    <3> QED  BY <3>1, <3>3, <3>4
  <2> QED  BY <1>22, <1>23, <2>1, <2>2
<1>24. ASSUME NEW j \in 1..Len(queue), NEW i \in DOMAIN g.edge, j <= k,
              g.edge[i][3 - ahead] = queue[j]
       PROVE  Answered(g, ahead, max, t, i)
  <2>1. k \in 1..n /\ j \in 1..n /\ queue[j] = old[j] BY <1>1, <1>3, <1>20, <1>24
  <2>2. CASE j = k
    <3>1. i \in from BY <1>4, <1>24, <2>1, <2>2
    <3>2. ASSUME g.edge[i][ahead] \in ToSet(queue) PROVE i \in t.edges
      BY <1>10, <1>22, <3>1, <3>2
    <3>3. ASSUME g.edge[i][ahead] \notin ToSet(queue) PROVE Len(queue) >= max /\ t.more
      <4>1. to[i] = g.edge[i][ahead] BY <1>5, <3>1
      <4>2. to[i] \notin ToSet(old) BY <1>20, <3>3, <4>1
      <4>3. PICK f \in new : to[f] = to[i] BY <1>14, <3>1, <4>2
      <4>4. f \notin room BY <1>18, <1>20, <3>3, <4>1, <4>3
      <4>5. Len(queue) = max BY <1>16, <1>20, <4>3, <4>4
      <4>6. taken # from BY <1>10, <3>1, <3>3
      <4>7. t.more BY <1>22, <4>6, Zenon
      <4> QED  BY <4>5, <4>7
    <3> QED  BY <1>22, <3>2, <3>3 DEF Answered
  <2>3. CASE j # k
    <3>1. j <= k - 1 BY <1>24, <2>1, <2>3
    <3>2. Answered(g, ahead, max, s, i)
      BY <1>1, <1>3, <1>24, <2>1, <3>1 DEF TraceKept
    <3>3. CASE g.edge[i][ahead] \in ToSet(old)
      <4>1. i \in s.edges BY <1>1, <3>2, <3>3 DEF Answered
      <4>2. g.edge[i][ahead] \in ToSet(queue) /\ i \in t.edges BY <1>20, <1>22, <3>3, <4>1
      <4> QED  BY <1>22, <4>2 DEF Answered
    <3>4. CASE g.edge[i][ahead] \notin ToSet(old)
      <4>1. n >= max /\ s.more BY <1>1, <1>3, <3>2, <3>4 DEF Answered
      <4>2. n = max BY <1>2, <1>3, <4>1
      <4>3. room = {} BY <1>16, <4>2
      <4>4. ToSet(queue) = ToSet(old) BY <1>20, <4>3
      <4>5. Len(queue) >= max BY <1>16, <1>20, <4>2
      <4> QED  BY <1>22, <3>4, <4>1, <4>4, <4>5 DEF Answered
    <3> QED  BY <3>3, <3>4
  <2> QED  BY <2>2, <2>3
<1>25. start \in ToSet(queue) BY <1>2, <1>20
<1>26. Len(queue) <= max BY <1>16, <1>20
<1> QED  BY <1>11, <1>20, <1>21, <1>22, <1>23, <1>24, <1>25, <1>26 DEF TraceKept

\* What the recursion in Trace says.
TraceWalk(h, g, start, ahead, max) ==
  h = [k \in 0..Cardinality(g.node) |->
         IF k = 0 THEN [queue |-> <<start>>, edges |-> {}, more |-> FALSE]
         ELSE LET s == h[k - 1] IN
              IF k > Len(s.queue) THEN s ELSE Follow(g, ahead, max, s, k)]

LEMMA TraceWalkExists ==
  ASSUME NEW g, TraceGraph(g), NEW start \in g.node, NEW ahead \in 1..2, NEW max \in Nat \ {0}
  PROVE  \E h : TraceWalk(h, g, start, ahead, max)
<1> DEFINE S == TraceState(g)
           a == [queue |-> <<start>>, edges |-> {}, more |-> FALSE]
           F == [p \in Nat \X S |->
                   IF p[1] > Len(p[2].queue) THEN p[2] ELSE Follow(g, ahead, max, p[2], p[1])]
<1>1. a \in S
  <2>1. <<start>> \in Seq(g.node) /\ {} \in SUBSET DOMAIN g.edge BY OneIsSeq
  <2> QED  BY <2>1 DEF TraceState
<1>2. F \in [Nat \X S -> S]
  <2>1. ASSUME NEW p \in Nat \X S
        PROVE  (IF p[1] > Len(p[2].queue) THEN p[2] ELSE Follow(g, ahead, max, p[2], p[1])) \in S
    <3>1. p[2] \in S OBVIOUS
    <3>2. Follow(g, ahead, max, p[2], p[1]) \in S BY <3>1, FollowIs
    <3> QED  BY <3>1, <3>2
  <2> HIDE DEF S
  <2> QED  BY <2>1
<1>3. PICK n \in Nat : n = Cardinality(g.node) BY FS_CardinalityType DEF TraceGraph
<1>4. ASSUME NEW k \in 1..n, NEW t \in S
      PROVE  F[<<k, t>>] = IF k > Len(t.queue) THEN t ELSE Follow(g, ahead, max, t, k)
  <2>1. <<k, t>> \in Nat \X S OBVIOUS
  <2> HIDE DEF S
  <2> QED  BY <2>1
<1> HIDE DEF S, a, F
<1>5. PICK h \in [0..n -> S] : Iteration(h, n, a, F) BY <1>1, <1>2, Iterates
<1>6. ASSUME NEW k \in 0..n
      PROVE  h[k] = IF k = 0 THEN a
                    ELSE LET s == h[k - 1] IN
                         IF k > Len(s.queue) THEN s ELSE Follow(g, ahead, max, s, k)
  <2>1. h[k] = IF k = 0 THEN a ELSE F[<<k, h[k - 1]>>] BY <1>5 DEF Iteration
  <2>2. ASSUME k # 0
        PROVE  F[<<k, h[k - 1]>>] = IF k > Len(h[k - 1].queue) THEN h[k - 1]
                                    ELSE Follow(g, ahead, max, h[k - 1], k)
    <3>1. k \in 1..n /\ k - 1 \in 0..n BY <2>2
    <3>2. h[k - 1] \in S BY <1>5, <3>1
    <3> QED  BY <1>4, <3>1, <3>2
  <2> QED  BY <2>1, <2>2
<1>7. h = [k \in 0..n |-> h[k]] BY <1>5
<1>8. TraceWalk(h, g, start, ahead, max) BY <1>3, <1>6, <1>7 DEF TraceWalk, a
<1> QED  BY <1>8

LEMMA TraceIs ==
  ASSUME NEW g, TraceGraph(g), NEW start \in g.node, NEW ahead \in 1..2, NEW max \in Nat \ {0}
  PROVE  \E s : /\ TraceKept(g, start, ahead, max, s, Cardinality(g.node))
                /\ Trace(g, start, ahead, max) =
                      [nodes |-> ToSet(s.queue), edges |-> s.edges, more |-> s.more]
<1> DEFINE walk == CHOOSE h : TraceWalk(h, g, start, ahead, max)
<1>1. Trace(g, start, ahead, max) =
         [nodes |-> ToSet(walk[Cardinality(g.node)].queue),
          edges |-> walk[Cardinality(g.node)].edges, more |-> walk[Cardinality(g.node)].more]
  BY Zenon DEF Trace, TraceWalk
<1>2. TraceWalk(walk, g, start, ahead, max) BY TraceWalkExists
<1> HIDE DEF walk
<1>3. PICK n \in Nat : n = Cardinality(g.node) BY FS_CardinalityType DEF TraceGraph
<1>4. walk[0] = [queue |-> <<start>>, edges |-> {}, more |-> FALSE]
  <2>1. 0 \in 0..n OBVIOUS
  <2> QED  BY <1>2, <1>3, <2>1 DEF TraceWalk
<1>5. ASSUME NEW k \in 1..n
      PROVE  walk[k] = IF k > Len(walk[k - 1].queue) THEN walk[k - 1]
                       ELSE Follow(g, ahead, max, walk[k - 1], k)
  <2>1. k \in 0..n /\ k # 0 OBVIOUS
  <2> QED  BY <1>2, <1>3, <2>1 DEF TraceWalk
<1> DEFINE good == {k \in 0..n : TraceKept(g, start, ahead, max, walk[k], k)}
<1>6. 0 \in good
  <2>1. PICK s : s = walk[0] OBVIOUS
  <2>2. s \in TraceState(g)
    <3>1. <<start>> \in Seq(g.node) /\ {} \in SUBSET DOMAIN g.edge BY OneIsSeq
    <3> QED  BY <1>4, <2>1, <3>1 DEF TraceState
  <2>3. s.queue = <<start>> /\ Len(s.queue) = 1 /\ s.queue[1] = start /\ s.edges = {}
    BY <1>4, <2>1
  <2>4. start \in ToSet(s.queue) BY <2>3 DEF ToSet
  <2>5. Distinct(s.queue) BY <2>3 DEF Distinct
  <2>6. TraceKept(g, start, ahead, max, s, 0) BY <2>2, <2>3, <2>4, <2>5 DEF TraceKept
  <2> QED  BY <2>1, <2>6
<1>7. ASSUME NEW k \in 1..n, k - 1 \in good PROVE k \in good
  <2>1. PICK s : s = walk[k - 1] OBVIOUS
  <2>2. TraceKept(g, start, ahead, max, s, k - 1) BY <1>7, <2>1
  <2>3. CASE k > Len(s.queue)
    <3>1. s.queue \in Seq(g.node) BY <2>2 DEF TraceKept, TraceState
    <3>2. \A j \in 1..Len(s.queue) : j <= k - 1 BY <2>3, <3>1
    <3>3. TraceKept(g, start, ahead, max, s, k) BY <2>2, <3>2 DEF TraceKept
    <3> QED  BY <1>5, <2>1, <2>3, <3>3
  <2>4. CASE ~ (k > Len(s.queue))
    <3>1. s.queue \in Seq(g.node) BY <2>2 DEF TraceKept, TraceState
    <3>2. k <= Len(s.queue) /\ k \in Nat \ {0} BY <2>4, <3>1
    <3>3. TraceKept(g, start, ahead, max, Follow(g, ahead, max, s, k), k)
      BY <2>2, <3>2, FollowKeeps
    <3> QED  BY <1>5, <2>1, <2>4, <3>3
  <2> QED  BY <2>3, <2>4
<1> HIDE DEF good
<1>8. n \in good BY <1>6, <1>7, Steady
<1>9. TraceKept(g, start, ahead, max, walk[n], n) BY <1>8 DEF good
<1> QED  BY <1>1, <1>3, <1>9

LEMMA TraceCloses ==
  ASSUME NEW g, TraceGraph(g), NEW start \in g.node, NEW ahead \in 1..2, NEW max \in Nat \ {0},
         NEW out, out = Trace(g, start, ahead, max)
  PROVE  /\ Cardinality(out.nodes) <= max /\ start \in out.nodes
         /\ out.edges = {i \in DOMAIN g.edge : Ends(g.edge[i]) \subseteq out.nodes}
         /\ ~out.more => \A i \in DOMAIN g.edge :
                            g.edge[i][3 - ahead] \in out.nodes => g.edge[i][ahead] \in out.nodes
<1>1. PICK s : /\ TraceKept(g, start, ahead, max, s, Cardinality(g.node))
               /\ out = [nodes |-> ToSet(s.queue), edges |-> s.edges, more |-> s.more]
  BY TraceIs
<1>2. PICK n \in Nat : n = Cardinality(g.node) BY FS_CardinalityType DEF TraceGraph
<1>3. /\ s.queue \in Seq(g.node) /\ s.edges \subseteq DOMAIN g.edge /\ s.more \in BOOLEAN
      /\ start \in ToSet(s.queue) /\ Distinct(s.queue) /\ Len(s.queue) <= max
      /\ \A i \in s.edges : Ends(g.edge[i]) \subseteq ToSet(s.queue)
  BY <1>1 DEF TraceKept, TraceState
<1>4. Len(s.queue) <= n BY <1>2, <1>3, DistinctBounded DEF TraceGraph
<1>5. ASSUME NEW i \in DOMAIN g.edge, g.edge[i][3 - ahead] \in ToSet(s.queue)
      PROVE  Answered(g, ahead, max, s, i)
  <2>1. PICK j \in 1..Len(s.queue) : s.queue[j] = g.edge[i][3 - ahead] BY <1>3, <1>5 DEF ToSet
  <2>2. j <= n BY <1>3, <1>4
  <2> QED  BY <1>1, <1>2, <2>1, <2>2 DEF TraceKept
<1>6. out.nodes = ToSet(s.queue) /\ out.edges = s.edges /\ out.more = s.more BY <1>1
<1>7. Cardinality(out.nodes) <= max BY <1>3, <1>6, DistinctCount
<1>8. ASSUME NEW i \in DOMAIN g.edge
      PROVE  i \in out.edges <=> Ends(g.edge[i]) \subseteq out.nodes
  <2>1. Ends(g.edge[i]) = {g.edge[i][ahead], g.edge[i][3 - ahead]}
    <3>1. CASE ahead = 1 BY <3>1 DEF Ends
    <3>2. CASE ahead = 2 BY <3>2 DEF Ends
    <3> QED  BY <3>1, <3>2
  <2>2. ASSUME Ends(g.edge[i]) \subseteq out.nodes PROVE i \in out.edges
    <3>1. g.edge[i][ahead] \in ToSet(s.queue) /\ g.edge[i][3 - ahead] \in ToSet(s.queue)
      BY <1>6, <2>1, <2>2
    <3>2. Answered(g, ahead, max, s, i) BY <1>5, <3>1
    <3> QED  BY <1>6, <3>1, <3>2 DEF Answered
  <2> QED  BY <1>3, <1>6, <2>2
<1>9. out.edges = {i \in DOMAIN g.edge : Ends(g.edge[i]) \subseteq out.nodes}
  BY <1>3, <1>6, <1>8
<1>10. ASSUME ~out.more, NEW i \in DOMAIN g.edge, g.edge[i][3 - ahead] \in out.nodes
       PROVE  g.edge[i][ahead] \in out.nodes
  <2>1. Answered(g, ahead, max, s, i) BY <1>5, <1>6, <1>10
  <2> QED  BY <1>6, <1>10, <2>1 DEF Answered
<1>11. start \in out.nodes BY <1>3, <1>6
<1> QED  BY <1>7, <1>9, <1>10, <1>11

-----------------------------------------------------------------------------
(* Overviews                                                               *)

LEMMA DivIs ==
  ASSUME NEW n \in Nat \ {0}, NEW m \in 0..(n * n - 1)
  PROVE  m \div n \in 0..(n - 1) /\ m % n \in 0..(n - 1)
<1>1. PICK q \in Int, r \in Int : q = m \div n /\ r = m % n OBVIOUS
<1>2. n * n \in Nat /\ m \in Nat /\ m < n * n OBVIOUS
<1>3. m = n * q + r /\ 0 <= r /\ r < n BY <1>1, <1>2
<1>4. q < n
  <2>1. ASSUME n <= q PROVE FALSE
    <3>1. n * n <= n * q BY <2>1
    <3> QED  BY <1>2, <1>3, <3>1
  <2> QED  BY <2>1
<1>5. 0 <= q
  <2>1. ASSUME q <= -1 PROVE FALSE
    <3>1. n * q <= n * (-1) BY <2>1
    <3> QED  BY <1>2, <1>3, <3>1
  <2> QED  BY <2>1
<1> QED  BY <1>1, <1>3, <1>4, <1>5

LEMMA TraceGraphsAre ==
  ASSUME NEW g \in TraceGraphs
  PROVE  TraceGraph(g) /\ g.node = 1..Steps
<1>1. Steps \in Nat \ {0} BY WalksAssumption DEF WalksAssumption
<1>2. PICK some \in SUBSET (1..Steps * Steps) :
         g = Graph(1..Steps,
                   [i \in some |-> <<((i - 1) \div Steps) + 1, ((i - 1) % Steps) + 1>>])
  BY DEF TraceGraphs
<1>3. /\ g.node = 1..Steps /\ DOMAIN g.edge = some
      /\ \A i \in some : g.edge[i] = <<((i - 1) \div Steps) + 1, ((i - 1) % Steps) + 1>>
  BY <1>2 DEF Graph
<1>4. IsFiniteSet(1..Steps)
  <2>1. 1 \in Int /\ Steps \in Int BY <1>1
  <2> QED  BY <2>1, FS_Interval
<1>5. PICK m \in Nat : m = Steps * Steps BY <1>1
<1>6. IsFiniteSet(some)
  <2>1. 1 \in Int /\ m \in Int OBVIOUS
  <2>2. IsFiniteSet(1..m) BY <2>1, FS_Interval
  <2> QED  BY <1>5, <2>2, FS_Subset
<1>7. ASSUME NEW i \in some PROVE g.edge[i][1] \in 1..Steps /\ g.edge[i][2] \in 1..Steps
  <2>1. i \in 1..m BY <1>5
  <2>2. i - 1 \in 0..(Steps * Steps - 1) BY <1>1, <1>5, <2>1
  <2>3. (i - 1) \div Steps \in 0..(Steps - 1) /\ (i - 1) % Steps \in 0..(Steps - 1)
    BY <1>1, <2>2, DivIs
  <2>4. PICK a \in 0..(Steps - 1), b \in 0..(Steps - 1) :
           a = (i - 1) \div Steps /\ b = (i - 1) % Steps
    BY <2>3
  <2>5. g.edge[i] = <<a + 1, b + 1>> BY <1>3, <2>4
  <2>6. a + 1 \in 1..Steps /\ b + 1 \in 1..Steps BY <1>1, <2>4
  <2> QED  BY <2>5, <2>6
<1>8. some \subseteq Nat BY <1>5
<1> QED  BY <1>3, <1>4, <1>6, <1>7, <1>8 DEF TraceGraph

LEMMA DegreeIs == ASSUME NEW g, TraceGraph(g), NEW n PROVE Degree(g, n) \in Nat
<1>1. PICK inner : inner = {i \in DOMAIN g.edge : Ends(g.edge[i]) \subseteq g.node} OBVIOUS
<1>2. IsFiniteSet(inner) BY <1>1, FS_Subset DEF TraceGraph
<1>3. PICK a, b : a = {i \in inner : g.edge[i][1] = n} /\ b = {i \in inner : g.edge[i][2] = n}
  OBVIOUS
<1>4. a \subseteq inner /\ b \subseteq inner BY <1>3
<1>5. Cardinality(a) \in Nat /\ Cardinality(b) \in Nat BY <1>2, <1>4, FS_Subset, FS_CardinalityType
<1>6. Degree(g, n) = Cardinality(a) + Cardinality(b) BY <1>1, <1>3 DEF Degree
<1> QED  BY <1>5, <1>6

LEMMA NodesPreferred ==
  ASSUME NEW g, TraceGraph(g), g.node \subseteq Nat
  PROVE  Ordered(g.node, [n \in g.node |-> Preferred(g, n)])
<1>1. PICK T : T = g.node /\ T \subseteq Nat /\ IsFiniteSet(T) BY DEF TraceGraph
<1>2. PICK D : D = [n \in T |-> Degree(g, n)] OBVIOUS
<1>3. \A n \in T : D[n] \in Nat BY <1>2, DegreeIs
<1>4. PICK P : P = [n \in T |-> Preferred(g, n)] OBVIOUS
<1>5. ASSUME NEW n \in T, NEW m
      PROVE  m \in P[n] <=> m \in T /\ (D[m] > D[n] \/ (D[m] = D[n] /\ m < n))
  BY <1>1, <1>2, <1>4 DEF Preferred
<1>6. P \in [T -> SUBSET T]
  <2>1. \A n \in T : P[n] \subseteq T BY <1>5
  <2> QED  BY <1>4, <2>1
<1>7. \A a \in T : a \notin P[a] BY <1>1, <1>3, <1>5
<1>8. ASSUME NEW a \in T, NEW b \in P[a], NEW c \in P[b] PROVE c \in P[a]
  <2>1. b \in T /\ c \in T BY <1>5, <1>8
  <2>2. a \in Nat /\ b \in Nat /\ c \in Nat /\ D[a] \in Nat /\ D[b] \in Nat /\ D[c] \in Nat
    BY <1>1, <1>3, <2>1
  <2>3. D[b] > D[a] \/ (D[b] = D[a] /\ b < a) BY <1>5
  <2>4. D[c] > D[b] \/ (D[c] = D[b] /\ c < b) BY <1>5, <2>1
  <2>5. D[c] > D[a] \/ (D[c] = D[a] /\ c < a) BY <2>2, <2>3, <2>4
  <2> QED  BY <1>5, <2>1, <2>5
<1>9. ASSUME NEW a \in T, NEW b \in T PROVE a = b \/ a \in P[b] \/ b \in P[a]
  <2>1. a \in Nat /\ b \in Nat /\ D[a] \in Nat /\ D[b] \in Nat BY <1>1, <1>3
  <2>2. \/ a = b \/ D[a] > D[b] \/ (D[a] = D[b] /\ a < b)
        \/ D[b] > D[a] \/ (D[b] = D[a] /\ b < a)
    BY <2>1
  <2> QED  BY <1>5, <2>2
<1>10. Ordered(T, P) BY <1>1, <1>6, <1>7, <1>8, <1>9 DEF Ordered
<1> QED  BY <1>1, <1>4, <1>10

LEMMA StorePageIs ==
  ASSUME NEW g, TraceGraph(g), g.node \subseteq Nat, NEW limit \in Nat \ {0},
         NEW first, first = StorePage(g, limit)
  PROVE  /\ \A n \in first.nodes, m \in g.node \ first.nodes : Degree(g, n) >= Degree(g, m)
         /\ first.more <=> first.nodes # g.node
<1>1. PICK T : T = g.node /\ T \subseteq Nat /\ IsFiniteSet(T) BY DEF TraceGraph
<1>2. PICK P : P = [n \in T |-> Preferred(g, n)] OBVIOUS
<1>3. Ordered(T, P) BY <1>1, <1>2, NodesPreferred
<1>4. \A n \in T : P[n] = Preferred(g, n) BY <1>2
<1>5. PICK N \in Nat : N = Cardinality(T) BY <1>1, FS_CardinalityType
<1>6. ASSUME NEW n \in T PROVE Cardinality(P[n]) \in Nat /\ Cardinality(P[n]) < N
  BY <1>3, <1>5, RankIsBelow
<1>7. PICK found : found = {n \in T : Cardinality(P[n]) < limit + 1} OBVIOUS
<1>8. Search(g, limit + 1) = found BY <1>1, <1>4, <1>7 DEF Search
<1>9. first.nodes = {n \in found : Cardinality(P[n]) < limit}
  <2>1. first.nodes = {n \in found : Cardinality(Preferred(g, n)) < limit}
    BY <1>8 DEF StorePage, Page
  <2>2. found \subseteq T BY <1>7
  <2> QED  BY <1>4, <2>1, <2>2
<1>10. first.more = (Cardinality(found) > limit) BY <1>8 DEF StorePage, Page
<1>11. ASSUME NEW n \in T PROVE n \in first.nodes <=> Cardinality(P[n]) < limit
  <2>1. Cardinality(P[n]) < limit => n \in found BY <1>6, <1>7
  <2> QED  BY <1>9, <2>1
<1>12. first.nodes \subseteq T BY <1>7, <1>9
<1>13. ASSUME NEW n \in first.nodes, NEW m \in T \ first.nodes PROVE Degree(g, n) >= Degree(g, m)
  <2>1. Degree(g, n) \in Nat /\ Degree(g, m) \in Nat BY DegreeIs
  <2>2. ASSUME Degree(g, m) > Degree(g, n) PROVE FALSE
    <3>1. m \in P[n] BY <1>1, <1>4, <1>12, <2>2 DEF Preferred
    <3>2. Cardinality(P[m]) < Cardinality(P[n]) BY <1>3, <1>12, <3>1, RanksDiffer
    <3>3. Cardinality(P[n]) < limit BY <1>11, <1>12
    <3>4. ~ (Cardinality(P[m]) < limit) BY <1>11
    <3>5. Cardinality(P[m]) \in Nat /\ Cardinality(P[n]) \in Nat BY <1>6, <1>12
    <3> QED  BY <3>2, <3>3, <3>4, <3>5
  <2> QED  BY <2>1, <2>2
<1>14. Cardinality(found) = IF limit + 1 <= N THEN limit + 1 ELSE N
  <2>1. limit + 1 \in Nat OBVIOUS
  <2> QED  BY <1>3, <1>5, <1>7, <2>1, RanksBelow
<1>15. first.more <=> N > limit
  <2>1. PICK c \in Nat : c = Cardinality(found) /\ (c > limit <=> N > limit)
    <3>1. CASE limit + 1 <= N BY <1>14, <3>1
    <3>2. CASE ~ (limit + 1 <= N) BY <1>14, <3>2
    <3> QED  BY <3>1, <3>2
  <2>2. (c > limit) = (Cardinality(found) > limit) BY <2>1
  <2> QED  BY <1>10, <2>1, <2>2, Zenon
<1>16. first.nodes # T <=> N > limit
  <2>1. ASSUME N > limit PROVE first.nodes # T
    <3>1. PICK n \in T : Cardinality(P[n]) = limit BY <1>3, <1>5, <2>1, RankTaken
    <3>2. n \notin first.nodes BY <1>11, <3>1
    <3> QED  BY <3>2
  <2>2. ASSUME ~ (N > limit) PROVE first.nodes = T
    <3>1. ASSUME NEW n \in T PROVE n \in first.nodes
      <4>1. Cardinality(P[n]) < limit BY <1>5, <1>6, <2>2
      <4> QED  BY <1>11, <4>1
    <3> QED  BY <1>12, <3>1
  <2> QED  BY <2>1, <2>2
<1> QED  BY <1>1, <1>13, <1>15, <1>16

LEMMA PageOf ==
  ASSUME NEW n \in Nat \ {0}, NEW limit \in Nat \ {0}
  PROVE  /\ \E k \in 1..n : (k - 1) * limit < n /\ n <= (k - 1) * limit + limit
         /\ \A k \in Nat \ {0}, j \in Nat \ {0} :
               /\ (k - 1) * limit < n /\ n <= (k - 1) * limit + limit
               /\ (j - 1) * limit < n /\ n <= (j - 1) * limit + limit
               => k = j
<1>1. PICK q \in Int, r \in Int : q = (n - 1) \div limit /\ r = (n - 1) % limit OBVIOUS
<1>2. n - 1 = limit * q + r /\ 0 <= r /\ r < limit BY <1>1
<1>3. 0 <= q
  <2>1. ASSUME q <= -1 PROVE FALSE
    <3>1. limit * q <= limit * (-1) BY <2>1
    <3> QED  BY <1>2, <3>1
  <2> QED  BY <2>1
<1>4. q <= n - 1
  <2>1. q <= limit * q BY <1>3
  <2> QED  BY <1>2, <2>1
<1>5. q + 1 \in 1..n /\ (q + 1) - 1 = q /\ q * limit = limit * q BY <1>3, <1>4
<1>6. ((q + 1) - 1) * limit < n /\ n <= ((q + 1) - 1) * limit + limit BY <1>2, <1>5
<1>7. ASSUME NEW k \in Nat \ {0}, NEW j \in Nat \ {0}, k < j,
             n <= (k - 1) * limit + limit, (j - 1) * limit < n
      PROVE  FALSE
  <2>1. k <= j - 1 BY <1>7
  <2>2. k * limit <= (j - 1) * limit BY <2>1
  <2>3. (k - 1) * limit + limit = k * limit OBVIOUS
  <2>4. k * limit \in Nat /\ (j - 1) * limit \in Nat OBVIOUS
  <2> QED  BY <1>7, <2>2, <2>3, <2>4
<1>8. ASSUME NEW k \in Nat \ {0}, NEW j \in Nat \ {0},
             (k - 1) * limit < n, n <= (k - 1) * limit + limit,
             (j - 1) * limit < n, n <= (j - 1) * limit + limit
      PROVE  k = j
  <2>1. k < j \/ j < k \/ k = j OBVIOUS
  <2> QED  BY <1>7, <1>8, <2>1
<1> QED  BY <1>5, <1>6, <1>8

Beyond(g, last) == \E n \in g.node : Cardinality({m \in g.node : m <= n}) > last

LEMMA RowPageIs ==
  ASSUME NEW g, NEW N \in Nat, g.node = 1..N, NEW limit \in Nat \ {0}, NEW k \in Nat \ {0},
         NEW page, page = RowPage(g, (k - 1) * limit, limit)
  PROVE  /\ page.nodes = {n \in 1..N : (k - 1) * limit < n /\ n <= (k - 1) * limit + limit}
         /\ page.more <=> \E n \in 1..N : n > (k - 1) * limit + limit
<1>1. ASSUME NEW n \in g.node PROVE Cardinality({m \in g.node : m <= n}) = n
  <2>1. {m \in g.node : m <= n} = 1..n BY <1>1
  <2>2. 1 \in Int /\ n \in Int BY <1>1
  <2>3. Cardinality(1..n) = n BY <1>1, <2>2, FS_Interval
  <2> QED  BY <2>1, <2>3
<1>2. PICK offset \in Nat : offset = (k - 1) * limit OBVIOUS
<1>3. page = RowPage(g, offset, limit) BY <1>2
<1>4. page.nodes = {n \in g.node : offset < n /\ n <= offset + limit} BY <1>1, <1>3 DEF RowPage, Page
<1>5. page.more <=> \E n \in g.node : n > offset + limit
  <2>1. page.more = \E n \in g.node : Cardinality({m \in g.node : m <= n}) > offset + limit
    <3>1. page = Page(g, {n \in g.node : /\ offset < Cardinality({m \in g.node : m <= n})
                                         /\ Cardinality({m \in g.node : m <= n}) <= offset + limit},
                      Beyond(g, offset + limit))
      BY <1>3, Zenon DEF RowPage, Beyond
    <3>2. page.more = Beyond(g, offset + limit) BY <3>1 DEF Page
    <3> QED  BY <3>2, Zenon DEF Beyond
  <2>2. (\E n \in g.node : Cardinality({m \in g.node : m <= n}) > offset + limit)
        <=> \E n \in g.node : n > offset + limit
    BY <1>1, Zenon
  <2> QED  BY <2>1, <2>2, Zenon
<1> QED  BY <1>2, <1>4, <1>5

LEMMA OverviewsRead == OverviewsComplete
<1> SUFFICES ASSUME NEW g \in TraceGraphs, NEW limit \in Limits
             PROVE  LET pages == [k \in 1..Steps |-> RowPage(g, (k - 1) * limit, limit)]
                        first == StorePage(g, limit) IN
                    /\ \A n \in g.node : Cardinality({k \in 1..Steps : n \in pages[k].nodes}) = 1
                    /\ \A k \in 1..Steps :
                          pages[k].more <=> \E j \in k + 1..Steps : pages[j].nodes # {}
                    /\ \A n \in first.nodes, m \in g.node \ first.nodes :
                          Degree(g, n) >= Degree(g, m)
                    /\ first.more <=> first.nodes # g.node
  BY DEF OverviewsComplete
<1>1. TraceGraph(g) /\ g.node = 1..Steps BY TraceGraphsAre
<1>2. Steps \in Nat \ {0} /\ limit \in Nat \ {0} BY WalksAssumption DEF WalksAssumption
<1>3. PICK pages : pages = [k \in 1..Steps |-> RowPage(g, (k - 1) * limit, limit)] OBVIOUS
<1>4. PICK first : first = StorePage(g, limit) OBVIOUS
<1>5. ASSUME NEW k \in 1..Steps
      PROVE  /\ pages[k].nodes =
                  {n \in 1..Steps : (k - 1) * limit < n /\ n <= (k - 1) * limit + limit}
             /\ pages[k].more <=> \E n \in 1..Steps : n > (k - 1) * limit + limit
  <2>1. PICK page : page = RowPage(g, (k - 1) * limit, limit) /\ page = pages[k] BY <1>3
  <2>2. k \in Nat \ {0} /\ Steps \in Nat BY <1>2
  <2>3. /\ page.nodes = {n \in 1..Steps : (k - 1) * limit < n /\ n <= (k - 1) * limit + limit}
        /\ page.more <=> \E n \in 1..Steps : n > (k - 1) * limit + limit
    BY <1>1, <1>2, <2>1, <2>2, RowPageIs
  <2> QED  BY <2>1, <2>3
<1>6. ASSUME NEW n \in g.node PROVE Cardinality({k \in 1..Steps : n \in pages[k].nodes}) = 1
  <2>1. n \in 1..Steps /\ n \in Nat \ {0} BY <1>1, <1>2, <1>6
  <2>2. PICK k \in 1..n : (k - 1) * limit < n /\ n <= (k - 1) * limit + limit
    BY <1>2, <2>1, PageOf
  <2>3. k \in 1..Steps BY <1>2, <2>1
  <2>4. ASSUME NEW j \in 1..Steps, n \in pages[j].nodes PROVE j = k
    <3>1. (j - 1) * limit < n /\ n <= (j - 1) * limit + limit BY <1>5, <2>4
    <3>2. j \in Nat \ {0} /\ k \in Nat \ {0} BY <1>2, <2>3
    <3> QED  BY <1>2, <2>1, <2>2, <3>1, <3>2, PageOf
  <2>5. n \in pages[k].nodes BY <1>5, <2>1, <2>2, <2>3
  <2>6. {j \in 1..Steps : n \in pages[j].nodes} = {k} BY <2>3, <2>4, <2>5
  <2> QED  BY <2>6, FS_Singleton
<1>7. ASSUME NEW k \in 1..Steps
      PROVE  pages[k].more <=> \E j \in k + 1..Steps : pages[j].nodes # {}
  <2>1. k \in Nat \ {0} BY <1>2
  <2>2. PICK last \in Nat : last = (k - 1) * limit + limit /\ last = k * limit BY <1>2, <2>1
  <2>3. ASSUME NEW n \in 1..Steps, n > last
        PROVE  \E j \in k + 1..Steps : pages[j].nodes # {}
    <3>1. n \in Nat \ {0} BY <1>2
    <3>2. PICK j \in 1..n : (j - 1) * limit < n /\ n <= (j - 1) * limit + limit
      BY <1>2, <3>1, PageOf
    <3>3. ASSUME j <= k PROVE FALSE
      <4>1. j * limit <= k * limit BY <1>2, <2>1, <3>1, <3>3
      <4>2. (j - 1) * limit + limit = j * limit BY <1>2, <3>1
      <4>3. j * limit \in Nat BY <1>2, <3>1
      <4> QED  BY <2>2, <2>3, <3>1, <3>2, <4>1, <4>2, <4>3
    <3>4. j \in k + 1..Steps /\ j \in 1..Steps BY <1>2, <2>1, <3>1, <3>3
    <3>5. n \in pages[j].nodes BY <1>5, <3>2, <3>4
    <3> QED  BY <3>4, <3>5
  <2>4. ASSUME NEW j \in k + 1..Steps, NEW n \in pages[j].nodes
        PROVE  n \in 1..Steps /\ n > last
    <3>1. j \in 1..Steps /\ k <= j - 1 BY <1>2, <2>1
    <3>2. n \in 1..Steps /\ (j - 1) * limit < n BY <1>5, <2>4, <3>1
    <3>3. k * limit <= (j - 1) * limit BY <1>2, <2>1, <3>1
    <3>4. (j - 1) * limit \in Nat BY <1>2, <3>1
    <3> QED  BY <1>2, <2>2, <3>2, <3>3, <3>4
  <2>5. pages[k].more <=> \E n \in 1..Steps : n > last BY <1>5, <2>2
  <2> QED  BY <2>3, <2>4, <2>5
<1>8. g.node \subseteq Nat BY <1>1, <1>2
<1>9. /\ \A n \in first.nodes, m \in g.node \ first.nodes : Degree(g, n) >= Degree(g, m)
      /\ first.more <=> first.nodes # g.node
  BY <1>1, <1>2, <1>4, <1>8, StorePageIs
<1> QED  BY <1>3, <1>4, <1>6, <1>7, <1>9

LEMMA TracesRead == TracesClose
<1> SUFFICES ASSUME NEW g \in TraceGraphs, NEW start \in 1..Steps, NEW ahead \in 1..2,
                    NEW max \in Limits
             PROVE  LET out == Trace(g, start, ahead, max) IN
                    /\ Cardinality(out.nodes) <= max /\ start \in out.nodes
                    /\ out.edges = {i \in DOMAIN g.edge : Ends(g.edge[i]) \subseteq out.nodes}
                    /\ ~out.more => \A i \in DOMAIN g.edge :
                          g.edge[i][3 - ahead] \in out.nodes => g.edge[i][ahead] \in out.nodes
  BY DEF TracesClose
<1>1. TraceGraph(g) /\ start \in g.node BY TraceGraphsAre
<1>2. max \in Nat \ {0} BY WalksAssumption DEF WalksAssumption
<1> QED  BY <1>1, <1>2, TraceCloses

-----------------------------------------------------------------------------
(* Walks in widening circles                                               *)

Touches(g, n, m) == \E i \in Incident(g, n) : OtherEnd(g.edge[i], n) = m

LEMMA TouchIsMutual ==
  ASSUME NEW g, NEW n, NEW i \in Incident(g, n), NEW m, m = OtherEnd(g.edge[i], n)
  PROVE  /\ i \in DOMAIN g.edge /\ i \in Incident(g, m) /\ OtherEnd(g.edge[i], m) = n
         /\ \A x : x \in Ends(g.edge[i]) <=> x = n \/ x = m
<1>1. i \in DOMAIN g.edge /\ (g.edge[i][1] = n \/ g.edge[i][2] = n) BY DEF Incident, Ends
<1>2. CASE g.edge[i][1] = n
  <2>1. m = g.edge[i][2] BY <1>2 DEF OtherEnd
  <2> QED  BY <1>1, <1>2, <2>1 DEF Incident, Ends, OtherEnd
<1>3. CASE g.edge[i][1] # n
  <2>1. m = g.edge[i][1] /\ g.edge[i][2] = n BY <1>1, <1>3 DEF OtherEnd
  <2> QED  BY <1>1, <1>3, <2>1 DEF Incident, Ends, OtherEnd
<1> QED  BY <1>2, <1>3

\* What is one step away, and what is reached with each number of steps.
Beside(g, kinds, inner) ==
  {n \in kinds : \E i \in Incident(g, n) : OtherEnd(g.edge[i], n) \in inner}
Circles(ball, g, start, kinds) ==
  ball = [k \in 0..Steps |->
            IF k = 0 THEN {start}
            ELSE LET inner == ball[k - 1] IN
                 inner \cup {n \in kinds : \E i \in Incident(g, n) :
                                OtherEnd(g.edge[i], n) \in inner}]

LEMMA CirclesExist ==
  ASSUME NEW g, NEW start, NEW kinds
  PROVE  \E ball : Circles(ball, g, start, kinds)
<1> DEFINE S == SUBSET (kinds \cup {start})
           a == {start}
           F == [p \in Nat \X S |-> p[2] \cup Beside(g, kinds, p[2])]
<1>0. Steps \in Nat BY WalksAssumption DEF WalksAssumption
<1>1. a \in S OBVIOUS
<1>2. F \in [Nat \X S -> S]
  <2>1. ASSUME NEW p \in Nat \X S PROVE p[2] \cup Beside(g, kinds, p[2]) \in S
    <3>1. p[2] \in S OBVIOUS
    <3>2. Beside(g, kinds, p[2]) \subseteq kinds BY DEF Beside
    <3> QED  BY <3>1, <3>2
  <2> HIDE DEF S
  <2> QED  BY <2>1
<1>3. ASSUME NEW k \in 1..Steps, NEW t \in S
      PROVE  F[<<k, t>>] = t \cup Beside(g, kinds, t)
  <2>1. <<k, t>> \in Nat \X S OBVIOUS
  <2> HIDE DEF S
  <2> QED  BY <2>1
<1> HIDE DEF S, a, F
<1>4. PICK h \in [0..Steps -> S] : Iteration(h, Steps, a, F) BY <1>0, <1>1, <1>2, Iterates
<1>5. ASSUME NEW k \in 0..Steps
      PROVE  h[k] = IF k = 0 THEN a ELSE h[k - 1] \cup Beside(g, kinds, h[k - 1])
  <2>1. h[k] = IF k = 0 THEN a ELSE F[<<k, h[k - 1]>>] BY <1>4 DEF Iteration
  <2>2. ASSUME k # 0 PROVE F[<<k, h[k - 1]>>] = h[k - 1] \cup Beside(g, kinds, h[k - 1])
    <3>1. k \in 1..Steps /\ k - 1 \in 0..Steps BY <1>0, <2>2
    <3>2. h[k - 1] \in S BY <1>4, <3>1
    <3> QED  BY <1>3, <3>1, <3>2
  <2> QED  BY <2>1, <2>2
<1>6. h = [k \in 0..Steps |-> h[k]] BY <1>4
<1>7. h = [k \in 0..Steps |-> IF k = 0 THEN a ELSE h[k - 1] \cup Beside(g, kinds, h[k - 1])]
  BY <1>5, <1>6
<1>8. Circles(h, g, start, kinds) BY <1>7, Zenon DEF Circles, Beside, a
<1> QED  BY <1>8

Widening(ball, g, start, kinds) ==
  /\ ball[0] = {start}
  /\ \A k \in 1..Steps : ball[k] = ball[k - 1] \cup Beside(g, kinds, ball[k - 1])

LEMMA AroundIs ==
  ASSUME NEW g, NEW start, NEW kinds
  PROVE  Widening(Around(g, start, kinds), g, start, kinds)
<1> DEFINE ball == CHOOSE b : Circles(b, g, start, kinds)
<1>1. Around(g, start, kinds) = ball BY Zenon DEF Around, Circles
<1>2. Circles(ball, g, start, kinds) BY CirclesExist
<1> HIDE DEF ball
<1>3. Steps \in Nat BY WalksAssumption DEF WalksAssumption
<1>4. ball[0] = {start}
  <2>1. 0 \in 0..Steps BY <1>3
  <2> QED  BY <1>2, <2>1 DEF Circles
<1>5. ASSUME NEW k \in 1..Steps PROVE ball[k] = ball[k - 1] \cup Beside(g, kinds, ball[k - 1])
  <2>1. k \in 0..Steps /\ k # 0 BY <1>3
  <2> QED  BY <1>2, <2>1 DEF Circles, Beside
<1> QED  BY <1>1, <1>4, <1>5 DEF Widening

LEMMA CirclesWiden ==
  ASSUME NEW g, NEW start, NEW kinds, NEW ball, Widening(ball, g, start, kinds),
         NEW d \in 0..Steps, NEW c \in 0..d
  PROVE  ball[c] \subseteq ball[d]
<1>1. Steps \in Nat BY WalksAssumption DEF WalksAssumption
<1> DEFINE Bad == {m \in Nat : c <= m /\ m <= d /\ ~ (ball[c] \subseteq ball[m])}
<1>2. ASSUME NEW m \in Bad PROVE \E l \in Bad : l < m
  <2>1. m \in Nat /\ c <= m /\ m <= d /\ ~ (ball[c] \subseteq ball[m]) /\ m # c OBVIOUS
  <2>2. m \in 1..Steps /\ m - 1 \in Nat /\ c <= m - 1 /\ m - 1 <= d /\ m - 1 < m BY <1>1, <2>1
  <2>3. ball[m - 1] \subseteq ball[m] BY <2>2 DEF Widening
  <2>4. m - 1 \in Bad BY <2>1, <2>2, <2>3
  <2> QED  BY <2>2, <2>4
<1>3. Bad = {}
  <2>1. Bad \in SUBSET Nat OBVIOUS
  <2> HIDE DEF Bad
  <2> QED  BY <1>2, <2>1, NoneIsLeast
<1>4. d \in Nat /\ c <= d BY <1>1
<1> QED  BY <1>3, <1>4

\* What a walk has met: nodes in the order in which they were found, with the number of
\* steps to each, after k pops; only those fewer than depth steps away were searched, and
\* when the walk is whole all that is behind them has been met.
Levels(g, start, kinds, depth, whole, N, D, n, k) ==
  /\ n \in Nat \ {0} /\ k \in Nat /\ D \in [1..n -> 0..depth] /\ DOMAIN N = 1..n
  /\ N[1] = start /\ D[1] = 0
  /\ \A i \in 1..n, j \in 1..n : i <= j => D[i] <= D[j]
  /\ \A i \in 1..n, j \in 1..n : N[i] = N[j] => i = j
  /\ \A j \in 2..n : N[j] \in kinds /\ \E p \in 1..n : /\ p < j /\ p <= k /\ D[j] = D[p] + 1
                                                       /\ Touches(g, N[p], N[j])
  /\ whole => \A j \in 1..n, m \in kinds :
                 j <= k /\ D[j] < depth /\ Touches(g, N[j], m)
                    => \E q \in 1..n : N[q] = m /\ D[q] <= D[j] + 1

LEMMA LevelsNear ==
  ASSUME NEW g, NEW start, NEW kinds, NEW depth \in Nat, NEW whole, NEW N, NEW D, NEW n,
         NEW k \in Nat \ {0}, Levels(g, start, kinds, depth, whole, N, D, n, k - 1), k <= n,
         NEW j \in 1..n
  PROVE  D[j] <= D[k] + 1
<1>1. n \in Nat \ {0} /\ D \in [1..n -> 0..depth] /\ D[1] = 0 BY DEF Levels
<1>2. k \in 1..n /\ D[k] \in Nat /\ D[j] \in Nat BY <1>1
<1>3. CASE j = 1 BY <1>1, <1>2, <1>3
<1>4. CASE j # 1
  <2>1. j \in 2..n BY <1>1, <1>4
  <2>2. PICK p \in 1..n : p <= k - 1 /\ D[j] = D[p] + 1 BY <2>1 DEF Levels
  <2>3. p <= k BY <1>1, <1>2, <2>2
  <2>4. D[p] <= D[k] BY <1>2, <2>3 DEF Levels
  <2>5. D[p] \in Nat BY <1>1
  <2> QED  BY <1>2, <2>2, <2>4, <2>5
<1> QED  BY <1>3, <1>4

\* A pop that finds nothing to search.
LEMMA LevelsStay ==
  ASSUME NEW g, NEW start, NEW kinds, NEW depth \in Nat, NEW whole \in BOOLEAN, NEW N, NEW D, NEW n,
         NEW k \in Nat \ {0}, Levels(g, start, kinds, depth, whole, N, D, n, k - 1),
         k > n \/ D[k] >= depth \/ ~whole
  PROVE  Levels(g, start, kinds, depth, whole, N, D, n, k)
<1>1. /\ n \in Nat \ {0} /\ k - 1 \in Nat /\ D \in [1..n -> 0..depth] /\ DOMAIN N = 1..n
      /\ N[1] = start /\ D[1] = 0
      /\ \A i \in 1..n, j \in 1..n : i <= j => D[i] <= D[j]
      /\ \A i \in 1..n, j \in 1..n : N[i] = N[j] => i = j
  BY DEF Levels
<1>2. ASSUME NEW j \in 2..n
      PROVE  N[j] \in kinds /\ \E p \in 1..n : /\ p < j /\ p <= k /\ D[j] = D[p] + 1
                                               /\ Touches(g, N[p], N[j])
  <2>1. N[j] \in kinds BY DEF Levels
  <2>2. PICK p \in 1..n : p < j /\ p <= k - 1 /\ D[j] = D[p] + 1 /\ Touches(g, N[p], N[j])
    BY DEF Levels
  <2>3. p <= k BY <1>1, <2>2
  <2> QED  BY <2>1, <2>2, <2>3
<1>3. ASSUME whole, NEW j \in 1..n, NEW m \in kinds, j <= k, D[j] < depth, Touches(g, N[j], m)
      PROVE  \E q \in 1..n : N[q] = m /\ D[q] <= D[j] + 1
  <2>1. j # k
    <3>1. D[j] \in Nat /\ j <= n BY <1>1
    <3> QED  BY <1>1, <1>3, <3>1
  <2>2. j <= k - 1 BY <1>1, <1>3, <2>1
  <2> QED  BY <1>3, <2>2 DEF Levels
<1> QED  BY <1>1, <1>2, <1>3 DEF Levels

\* A pop that finds what is beside its node.
Grown(g, kinds, depth, more, N, D, n, k, R, E, m) ==
  /\ k <= n /\ D[k] < depth /\ m \in Nat /\ n <= m /\ DOMAIN R = 1..m /\ E \in [1..m -> Nat]
  /\ \A j \in 1..n : R[j] = N[j] /\ E[j] = D[j]
  /\ \A j \in (n + 1)..m : R[j] \in kinds /\ E[j] = D[k] + 1 /\ Touches(g, N[k], R[j])
  /\ \A i \in 1..m, j \in 1..m : R[i] = R[j] => i = j
  /\ more => \A a \in kinds : Touches(g, N[k], a) => \E q \in 1..m : R[q] = a

LEMMA LevelsGrow ==
  ASSUME NEW g, NEW start, NEW kinds, NEW depth \in Nat, NEW whole \in BOOLEAN, NEW N, NEW D, NEW n,
         NEW k \in Nat \ {0}, Levels(g, start, kinds, depth, whole, N, D, n, k - 1),
         NEW more \in BOOLEAN, more => whole, NEW R, NEW E, NEW m,
         Grown(g, kinds, depth, more, N, D, n, k, R, E, m)
  PROVE  Levels(g, start, kinds, depth, more, R, E, m, k)
<1>0. /\ k <= n /\ D[k] < depth /\ m \in Nat /\ n <= m /\ DOMAIN R = 1..m /\ E \in [1..m -> Nat]
      /\ \A j \in 1..n : R[j] = N[j] /\ E[j] = D[j]
      /\ \A j \in (n + 1)..m : R[j] \in kinds /\ E[j] = D[k] + 1 /\ Touches(g, N[k], R[j])
      /\ \A i \in 1..m, j \in 1..m : R[i] = R[j] => i = j
      /\ more => \A a \in kinds : Touches(g, N[k], a) => \E q \in 1..m : R[q] = a
  BY DEF Grown
<1>1. /\ n \in Nat \ {0} /\ D \in [1..n -> 0..depth] /\ DOMAIN N = 1..n
      /\ N[1] = start /\ D[1] = 0
      /\ \A i \in 1..n, j \in 1..n : i <= j => D[i] <= D[j]
  BY DEF Levels
<1>2. k \in 1..n /\ D[k] \in Nat /\ D[k] + 1 \in 0..depth /\ 1 \in 1..n BY <1>0, <1>1
<1>3. \A j \in 1..m : j \in 1..n \/ j \in (n + 1)..m BY <1>0, <1>1
<1>4. \A j \in 1..n : j \in 1..m BY <1>0, <1>1
<1>5. ASSUME NEW j \in 1..m PROVE E[j] \in 0..depth /\ E[j] <= D[k] + 1
  <2>1. CASE j \in 1..n
    <3>1. D[j] <= D[k] + 1 BY <1>0, <2>1, LevelsNear
    <3> QED  BY <1>0, <1>1, <2>1, <3>1
  <2>2. CASE j \in (n + 1)..m BY <1>0, <1>2, <2>2
  <2> QED  BY <1>0, <1>3, <2>1, <2>2
<1>6. E \in [1..m -> 0..depth]
  <2>1. E = [j \in 1..m |-> E[j]] BY <1>0
  <2> QED  BY <1>0, <1>5, <2>1
<1>7. R[1] = start /\ E[1] = 0 BY <1>0, <1>1, <1>2
<1>8. ASSUME NEW i \in 1..m, NEW j \in 1..m, i <= j PROVE E[i] <= E[j]
  <2>1. CASE j \in 1..n
    <3>1. i \in 1..n BY <1>0, <1>1, <1>8, <2>1
    <3> QED  BY <1>0, <1>1, <1>8, <2>1, <3>1
  <2>2. CASE j \in (n + 1)..m BY <1>0, <1>5, <2>2
  <2> QED  BY <1>0, <1>3, <2>1, <2>2
<1>9. ASSUME NEW j \in 2..m
      PROVE  R[j] \in kinds /\ \E p \in 1..m : /\ p < j /\ p <= k /\ E[j] = E[p] + 1
                                               /\ Touches(g, R[p], R[j])
  <2>1. CASE j \in 2..n
    <3>1. N[j] \in kinds BY <1>0, <2>1 DEF Levels
    <3>2. PICK p \in 1..n : p < j /\ p <= k - 1 /\ D[j] = D[p] + 1 /\ Touches(g, N[p], N[j])
      BY <1>0, <2>1 DEF Levels
    <3>3. j \in 1..n /\ p \in 1..m /\ p <= k BY <1>0, <1>1, <1>4, <2>1, <3>2
    <3> QED  BY <1>0, <3>1, <3>2, <3>3
  <2>2. CASE j \in (n + 1)..m
    <3>1. k \in 1..m /\ k < j BY <1>0, <1>1, <1>2, <2>2
    <3>2. R[k] = N[k] /\ E[k] = D[k] BY <1>0, <1>2
    <3> QED  BY <1>0, <2>2, <3>1, <3>2
  <2> QED  BY <1>0, <1>1, <2>1, <2>2
<1>10. ASSUME more, NEW j \in 1..m, NEW a \in kinds, j <= k, E[j] < depth, Touches(g, R[j], a)
       PROVE  \E q \in 1..m : R[q] = a /\ E[q] <= E[j] + 1
  <2>1. j \in 1..n /\ R[j] = N[j] /\ E[j] = D[j] BY <1>0, <1>1, <1>2, <1>10
  <2>2. CASE j = k
    <3>1. PICK q \in 1..m : R[q] = a BY <1>0, <1>10, <2>1, <2>2
    <3>2. E[q] <= E[j] + 1 BY <1>0, <1>5, <2>1, <2>2
    <3> QED  BY <1>0, <3>1, <3>2
  <2>3. CASE j # k
    <3>1. j <= k - 1 BY <1>0, <1>10, <2>1, <2>3
    <3>2. whole /\ D[j] < depth /\ Touches(g, N[j], a) BY <1>0, <1>10, <2>1
    <3>3. PICK q \in 1..n : N[q] = a /\ D[q] <= D[j] + 1 BY <1>0, <2>1, <3>1, <3>2 DEF Levels
    <3>4. q \in 1..m /\ R[q] = a /\ E[q] <= E[j] + 1 BY <1>0, <1>4, <2>1, <3>3
    <3> QED  BY <1>0, <3>4
  <2> QED  BY <1>0, <2>2, <2>3
<1>11. m \in Nat \ {0} BY <1>0, <1>1
<1> QED  BY <1>0, <1>6, <1>7, <1>8, <1>9, <1>10, <1>11 DEF Levels

\* Every node that was met is as near as its number of steps says.
LEMMA LevelsNotTooFar ==
  ASSUME NEW g, NEW start, NEW kinds, NEW depth \in 0..Steps, NEW whole, NEW N, NEW D, NEW n,
         NEW k, Levels(g, start, kinds, depth, whole, N, D, n, k),
         NEW ball, Widening(ball, g, start, kinds), NEW j \in 1..n
  PROVE  N[j] \in ball[D[j]] /\ N[j] \in ball[depth]
<1>1. Steps \in Nat /\ depth \in Nat BY WalksAssumption DEF WalksAssumption
<1>2. n \in Nat \ {0} /\ D \in [1..n -> 0..depth] /\ N[1] = start /\ D[1] = 0 BY DEF Levels
<1> DEFINE Bad == {i \in 1..n : N[i] \notin ball[D[i]]}
<1>3. ASSUME NEW i \in Bad PROVE \E l \in Bad : l < i
  <2>1. i \in 1..n /\ N[i] \notin ball[D[i]] OBVIOUS
  <2>2. i # 1 BY <1>2, <2>1 DEF Widening
  <2>3. i \in 2..n BY <1>2, <2>1, <2>2
  <2>4. PICK p \in 1..n : p < i /\ D[i] = D[p] + 1 /\ Touches(g, N[p], N[i]) BY <2>3 DEF Levels
  <2>5. ASSUME N[p] \in ball[D[p]] PROVE FALSE
    <3>1. PICK e \in Incident(g, N[p]) : OtherEnd(g.edge[e], N[p]) = N[i] BY <2>4 DEF Touches
    <3>2. e \in Incident(g, N[i]) /\ OtherEnd(g.edge[e], N[i]) = N[p] BY <3>1, TouchIsMutual
    <3>3. N[i] \in kinds BY <2>3 DEF Levels
    <3>4. N[i] \in Beside(g, kinds, ball[D[p]]) BY <2>5, <3>2, <3>3 DEF Beside
    <3>5. D[i] \in 1..Steps /\ D[i] - 1 = D[p]
      <4>1. D[i] \in 0..depth /\ D[p] \in 0..depth BY <1>2, <2>1
      <4> QED  BY <1>1, <2>4, <4>1
    <3>6. ball[D[i]] = ball[D[p]] \cup Beside(g, kinds, ball[D[p]]) BY <3>5 DEF Widening
    <3> QED  BY <2>1, <3>4, <3>6
  <2> QED  BY <2>4, <2>5
<1>4. Bad = {}
  <2>1. Bad \in SUBSET Nat BY <1>2
  <2> HIDE DEF Bad
  <2> QED  BY <1>3, <2>1, NoneIsLeast
<1>5. N[j] \in ball[D[j]] BY <1>4
<1>6. D[j] \in 0..depth BY <1>2
<1>7. ball[D[j]] \subseteq ball[depth] BY <1>6, CirclesWiden
<1> QED  BY <1>5, <1>7

\* When all that is nearer has been searched, everything as near has been met.
NearerPopped(D, n, k, c) == \A j \in 1..n : D[j] < c => j <= k

MetWithin(N, D, n, a, c) == \E j \in 1..n : N[j] = a /\ D[j] <= c

LEMMA LevelsMeetAll ==
  ASSUME NEW g, NEW start, NEW kinds, NEW depth, depth \in 0..Steps, NEW whole \in BOOLEAN, whole,
         NEW N, NEW D, NEW n, NEW k, Levels(g, start, kinds, depth, whole, N, D, n, k),
         NEW ball, Widening(ball, g, start, kinds),
         NEW c, c \in 0..depth, NearerPopped(D, n, k, c),
         NEW a, a \in ball[c]
  PROVE  MetWithin(N, D, n, a, c)
<1>1. Steps \in Nat /\ depth \in Nat /\ c \in Nat /\ c <= depth
  BY WalksAssumption DEF WalksAssumption
<1>2. n \in Nat \ {0} /\ k \in Nat /\ D \in [1..n -> 0..depth] /\ N[1] = start /\ D[1] = 0 BY DEF Levels
<1> DEFINE good == {d \in 0..c : \A m \in ball[d] : \E j \in 1..n : N[j] = m /\ D[j] <= d}
<1>3. 0 \in good
  <2>1. 0 \in 0..c /\ 1 \in 1..n /\ D[1] <= 0 BY <1>1, <1>2
  <2> QED  BY <1>2, <2>1 DEF Widening
<1>4. ASSUME NEW d \in 1..c, d - 1 \in good PROVE d \in good
  <2>1. d \in 0..c /\ d \in 1..Steps /\ d - 1 \in Nat BY <1>1
  <2>2. ASSUME NEW m \in ball[d] PROVE \E j \in 1..n : N[j] = m /\ D[j] <= d
    <3>1. m \in ball[d - 1] \/ m \in Beside(g, kinds, ball[d - 1]) BY <2>1, <2>2 DEF Widening
    <3>2. CASE m \in ball[d - 1]
      <4>1. PICK j \in 1..n : N[j] = m /\ D[j] <= d - 1 BY <1>4, <3>2
      <4>2. D[j] <= d
        <5>1. D[j] \in Nat BY <1>2
        <5> QED  BY <2>1, <4>1, <5>1
      <4> QED  BY <4>1, <4>2
    <3>3. CASE m \in Beside(g, kinds, ball[d - 1])
      <4>1. PICK e \in Incident(g, m) : m \in kinds /\ OtherEnd(g.edge[e], m) \in ball[d - 1]
        BY <3>3 DEF Beside
      <4>2. PICK b : b = OtherEnd(g.edge[e], m) /\ b \in ball[d - 1] BY <4>1
      <4>3. PICK j \in 1..n : N[j] = b /\ D[j] <= d - 1 BY <1>4, <4>2
      <4>4. e \in Incident(g, b) /\ OtherEnd(g.edge[e], b) = m BY <4>1, <4>2, TouchIsMutual
      <4>5. Touches(g, N[j], m) BY <4>3, <4>4 DEF Touches
      <4>6. PICK v \in Nat : v = D[j] /\ v < c /\ v < depth /\ v + 1 <= d
        <5>1. D[j] \in Nat BY <1>2
        <5> QED  BY <1>1, <2>1, <4>3, <5>1
      <4>7. j <= k BY <4>6 DEF NearerPopped
      <4>8. PICK q \in 1..n : N[q] = m /\ D[q] <= D[j] + 1 BY <4>1, <4>5, <4>6, <4>7 DEF Levels
      <4>9. D[q] <= d
        <5>1. D[q] \in Nat BY <1>2
        <5> QED  BY <2>1, <4>6, <4>8, <5>1
      <4> QED  BY <4>8, <4>9
    <3> QED  BY <3>1, <3>2, <3>3
  <2> QED  BY <2>1, <2>2
<1> HIDE DEF good
<1>5. c \in good BY <1>1, <1>3, <1>4, Steady
<1> QED  BY <1>5 DEF good, MetWithin

-----------------------------------------------------------------------------
(* The neighbours of an entity                                             *)

WalkGraph(g, ends) ==
  /\ IsFiniteSet(ends) /\ g.node \subseteq ends
  /\ IsFiniteSet(DOMAIN g.edge) /\ DOMAIN g.edge \subseteq Nat
  /\ \A i \in DOMAIN g.edge : g.edge[i][1] \in ends /\ g.edge[i][2] \in ends

\* With what the edges in a set lead to.
Reached(met, to, all) == met \cup {to[i] : i \in all}

LEMMA ReachedCount ==
  ASSUME NEW met, IsFiniteSet(met), NEW to, NEW all, IsFiniteSet(all)
  PROVE  IsFiniteSet(Reached(met, to, all)) /\ Cardinality(Reached(met, to, all)) \in Nat
<1>1. IsFiniteSet({to[i] : i \in all})
  <2> DEFINE f == [i \in all |-> to[i]]
             S == {to[i] : i \in all}
  <2>1. f \in [all -> S] /\ \A x \in S : \E i \in all : f[i] = x OBVIOUS
  <2> HIDE DEF f, S
  <2>2. f \in Surjection(all, S) BY <2>1 DEF Surjection
  <2>3. IsFiniteSet(S) BY <2>2, FS_Surjection
  <2> QED  BY <2>3 DEF S
<1>2. IsFiniteSet(Reached(met, to, all)) BY <1>1, FS_Union DEF Reached
<1> QED  BY <1>2, FS_CardinalityType

LEMMA ReachedMore ==
  ASSUME NEW met, IsFiniteSet(met), NEW to, NEW all, IsFiniteSet(all),
         NEW some \in SUBSET all
  PROVE  Cardinality(Reached(met, to, some)) <= Cardinality(Reached(met, to, all))
<1>1. Reached(met, to, some) \subseteq Reached(met, to, all) BY DEF Reached
<1> QED  BY <1>1, ReachedCount, FS_Subset

\* The last of some edges comes after all others.
LEMMA HasGreatest ==
  ASSUME NEW S \in SUBSET Nat, IsFiniteSet(S), S # {}
  PROVE  \E i \in S : \A j \in S : j <= i
<1>1. PICK P : P = [i \in S |-> Earlier(S, i)] OBVIOUS
<1>2. Ordered(S, P) BY <1>1, EdgesOrdered
<1>3. PICK c \in Nat : c = Cardinality(S) /\ c # 0
  <2>1. Cardinality(S) \in Nat BY FS_CardinalityType
  <2>2. Cardinality(S) # 0 BY FS_EmptySet
  <2> QED  BY <2>1, <2>2
<1>4. PICK i \in S : Cardinality(P[i]) = c - 1
  <2>1. c - 1 \in Nat /\ c - 1 < Cardinality(S) BY <1>3
  <2> QED  BY <1>2, <2>1, RankTaken
<1>5. ASSUME NEW j \in S, ~ (j <= i) PROVE FALSE
  <2>1. i \in P[j] BY <1>1, <1>5 DEF Earlier
  <2>2. Cardinality(P[i]) < Cardinality(P[j]) BY <1>2, <2>1, RanksDiffer
  <2>3. Cardinality(P[j]) \in Nat /\ Cardinality(P[j]) < c BY <1>2, <1>3, RankIsBelow
  <2> QED  BY <1>3, <1>4, <2>2, <2>3
<1> QED  BY <1>5

\* What is taken before the answer is full, or fills it.
Wanted(leads, to, met, limit) ==
  {i \in leads : \/ Earlier(leads, i) = {}
                 \/ Cardinality(Reached(met, to, Earlier(leads, i))) < limit}

LEMMA WantedIs ==
  ASSUME NEW leads \in SUBSET Nat, IsFiniteSet(leads), NEW to, NEW met, IsFiniteSet(met),
         NEW limit \in Nat, Cardinality(met) <= limit,
         NEW taken, taken = Wanted(leads, to, met, limit),
         NEW all, all = Cardinality(Reached(met, to, taken))
  PROVE  /\ all \in Nat /\ all <= limit + 1
         /\ all < limit => taken = leads
<1>1. taken \in SUBSET leads /\ IsFiniteSet(taken) /\ taken \in SUBSET Nat
  <2>1. taken \subseteq leads BY DEF Wanted
  <2> QED  BY <2>1, FS_Subset
<1>2. all \in Nat BY <1>1, ReachedCount
<1>3. Cardinality(met) \in Nat BY FS_CardinalityType
<1>4. all <= limit + 1
  <2>1. CASE taken = {}
    <3>1. Reached(met, to, taken) = met BY <2>1 DEF Reached
    <3> QED  BY <1>3, <3>1
  <2>2. CASE taken # {}
    <3>1. PICK i \in taken : \A j \in taken : j <= i BY <1>1, <2>2, HasGreatest
    <3>2. PICK before : before = Earlier(leads, i) OBVIOUS
    <3>3. before \subseteq leads BY <3>2 DEF Earlier
    <3>4. IsFiniteSet(before) BY <3>3, FS_Subset
    <3>5. taken \subseteq before \cup {i}
      <4>1. ASSUME NEW j \in taken, j # i PROVE j \in before
        <5>1. j \in leads /\ j \in Nat /\ i \in Nat /\ j <= i BY <1>1, <3>1
        <5> QED  BY <3>2, <4>1, <5>1 DEF Earlier
      <4> QED  BY <4>1
    <3>6. PICK some : some = Reached(met, to, before) OBVIOUS
    <3>7. IsFiniteSet(some) /\ Cardinality(some) \in Nat BY <3>4, <3>6, ReachedCount
    <3>8. Reached(met, to, taken) \subseteq some \cup {to[i]} BY <3>5, <3>6 DEF Reached
    <3>9. IsFiniteSet(some \cup {to[i]}) /\ Cardinality(some \cup {to[i]}) <= Cardinality(some) + 1
      <4>1. /\ IsFiniteSet(some \cup {to[i]})
            /\ Cardinality(some \cup {to[i]}) =
                  IF to[i] \in some THEN Cardinality(some) ELSE Cardinality(some) + 1
        BY <3>7, FS_AddElement
      <4> QED  BY <3>7, <4>1
    <3>10. all <= Cardinality(some) + 1
      <4>1. all <= Cardinality(some \cup {to[i]}) BY <3>8, <3>9, FS_Subset
      <4>2. Cardinality(some \cup {to[i]}) \in Nat BY <3>9, FS_CardinalityType
      <4> QED  BY <1>2, <3>7, <3>9, <4>1, <4>2
    <3>11. before = {} \/ Cardinality(some) < limit BY <3>2, <3>6 DEF Wanted
    <3>12. before = {} => some = met BY <3>6 DEF Reached
    <3> QED  BY <1>2, <1>3, <3>7, <3>10, <3>11, <3>12
  <2> QED  BY <2>1, <2>2
<1>5. ASSUME all < limit, taken # leads PROVE FALSE
  <2>1. PICK rest : rest = leads \ taken OBVIOUS
  <2>2. rest \in SUBSET Nat /\ rest # {} BY <1>1, <1>5, <2>1
  <2>3. PICK i \in rest : \A j \in rest : i <= j BY <2>2, HasLeast
  <2>4. PICK before : before = Earlier(leads, i) OBVIOUS
  <2>5. before \in SUBSET taken
    <3>1. ASSUME NEW j \in before, j \notin taken PROVE FALSE
      <4>1. j \in rest /\ j < i /\ j \in Nat /\ i \in Nat BY <2>1, <2>2, <2>4, <3>1 DEF Earlier
      <4> QED  BY <2>3, <4>1
    <3> QED  BY <3>1
  <2>6. Cardinality(Reached(met, to, before)) <= all BY <1>1, <2>5, ReachedMore
  <2>7. Cardinality(Reached(met, to, before)) \in Nat
    <3>1. IsFiniteSet(before) BY <1>1, <2>5, FS_Subset
    <3> QED  BY <3>1, ReachedCount
  <2>8. ~ (Cardinality(Reached(met, to, before)) < limit) BY <2>1, <2>3, <2>4 DEF Wanted
  <2> QED  BY <1>2, <1>5, <2>6, <2>7, <2>8
<1> QED  BY <1>2, <1>4, <1>5

LookState(g) == [queue : Seq([node : g.node, depth : Nat]), edges : SUBSET DOMAIN g.edge]
NodesIn(q) == [j \in 1..Len(q) |-> q[j].node]
DepthsIn(q) == [j \in 1..Len(q) |-> q[j].depth]

\* The parts of Look.
Leads(g, kinds, n) == {i \in Incident(g, n) : OtherEnd(g.edge[i], n) \in kinds}
LeadTo(g, leads, n) == [i \in leads |-> OtherEnd(g.edge[i], n)]
Sooner(q, depth) == {past.node : past \in {past \in ToSet(q) : past.depth <= depth + 1}}
FoundAt(new, to, depth) == [i \in new |-> [node |-> to[i], depth |-> depth + 1]]
OnlyFor(taken, to) == [i \in taken |-> to[i]]

LEMMA LookOf ==
  ASSUME NEW g, NEW kinds, NEW limit, NEW s, NEW k
  PROVE  LET from == s.queue[k]
             leads == Leads(g, kinds, from.node)
             to == LeadTo(g, leads, from.node)
             taken == Wanted(leads, to, Selected(s.queue), limit)
             new == Firsts(OnlyFor(taken, to), Sooner(s.queue, from.depth)) IN
         Look(g, kinds, limit, s, k) =
            [queue |-> Behind(s.queue, FoundAt(new, to, from.depth)), edges |-> s.edges \cup taken]
BY Zenon DEF Look, Leads, LeadTo, Wanted, Reached, OnlyFor, Sooner, FoundAt

LEMMA LookIs ==
  ASSUME NEW g, NEW ends, WalkGraph(g, ends), NEW kinds \in SUBSET g.node, NEW limit,
         NEW s \in LookState(g), NEW k \in 1..Len(s.queue)
  PROVE  Look(g, kinds, limit, s, k) \in LookState(g)
<1>1. PICK from : from = s.queue[k] OBVIOUS
<1>2. PICK leads : leads = Leads(g, kinds, from.node) OBVIOUS
<1>3. PICK to : to = LeadTo(g, leads, from.node) OBVIOUS
<1>4. PICK taken : taken = Wanted(leads, to, Selected(s.queue), limit) OBVIOUS
<1>5. PICK new : new = Firsts(OnlyFor(taken, to), Sooner(s.queue, from.depth)) OBVIOUS
<1>6. PICK found : found = FoundAt(new, to, from.depth) OBVIOUS
<1>7. Look(g, kinds, limit, s, k) = [queue |-> Behind(s.queue, found), edges |-> s.edges \cup taken]
  BY <1>1, <1>2, <1>3, <1>4, <1>5, <1>6, LookOf
<1>8. s.queue \in Seq([node : g.node, depth : Nat]) /\ s.edges \subseteq DOMAIN g.edge
  BY DEF LookState
<1>9. from.depth \in Nat
  <2>1. s.queue[k] \in [node : g.node, depth : Nat] BY <1>8, MemberIs
  <2> QED  BY <1>1, <2>1
<1>10. leads \subseteq DOMAIN g.edge /\ \A i \in leads : to[i] \in g.node
  BY <1>2, <1>3 DEF Leads, LeadTo, Incident
<1>11. taken \subseteq leads /\ new \subseteq taken
  BY <1>4, <1>5 DEF Wanted, Firsts, OnlyFor
<1>12. DOMAIN found = new /\ \A i \in new : found[i] \in [node : g.node, depth : Nat]
  BY <1>6, <1>9, <1>10, <1>11 DEF FoundAt
<1>13. IsFiniteSet(new) /\ new \subseteq Nat
  <2>1. new \subseteq DOMAIN g.edge BY <1>10, <1>11
  <2> QED  BY <2>1, FS_Subset DEF WalkGraph
<1>14. Behind(s.queue, found) \in Seq([node : g.node, depth : Nat]) BY <1>8, <1>12, <1>13, BehindIs
<1>15. s.edges \cup taken \subseteq DOMAIN g.edge BY <1>8, <1>10, <1>11
<1> QED  BY <1>7, <1>14, <1>15 DEF LookState

LookKept(g, start, kinds, depth, limit, s, k) ==
  /\ s \in LookState(g)
  /\ Levels(g, start, kinds, depth, Len(s.queue) < limit,
            NodesIn(s.queue), DepthsIn(s.queue), Len(s.queue), k)
  /\ Selected(s.queue) = {start} \cup UNION {Ends(g.edge[i]) : i \in s.edges}
  /\ Len(s.queue) <= limit + 1

LEMMA SelectedIs ==
  ASSUME NEW T, NEW q \in Seq(T), NEW N, N = NodesIn(q)
  PROVE  /\ Selected(q) = {N[j] : j \in 1..Len(q)}
         /\ (\A i \in 1..Len(q), j \in 1..Len(q) : N[i] = N[j] => i = j)
               => IsFiniteSet(Selected(q)) /\ Cardinality(Selected(q)) = Len(q)
<1>1. PICK n \in Nat : n = Len(q) /\ DOMAIN q = 1..n OBVIOUS
<1>2. \A j \in 1..n : N[j] = q[j].node BY <1>1 DEF NodesIn
<1>3. PICK S : S = Selected(q) OBVIOUS
<1>4. \A x : x \in S <=> \E j \in 1..n : x = N[j]
  <2>1. \A x : x \in S <=> \E e \in ToSet(q) : x = e.node BY <1>3 DEF Selected
  <2>2. \A e : e \in ToSet(q) <=> \E j \in 1..n : e = q[j] BY <1>1 DEF ToSet
  <2> QED  BY <1>2, <2>1, <2>2
<1>5. ASSUME \A i \in 1..n, j \in 1..n : N[i] = N[j] => i = j
      PROVE  IsFiniteSet(S) /\ Cardinality(S) = n
  <2>1. IsFiniteSet(1..n) /\ Cardinality(1..n) = n
    <3>1. 1 \in Int /\ n \in Int OBVIOUS
    <3> QED  BY <3>1, FS_Interval
  <2>2. N = [j \in 1..n |-> q[j].node] BY <1>1 DEF NodesIn
  <2>3. N \in [1..n -> S] BY <1>2, <1>4, <2>2
  <2>4. N \in Injection(1..n, S) BY <1>5, <2>3 DEF Injection, IsInjective
  <2>5. N \in Surjection(1..n, S) BY <1>4, <2>3 DEF Surjection
  <2>6. ExistsBijection(1..n, S) BY <2>4, <2>5 DEF Bijection, ExistsBijection
  <2> QED  BY <2>1, <2>6, FS_Bijection
<1> QED  BY <1>1, <1>3, <1>4, <1>5

LEMMA EndsAre ==
  ASSUME NEW g, NEW a, NEW i, i \in Incident(g, a), NEW b, b = OtherEnd(g.edge[i], a), NEW x
  PROVE  x \in Ends(g.edge[i]) <=> x = a \/ x = b
BY TouchIsMutual

Searched(depth, limit, s, k) ==
  k <= Len(s.queue) /\ Len(s.queue) <= limit /\ s.queue[k].depth < depth

LEMMA LookKeeps ==
  ASSUME NEW g, NEW ends, WalkGraph(g, ends), NEW start, NEW kinds \in SUBSET g.node,
         NEW depth \in Nat, NEW limit \in Nat \ {0}, NEW s, NEW k \in Nat \ {0},
         LookKept(g, start, kinds, depth, limit, s, k - 1), Searched(depth, limit, s, k)
  PROVE  LookKept(g, start, kinds, depth, limit, Look(g, kinds, limit, s, k), k)
<1>1. PICK old, T : old = s.queue /\ T = [node : g.node, depth : Nat] OBVIOUS
<1>2. s \in LookState(g) /\ old \in Seq(T) /\ s.edges \subseteq DOMAIN g.edge
  BY <1>1 DEF LookKept, LookState
<1>3. PICK n \in Nat : n = Len(old) /\ DOMAIN old = 1..n BY <1>2
<1>4. k \in 1..n /\ n <= limit BY <1>1, <1>3 DEF Searched
<1>5. PICK N, D : N = NodesIn(old) /\ D = DepthsIn(old) OBVIOUS
<1>6. Levels(g, start, kinds, depth, n < limit, N, D, n, k - 1) BY <1>1, <1>3, <1>5 DEF LookKept
<1>7. /\ DOMAIN N = 1..n /\ D \in [1..n -> 0..depth]
      /\ \A i \in 1..n, j \in 1..n : N[i] = N[j] => i = j
  BY <1>6 DEF Levels
<1>8. \A j \in 1..n : N[j] = old[j].node /\ D[j] = old[j].depth
  BY <1>3, <1>5 DEF NodesIn, DepthsIn
<1>9. PICK from, met : from = old[k] /\ met = Selected(old) OBVIOUS
<1>10. PICK leads : leads = Leads(g, kinds, from.node) OBVIOUS
<1>11. PICK to : to = LeadTo(g, leads, from.node) OBVIOUS
<1>12. PICK taken : taken = Wanted(leads, to, met, limit) OBVIOUS
<1>13. PICK known, tot : known = Sooner(old, from.depth) /\ tot = OnlyFor(taken, to) OBVIOUS
<1>14. PICK new : new = Firsts(tot, known) OBVIOUS
<1>15. PICK found : found = FoundAt(new, to, from.depth) OBVIOUS
<1>16. PICK queue : queue = Behind(old, found) OBVIOUS
<1>17. PICK t : t = Look(g, kinds, limit, s, k) OBVIOUS
<1>18. t = [queue |-> queue, edges |-> s.edges \cup taken]
  BY <1>1, <1>9, <1>10, <1>11, <1>12, <1>13, <1>14, <1>15, <1>16, <1>17, LookOf
<1>19. from.node = N[k] /\ from.depth = D[k] /\ D[k] \in Nat /\ D[k] < depth
  BY <1>1, <1>4, <1>7, <1>8, <1>9 DEF Searched
<1>20. /\ leads \subseteq DOMAIN g.edge /\ leads \in SUBSET Nat /\ IsFiniteSet(leads)
       /\ \A i \in leads : /\ i \in Incident(g, N[k]) /\ to[i] = OtherEnd(g.edge[i], N[k])
                           /\ to[i] \in kinds
  <2>1. leads \subseteq DOMAIN g.edge BY <1>10 DEF Leads, Incident
  <2>2. leads \subseteq Nat /\ IsFiniteSet(leads) BY <2>1, FS_Subset DEF WalkGraph
  <2>3. ASSUME NEW i \in leads
        PROVE  /\ i \in Incident(g, N[k]) /\ to[i] = OtherEnd(g.edge[i], N[k])
               /\ to[i] \in kinds
    BY <1>10, <1>11, <1>19 DEF Leads, LeadTo
  <2> QED  BY <2>1, <2>2, <2>3
<1>21. met = {N[j] : j \in 1..n} /\ IsFiniteSet(met) /\ Cardinality(met) = n
  BY <1>2, <1>3, <1>5, <1>7, <1>9, SelectedIs
<1>22. known = met
  <2>1. ASSUME NEW past \in ToSet(old) PROVE past.depth <= from.depth + 1
    <3>1. PICK j \in 1..n : past = old[j] BY <1>3 DEF ToSet
    <3>2. D[j] <= D[k] + 1 BY <1>4, <1>6, <3>1, LevelsNear
    <3> QED  BY <1>8, <1>19, <3>1, <3>2
  <2>2. {past \in ToSet(old) : past.depth <= from.depth + 1} = ToSet(old) BY <2>1
  <2> QED  BY <1>9, <1>13, <2>2 DEF Sooner, Selected
<1>23. taken \subseteq leads /\ DOMAIN tot = taken /\ \A i \in taken : tot[i] = to[i]
  BY <1>12, <1>13 DEF Wanted, OnlyFor
<1>24. /\ new \subseteq taken /\ \A i \in new : to[i] \notin met
       /\ \A i \in new, j \in new : to[i] = to[j] => i = j
       /\ \A i \in taken : to[i] \in met \/ \E j \in new : to[j] = to[i]
  <2>1. DOMAIN tot \subseteq Nat BY <1>20, <1>23
  <2>2. new \subseteq DOMAIN tot BY <1>14, <2>1, FirstsAre
  <2>3. \A i \in new : tot[i] \notin known BY <1>14, <2>1, FirstsAre
  <2>4. \A i \in new, j \in new : tot[i] = tot[j] => i = j BY <1>14, <2>1, FirstsAre
  <2>5. \A i \in DOMAIN tot : tot[i] \in known \/ \E j \in new : tot[j] = tot[i]
    BY <1>14, <2>1, FirstsAre
  <2>6. \A i \in new : i \in taken /\ tot[i] = to[i] BY <1>23, <2>2
  <2> QED  BY <1>22, <1>23, <2>3, <2>4, <2>5, <2>6
<1>25. DOMAIN found = new /\ \A i \in new : found[i].node = to[i] /\ found[i].depth = D[k] + 1
  BY <1>15, <1>19 DEF FoundAt
<1>26. IsFiniteSet(new) /\ new \subseteq Nat /\ \A i \in new : found[i] \in T
  <2>1. new \subseteq leads BY <1>23, <1>24
  <2>2. \A i \in new : to[i] \in g.node BY <1>20, <2>1
  <2>3. \A i \in new : found[i] \in T BY <1>1, <1>15, <1>19, <2>2 DEF FoundAt
  <2> QED  BY <1>20, <2>1, <2>3, FS_Subset
<1>27. queue \in Seq(T) /\ \E place : Appends(queue, old, found, place)
  BY <1>2, <1>16, <1>25, <1>26, BehindIs
<1>28. PICK place : Appends(queue, old, found, place) BY <1>27
<1>29. PICK m \in Nat : m = Len(queue) /\ DOMAIN queue = 1..m BY <1>27
<1>30. PICK c \in Nat : c = Cardinality(new) BY <1>26, FS_CardinalityType
<1>31. /\ m = n + c /\ \A j \in 1..n : queue[j] = old[j]
       /\ \A j \in (n + 1)..m : place[j] \in new /\ queue[j] = found[place[j]]
       /\ \A i \in new : \E j \in (n + 1)..m : place[j] = i
       /\ \A i \in (n + 1)..m, j \in (n + 1)..m : place[i] = place[j] => i = j
  BY <1>3, <1>25, <1>28, <1>29, <1>30 DEF Appends
<1>32. PICK R, E : R = NodesIn(queue) /\ E = DepthsIn(queue) OBVIOUS
<1>33. /\ DOMAIN R = 1..m /\ DOMAIN E = 1..m
       /\ \A j \in 1..m : R[j] = queue[j].node /\ E[j] = queue[j].depth
  BY <1>29, <1>32 DEF NodesIn, DepthsIn
<1>34. E \in [1..m -> Nat]
  <2>1. \A j \in 1..m : queue[j].depth \in Nat
    <3>1. ASSUME NEW j \in 1..m PROVE queue[j] \in T BY <1>27, <1>29, MemberIs
    <3> QED  BY <1>1, <3>1
  <2> QED  BY <1>29, <1>32, <2>1 DEF DepthsIn
<1>35. \A j \in 1..m : j \in 1..n \/ j \in (n + 1)..m BY <1>31
<1>36. \A j \in 1..n : j \in 1..m /\ R[j] = N[j] /\ E[j] = D[j]
  BY <1>8, <1>31, <1>33
<1>37. \A j \in (n + 1)..m : j \in 1..m /\ R[j] = to[place[j]] /\ E[j] = D[k] + 1
  <2>1. \A j \in (n + 1)..m : j \in 1..m BY <1>31
  <2> QED  BY <1>25, <1>31, <1>33, <2>1
<1>38. ASSUME NEW j \in (n + 1)..m
       PROVE  R[j] \in kinds /\ E[j] = D[k] + 1 /\ Touches(g, N[k], R[j])
  <2>1. place[j] \in leads BY <1>23, <1>24, <1>31
  <2> QED  BY <1>20, <1>37, <2>1 DEF Touches
<1>39. ASSUME NEW i \in 1..m, NEW j \in 1..m, R[i] = R[j] PROVE i = j
  <2>1. CASE i \in 1..n /\ j \in 1..n BY <1>7, <1>36, <1>39, <2>1
  <2>2. CASE i \in 1..n /\ j \in (n + 1)..m BY <1>21, <1>24, <1>31, <1>36, <1>37, <1>39, <2>2
  <2>3. CASE i \in (n + 1)..m /\ j \in 1..n BY <1>21, <1>24, <1>31, <1>36, <1>37, <1>39, <2>3
  <2>4. CASE i \in (n + 1)..m /\ j \in (n + 1)..m
    <3>1. place[i] \in new /\ place[j] \in new /\ to[place[i]] = to[place[j]]
      BY <1>31, <1>37, <1>39, <2>4
    <3> QED  BY <1>24, <1>31, <2>4, <3>1
  <2> QED  BY <1>35, <2>1, <2>2, <2>3, <2>4
<1>40. PICK now : now = Selected(queue) OBVIOUS
<1>41. now = {R[j] : j \in 1..m} /\ Cardinality(now) = m
  BY <1>27, <1>29, <1>32, <1>39, <1>40, SelectedIs
<1>42. now = Reached(met, to, taken)
  <2>1. ASSUME NEW x \in now PROVE x \in met \/ \E i \in taken : x = to[i]
    <3>1. PICK j \in 1..m : x = R[j] BY <1>41
    <3> QED  BY <1>21, <1>24, <1>31, <1>35, <1>36, <1>37, <3>1
  <2>2. ASSUME NEW x \in met PROVE x \in now BY <1>21, <1>36, <1>41
  <2>3. ASSUME NEW i \in taken PROVE to[i] \in now
    <3>1. CASE to[i] \in met BY <2>2, <3>1
    <3>2. CASE to[i] \notin met
      <4>1. PICK f \in new : to[f] = to[i] BY <1>24, <3>2
      <4>2. PICK j \in (n + 1)..m : place[j] = f BY <1>31
      <4> QED  BY <1>37, <1>41, <4>1, <4>2
    <3> QED  BY <3>1, <3>2
  <2> QED  BY <2>1, <2>2, <2>3 DEF Reached
<1>43. m <= limit + 1 /\ (m < limit => taken = leads)
  <2>1. Cardinality(met) <= limit BY <1>4, <1>21
  <2>2. m = Cardinality(Reached(met, to, taken)) BY <1>41, <1>42
  <2>3. /\ leads \in SUBSET Nat /\ IsFiniteSet(leads) /\ IsFiniteSet(met) /\ limit \in Nat
        /\ Cardinality(met) <= limit /\ taken = Wanted(leads, to, met, limit)
        /\ m = Cardinality(Reached(met, to, taken))
    BY <1>12, <1>20, <1>21, <2>1, <2>2
  <2>4. m <= limit + 1 BY <2>3, WantedIs
  <2>5. m < limit => taken = leads BY <2>3, WantedIs
  <2> QED  BY <2>4, <2>5
<1>44. ASSUME m < limit, NEW a \in kinds, Touches(g, N[k], a) PROVE \E q \in 1..m : R[q] = a
  <2>1. PICK i \in Incident(g, N[k]) : OtherEnd(g.edge[i], N[k]) = a BY <1>44 DEF Touches
  <2>2. i \in leads BY <1>10, <1>19, <2>1, <1>44 DEF Leads
  <2>3. i \in taken /\ to[i] = a BY <1>20, <1>43, <1>44, <2>1, <2>2
  <2>4. a \in now BY <1>42, <2>3 DEF Reached
  <2> QED  BY <1>41, <2>4
<1>45. Levels(g, start, kinds, depth, m < limit, R, E, m, k)
  <2>1. n <= m /\ k <= n /\ (m < limit => n < limit) BY <1>4, <1>31
  <2>2. \A j \in 1..n : R[j] = N[j] /\ E[j] = D[j] BY <1>36
  <2>3. \A j \in (n + 1)..m : R[j] \in kinds /\ E[j] = D[k] + 1 /\ Touches(g, N[k], R[j]) BY <1>38
  <2>4. \A i \in 1..m, j \in 1..m : R[i] = R[j] => i = j BY <1>39
  <2>5. m < limit => \A a \in kinds : Touches(g, N[k], a) => \E q \in 1..m : R[q] = a BY <1>44
  <2>6. PICK whole : whole = (n < limit) OBVIOUS
  <2>7. PICK more : more = (m < limit) OBVIOUS
  <2>8. /\ whole \in BOOLEAN /\ more \in BOOLEAN
        /\ Levels(g, start, kinds, depth, whole, N, D, n, k - 1) /\ (more => whole)
        /\ (more => \A a \in kinds : Touches(g, N[k], a) => \E q \in 1..m : R[q] = a)
    <3>1. whole \in BOOLEAN /\ more \in BOOLEAN BY <2>6, <2>7
    <3>2. more => whole BY <2>1, <2>6, <2>7, Zenon
    <3>3. Levels(g, start, kinds, depth, whole, N, D, n, k - 1) BY <1>6, <2>6, Zenon
    <3>4. more => \A a \in kinds : Touches(g, N[k], a) => \E q \in 1..m : R[q] = a
      BY <2>5, <2>7, Zenon
    <3> QED  BY <3>1, <3>2, <3>3, <3>4
  <2>9. Grown(g, kinds, depth, more, N, D, n, k, R, E, m)
    BY <1>19, <1>33, <1>34, <2>1, <2>2, <2>3, <2>4, <2>8 DEF Grown
  <2>10. Levels(g, start, kinds, depth, more, R, E, m, k) BY <2>8, <2>9, LevelsGrow
  <2> QED  BY <2>7, <2>10, Zenon
<1>46. now = {start} \cup UNION {Ends(g.edge[i]) : i \in s.edges \cup taken}
  <2>1. met = {start} \cup UNION {Ends(g.edge[i]) : i \in s.edges} BY <1>1, <1>9 DEF LookKept
  <2>2. ASSUME NEW i \in taken
        PROVE  /\ \A x : x \in Ends(g.edge[i]) <=> x = N[k] \/ x = to[i]
               /\ N[k] \in met
    <3>1. i \in Incident(g, N[k]) /\ to[i] = OtherEnd(g.edge[i], N[k]) BY <1>20, <1>23
    <3>2. \A x : x \in Ends(g.edge[i]) <=> x = N[k] \/ x = to[i] BY <3>1, EndsAre
    <3> QED  BY <1>4, <1>21, <3>2
  <2>3. ASSUME NEW x \in now PROVE x = start \/ \E i \in s.edges \cup taken : x \in Ends(g.edge[i])
    <3>1. x \in met \/ \E i \in taken : x = to[i] BY <1>42 DEF Reached
    <3> QED  BY <2>1, <2>2, <3>1
  <2>4. ASSUME NEW i \in s.edges \cup taken, NEW x \in Ends(g.edge[i]) PROVE x \in now
    <3>1. x \in met \/ (i \in taken /\ x = to[i]) BY <2>1, <2>2, <2>4
    <3> QED  BY <1>42, <3>1 DEF Reached
  <2>5. start \in now BY <1>42, <2>1 DEF Reached
  <2> QED  BY <2>3, <2>4, <2>5
<1>47. t \in LookState(g)
  <2>1. k \in 1..Len(s.queue) BY <1>1, <1>3, <1>4
  <2> QED  BY <1>2, <1>17, <2>1, LookIs
<1>48. t.queue = queue /\ t.edges = s.edges \cup taken BY <1>18
<1> QED  BY <1>17, <1>29, <1>32, <1>40, <1>43, <1>45, <1>46, <1>47, <1>48 DEF LookKept

\* What the recursion in Neighbors says.
Pop(g, depth, limit, kinds, s, k) ==
  IF k > Len(s.queue) \/ Cardinality(Selected(s.queue)) > limit THEN s
  ELSE IF s.queue[k].depth >= depth THEN s
  ELSE Look(g, g.node \cap kinds, limit, s, k)
NeighborWalk(h, g, start, depth, limit, kinds) ==
  h = [k \in 0..Cardinality(g.node) |->
         IF k = 0 THEN [queue |-> <<[node |-> start, depth |-> 0]>>, edges |-> {}]
         ELSE LET s == h[k - 1] IN
              IF k > Len(s.queue) \/ Cardinality(Selected(s.queue)) > limit THEN s
              ELSE IF s.queue[k].depth >= depth THEN s
              ELSE Look(g, g.node \cap kinds, limit, s, k)]

LEMMA NeighborWalkExists ==
  ASSUME NEW g, NEW ends, WalkGraph(g, ends), NEW start \in g.node, NEW depth, NEW limit, NEW kinds
  PROVE  \E h : NeighborWalk(h, g, start, depth, limit, kinds)
<1> DEFINE S == LookState(g)
           a == [queue |-> <<[node |-> start, depth |-> 0]>>, edges |-> {}]
           F == [p \in Nat \X S |->
                   IF p[1] \in 1..Len(p[2].queue) THEN Pop(g, depth, limit, kinds, p[2], p[1])
                   ELSE p[2]]
<1>1. a \in S
  <2>1. [node |-> start, depth |-> 0] \in [node : g.node, depth : Nat] OBVIOUS
  <2>2. <<[node |-> start, depth |-> 0]>> \in Seq([node : g.node, depth : Nat]) BY <2>1, OneIsSeq
  <2> QED  BY <2>2 DEF LookState
<1>2. ASSUME NEW s \in S, NEW k \in 1..Len(s.queue) PROVE Pop(g, depth, limit, kinds, s, k) \in S
  <2>1. g.node \cap kinds \in SUBSET g.node OBVIOUS
  <2>2. Look(g, g.node \cap kinds, limit, s, k) \in S BY <2>1, LookIs
  <2> HIDE DEF S
  <2> QED  BY <2>2 DEF Pop
<1>3. F \in [Nat \X S -> S]
  <2>1. ASSUME NEW p \in Nat \X S
        PROVE  (IF p[1] \in 1..Len(p[2].queue) THEN Pop(g, depth, limit, kinds, p[2], p[1])
                ELSE p[2]) \in S
    <3>1. p[2] \in S OBVIOUS
    <3> HIDE DEF S
    <3> QED  BY <1>2, <3>1
  <2> HIDE DEF S
  <2> QED  BY <2>1
<1>4. PICK n \in Nat : n = Cardinality(g.node)
  <2>1. IsFiniteSet(g.node) BY FS_Subset DEF WalkGraph
  <2> QED  BY <2>1, FS_CardinalityType
<1>5. ASSUME NEW k \in 1..n, NEW s \in S PROVE F[<<k, s>>] = Pop(g, depth, limit, kinds, s, k)
  <2>1. <<k, s>> \in Nat \X S OBVIOUS
  <2>2. Len(s.queue) \in Nat BY DEF LookState
  <2> HIDE DEF S
  <2>3. F[<<k, s>>] = IF k \in 1..Len(s.queue) THEN Pop(g, depth, limit, kinds, s, k) ELSE s BY <2>1
  <2>4. k \notin 1..Len(s.queue) => k > Len(s.queue) BY <2>2
  <2>5. k > Len(s.queue) => Pop(g, depth, limit, kinds, s, k) = s BY DEF Pop
  <2> QED  BY <2>3, <2>4, <2>5
<1> HIDE DEF S, a, F
<1>6. PICK h \in [0..n -> S] : Iteration(h, n, a, F) BY <1>1, <1>3, Iterates
<1>7. ASSUME NEW k \in 0..n
      PROVE  h[k] = IF k = 0 THEN a ELSE Pop(g, depth, limit, kinds, h[k - 1], k)
  <2>1. h[k] = IF k = 0 THEN a ELSE F[<<k, h[k - 1]>>] BY <1>6 DEF Iteration
  <2>2. ASSUME k # 0 PROVE F[<<k, h[k - 1]>>] = Pop(g, depth, limit, kinds, h[k - 1], k)
    <3>1. k \in 1..n /\ k - 1 \in 0..n BY <2>2
    <3>2. h[k - 1] \in S BY <1>6, <3>1
    <3> QED  BY <1>5, <3>1, <3>2
  <2> QED  BY <2>1, <2>2
<1>8. h = [k \in 0..n |-> h[k]] BY <1>6
<1>9. h = [k \in 0..n |-> IF k = 0 THEN a ELSE Pop(g, depth, limit, kinds, h[k - 1], k)]
  BY <1>7, <1>8
<1>10. NeighborWalk(h, g, start, depth, limit, kinds) BY <1>4, <1>9, Zenon DEF NeighborWalk, Pop, a
<1> QED  BY <1>10

LEMMA PopKeeps ==
  ASSUME NEW g, NEW ends, WalkGraph(g, ends), NEW start, NEW kinds,
         NEW depth \in Nat, NEW limit \in Nat \ {0}, NEW s, NEW k \in Nat \ {0},
         LookKept(g, start, g.node \cap kinds, depth, limit, s, k - 1)
  PROVE  LookKept(g, start, g.node \cap kinds, depth, limit, Pop(g, depth, limit, kinds, s, k), k)
<1>1. PICK q, T : q = s.queue /\ T = [node : g.node, depth : Nat] OBVIOUS
<1>2. s \in LookState(g) /\ q \in Seq(T) BY <1>1 DEF LookKept, LookState
<1>3. PICK n \in Nat : n = Len(q) /\ DOMAIN q = 1..n BY <1>2
<1>4. PICK N, D : N = NodesIn(q) /\ D = DepthsIn(q) OBVIOUS
<1>5. PICK near : near = g.node \cap kinds /\ near \in SUBSET g.node OBVIOUS
<1>6. Levels(g, start, near, depth, n < limit, N, D, n, k - 1)
  BY <1>1, <1>3, <1>4, <1>5 DEF LookKept
<1>7. D \in [1..n -> 0..depth] /\ \A i \in 1..n, j \in 1..n : N[i] = N[j] => i = j
  BY <1>6 DEF Levels
<1>8. Cardinality(Selected(q)) = n BY <1>2, <1>3, <1>4, <1>7, SelectedIs
<1>9. \A j \in 1..n : D[j] = q[j].depth /\ D[j] \in Nat BY <1>3, <1>4, <1>7 DEF DepthsIn
<1>10. CASE k <= n /\ n <= limit /\ D[k] < depth
  <2>1. k \in 1..n BY <1>10
  <2>2. Searched(depth, limit, s, k) BY <1>1, <1>3, <1>9, <1>10, <2>1 DEF Searched
  <2>3. Pop(g, depth, limit, kinds, s, k) = Look(g, near, limit, s, k)
    <3>1. ~ (k > Len(s.queue)) /\ ~ (Cardinality(Selected(s.queue)) > limit)
      BY <1>1, <1>3, <1>8, <1>10
    <3>2. ~ (s.queue[k].depth >= depth) BY <1>1, <1>9, <1>10, <2>1
    <3> QED  BY <1>5, <3>1, <3>2, Zenon DEF Pop
  <2>4. LookKept(g, start, near, depth, limit, s, k - 1) BY <1>5
  <2>5. LookKept(g, start, near, depth, limit, Look(g, near, limit, s, k), k)
    BY <1>5, <2>2, <2>4, LookKeeps
  <2> QED  BY <1>5, <2>3, <2>5
<1>11. CASE ~ (k <= n /\ n <= limit /\ D[k] < depth)
  <2>1. Pop(g, depth, limit, kinds, s, k) = s
    <3>1. CASE k > n BY <1>1, <1>3, <3>1 DEF Pop
    <3>2. CASE n > limit BY <1>1, <1>3, <1>8, <3>2 DEF Pop
    <3>3. CASE k <= n /\ D[k] >= depth
      <4>1. k \in 1..n BY <3>3
      <4>2. s.queue[k].depth >= depth BY <1>1, <1>9, <3>3, <4>1
      <4> QED  BY <4>2 DEF Pop
    <3>4. k <= n => D[k] \in Nat BY <1>9
    <3> QED  BY <1>11, <3>1, <3>2, <3>3, <3>4
  <2>2. PICK whole : whole = (n < limit) OBVIOUS
  <2>3. whole \in BOOLEAN BY <2>2
  <2>4. Levels(g, start, near, depth, whole, N, D, n, k - 1) BY <1>6, <2>2, Zenon
  <2>5. k > n \/ D[k] >= depth \/ ~ (n < limit)
    <3>1. k <= n => D[k] \in Nat BY <1>9
    <3> QED  BY <1>11, <3>1
  <2>6. k > n \/ D[k] >= depth \/ ~ whole BY <2>2, <2>5, Zenon
  <2>7. Levels(g, start, near, depth, whole, N, D, n, k) BY <2>3, <2>4, <2>6, LevelsStay
  <2>8. Levels(g, start, near, depth, n < limit, N, D, n, k) BY <2>2, <2>7, Zenon
  <2>9. LookKept(g, start, near, depth, limit, s, k)
    BY <1>1, <1>2, <1>3, <1>4, <1>5, <2>8 DEF LookKept
  <2> QED  BY <1>5, <2>1, <2>9
<1> QED  BY <1>10, <1>11

Shows(out, s) == out = [nodes |-> Selected(s.queue), edges |-> s.edges]

LEMMA NeighborsEnd ==
  ASSUME NEW g, NEW ends, WalkGraph(g, ends), NEW start \in g.node, NEW kinds,
         NEW depth \in Nat, NEW limit \in Nat \ {0}
  PROVE  \E s : /\ LookKept(g, start, g.node \cap kinds, depth, limit, s, Cardinality(g.node))
                /\ Shows(Neighbors(g, start, depth, limit, kinds), s)
<1> DEFINE walk == CHOOSE h : NeighborWalk(h, g, start, depth, limit, kinds)
           near == g.node \cap kinds
<1>1. Shows(Neighbors(g, start, depth, limit, kinds), walk[Cardinality(g.node)])
  BY Zenon DEF Neighbors, NeighborWalk, Shows
<1>2. NeighborWalk(walk, g, start, depth, limit, kinds) BY NeighborWalkExists
<1> HIDE DEF walk
<1>3. PICK n \in Nat : n = Cardinality(g.node)
  <2>1. IsFiniteSet(g.node) BY FS_Subset DEF WalkGraph
  <2> QED  BY <2>1, FS_CardinalityType
<1>4. walk[0] = [queue |-> <<[node |-> start, depth |-> 0]>>, edges |-> {}]
  <2>1. 0 \in 0..n OBVIOUS
  <2> QED  BY <1>2, <1>3, <2>1 DEF NeighborWalk
<1>5. ASSUME NEW k \in 1..n
      PROVE  walk[k] = Pop(g, depth, limit, kinds, walk[k - 1], k)
  <2>1. k \in 0..n /\ k # 0 OBVIOUS
  <2> QED  BY <1>2, <1>3, <2>1 DEF NeighborWalk, Pop
<1> DEFINE good == {k \in 0..n : LookKept(g, start, near, depth, limit, walk[k], k)}
<1>6. 0 \in good
  <2>1. PICK s, q, N, D : s = walk[0] /\ q = s.queue /\ N = NodesIn(q) /\ D = DepthsIn(q) OBVIOUS
  <2>2. s \in LookState(g)
    <3>1. [node |-> start, depth |-> 0] \in [node : g.node, depth : Nat] OBVIOUS
    <3>2. <<[node |-> start, depth |-> 0]>> \in Seq([node : g.node, depth : Nat])
      BY <3>1, OneIsSeq
    <3> QED  BY <1>4, <2>1, <3>2 DEF LookState
  <2>3. q = <<[node |-> start, depth |-> 0]>> /\ s.edges = {} BY <1>4, <2>1
  <2>4. Len(q) = 1 /\ q[1].node = start /\ q[1].depth = 0 BY <2>3
  <2>5. N = [j \in 1..1 |-> start] /\ D = [j \in 1..1 |-> 0]
    <3>1. \A j \in 1..1 : j = 1 OBVIOUS
    <3> QED  BY <2>1, <2>4, <3>1 DEF NodesIn, DepthsIn
  <2>6. Levels(g, start, near, depth, Len(q) < limit, N, D, Len(q), 0)
    <3>1. D \in [1..1 -> 0..depth] BY <2>5
    <3>2. \A j \in 1..1 : j = 1 /\ ~ (j <= 0) OBVIOUS
    <3>3. 2..1 = {} OBVIOUS
    <3> QED  BY <2>4, <2>5, <3>1, <3>2, <3>3 DEF Levels
  <2>7. Selected(q) = {start}
    <3>1. ToSet(q) = {[node |-> start, depth |-> 0]} BY <2>3 DEF ToSet
    <3> QED  BY <3>1 DEF Selected
  <2>8. LookKept(g, start, near, depth, limit, s, 0)
    <3>1. Selected(q) = {start} \cup UNION {Ends(g.edge[i]) : i \in s.edges} BY <2>3, <2>7
    <3> QED  BY <2>1, <2>2, <2>4, <2>6, <3>1 DEF LookKept
  <2> QED  BY <2>1, <2>8
<1>7. ASSUME NEW k \in 1..n, k - 1 \in good PROVE k \in good
  <2>1. PICK s : s = walk[k - 1] OBVIOUS
  <2>2. LookKept(g, start, near, depth, limit, s, k - 1) BY <1>7, <2>1
  <2>3. k \in Nat \ {0} OBVIOUS
  <2>4. LookKept(g, start, near, depth, limit, Pop(g, depth, limit, kinds, s, k), k)
    BY <2>2, <2>3, PopKeeps
  <2> QED  BY <1>5, <2>1, <2>4
<1> HIDE DEF good
<1>8. n \in good BY <1>6, <1>7, Steady
<1>9. LookKept(g, start, near, depth, limit, walk[n], n) BY <1>8 DEF good
<1> QED  BY <1>1, <1>3, <1>9

\* The neighbours of start within depth steps, where ball has what is within each.
NeighborsShown(g, start, depth, limit, out, ball) ==
  /\ Cardinality(out.nodes) <= limit + 1
  /\ out.nodes \subseteq ball[depth] /\ start \in out.nodes
  /\ out.nodes = {start} \cup UNION {Ends(g.edge[i]) : i \in out.edges}
  /\ Cardinality(out.nodes) < limit => out.nodes = ball[depth]

LEMMA NeighborsAre ==
  ASSUME NEW g, NEW ends, WalkGraph(g, ends), NEW start \in g.node, NEW kinds,
         NEW depth \in 1..Steps, NEW limit \in Nat \ {0},
         NEW out, out = Neighbors(g, start, depth, limit, kinds),
         NEW ball, ball = Around(g, start, g.node \cap kinds)
  PROVE  NeighborsShown(g, start, depth, limit, out, ball)
<1>1. Steps \in Nat /\ depth \in Nat /\ depth \in 0..Steps BY WalksAssumption DEF WalksAssumption
<1>2. PICK near : near = g.node \cap kinds OBVIOUS
<1>3. PICK s : /\ LookKept(g, start, near, depth, limit, s, Cardinality(g.node))
               /\ out = [nodes |-> Selected(s.queue), edges |-> s.edges]
  <2>1. PICK s : /\ LookKept(g, start, g.node \cap kinds, depth, limit, s, Cardinality(g.node))
                 /\ Shows(Neighbors(g, start, depth, limit, kinds), s)
    BY <1>1, NeighborsEnd
  <2> QED  BY <1>2, <2>1 DEF Shows
<1>4. PICK C \in Nat : C = Cardinality(g.node) /\ IsFiniteSet(g.node)
  <2>1. IsFiniteSet(g.node) BY FS_Subset DEF WalkGraph
  <2> QED  BY <2>1, FS_CardinalityType
<1>5. PICK q, T : q = s.queue /\ T = [node : g.node, depth : Nat] OBVIOUS
<1>6. s \in LookState(g) /\ q \in Seq(T) BY <1>3, <1>5 DEF LookKept, LookState
<1>7. PICK n \in Nat : n = Len(q) /\ DOMAIN q = 1..n BY <1>6
<1>8. PICK N, D : N = NodesIn(q) /\ D = DepthsIn(q) OBVIOUS
<1>9. /\ Levels(g, start, near, depth, n < limit, N, D, n, C)
      /\ Selected(q) = {start} \cup UNION {Ends(g.edge[i]) : i \in s.edges}
      /\ n <= limit + 1
  BY <1>3, <1>4, <1>5, <1>7, <1>8 DEF LookKept
<1>10. /\ D \in [1..n -> 0..depth] /\ N[1] = start /\ n # 0
       /\ \A i \in 1..n, j \in 1..n : N[i] = N[j] => i = j
  BY <1>9 DEF Levels
<1>11. PICK all : all = Selected(q) OBVIOUS
<1>12. all = {N[j] : j \in 1..n} /\ IsFiniteSet(all) /\ Cardinality(all) = n
  BY <1>6, <1>7, <1>8, <1>10, <1>11, SelectedIs
<1>13. out.nodes = all /\ out.edges = s.edges BY <1>3, <1>5, <1>11
<1>14. n <= C
  <2>1. ASSUME NEW x \in all PROVE x \in g.node
    <3>1. PICK j \in 1..n : x = N[j] BY <1>12
    <3>2. q[j] \in T BY <1>6, <1>7, <3>1, MemberIs
    <3>3. N[j] = q[j].node BY <1>7, <1>8 DEF NodesIn
    <3> QED  BY <1>5, <3>1, <3>2, <3>3
  <2>2. all \subseteq g.node BY <2>1
  <2> QED  BY <1>4, <1>12, <2>2, FS_Subset
<1>15. Widening(ball, g, start, near) BY <1>2, AroundIs
<1>16. all \subseteq ball[depth]
  <2>1. ASSUME NEW j \in 1..n PROVE N[j] \in ball[depth]
    <3>1. PICK whole : whole = (n < limit) OBVIOUS
    <3>2. Levels(g, start, near, depth, whole, N, D, n, C) BY <1>9, <3>1, Zenon
    <3> QED  BY <1>1, <1>15, <3>2, LevelsNotTooFar
  <2> QED  BY <1>12, <2>1
<1>17. start \in all
  <2>1. 1 \in 1..n BY <1>10
  <2> QED  BY <1>10, <1>12, <2>1
<1>18. ASSUME n < limit PROVE ball[depth] \subseteq all
  <2>1. PICK whole : whole = (n < limit) OBVIOUS
  <2>2. Levels(g, start, near, depth, whole, N, D, n, C) /\ whole /\ whole \in BOOLEAN
    <3>1. Levels(g, start, near, depth, whole, N, D, n, C) BY <1>9, <2>1, Zenon
    <3>2. whole BY <1>18, <2>1, Zenon
    <3> QED  BY <2>1, <3>1, <3>2
  <2>3. ASSUME NEW a \in ball[depth] PROVE a \in all
    <3>2. NearerPopped(D, n, C, depth) BY <1>14 DEF NearerPopped
    <3>3. depth \in 0..Steps /\ depth \in 0..depth BY <1>1
    <3>4. MetWithin(N, D, n, a, depth) BY <1>15, <2>2, <3>2, <3>3, LevelsMeetAll
    <3>1. \E j \in 1..n : N[j] = a BY <3>4 DEF MetWithin
    <3> QED  BY <1>12, <3>1
  <2> QED  BY <2>3
<1>19. /\ Cardinality(out.nodes) <= limit + 1
       /\ out.nodes \subseteq ball[depth] /\ start \in out.nodes
       /\ out.nodes = {start} \cup UNION {Ends(g.edge[i]) : i \in out.edges}
       /\ Cardinality(out.nodes) < limit => out.nodes = ball[depth]
  BY <1>9, <1>11, <1>12, <1>13, <1>16, <1>17, <1>18
<1> QED  BY <1>19, Zenon DEF NeighborsShown

-----------------------------------------------------------------------------
(* The path between two entities                                           *)

PathRow(g, ends) == [nodes : Seq(ends), edges : Seq(DOMAIN g.edge)]
PathState(g, ends) == [queue : Seq(PathRow(g, ends)), found : SUBSET PathRow(g, ends)]
LastsIn(q) == [j \in 1..Len(q) |-> Last(q[j].nodes)]
LengthsIn(q) == [j \in 1..Len(q) |-> Len(q[j].edges)]

\* The edges of a path join its nodes.
Joins(g, p, m) == \A x : x \in Ends(g.edge[p.edges[m]]) <=> x = p.nodes[m] \/ x = p.nodes[m + 1]
Chain(g, ends, p) ==
  /\ p \in PathRow(g, ends) /\ Len(p.nodes) = Len(p.edges) + 1
  /\ \A m \in 1..Len(p.edges) : Joins(g, p, m)

Longer(p, x, i) == [nodes |-> Append(p.nodes, x), edges |-> Append(p.edges, i)]

LEMMA LongerIs ==
  ASSUME NEW g, NEW ends, NEW p \in PathRow(g, ends), NEW x \in ends, NEW i \in DOMAIN g.edge
  PROVE  /\ Longer(p, x, i) \in PathRow(g, ends) /\ Last(Longer(p, x, i).nodes) = x
         /\ Len(Longer(p, x, i).edges) = Len(p.edges) + 1
<1>1. PICK a, b : a = p.nodes /\ b = p.edges OBVIOUS
<1>2. a \in Seq(ends) /\ b \in Seq(DOMAIN g.edge) BY <1>1 DEF PathRow
<1>3. Append(a, x) \in Seq(ends) /\ Last(Append(a, x)) = x BY <1>2 DEF Last
<1>4. Append(b, i) \in Seq(DOMAIN g.edge) /\ Len(Append(b, i)) = Len(b) + 1 BY <1>2
<1>5. Longer(p, x, i) = [nodes |-> Append(a, x), edges |-> Append(b, i)] BY <1>1 DEF Longer
<1> QED  BY <1>1, <1>3, <1>4, <1>5 DEF PathRow

LEMMA ChainGrows ==
  ASSUME NEW g, NEW ends, NEW p, Chain(g, ends, p), NEW i, i \in Incident(g, Last(p.nodes)),
         NEW x \in ends, x = OtherEnd(g.edge[i], Last(p.nodes))
  PROVE  Chain(g, ends, Longer(p, x, i))
<1>1. PICK a, b, q : a = p.nodes /\ b = p.edges /\ q = Longer(p, x, i) OBVIOUS
<1>2. a \in Seq(ends) /\ b \in Seq(DOMAIN g.edge) /\ Len(a) = Len(b) + 1
  BY <1>1 DEF Chain, PathRow
<1>3. PICK n \in Nat : n = Len(b) /\ n + 1 = Len(a) /\ DOMAIN b = 1..n BY <1>2
<1>4. q.nodes = Append(a, x) /\ q.edges = Append(b, i) BY <1>1 DEF Longer
<1>5. i \in DOMAIN g.edge BY DEF Incident
<1>6. q \in PathRow(g, ends) BY <1>1, <1>5, LongerIs DEF Chain
<1>7. Len(q.nodes) = Len(q.edges) + 1 /\ Len(q.edges) = n + 1 BY <1>2, <1>3, <1>4
<1>8. Last(a) = a[n + 1] BY <1>3 DEF Last
<1>9. /\ \A m \in 1..n : q.edges[m] = b[m] /\ q.nodes[m] = a[m] /\ q.nodes[m + 1] = a[m + 1]
      /\ q.edges[n + 1] = i /\ q.nodes[n + 1] = a[n + 1] /\ q.nodes[(n + 1) + 1] = x
  BY <1>2, <1>3, <1>4
<1>10. ASSUME NEW m \in 1..(n + 1) PROVE Joins(g, q, m)
  <2>1. CASE m = n + 1
    <3>1. \A y : y \in Ends(g.edge[i]) <=> y = Last(a) \/ y = x BY <1>1, EndsAre
    <3> QED  BY <1>8, <1>9, <2>1, <3>1 DEF Joins
  <2>2. CASE m # n + 1
    <3>1. m \in 1..n BY <2>2
    <3>2. Joins(g, p, m) BY <1>1, <1>3, <3>1 DEF Chain
    <3> QED  BY <1>1, <1>9, <3>1, <3>2 DEF Joins
  <2> QED  BY <2>1, <2>2
<1> QED  BY <1>1, <1>6, <1>7, <1>10 DEF Chain

\* The parts of Try.
OtherEnds(g, n) == [i \in Incident(g, n) |-> OtherEnd(g.edge[i], n)]
HereAt(to, from) == [i \in DOMAIN to |-> [nodes |-> Append(from.nodes, to[i]),
                                          edges |-> Append(from.edges, i)]]
OnlyNew(new, here) == [i \in new |-> here[i]]
LastsOf(q) == {Last(past.nodes) : past \in ToSet(q)}
GoalOf(to, target) == {i \in DOMAIN to : to[i] = target}
FirstOf(goal, here) == {here[i] : i \in {i \in goal : Earlier(goal, i) = {}}}

LEMMA TryOf ==
  ASSUME NEW g, NEW target, NEW s, NEW k
  PROVE  LET from == s.queue[k]
             to == OtherEnds(g, Last(from.nodes))
             here == HereAt(to, from)
             goal == GoalOf(to, target)
             new == Firsts(to, LastsOf(s.queue)) IN
         Try(g, target, s, k) = IF goal = {} THEN [s EXCEPT !.queue = Behind(@, OnlyNew(new, here))]
                                ELSE [s EXCEPT !.found = FirstOf(goal, here)]
BY Zenon DEF Try, OtherEnds, HereAt, OnlyNew, LastsOf, GoalOf, FirstOf

LEMMA TryIs ==
  ASSUME NEW g, NEW ends, WalkGraph(g, ends), NEW target, NEW s \in PathState(g, ends),
         NEW k \in 1..Len(s.queue)
  PROVE  Try(g, target, s, k) \in PathState(g, ends)
<1>1. PICK from : from = s.queue[k] OBVIOUS
<1>2. PICK to : to = OtherEnds(g, Last(from.nodes)) OBVIOUS
<1>3. PICK here : here = HereAt(to, from) OBVIOUS
<1>4. PICK goal : goal = GoalOf(to, target) OBVIOUS
<1>5. PICK new : new = Firsts(to, LastsOf(s.queue)) OBVIOUS
<1>6. PICK found : found = OnlyNew(new, here) OBVIOUS
<1>7. Try(g, target, s, k) = IF goal = {} THEN [s EXCEPT !.queue = Behind(@, found)]
                             ELSE [s EXCEPT !.found = FirstOf(goal, here)]
  BY <1>1, <1>2, <1>3, <1>4, <1>5, <1>6, TryOf
<1>8. /\ s.queue \in Seq(PathRow(g, ends)) /\ s.found \in SUBSET PathRow(g, ends)
      /\ s = [queue |-> s.queue, found |-> s.found]
  BY DEF PathState
<1>9. from \in PathRow(g, ends) BY <1>1, <1>8, MemberIs
<1>10. DOMAIN to \subseteq DOMAIN g.edge /\ \A i \in DOMAIN to : to[i] \in ends
  <2>1. \A i \in DOMAIN g.edge : g.edge[i][1] \in ends /\ g.edge[i][2] \in ends BY DEF WalkGraph
  <2> QED  BY <1>2, <2>1 DEF OtherEnds, Incident, OtherEnd
<1>11. ASSUME NEW i \in DOMAIN to PROVE here[i] \in PathRow(g, ends)
  <2>1. here[i] = Longer(from, to[i], i) BY <1>3 DEF HereAt, Longer
  <2>2. to[i] \in ends /\ i \in DOMAIN g.edge BY <1>10
  <2> QED  BY <1>9, <2>1, <2>2, LongerIs
<1>12. new \subseteq DOMAIN to /\ goal \subseteq DOMAIN to BY <1>4, <1>5 DEF Firsts, GoalOf
<1>13. DOMAIN found = new /\ \A i \in new : found[i] \in PathRow(g, ends)
  BY <1>6, <1>11, <1>12 DEF OnlyNew
<1>14. IsFiniteSet(new) /\ new \subseteq Nat
  <2>1. new \subseteq DOMAIN g.edge BY <1>10, <1>12
  <2> QED  BY <2>1, FS_Subset DEF WalkGraph
<1>15. Behind(s.queue, found) \in Seq(PathRow(g, ends)) BY <1>8, <1>13, <1>14, BehindIs
<1>16. FirstOf(goal, here) \subseteq PathRow(g, ends) BY <1>11, <1>12 DEF FirstOf
<1>17. [s EXCEPT !.queue = Behind(@, found)] = [queue |-> Behind(s.queue, found), found |-> s.found]
  BY <1>8
<1>18. [s EXCEPT !.found = FirstOf(goal, here)] = [queue |-> s.queue, found |-> FirstOf(goal, here)]
  BY <1>8
<1>19. CASE goal = {} BY <1>7, <1>8, <1>15, <1>17, <1>19 DEF PathState
<1>20. CASE goal # {} BY <1>7, <1>8, <1>16, <1>18, <1>20 DEF PathState
<1> QED  BY <1>19, <1>20

\* While the target has not been found, and when it has been.
Searching(g, ends, source, target, depth, q, k) ==
  /\ Levels(g, source, ends, depth, TRUE, LastsIn(q), LengthsIn(q), Len(q), k)
  /\ \A j \in 1..Len(q) : Chain(g, ends, q[j]) /\ LastsIn(q)[j] # target
Nearest(g, ends, target, depth, ball, p) ==
  /\ Chain(g, ends, p) /\ Last(p.nodes) = target /\ Len(p.edges) \in 1..depth
  /\ target \notin ball[Len(p.edges) - 1] /\ target \in ball[Len(p.edges)]
TryKept(g, ends, source, target, depth, ball, s, k) ==
  /\ s \in PathState(g, ends)
  /\ s.found = {} => Searching(g, ends, source, target, depth, s.queue, k)
  /\ \A p \in s.found : Nearest(g, ends, target, depth, ball, p)
Triable(depth, s, k) == k <= Len(s.queue) /\ Len(s.queue[k].edges) < depth /\ s.found = {}

\* A pop that has the target beside its node.
LEMMA TargetIsNext ==
  ASSUME NEW g, NEW ends, NEW source, NEW target \in ends, NEW depth, depth \in 0..Steps,
         NEW N, NEW D, NEW n, NEW k \in Nat \ {0},
         Levels(g, source, ends, depth, TRUE, N, D, n, k - 1), k <= n, D[k] < depth,
         \A j \in 1..n : N[j] # target, Touches(g, N[k], target),
         NEW ball, Widening(ball, g, source, ends)
  PROVE  target \notin ball[D[k]] /\ target \in ball[D[k] + 1]
<1>1. Steps \in Nat /\ depth \in Nat /\ depth <= Steps BY WalksAssumption DEF WalksAssumption
<1>2. /\ n \in Nat \ {0} /\ D \in [1..n -> 0..depth]
      /\ \A i \in 1..n, j \in 1..n : i <= j => D[i] <= D[j]
  BY DEF Levels
<1>3. k \in 1..n BY <1>2
<1>4. PICK c \in Nat : c = D[k] /\ c \in 0..depth /\ c + 1 \in 1..Steps /\ (c + 1) - 1 = c
  BY <1>1, <1>2, <1>3
<1>5. NearerPopped(D, n, k - 1, c)
  <2>1. ASSUME NEW j \in 1..n, D[j] < c PROVE j <= k - 1
    <3>1. ASSUME k <= j PROVE FALSE
      <4>1. D[k] <= D[j] BY <1>2, <1>3, <3>1
      <4>2. D[j] \in Nat BY <1>2
      <4> QED  BY <1>4, <2>1, <4>1, <4>2
    <3> QED  BY <1>2, <3>1
  <2> QED  BY <2>1 DEF NearerPopped
<1>6. ASSUME target \in ball[c] PROVE FALSE
  <2>1. PICK whole \in BOOLEAN : whole = TRUE OBVIOUS
  <2>2. whole /\ Levels(g, source, ends, depth, whole, N, D, n, k - 1) BY <2>1
  <2>3. MetWithin(N, D, n, target, c) BY <1>4, <1>5, <1>6, <2>2, LevelsMeetAll
  <2> QED  BY <2>3 DEF MetWithin
<1>7. N[k] \in ball[c]
  <2>1. N[k] \in ball[D[k]] BY <1>3, LevelsNotTooFar
  <2> QED  BY <1>4, <2>1
<1>8. target \in ball[c + 1]
  <2>1. PICK i \in Incident(g, N[k]) : OtherEnd(g.edge[i], N[k]) = target BY DEF Touches
  <2>2. i \in Incident(g, target) /\ OtherEnd(g.edge[i], target) = N[k] BY <2>1, TouchIsMutual
  <2>3. target \in Beside(g, ends, ball[c]) BY <1>7, <2>2 DEF Beside
  <2>4. ball[c + 1] = ball[c] \cup Beside(g, ends, ball[c]) BY <1>4 DEF Widening
  <2> QED  BY <2>3, <2>4
<1> QED  BY <1>4, <1>6, <1>8

LEMMA TryFinds ==
  ASSUME NEW g, NEW ends, WalkGraph(g, ends), NEW source, NEW target \in ends,
         NEW depth, depth \in 0..Steps, NEW ball, Widening(ball, g, source, ends),
         NEW s, NEW k \in Nat \ {0},
         TryKept(g, ends, source, target, depth, ball, s, k - 1), Triable(depth, s, k),
         NEW to, to = OtherEnds(g, Last(s.queue[k].nodes)), GoalOf(to, target) # {}
  PROVE  TryKept(g, ends, source, target, depth, ball, Try(g, target, s, k), k)
<1>1. PICK old : old = s.queue OBVIOUS
<1>2. /\ s \in PathState(g, ends) /\ old \in Seq(PathRow(g, ends))
      /\ Searching(g, ends, source, target, depth, old, k - 1)
  BY <1>1 DEF TryKept, Triable, PathState
<1>3. PICK n \in Nat : n = Len(old) /\ DOMAIN old = 1..n BY <1>2
<1>4. PICK N, D : N = LastsIn(old) /\ D = LengthsIn(old) OBVIOUS
<1>5. /\ Levels(g, source, ends, depth, TRUE, N, D, n, k - 1)
      /\ \A j \in 1..n : Chain(g, ends, old[j]) /\ N[j] # target
  BY <1>2, <1>3, <1>4 DEF Searching
<1>6. k \in 1..n /\ k <= n BY <1>1, <1>3 DEF Triable
<1>7. PICK from : from = old[k] OBVIOUS
<1>8. N[k] = Last(from.nodes) /\ D[k] = Len(from.edges) /\ D[k] < depth
  BY <1>1, <1>3, <1>4, <1>6, <1>7 DEF LastsIn, LengthsIn, Triable
<1>9. PICK here, goal : here = HereAt(to, from) /\ goal = GoalOf(to, target) OBVIOUS
<1>10. PICK t : t = Try(g, target, s, k) OBVIOUS
<1>11. t = [s EXCEPT !.found = FirstOf(goal, here)] /\ t \in PathState(g, ends)
  <2>1. t = [s EXCEPT !.found = FirstOf(goal, here)] BY <1>1, <1>7, <1>9, <1>10, TryOf
  <2>2. k \in 1..Len(s.queue) BY <1>1, <1>3, <1>6
  <2>3. t \in PathState(g, ends) BY <1>2, <1>10, <2>2, TryIs
  <2> QED  BY <2>1, <2>3
<1>12. t.found = FirstOf(goal, here) BY <1>2, <1>11 DEF PathState
<1>13. \A i \in goal : i \in Incident(g, N[k]) /\ OtherEnd(g.edge[i], N[k]) = target /\ to[i] = target
  BY <1>1, <1>7, <1>8, <1>9 DEF GoalOf, OtherEnds
<1>14. t.found # {}
  <2>1. goal \in SUBSET Nat /\ goal # {}
    <3>1. goal \subseteq DOMAIN g.edge BY <1>13 DEF Incident
    <3> QED  BY <1>9, <3>1 DEF WalkGraph
  <2>2. PICK i \in goal : \A j \in goal : i <= j BY <2>1, HasLeast
  <2>3. Earlier(goal, i) = {}
    <3>1. \A j \in goal : j \in Nat /\ i \in Nat /\ ~ (j < i) BY <2>1, <2>2
    <3> QED  BY <3>1 DEF Earlier
  <2>4. here[i] \in FirstOf(goal, here) BY <2>3 DEF FirstOf
  <2> QED  BY <1>12, <2>4
<1>15. ASSUME NEW p \in t.found PROVE Nearest(g, ends, target, depth, ball, p)
  <2>1. PICK i \in goal : p = here[i] BY <1>12 DEF FirstOf
  <2>2. p = Longer(from, target, i)
    <3>1. i \in DOMAIN to /\ to[i] = target BY <1>9 DEF GoalOf
    <3> QED  BY <1>9, <2>1, <3>1 DEF HereAt, Longer
  <2>3. Chain(g, ends, from) BY <1>5, <1>6, <1>7
  <2>4. i \in Incident(g, Last(from.nodes)) /\ target = OtherEnd(g.edge[i], Last(from.nodes))
    BY <1>8, <1>13
  <2>5. Chain(g, ends, p) BY <2>2, <2>3, <2>4, ChainGrows
  <2>6. Last(p.nodes) = target /\ Len(p.edges) = Len(from.edges) + 1
    <3>1. from \in PathRow(g, ends) /\ i \in DOMAIN g.edge BY <2>3, <2>4 DEF Chain, Incident
    <3> QED  BY <2>2, <3>1, LongerIs
  <2>7. PICK c \in Nat : c = D[k] /\ c < depth /\ Len(p.edges) = c + 1
    <3>1. D[k] \in Nat BY <1>5, <1>6 DEF Levels
    <3> QED  BY <1>8, <2>6, <3>1
  <2>8. target \notin ball[c] /\ target \in ball[c + 1]
    <3>1. Touches(g, N[k], target) BY <1>8, <2>4 DEF Touches
    <3>2. D[k] < depth BY <2>7
    <3>3. \A j \in 1..n : N[j] # target BY <1>5
    <3>4. target \notin ball[D[k]] /\ target \in ball[D[k] + 1]
      BY <1>5, <1>6, <3>1, <3>2, <3>3, TargetIsNext
    <3> QED  BY <2>7, <3>4
  <2>9. c + 1 \in 1..depth /\ (c + 1) - 1 = c BY <2>7, WalksAssumption DEF WalksAssumption
  <2> QED  BY <2>5, <2>6, <2>7, <2>8, <2>9 DEF Nearest
<1>16. TryKept(g, ends, source, target, depth, ball, t, k) BY <1>11, <1>14, <1>15 DEF TryKept
<1> QED  BY <1>10, <1>16

LEMMA TryWidens ==
  ASSUME NEW g, NEW ends, WalkGraph(g, ends), NEW source, NEW target \in ends,
         NEW depth \in Nat, NEW ball, NEW s, NEW k \in Nat \ {0},
         TryKept(g, ends, source, target, depth, ball, s, k - 1), Triable(depth, s, k),
         NEW to, to = OtherEnds(g, Last(s.queue[k].nodes)), GoalOf(to, target) = {}
  PROVE  TryKept(g, ends, source, target, depth, ball, Try(g, target, s, k), k)
<1>1. PICK old, T : old = s.queue /\ T = PathRow(g, ends) OBVIOUS
<1>2. /\ s \in PathState(g, ends) /\ old \in Seq(T) /\ s.found = {}
      /\ Searching(g, ends, source, target, depth, old, k - 1)
  BY <1>1 DEF TryKept, Triable, PathState
<1>3. PICK n \in Nat : n = Len(old) /\ DOMAIN old = 1..n BY <1>2
<1>4. PICK N, D : N = LastsIn(old) /\ D = LengthsIn(old) OBVIOUS
<1>5. /\ Levels(g, source, ends, depth, TRUE, N, D, n, k - 1)
      /\ \A j \in 1..n : Chain(g, ends, old[j]) /\ N[j] # target
  BY <1>2, <1>3, <1>4 DEF Searching
<1>6. k \in 1..n /\ k <= n BY <1>1, <1>3 DEF Triable
<1>7. PICK from : from = old[k] OBVIOUS
<1>8. N[k] = Last(from.nodes) /\ D[k] = Len(from.edges) /\ D[k] < depth /\ D[k] \in Nat
  <2>1. D[k] \in Nat BY <1>5, <1>6 DEF Levels
  <2> QED  BY <1>1, <1>3, <1>4, <1>6, <1>7, <2>1 DEF LastsIn, LengthsIn, Triable
<1>9. PICK here, known : here = HereAt(to, from) /\ known = LastsOf(old) OBVIOUS
<1>10. PICK new : new = Firsts(to, known) OBVIOUS
<1>11. PICK found : found = OnlyNew(new, here) OBVIOUS
<1>12. PICK queue : queue = Behind(old, found) OBVIOUS
<1>13. PICK t : t = Try(g, target, s, k) OBVIOUS
<1>14. t = [s EXCEPT !.queue = Behind(@, found)] /\ t \in PathState(g, ends)
  <2>1. t = [s EXCEPT !.queue = Behind(@, found)]
    BY <1>1, <1>7, <1>9, <1>10, <1>11, <1>13, TryOf
  <2>2. k \in 1..Len(s.queue) BY <1>1, <1>3, <1>6
  <2>3. t \in PathState(g, ends) BY <1>2, <1>13, <2>2, TryIs
  <2> QED  BY <2>1, <2>3
<1>15. t.queue = queue /\ t.found = {} BY <1>1, <1>2, <1>12, <1>14 DEF PathState
<1>16. /\ DOMAIN to = Incident(g, N[k]) /\ DOMAIN to \subseteq DOMAIN g.edge
       /\ DOMAIN to \subseteq Nat /\ IsFiniteSet(DOMAIN to)
       /\ \A i \in DOMAIN to : to[i] = OtherEnd(g.edge[i], N[k]) /\ to[i] \in ends /\ to[i] # target
  <2>1. DOMAIN to = Incident(g, N[k]) /\ \A i \in DOMAIN to : to[i] = OtherEnd(g.edge[i], N[k])
    BY <1>1, <1>7, <1>8 DEF OtherEnds
  <2>2. DOMAIN to \subseteq DOMAIN g.edge BY <2>1 DEF Incident
  <2>3. \A i \in DOMAIN g.edge : g.edge[i][1] \in ends /\ g.edge[i][2] \in ends BY DEF WalkGraph
  <2>4. \A i \in DOMAIN to : to[i] \in ends BY <2>1, <2>2, <2>3 DEF OtherEnd
  <2>5. \A i \in DOMAIN to : to[i] # target BY DEF GoalOf
  <2>6. DOMAIN to \subseteq Nat /\ IsFiniteSet(DOMAIN to) BY <2>2, FS_Subset DEF WalkGraph
  <2> QED  BY <2>1, <2>2, <2>4, <2>5, <2>6
<1>17. \A x : x \in known <=> \E j \in 1..n : x = N[j]
  <2>1. \A x : x \in known <=> \E e \in ToSet(old) : x = Last(e.nodes) BY <1>9 DEF LastsOf
  <2>2. \A e : e \in ToSet(old) <=> \E j \in 1..n : e = old[j] BY <1>3 DEF ToSet
  <2>3. \A j \in 1..n : N[j] = Last(old[j].nodes) BY <1>3, <1>4 DEF LastsIn
  <2> QED  BY <2>1, <2>2, <2>3
<1>18. /\ new \subseteq DOMAIN to /\ \A i \in new : to[i] \notin known
       /\ \A i \in new, j \in new : to[i] = to[j] => i = j
       /\ \A i \in DOMAIN to : to[i] \in known \/ \E j \in new : to[j] = to[i]
  BY <1>10, <1>16, FirstsAre
<1>19. ASSUME NEW i \in new
       PROVE  /\ found[i] = Longer(from, to[i], i) /\ found[i] \in T
              /\ Chain(g, ends, found[i]) /\ Last(found[i].nodes) = to[i]
              /\ Len(found[i].edges) = D[k] + 1
  <2>1. i \in DOMAIN to BY <1>18
  <2>2. found[i] = Longer(from, to[i], i) BY <1>9, <1>11, <2>1 DEF OnlyNew, HereAt, Longer
  <2>3. Chain(g, ends, from) BY <1>5, <1>6, <1>7
  <2>4. /\ i \in Incident(g, Last(from.nodes)) /\ to[i] = OtherEnd(g.edge[i], Last(from.nodes))
        /\ to[i] \in ends /\ i \in DOMAIN g.edge
    BY <1>8, <1>16, <2>1
  <2>5. PICK x : x = to[i] OBVIOUS
  <2>6. Chain(g, ends, Longer(from, x, i)) BY <2>3, <2>4, <2>5, ChainGrows
  <2>7. from \in PathRow(g, ends) BY <2>3 DEF Chain
  <2>8. /\ Longer(from, x, i) \in PathRow(g, ends) /\ Last(Longer(from, x, i).nodes) = x
        /\ Len(Longer(from, x, i).edges) = Len(from.edges) + 1
    BY <2>4, <2>5, <2>7, LongerIs
  <2> QED  BY <1>1, <1>8, <2>2, <2>5, <2>6, <2>8
<1>20. DOMAIN found = new /\ IsFiniteSet(new) /\ new \subseteq Nat
  <2>1. DOMAIN found = new BY <1>11 DEF OnlyNew
  <2> QED  BY <1>16, <1>18, <2>1, FS_Subset
<1>21. queue \in Seq(T) /\ \E place : Appends(queue, old, found, place)
  BY <1>2, <1>12, <1>19, <1>20, BehindIs
<1>22. PICK place : Appends(queue, old, found, place) BY <1>21
<1>23. PICK m \in Nat : m = Len(queue) /\ DOMAIN queue = 1..m BY <1>21
<1>24. PICK c \in Nat : c = Cardinality(new) BY <1>20, FS_CardinalityType
<1>25. /\ m = n + c /\ \A j \in 1..n : queue[j] = old[j]
       /\ \A j \in (n + 1)..m : place[j] \in new /\ queue[j] = found[place[j]]
       /\ \A i \in new : \E j \in (n + 1)..m : place[j] = i
       /\ \A i \in (n + 1)..m, j \in (n + 1)..m : place[i] = place[j] => i = j
  BY <1>3, <1>20, <1>22, <1>23, <1>24 DEF Appends
<1>26. PICK R, E : R = LastsIn(queue) /\ E = LengthsIn(queue) OBVIOUS
<1>27. /\ DOMAIN R = 1..m /\ DOMAIN E = 1..m
       /\ \A j \in 1..m : R[j] = Last(queue[j].nodes) /\ E[j] = Len(queue[j].edges)
  BY <1>23, <1>26 DEF LastsIn, LengthsIn
<1>28. E \in [1..m -> Nat]
  <2>1. ASSUME NEW j \in 1..m PROVE Len(queue[j].edges) \in Nat
    <3>1. queue[j] \in T BY <1>21, <1>23, MemberIs
    <3> QED  BY <1>1, <3>1 DEF PathRow
  <2> QED  BY <1>23, <1>26, <2>1 DEF LengthsIn
<1>29. \A j \in 1..m : j \in 1..n \/ j \in (n + 1)..m BY <1>25
<1>30. \A j \in 1..n : j \in 1..m /\ R[j] = N[j] /\ E[j] = D[j]
  <2>1. \A j \in 1..n : N[j] = Last(old[j].nodes) /\ D[j] = Len(old[j].edges)
    BY <1>3, <1>4 DEF LastsIn, LengthsIn
  <2>2. \A j \in 1..n : j \in 1..m /\ queue[j] = old[j] BY <1>25
  <2> QED  BY <1>27, <2>1, <2>2
<1>31. ASSUME NEW j \in (n + 1)..m
       PROVE  /\ j \in 1..m /\ place[j] \in new /\ R[j] = to[place[j]] /\ E[j] = D[k] + 1
              /\ Chain(g, ends, queue[j])
  <2>1. j \in 1..m BY <1>25
  <2>2. place[j] \in new /\ queue[j] = found[place[j]] BY <1>25
  <2> QED  BY <1>19, <1>27, <2>1, <2>2
<1>32. ASSUME NEW j \in (n + 1)..m
       PROVE  R[j] \in ends /\ E[j] = D[k] + 1 /\ Touches(g, N[k], R[j]) /\ R[j] # target
  <2>1. place[j] \in DOMAIN to BY <1>18, <1>31
  <2> QED  BY <1>16, <1>31, <2>1 DEF Touches
<1>33. ASSUME NEW i \in 1..m, NEW j \in 1..m, R[i] = R[j] PROVE i = j
  <2>0. \A i1 \in 1..n, j1 \in 1..n : N[i1] = N[j1] => i1 = j1 BY <1>5 DEF Levels
  <2>1. CASE i \in 1..n /\ j \in 1..n BY <1>30, <1>33, <2>0, <2>1
  <2>2. CASE i \in 1..n /\ j \in (n + 1)..m BY <1>17, <1>18, <1>30, <1>31, <1>33, <2>2
  <2>3. CASE i \in (n + 1)..m /\ j \in 1..n BY <1>17, <1>18, <1>30, <1>31, <1>33, <2>3
  <2>4. CASE i \in (n + 1)..m /\ j \in (n + 1)..m
    <3>1. place[i] \in new /\ place[j] \in new /\ to[place[i]] = to[place[j]]
      BY <1>31, <1>33, <2>4
    <3> QED  BY <1>18, <1>25, <2>4, <3>1
  <2> QED  BY <1>29, <2>1, <2>2, <2>3, <2>4
<1>34. ASSUME NEW a \in ends, Touches(g, N[k], a) PROVE \E q \in 1..m : R[q] = a
  <2>1. PICK i \in Incident(g, N[k]) : OtherEnd(g.edge[i], N[k]) = a BY <1>34 DEF Touches
  <2>2. i \in DOMAIN to /\ to[i] = a BY <1>16, <2>1
  <2>3. CASE a \in known
    <3>1. PICK j \in 1..n : a = N[j] BY <1>17, <2>3
    <3> QED  BY <1>30, <3>1
  <2>4. CASE a \notin known
    <3>1. PICK f \in new : to[f] = a BY <1>18, <2>2, <2>4
    <3>2. PICK j \in (n + 1)..m : place[j] = f BY <1>25
    <3> QED  BY <1>31, <3>1, <3>2
  <2> QED  BY <2>3, <2>4
<1>35. Levels(g, source, ends, depth, TRUE, R, E, m, k)
  <2>1. PICK more \in BOOLEAN : more = TRUE OBVIOUS
  <2>2. n <= m /\ DOMAIN R = 1..m BY <1>25, <1>27
  <2>3. \A j \in 1..n : R[j] = N[j] /\ E[j] = D[j] BY <1>30
  <2>4. \A j \in (n + 1)..m : R[j] \in ends /\ E[j] = D[k] + 1 /\ Touches(g, N[k], R[j]) BY <1>32
  <2>5. \A i \in 1..m, j \in 1..m : R[i] = R[j] => i = j BY <1>33
  <2>6. more => \A a \in ends : Touches(g, N[k], a) => \E q \in 1..m : R[q] = a BY <1>34
  <2>7. Grown(g, ends, depth, more, N, D, n, k, R, E, m)
    BY <1>6, <1>8, <1>28, <2>2, <2>3, <2>4, <2>5, <2>6 DEF Grown
  <2>8. Levels(g, source, ends, depth, more, N, D, n, k - 1) BY <1>5, <2>1
  <2>9. Levels(g, source, ends, depth, more, R, E, m, k) BY <2>7, <2>8, LevelsGrow
  <2> QED  BY <2>1, <2>9
<1>36. ASSUME NEW j \in 1..m PROVE Chain(g, ends, queue[j]) /\ R[j] # target
  <2>1. CASE j \in 1..n BY <1>5, <1>25, <1>30, <2>1
  <2>2. CASE j \in (n + 1)..m BY <1>31, <1>32, <2>2
  <2> QED  BY <1>29, <2>1, <2>2
<1>37. Searching(g, ends, source, target, depth, queue, k)
  BY <1>23, <1>26, <1>35, <1>36 DEF Searching
<1> QED  BY <1>13, <1>14, <1>15, <1>37 DEF TryKept

\* What the recursion in Path says.
TryPop(g, target, depth, s, k) ==
  IF k > Len(s.queue) \/ s.found # {} THEN s
  ELSE IF Len(s.queue[k].edges) >= depth THEN s
  ELSE Try(g, target, s, k)
Reach(g) == g.node \cup UNION {Ends(g.edge[i]) : i \in DOMAIN g.edge}
PathWalk(h, g, source, target, depth) ==
  h = [k \in 0..Cardinality(Reach(g)) |->
         IF k = 0 THEN [queue |-> <<[nodes |-> <<source>>, edges |-> <<>>]>>, found |-> {}]
         ELSE LET s == h[k - 1] IN
              IF k > Len(s.queue) \/ s.found # {} THEN s
              ELSE IF Len(s.queue[k].edges) >= depth THEN s
              ELSE Try(g, target, s, k)]

LEMMA PathStart ==
  ASSUME NEW g, NEW ends, NEW source \in ends
  PROVE  /\ [nodes |-> <<source>>, edges |-> <<>>] \in PathRow(g, ends)
         /\ [queue |-> <<[nodes |-> <<source>>, edges |-> <<>>]>>, found |-> {}]
               \in PathState(g, ends)
<1>1. <<source>> \in Seq(ends) BY OneIsSeq
<1>2. <<>> \in Seq(DOMAIN g.edge) OBVIOUS
<1>3. PICK p : p = [nodes |-> <<source>>, edges |-> <<>>] OBVIOUS
<1>4. p \in PathRow(g, ends) BY <1>1, <1>2, <1>3 DEF PathRow
<1>5. <<p>> \in Seq(PathRow(g, ends)) BY <1>4, OneIsSeq
<1>6. [queue |-> <<p>>, found |-> {}] \in PathState(g, ends) BY <1>5 DEF PathState
<1> QED  BY <1>3, <1>4, <1>6

LEMMA PathWalkExists ==
  ASSUME NEW g, NEW ends, ends = Reach(g), WalkGraph(g, ends), NEW source \in ends, NEW target,
         NEW depth
  PROVE  \E h : PathWalk(h, g, source, target, depth)
<1> DEFINE S == PathState(g, ends)
           a == [queue |-> <<[nodes |-> <<source>>, edges |-> <<>>]>>, found |-> {}]
           F == [p \in Nat \X S |->
                   IF p[1] \in 1..Len(p[2].queue) THEN TryPop(g, target, depth, p[2], p[1])
                   ELSE p[2]]
<1>1. a \in S BY PathStart
<1>2. ASSUME NEW s \in S, NEW k \in 1..Len(s.queue) PROVE TryPop(g, target, depth, s, k) \in S
  <2>1. Try(g, target, s, k) \in S BY TryIs
  <2> HIDE DEF S
  <2> QED  BY <2>1 DEF TryPop
<1>3. F \in [Nat \X S -> S]
  <2>1. ASSUME NEW p \in Nat \X S
        PROVE  (IF p[1] \in 1..Len(p[2].queue) THEN TryPop(g, target, depth, p[2], p[1])
                ELSE p[2]) \in S
    <3>1. p[2] \in S OBVIOUS
    <3> HIDE DEF S
    <3> QED  BY <1>2, <3>1
  <2> HIDE DEF S
  <2> QED  BY <2>1
<1>4. PICK n \in Nat : n = Cardinality(Reach(g)) BY FS_CardinalityType DEF WalkGraph
<1>5. ASSUME NEW k \in 1..n, NEW s \in S PROVE F[<<k, s>>] = TryPop(g, target, depth, s, k)
  <2>1. <<k, s>> \in Nat \X S OBVIOUS
  <2>2. Len(s.queue) \in Nat BY DEF PathState
  <2> HIDE DEF S
  <2>3. F[<<k, s>>] = IF k \in 1..Len(s.queue) THEN TryPop(g, target, depth, s, k) ELSE s BY <2>1
  <2>4. k \notin 1..Len(s.queue) => k > Len(s.queue) BY <2>2
  <2>5. k > Len(s.queue) => TryPop(g, target, depth, s, k) = s BY DEF TryPop
  <2> QED  BY <2>3, <2>4, <2>5
<1> HIDE DEF S, a, F
<1>6. PICK h \in [0..n -> S] : Iteration(h, n, a, F) BY <1>1, <1>3, Iterates
<1>7. ASSUME NEW k \in 0..n
      PROVE  h[k] = IF k = 0 THEN a ELSE TryPop(g, target, depth, h[k - 1], k)
  <2>1. h[k] = IF k = 0 THEN a ELSE F[<<k, h[k - 1]>>] BY <1>6 DEF Iteration
  <2>2. ASSUME k # 0 PROVE F[<<k, h[k - 1]>>] = TryPop(g, target, depth, h[k - 1], k)
    <3>1. k \in 1..n /\ k - 1 \in 0..n BY <2>2
    <3>2. h[k - 1] \in S BY <1>6, <3>1
    <3> QED  BY <1>5, <3>1, <3>2
  <2> QED  BY <2>1, <2>2
<1>8. h = [k \in 0..n |-> h[k]] BY <1>6
<1>9. h = [k \in 0..n |-> IF k = 0 THEN a ELSE TryPop(g, target, depth, h[k - 1], k)]
  BY <1>7, <1>8
<1>10. PathWalk(h, g, source, target, depth) BY <1>4, <1>9, Zenon DEF PathWalk, TryPop, a
<1> QED  BY <1>10

LEMMA TryPopKeeps ==
  ASSUME NEW g, NEW ends, WalkGraph(g, ends), NEW source, NEW target \in ends,
         NEW depth \in Nat, depth \in 0..Steps, NEW ball, Widening(ball, g, source, ends),
         NEW s, NEW k \in Nat \ {0}, TryKept(g, ends, source, target, depth, ball, s, k - 1)
  PROVE  TryKept(g, ends, source, target, depth, ball, TryPop(g, target, depth, s, k), k)
<1>1. PICK q : q = s.queue OBVIOUS
<1>2. s \in PathState(g, ends) /\ q \in Seq(PathRow(g, ends)) BY <1>1 DEF TryKept, PathState
<1>3. PICK n \in Nat : n = Len(q) /\ DOMAIN q = 1..n BY <1>2
<1>4. ASSUME NEW j \in 1..n PROVE Len(q[j].edges) \in Nat
  <2>1. q[j] \in PathRow(g, ends) BY <1>2, <1>3, MemberIs
  <2> QED  BY <2>1 DEF PathRow
<1>5. CASE k <= n /\ s.found = {} /\ Len(q[k].edges) < depth
  <2>1. Triable(depth, s, k) BY <1>1, <1>3, <1>5 DEF Triable
  <2>2. TryPop(g, target, depth, s, k) = Try(g, target, s, k)
    <3>1. k \in 1..n BY <1>5
    <3>2. ~ (Len(s.queue[k].edges) >= depth) BY <1>1, <1>4, <1>5, <3>1
    <3>3. ~ (k > Len(s.queue)) /\ ~ (s.found # {}) BY <1>1, <1>3, <1>5
    <3> QED  BY <3>2, <3>3, Zenon DEF TryPop
  <2>3. PICK to : to = OtherEnds(g, Last(s.queue[k].nodes)) OBVIOUS
  <2>4. TryKept(g, ends, source, target, depth, ball, Try(g, target, s, k), k)
    BY <2>1, <2>3, TryFinds, TryWidens
  <2> QED  BY <2>2, <2>4
<1>6. CASE ~ (k <= n /\ s.found = {} /\ Len(q[k].edges) < depth)
  <2>1. TryPop(g, target, depth, s, k) = s
    <3>1. CASE k > n BY <1>1, <1>3, <3>1 DEF TryPop
    <3>2. CASE s.found # {} BY <3>2 DEF TryPop
    <3>3. CASE k <= n /\ ~ (Len(q[k].edges) < depth)
      <4>1. k \in 1..n BY <3>3
      <4>2. Len(s.queue[k].edges) >= depth BY <1>1, <1>4, <3>3, <4>1
      <4> QED  BY <4>2 DEF TryPop
    <3> QED  BY <1>6, <3>1, <3>2, <3>3
  <2>2. ASSUME s.found = {} PROVE Searching(g, ends, source, target, depth, q, k)
    <3>1. Searching(g, ends, source, target, depth, q, k - 1) BY <1>1, <2>2 DEF TryKept
    <3>2. PICK N, D : N = LastsIn(q) /\ D = LengthsIn(q) OBVIOUS
    <3>3. PICK whole \in BOOLEAN : whole = TRUE OBVIOUS
    <3>4. Levels(g, source, ends, depth, whole, N, D, n, k - 1)
      BY <1>3, <3>1, <3>2, <3>3 DEF Searching
    <3>5. k > n \/ D[k] >= depth
      <4>1. ASSUME k <= n PROVE D[k] >= depth
        <5>1. k \in 1..n BY <4>1
        <5>2. D[k] = Len(q[k].edges) BY <1>3, <3>2, <5>1 DEF LengthsIn
        <5> QED  BY <1>4, <1>6, <2>2, <4>1, <5>1, <5>2
      <4> QED  BY <4>1
    <3>6. Levels(g, source, ends, depth, whole, N, D, n, k) BY <3>4, <3>5, LevelsStay
    <3> QED  BY <1>3, <3>1, <3>2, <3>3, <3>6 DEF Searching
  <2>3. TryKept(g, ends, source, target, depth, ball, s, k) BY <1>1, <2>2 DEF TryKept
  <2> QED  BY <2>1, <2>3
<1> QED  BY <1>5, <1>6

LEMMA PathEnd ==
  ASSUME NEW g, NEW ends, ends = Reach(g), WalkGraph(g, ends), NEW source \in g.node,
         NEW target \in g.node, source # target, NEW depth \in Nat, depth \in 0..Steps,
         NEW ball, Widening(ball, g, source, ends)
  PROVE  \E s : /\ TryKept(g, ends, source, target, depth, ball, s, Cardinality(Reach(g)))
                /\ Path(g, source, target, depth) = s.found
<1> DEFINE walk == CHOOSE h : PathWalk(h, g, source, target, depth)
<1>0. source \in ends /\ target \in ends BY DEF WalkGraph
<1>1. Path(g, source, target, depth) = walk[Cardinality(Reach(g))].found
  <2>1. Path(g, source, target, depth) =
           IF {source, target} \subseteq g.node THEN walk[Cardinality(Reach(g))].found ELSE {}
    BY Zenon DEF Path, PathWalk, Reach
  <2>2. {source, target} \subseteq g.node OBVIOUS
  <2> HIDE DEF walk
  <2> QED  BY <2>1, <2>2
<1>2. PathWalk(walk, g, source, target, depth) BY <1>0, PathWalkExists
<1> HIDE DEF walk
<1>3. PICK n \in Nat : n = Cardinality(Reach(g)) BY FS_CardinalityType DEF WalkGraph
<1>4. walk[0] = [queue |-> <<[nodes |-> <<source>>, edges |-> <<>>]>>, found |-> {}]
  <2>1. 0 \in 0..n OBVIOUS
  <2> QED  BY <1>2, <1>3, <2>1 DEF PathWalk
<1>5. ASSUME NEW k \in 1..n PROVE walk[k] = TryPop(g, target, depth, walk[k - 1], k)
  <2>1. k \in 0..n /\ k # 0 OBVIOUS
  <2> QED  BY <1>2, <1>3, <2>1 DEF PathWalk, TryPop
<1> DEFINE good == {k \in 0..n : TryKept(g, ends, source, target, depth, ball, walk[k], k)}
<1>6. 0 \in good
  <2>1. PICK p : p = [nodes |-> <<source>>, edges |-> <<>>] OBVIOUS
  <2>2. PICK s, q, N, D : s = walk[0] /\ q = s.queue /\ N = LastsIn(q) /\ D = LengthsIn(q) OBVIOUS
  <2>3. s \in PathState(g, ends) /\ p \in PathRow(g, ends) BY <1>0, <1>4, <2>1, <2>2, PathStart
  <2>4. q = <<p>> /\ s.found = {} BY <1>4, <2>1, <2>2
  <2>5. Len(q) = 1 /\ q[1] = p BY <2>4
  <2>6. Len(p.nodes) = 1 /\ Len(p.edges) = 0 /\ Last(p.nodes) = source BY <2>1 DEF Last
  <2>7. N = [j \in 1..1 |-> source] /\ D = [j \in 1..1 |-> 0]
    <3>1. \A j \in 1..1 : j = 1 OBVIOUS
    <3> QED  BY <2>2, <2>5, <2>6, <3>1 DEF LastsIn, LengthsIn
  <2>8. Levels(g, source, ends, depth, TRUE, N, D, Len(q), 0)
    <3>1. D \in [1..1 -> 0..depth] BY <2>7
    <3>2. \A j \in 1..1 : j = 1 /\ ~ (j <= 0) OBVIOUS
    <3>3. 2..1 = {} OBVIOUS
    <3> QED  BY <2>5, <2>7, <3>1, <3>2, <3>3 DEF Levels
  <2>9. Chain(g, ends, p)
    <3>1. 1..0 = {} OBVIOUS
    <3> QED  BY <2>3, <2>6, <3>1 DEF Chain
  <2>10. \A j \in 1..Len(q) : Chain(g, ends, q[j]) /\ LastsIn(q)[j] # target
    <3>1. \A j \in 1..Len(q) : j = 1 BY <2>5
    <3> QED  BY <2>2, <2>5, <2>7, <2>9, <3>1
  <2>11. TryKept(g, ends, source, target, depth, ball, s, 0)
    BY <2>2, <2>3, <2>4, <2>8, <2>10 DEF TryKept, Searching
  <2> QED  BY <2>2, <2>11
<1>7. ASSUME NEW k \in 1..n, k - 1 \in good PROVE k \in good
  <2>1. PICK s : s = walk[k - 1] OBVIOUS
  <2>2. TryKept(g, ends, source, target, depth, ball, s, k - 1) BY <1>7, <2>1
  <2>3. k \in Nat \ {0} OBVIOUS
  <2>4. TryKept(g, ends, source, target, depth, ball, TryPop(g, target, depth, s, k), k)
    BY <1>0, <2>2, <2>3, TryPopKeeps
  <2> QED  BY <1>5, <2>1, <2>4
<1> HIDE DEF good
<1>8. n \in good BY <1>6, <1>7, Steady
<1>9. TryKept(g, ends, source, target, depth, ball, walk[n], n) BY <1>8 DEF good
<1> QED  BY <1>1, <1>3, <1>9

\* A path that is shown reaches the target over edges, and no sooner than it must.
PathsShown(g, target, found, ball) ==
  \A p \in found :
     /\ target \notin ball[Len(p.edges) - 1] /\ Last(p.nodes) = target
     /\ \A k \in DOMAIN p.edges :
           Ends(g.edge[p.edges[k]]) = {p.nodes[k], p.nodes[k + 1]}

LEMMA PathsAre ==
  ASSUME NEW g, NEW ends, WalkGraph(g, ends), NEW source \in g.node,
         NEW target \in g.node, source # target, NEW depth \in 1..Steps,
         NEW found, found = Path(g, source, target, depth),
         NEW ball, ball = Around(g, source, ends)
  PROVE  /\ found = {} <=> target \notin ball[depth]
         /\ Failed(g, found) => ~ (Reach(g) \subseteq g.node)
         /\ PathsShown(g, target, found, ball)
<1>1. Steps \in Nat /\ depth \in Nat /\ depth \in 0..Steps /\ depth \in 0..depth
  BY WalksAssumption DEF WalksAssumption
<1>2. PICK T : T = Reach(g) OBVIOUS
<1>3. T \subseteq ends
  <2>1. ASSUME NEW i \in DOMAIN g.edge PROVE Ends(g.edge[i]) \subseteq ends BY DEF WalkGraph, Ends
  <2>2. g.node \subseteq ends BY DEF WalkGraph
  <2> QED  BY <1>2, <2>1, <2>2 DEF Reach
<1>4. WalkGraph(g, T) /\ IsFiniteSet(T)
  <2>1. IsFiniteSet(T) BY <1>3, FS_Subset DEF WalkGraph
  <2>2. \A i \in DOMAIN g.edge : g.edge[i][1] \in T /\ g.edge[i][2] \in T BY <1>2 DEF Reach, Ends
  <2>3. g.node \subseteq T BY <1>2 DEF Reach
  <2> QED  BY <2>1, <2>2, <2>3 DEF WalkGraph
<1>5. \A inner : Beside(g, ends, inner) = Beside(g, T, inner)
  <2>1. ASSUME NEW n, NEW i \in Incident(g, n) PROVE n \in T BY <1>2 DEF Incident, Reach
  <2> QED  BY <1>3, <2>1 DEF Beside
<1>6. Widening(ball, g, source, T)
  <2>1. Widening(ball, g, source, ends) BY AroundIs
  <2> QED  BY <1>5, <2>1 DEF Widening
<1>7. PICK C \in Nat : C = Cardinality(T) BY <1>4, FS_CardinalityType
<1>8. PICK s : TryKept(g, T, source, target, depth, ball, s, C) /\ found = s.found
  <2>1. PICK s : /\ TryKept(g, T, source, target, depth, ball, s, Cardinality(Reach(g)))
                 /\ Path(g, source, target, depth) = s.found
    BY <1>1, <1>2, <1>4, <1>6, PathEnd
  <2> QED  BY <1>2, <1>7, <2>1
<1>9. \A p \in found : Nearest(g, T, target, depth, ball, p) BY <1>8 DEF TryKept
<1>10. ASSUME found = {} PROVE target \notin ball[depth]
  <2>1. PICK q : q = s.queue /\ q \in Seq(PathRow(g, T)) BY <1>8 DEF TryKept, PathState
  <2>2. PICK n \in Nat : n = Len(q) BY <2>1
  <2>3. PICK N, D : N = LastsIn(q) /\ D = LengthsIn(q) OBVIOUS
  <2>4. Searching(g, T, source, target, depth, q, C) BY <1>8, <1>10, <2>1 DEF TryKept
  <2>5. PICK whole \in BOOLEAN : whole = TRUE OBVIOUS
  <2>6. /\ Levels(g, source, T, depth, whole, N, D, n, C) /\ whole
        /\ \A j \in 1..n : Chain(g, T, q[j]) /\ N[j] # target
    BY <2>2, <2>3, <2>4, <2>5 DEF Searching
  <2>7. n <= C
    <3>1. N \in Seq(T) /\ Len(N) = n
      <4>1. ASSUME NEW j \in 1..n PROVE N[j] \in T
        <5>1. Chain(g, T, q[j]) BY <2>6
        <5>2. PICK a : a = q[j].nodes /\ a \in Seq(T) /\ Len(a) # 0
          <6>1. q[j].nodes \in Seq(T) /\ q[j].edges \in Seq(DOMAIN g.edge) BY <5>1 DEF Chain, PathRow
          <6>2. Len(q[j].edges) \in Nat BY <6>1
          <6> QED  BY <5>1, <6>1, <6>2 DEF Chain
        <5>3. a[Len(a)] \in T
          <6>1. Len(a) \in 1..Len(a) BY <5>2
          <6> QED  BY <5>2, <6>1, MemberIs
        <5> QED  BY <2>2, <2>3, <5>2, <5>3 DEF LastsIn, Last
      <4>2. N = [j \in 1..n |-> N[j]] BY <2>2, <2>3 DEF LastsIn
      <4> QED  BY <4>1, <4>2
    <3>2. Distinct(N) BY <2>6, <3>1 DEF Levels, Distinct
    <3> QED  BY <1>4, <1>7, <3>1, <3>2, DistinctBounded
  <2>8. NearerPopped(D, n, C, depth) BY <2>7 DEF NearerPopped
  <2>9. ASSUME target \in ball[depth] PROVE FALSE
    <3>1. MetWithin(N, D, n, target, depth) BY <1>1, <1>6, <2>6, <2>8, <2>9, LevelsMeetAll
    <3> QED  BY <2>6, <3>1 DEF MetWithin
  <2> QED  BY <2>9
<1>11. ASSUME NEW p \in found PROVE target \in ball[depth]
  <2>1. PICK c \in 1..depth : c = Len(p.edges) /\ target \in ball[c] BY <1>9 DEF Nearest
  <2>2. c \in 0..depth BY <1>1
  <2>3. ball[c] \subseteq ball[depth] BY <1>1, <1>6, <2>2, CirclesWiden
  <2> QED  BY <2>1, <2>3
<1>12. ASSUME Failed(g, found), Reach(g) \subseteq g.node PROVE FALSE
  <2>1. PICK p \in found : ~ (ToSet(p.nodes) \subseteq g.node) BY <1>12 DEF Failed
  <2>2. PICK a : a = p.nodes /\ a \in Seq(T) BY <1>9 DEF Nearest, Chain, PathRow
  <2>3. ToSet(a) \subseteq T BY <2>2 DEF ToSet
  <2> QED  BY <1>2, <1>12, <2>1, <2>2, <2>3
<1>13. ASSUME NEW p \in found
       PROVE  /\ target \notin ball[Len(p.edges) - 1] /\ Last(p.nodes) = target
              /\ \A k \in DOMAIN p.edges :
                    Ends(g.edge[p.edges[k]]) = {p.nodes[k], p.nodes[k + 1]}
  <2>1. Nearest(g, T, target, depth, ball, p) BY <1>9
  <2>2. p.edges \in Seq(DOMAIN g.edge) BY <2>1 DEF Nearest, Chain, PathRow
  <2>3. ASSUME NEW k \in DOMAIN p.edges
        PROVE  Ends(g.edge[p.edges[k]]) = {p.nodes[k], p.nodes[k + 1]}
    <3>1. k \in 1..Len(p.edges) BY <2>2
    <3>2. Joins(g, p, k) BY <2>1, <3>1 DEF Nearest, Chain
    <3> QED  BY <3>2 DEF Joins
  <2>4. target \notin ball[Len(p.edges) - 1] /\ Last(p.nodes) = target BY <2>1 DEF Nearest
  <2> QED  BY <2>3, <2>4
<1>14. PathsShown(g, target, found, ball) BY <1>13 DEF PathsShown
<1> QED  BY <1>10, <1>11, <1>12, <1>14

-----------------------------------------------------------------------------
(* The graph of entities                                                   *)

LEMMA SetToSeqTyped ==
  ASSUME NEW S, IsFiniteSet(S), NEW T, S \subseteq T
  PROVE  SetToSeq(S) \in Seq(T)
<1>1. PICK n \in Nat : n = Cardinality(S) BY FS_CardinalityType
<1>2. PICK f \in [1..n -> S] : IsInjective(f)
  <2>1. ExistsBijection(1..n, S) BY <1>1, FS_CardinalityType
  <2>2. PICK f : f \in Bijection(1..n, S) BY <2>1 DEF ExistsBijection
  <2> QED  BY <2>2 DEF Bijection, Injection, Surjection
<1>3. SetToSeq(S) \in [1..n -> S] BY <1>1, <1>2 DEF SetToSeq
<1>4. SetToSeq(S) \in [1..n -> T] BY <1>3
<1> QED  BY <1>4

LEMMA BaseGraphs ==
  ASSUME NEW base \in Bases, NEW g, g = Synced(base)
  PROVE  /\ WalkGraph(g, g.node \cup {"document", "chunk"}) /\ Entities \subseteq g.node
         /\ base.visible => Reach(g) \subseteq g.node
<1>1. g.node = NodesOf(base) /\ g.edge = EdgesOf(base) BY DEF Synced, Graph
<1>2. PICK K : K = g.node \cup {"document", "chunk"} OBVIOUS
<1>3. /\ Entities \subseteq g.node /\ Entities \subseteq K
      /\ {"person", "place", "document", "chunk"} \subseteq K
      /\ base.visible => g.node = K
  BY <1>1, <1>2 DEF NodesOf
<1>4. IsFiniteSet(Entities) /\ Pairs \subseteq Entities \X Entities
  BY WalksAssumption DEF WalksAssumption
<1>5. IsFiniteSet(K) /\ K = Entities \cup {"person", "place", "document", "chunk"}
  <2>1. K = Entities \cup {"person", "place", "document", "chunk"} BY <1>1, <1>2 DEF NodesOf
  <2>2. IsFiniteSet({"person", "place"}) /\ IsFiniteSet({"document", "chunk"})
    <3>1. IsFiniteSet({"person"}) /\ IsFiniteSet({"document"}) BY FS_Singleton
    <3>2. {"person", "place"} = {"person"} \cup {"place"} OBVIOUS
    <3>3. {"document", "chunk"} = {"document"} \cup {"chunk"} OBVIOUS
    <3> QED  BY <3>1, <3>2, <3>3, FS_AddElement
  <2>3. IsFiniteSet(Entities \cup {"person", "place"}) BY <1>4, <2>2, FS_Union
  <2>4. IsFiniteSet((Entities \cup {"person", "place"}) \cup {"document", "chunk"})
    BY <2>2, <2>3, FS_Union
  <2>5. K = (Entities \cup {"person", "place"}) \cup {"document", "chunk"} BY <2>1
  <2> QED  BY <2>1, <2>4, <2>5
<1>6. IsFiniteSet(K \X K) BY <1>5, FS_Product
<1>7. \A S : S \subseteq K \X K => SetToSeq(S) \in Seq(K \X K)
  <2>1. ASSUME NEW S, S \subseteq K \X K PROVE SetToSeq(S) \in Seq(K \X K)
    <3>1. IsFiniteSet(S) BY <1>6, <2>1, FS_Subset
    <3> QED  BY <2>1, <3>1, SetToSeqTyped
  <2> QED  BY <2>1
<1>8. /\ base.type \in [Entities -> {"person", "place"}]
      /\ base.related \subseteq Pairs
  BY DEF Bases
<1>9. (IF base.visible THEN <<<<"document", "chunk">>>> ELSE <<>>) \in Seq(K \X K)
  <2>1. <<"document", "chunk">> \in K \X K BY <1>3
  <2>2. <<<<"document", "chunk">>>> \in Seq(K \X K) BY <2>1, OneIsSeq
  <2>3. <<>> \in Seq(K \X K) OBVIOUS
  <2> QED  BY <2>2, <2>3
<1>10. SetToSeq({<<base.type[e], e>> : e \in Entities}) \in Seq(K \X K)
  <2>1. \A e \in Entities : <<base.type[e], e>> \in K \X K BY <1>3, <1>8
  <2>2. {<<base.type[e], e>> : e \in Entities} \subseteq K \X K BY <2>1
  <2> QED  BY <1>7, <2>2
<1>11. SetToSeq({<<e, "document">> : e \in {e \in Entities : base.mention[e] # "no"}})
         \in Seq(K \X K)
  <2>1. {<<e, "document">> : e \in {e \in Entities : base.mention[e] # "no"}} \subseteq K \X K
    BY <1>3
  <2> QED  BY <1>7, <2>1
<1>12. SetToSeq({<<e, "chunk">> : e \in {e \in Entities : base.mention[e] = "chunk"}})
         \in Seq(K \X K)
  <2>1. {<<e, "chunk">> : e \in {e \in Entities : base.mention[e] = "chunk"}} \subseteq K \X K
    BY <1>3
  <2> QED  BY <1>7, <2>1
<1>13. SetToSeq(base.related) \in Seq(K \X K)
  <2>1. base.related \subseteq K \X K BY <1>3, <1>4, <1>8
  <2> QED  BY <1>7, <2>1
<1>14. g.edge \in Seq(K \X K)
  <2>1. PICK a, b, c, d, e :
           /\ a = (IF base.visible THEN <<<<"document", "chunk">>>> ELSE <<>>)
           /\ b = SetToSeq({<<base.type[x], x>> : x \in Entities})
           /\ c = SetToSeq({<<x, "document">> : x \in {x \in Entities : base.mention[x] # "no"}})
           /\ d = SetToSeq({<<x, "chunk">> : x \in {x \in Entities : base.mention[x] = "chunk"}})
           /\ e = SetToSeq(base.related)
    OBVIOUS
  <2>2. a \in Seq(K \X K) /\ b \in Seq(K \X K) /\ c \in Seq(K \X K) /\ d \in Seq(K \X K)
        /\ e \in Seq(K \X K)
    BY <1>9, <1>10, <1>11, <1>12, <1>13, <2>1
  <2>3. g.edge = a \o b \o c \o d \o e BY <1>1, <2>1, Zenon DEF EdgesOf
  <2>4. PICK T : T = K \X K OBVIOUS
  <2>5. a \o b \in Seq(T) BY <2>2, <2>4
  <2>6. a \o b \o c \in Seq(T) BY <2>2, <2>4, <2>5
  <2>7. a \o b \o c \o d \in Seq(T) BY <2>2, <2>4, <2>6
  <2>8. a \o b \o c \o d \o e \in Seq(T) BY <2>2, <2>4, <2>7
  <2> QED  BY <2>3, <2>4, <2>8
<1>15. PICK n \in Nat : n = Len(g.edge) /\ DOMAIN g.edge = 1..n BY <1>14
<1>16. IsFiniteSet(DOMAIN g.edge) /\ DOMAIN g.edge \subseteq Nat
  <2>1. PICK a, b, S : a = 1 /\ b = n /\ S = a..b OBVIOUS
  <2>2. a \in Int /\ b \in Int /\ S = DOMAIN g.edge BY <1>15, <2>1
  <2>3. IsFiniteSet(a..b) BY <2>2, FS_Interval
  <2>4. 1..n \subseteq Nat OBVIOUS
  <2> QED  BY <1>15, <2>1, <2>2, <2>3, <2>4
<1>17. ASSUME NEW i \in DOMAIN g.edge PROVE g.edge[i][1] \in K /\ g.edge[i][2] \in K
  <2>1. g.edge[i] \in K \X K BY <1>14, <1>15
  <2> QED  BY <2>1
<1>18. WalkGraph(g, K) BY <1>2, <1>5, <1>16, <1>17 DEF WalkGraph
<1>19. ASSUME base.visible PROVE Reach(g) \subseteq g.node
  <2>1. g.node = K BY <1>3, <1>19
  <2>2. \A i \in DOMAIN g.edge : Ends(g.edge[i]) \subseteq K BY <1>17 DEF Ends
  <2> QED  BY <2>1, <2>2 DEF Reach
<1> QED  BY <1>2, <1>3, <1>18, <1>19

LEMMA NeighborsRead == NeighborsComplete
<1>1. ASSUME NEW base \in Bases, NEW e \in Entities, NEW depth \in 1..Steps, NEW limit \in Limits,
             NEW g, g = Synced(base), NEW kinds
      PROVE  NeighborsShown(g, e, depth, limit, Neighbors(g, e, depth, limit, kinds),
                            Around(g, e, g.node \cap kinds))
  <2>1. limit \in Nat \ {0} BY WalksAssumption DEF WalksAssumption
  <2>2. PICK ends : WalkGraph(g, ends) /\ e \in g.node BY <1>1, BaseGraphs
  <2>3. PICK out, ball : /\ out = Neighbors(g, e, depth, limit, kinds)
                         /\ ball = Around(g, e, g.node \cap kinds)
    OBVIOUS
  <2>4. NeighborsShown(g, e, depth, limit, out, ball) BY <2>1, <2>2, <2>3, NeighborsAre
  <2> QED  BY <2>3, <2>4
<1>2. ASSUME NEW base \in Bases, NEW e \in Entities, NEW depth \in 1..Steps, NEW limit \in Limits,
             NEW kinds
      PROVE  NeighborsShown(Synced(base), e, depth, limit,
                            Neighbors(Synced(base), e, depth, limit, kinds),
                            Around(Synced(base), e, Synced(base).node \cap kinds))
  BY <1>1
<1>3. ASSUME NEW base \in Bases, NEW e \in Entities, NEW depth \in 1..Steps, NEW limit \in Limits
      PROVE  LET g == Synced(base) IN
             \A kinds \in {g.node, Entities} :
                 LET out == Neighbors(g, e, depth, limit, kinds)
                     ball == Around(g, e, g.node \cap kinds) IN
                 NeighborsShown(g, e, depth, limit, out, ball)
  BY <1>2
<1> QED  BY <1>3 DEF NeighborsComplete, NeighborsShown

LEMMA PathsRead == PathsAreShortest
<1>1. ASSUME NEW base \in Bases, NEW s \in Entities, NEW t \in Entities, NEW depth \in 1..Steps,
             NEW g, g = Synced(base), NEW found, found = Path(g, s, t, depth),
             NEW ball, ball = Around(g, s, g.node \cup {"document", "chunk"}), s # t
      PROVE  /\ found = {} <=> t \notin ball[depth]
             /\ Failed(g, found) => ~base.visible
             /\ PathsShown(g, t, found, ball)
  <2>1. PICK ends : ends = g.node \cup {"document", "chunk"} OBVIOUS
  <2>2. WalkGraph(g, ends) /\ s \in g.node /\ t \in g.node BY <1>1, <2>1, BaseGraphs
  <2>3. ball = Around(g, s, ends) BY <1>1, <2>1
  <2>4. Failed(g, found) => ~ (Reach(g) \subseteq g.node) BY <1>1, <2>2, <2>3, PathsAre
  <2>5. base.visible => Reach(g) \subseteq g.node BY <1>1, BaseGraphs
  <2>6. found = {} <=> t \notin ball[depth] BY <1>1, <2>2, <2>3, PathsAre
  <2>7. PathsShown(g, t, found, ball) BY <1>1, <2>2, <2>3, PathsAre
  <2> QED  BY <2>4, <2>5, <2>6, <2>7
<1>2. ASSUME NEW base \in Bases, NEW s \in Entities, NEW t \in Entities, NEW depth \in 1..Steps,
             s # t
      PROVE  LET g == Synced(base)
                 found == Path(g, s, t, depth)
                 ball == Around(g, s, g.node \cup {"document", "chunk"}) IN
             /\ found = {} <=> t \notin ball[depth]
             /\ Failed(g, found) => ~base.visible
             /\ PathsShown(g, t, found, ball)
  <2> DEFINE g == Synced(base)
             found == Path(g, s, t, depth)
             ball == Around(g, s, g.node \cup {"document", "chunk"})
  <2> HIDE DEF g, found, ball
  <2>1. g = Synced(base) /\ found = Path(g, s, t, depth)
        /\ ball = Around(g, s, g.node \cup {"document", "chunk"})
    BY DEF g, found, ball
  <2>2. /\ found = {} <=> t \notin ball[depth]
        /\ Failed(g, found) => ~base.visible
        /\ PathsShown(g, t, found, ball)
    BY <1>1, <1>2, <2>1
  <2> QED  BY <2>2 DEF g, found, ball
<1> QED  BY <1>2, Zenon DEF PathsAreShortest, PathsShown

\* A page, an overview, a trace, the neighbours of an entity and a path between two are
\* what the graph has, whatever entities there are and however they are related:
\* neighbors, path and search of the store, trace and overview of the queries.
THEOREM WalksReadTheGraph == GraphRead /\ (Spec => []GraphIsRead)
<1>1. GraphRead BY NeighborsRead, PathsRead, TracesRead, OverviewsRead DEF GraphRead
<1>2. GraphIsRead BY <1>1 DEF GraphIsRead
<1>3. QED BY <1>1, <1>2, PTL
=============================================================================
