------------------------------ MODULE FeedFacts ------------------------------
(***************************************************************************)
(* The facts found in the feed's entries and the claims about a thesis     *)
(* that are made of them, as a reader of the feed sees them.  Signals has  *)
(* the steps.                                                              *)
(***************************************************************************)
EXTENDS FiniteSets, Naturals

CONSTANTS
    Items,          \* entries of a source, numbered by age
    Facts,          \* what can be said of them, numbered in the order of their keys
    ItemOf,         \* the entry a fact is found in
    Weight          \* what a fact does to the thesis, 0 if it does not match it

ASSUME FeedFactsAssumption ==
    /\ Items \subseteq Nat /\ IsFiniteSet(Facts) /\ Facts = 1..Cardinality(Facts)
    /\ ItemOf \in [Facts -> Items] /\ Weight \in [Facts -> Nat]

VARIABLES
    fact,       \* the investment_fact rows
    live,       \* active investment_signal rows
    settled,    \* nothing has changed since a refresh of everything
    claim,      \* facts that a claim about the thesis was made of
    impact,     \* suggested_thesis_impact of each entry
    judged      \* entries the classifier has written

FactsOf(i) == {f \in Facts : ItemOf[f] = i}
Active == {f \in Facts : fact[f].is = "active"}

\* An entry that has facts never loses all of them, neither to an answer of which
\* nothing could be kept nor to one that fails half-way.
FactsOutlive ==
    [][\A i \in Items : FactsOf(i) \cap Active # {} => (FactsOf(i) \cap Active)' # {}]_fact

\* An entry shows at least the strongest impact of the claims made of its facts,
\* whatever the order of its facts and the job's failures, until the classifier writes.
StrongestShows ==
    \A f \in claim : ItemOf[f] \in judged \/ impact[ItemOf[f]] >= Weight[f]

\* When nobody comes between, a refresh of everything repairs what refreshes that
\* overlapped, moved watchlists and retired facts have left: every active fact is
\* in one active signal, with the facts of its watchlist, and no other fact is.
RefreshRepairs ==
    settled =>
        /\ \A f \in Active : Cardinality({k \in live : f \in k.members}) = 1
        /\ \A k \in live : \A f \in k.members : f \in Active /\ fact[f].list = k.list
=============================================================================
