----------------------------- MODULE MCSignals -----------------------------
(* Two entries, three facts of which one is like both others, one watchlist; and *)
(* small pages of sources. *)
EXTENDS Signals, FeedPages

CONSTANT w
MCItemOf == [f \in Facts |-> IF f = 3 THEN 2 ELSE 1]
MCNear == {<<1, 3>>, <<2, 3>>}
\* Two links of Google News to one page.
MCPublisher == [a \in News |-> "page"]
MCWeight == [f \in Facts |-> IF f = 1 THEN 2 ELSE IF f = 2 THEN 1 ELSE 0]
=============================================================================
