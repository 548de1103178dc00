-------------------------------- MODULE Answers --------------------------------
(***************************************************************************)
(* What is answered about knowledge and where it comes from: Provenance    *)
(* beside the walks of its graph and the quotes of its anchors.            *)
(***************************************************************************)
EXTENDS Provenance, Walks, Evidence

\* Whatever is asked of a graph is answered with what is in it: neighbours, paths,
\* traces and pages of overviews.  It is about every small graph and no state, so TLC
\* is to evaluate it in the first state only.
GraphIsRead == Init => GraphRead

\* What is quoted as evidence is found where its anchor says, those who count on an
\* anchor get it, and no quote that is copied letter by letter is lost.  It is about
\* every short text and no state, so TLC is to evaluate it in the first state only.
EvidenceIsFound == Init => EvidenceKept
=============================================================================
