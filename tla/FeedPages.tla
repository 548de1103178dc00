------------------------------ MODULE FeedPages ------------------------------
(***************************************************************************)
(* The entries of the feed, from which FeedFacts has facts and claims, and *)
(* the pages of the sources that they are read from.                       *)
(***************************************************************************)
EXTENDS FeedFacts, Fetchers

\* An entry has one row however often its page is read, and reading it again changes
\* nothing that is translated.  It is about every small page and no state, so TLC is to
\* evaluate it where nothing has been found in the entries yet.
FetchesSettle == live = {} /\ claim = {} => FetchedOnce
=============================================================================
