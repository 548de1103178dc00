-------------------------- MODULE MCYouTubeSummary --------------------------
(* A video or two for YouTubeSummary, each with room for two documents. *)
EXTENDS YouTubeSummary

CONSTANTS v1, v2, d1, d2
=============================================================================
