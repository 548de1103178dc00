---------------------------- MODULE MCTaskQueue ----------------------------
(* Small tables for TaskQueue: each configuration picks the rows it needs. *)
EXTENDS TaskQueue

CONSTANTS ent, rel,     \* the two extraction rows of one imported document
          doc,
          web1, web2,   \* commands for the X collector
          sum,          \* a YouTube summary
          snap,         \* an investment fetch that waits for a snapshot
          odd           \* a row of a type nobody registered

MCTypeOf == [j \in Jobs |->
    CASE j = ent -> "entity_extraction"
      [] j = rel -> "relation_extraction"
      [] j \in {web1, web2} -> "x_web_collect"
      [] j = sum -> "youtube_summary"
      [] j = snap -> "investment_fetch"
      [] OTHER -> "unregistered"]

MCDocOf == [j \in Jobs |-> IF j \in {ent, rel} THEN doc ELSE NoDoc]
============================================================================
