------------------------------- MODULE Timeline -------------------------------
(***************************************************************************)
(* The history of YouTube videos, which a reader takes page by page while  *)
(* videos arrive, get their dates and their summaries.  A page begins      *)
(* after the cursor of the page before, which is the time and the          *)
(* identifier of a video.  Pure algorithms over states of the tables, one  *)
(* for each page.                                                          *)
(***************************************************************************)
EXTENDS Naturals, FiniteSets, FiniteSetsExt, Functions

CONSTANTS
    Ids,            \* identifiers of videos, ordered as the rows are
    Times,          \* publication, or creation if that is not known
    Channels,
    Limits,         \* rows of a page
    Reads           \* bound on the pages a reader asks for

ASSUME TimelineAssumption ==
    /\ Ids \subseteq Nat /\ IsFiniteSet(Ids) /\ Times \subseteq Nat
    /\ "any" \notin Channels /\ Limits \subseteq Nat \ {0} /\ Reads \in Nat \ {0}

-----------------------------------------------------------------------------
(* One state of the tables                                                 *)

\* A video, the parse states of its documents, of which there may be none and, after
\* two pipelines have run, two.
VideoRow ==
    {v \in [time : Times, channel : Channels, fetch : {"fetched", "failed", "ignored_live"},
            documents : SUBSET {"processing", "completed"}] :
        v.fetch = "fetched" \/ v.documents = {}}

Terminal == {"failed", "no_transcript", "access_denied", "ignored_live"}
\* What a video is said to be, next to one of its documents.
Status(video, document) ==
    IF video.fetch \in Terminal THEN video.fetch
    ELSE IF document \in {"none", "pending"} THEN "processing" ELSE document

Outer(video) == IF video.documents = {} THEN {"none"} ELSE video.documents

\* The rows of the outer join that pass the filters; "any" is no filter.
Rows(table, channel, status) ==
    {r \in [id : DOMAIN table, document : {"none", "processing", "completed"}] :
        LET video == table[r.id] IN
        /\ r.document \in Outer(video) /\ video.fetch # "ignored_live"
        /\ channel \in {"any", video.channel}
        /\ status \in {"any", Status(video, r.document)}}

-----------------------------------------------------------------------------
(* One page                                                                *)

Before(x, y) == x.time > y.time \/ (x.time = y.time /\ x.id > y.id)
Key(table, r) == [time |-> table[r.id].time, id |-> r.id]

\* Rows of one video, which has two if it has two documents, come one after the other.
Precedes(table, r, s) ==
    \/ Before(Key(table, r), Key(table, s))
    \/ r.id = s.id /\ r.document = "processing" /\ s.document = "completed"

\* (fault) Only the time counts.
BeyondByTime(key, cursor) == \A last \in cursor : last.time > key.time

\* A cursor is that of the page before, or none.
Beyond(key, cursor) == \A last \in cursor : Before(last, key)

\* The first rows after the cursor, and a cursor if there are more than the page holds.
Page(table, channel, status, cursor, limit) ==
    LET ahead == {r \in Rows(table, channel, status) : Beyond(Key(table, r), cursor)}
        items == {r \in ahead : Cardinality({s \in ahead : Precedes(table, s, r)}) < limit}
        last == {r \in items : \A s \in items : ~Precedes(table, r, s)}
    IN [items |-> items,
        next |-> IF Cardinality(ahead) > limit THEN {Key(table, r) : r \in last} ELSE {}]

Number(table, channel, status) == Cardinality({r.id : r \in Rows(table, channel, status)})

\* What the page says beside its items: videos by channel, by month and by status.
Visible(table) == {v \in DOMAIN table : table[v].fetch # "ignored_live"}
PerChannel(table) ==
    [c \in {table[v].channel : v \in Visible(table)} |->
        Cardinality({v \in Visible(table) : table[v].channel = c})]
PerMonth(table) ==
    [t \in {table[v].time : v \in Visible(table)} |->
        Cardinality({v \in Visible(table) : table[v].time = t})]
PerStatus(table) ==
    LET rows == Rows(table, "any", "any")  Of(r) == Status(table[r.id], r.document) IN
    [s \in {Of(r) : r \in rows} |-> Cardinality({r.id : r \in {r \in rows : Of(r) = s}})]

-----------------------------------------------------------------------------
(* A reader                                                                *)

\* The pages of a reader who follows the cursors, a state of the tables for each.
Reading(tables, channel, status, limit) ==
    LET page[k \in DOMAIN tables] ==
            IF k = 1 THEN Page(tables[1], channel, status, {}, limit)
            ELSE IF page[k - 1].next = {} THEN [items |-> {}, next |-> {}]
            ELSE Page(tables[k], channel, status, page[k - 1].next, limit)
    IN page
Followed(page) == {k \in DOMAIN page : k = 1 \/ page[k - 1].next # {}}
Has(page, v) == \E r \in page.items : r.id = v

-----------------------------------------------------------------------------
(* Properties, over small tables                                           *)

Tables == UNION {[some -> VideoRow] : some \in SUBSET Ids}
\* Tables that change after the first page.
Histories == {[k \in 1..Reads |-> IF k = 1 THEN before ELSE after] : before, after \in Tables}
Statuses == {"any", "processing", "completed", "failed"}

\* A video that passes the filter with the same date on every page that is asked for is
\* on exactly one of them, or still ahead, whatever arrives, leaves, is dated or is
\* summarised in between.
SeenOnce ==
    \A tables \in Histories, channel \in Channels \cup {"any"}, status \in Statuses,
       limit \in Limits :
        LET page == Reading(tables, channel, status, limit)
            asked == Followed(page)
            next == page[Max(asked)].next IN
        \A v \in Ids :
            (\A k \in asked : /\ \E r \in Rows(tables[k], channel, status) : r.id = v
                              /\ tables[k][v].time = tables[1][v].time)
            => LET on == {k \in asked : Has(page[k], v)} IN
               \/ Cardinality(on) = 1
               \/ on = {} /\ next # {} /\ Beyond([time |-> tables[1][v].time, id |-> v], next)

\* The numbers beside the list are those of the list: a status that is chosen has as
\* many videos as was said, and so have the channels and the months together.
CountsMatch ==
    \A table \in Tables :
        LET counts == PerStatus(table)  channels == PerChannel(table)  months == PerMonth(table)
            all == Number(table, "any", "any") IN
        /\ \A s \in DOMAIN counts : Number(table, "any", s) = counts[s] /\ counts[s] > 0
        /\ \A s \in Statuses \ (DOMAIN counts \cup {"any"}) : Number(table, "any", s) = 0
        /\ \A c \in DOMAIN channels : Number(table, c, "any") = channels[c]
        /\ SumFunction(channels) = all /\ SumFunction(months) = all

TimelineKept == SeenOnce /\ CountsMatch
=============================================================================
