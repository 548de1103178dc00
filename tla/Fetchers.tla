-------------------------------- MODULE Fetchers --------------------------------
(***************************************************************************)
(* How the pages of a source become rows of the investment feed: the       *)
(* fetchers read entries of an RSS feed, filings, observations of a series *)
(* or links to announcements, give each an identity, look for a better     *)
(* summary on the entry's own page, and a row that is known already is     *)
(* refreshed.  Pure algorithms; Feed has when a source is fetched.         *)
(*                                                                         *)
(* An address, a title and a name are model values; a text has a length, a *)
(* sign of page chrome in it, a sign of excerpts from attached files, and  *)
(* it may be the title once more.                                          *)
(***************************************************************************)
EXTENDS Naturals, FiniteSets, FiniteSetsExt

CONSTANTS
    Addresses,      \* of entries, and their identifiers
    News,           \* those that are links of Google News
    Publisher,      \* of each of these, the address of the page at its publisher
    Feedpage,       \* address of the feed
    None,
    Headlines,
    Lengths,
    Margin,         \* characters by which a better summary is longer
    Long, Shrink,   \* characters of an excerpt that was stored before there was a limit
    PageSize        \* bound on the entries of a page

ASSUME FetchersAssumption ==
    /\ News \subseteq Addresses /\ {Feedpage, None} \cap Addresses = {} /\ Feedpage # None
    \* A publisher's address is none of a feed's own; two links may have the same.
    /\ \A a \in News : Publisher[a] \notin Addresses \cup {Feedpage, None}
    /\ Lengths \subseteq Nat \ {0} /\ {Margin, Long, Shrink} \subseteq Nat /\ Margin <= Shrink
    /\ PageSize \in Nat

-----------------------------------------------------------------------------
(* Identity                                                                *)

\* _google_news_source_url: the publisher's address, which the link holds or Google
\* tells for it, or nothing.
Decoded(address, told) == IF address \in News /\ told THEN Publisher[address] ELSE None

FeedLink(entry) == IF entry.link = None THEN Feedpage ELSE entry.link
Url(entry, told) ==
    IF Decoded(FeedLink(entry), told) # None THEN Decoded(FeedLink(entry), told)
    ELSE FeedLink(entry)

External(entry, told) ==
    IF Url(entry, told) # FeedLink(entry) THEN Url(entry, told)
    ELSE IF Decoded(entry.id, told) # None THEN Decoded(entry.id, told)
    ELSE IF entry.id = None THEN Url(entry, told) ELSE entry.id

\* compute_dedupe_key, of one type of source.
Identity(entry, told) == <<External(entry, told), Url(entry, told)>>

-----------------------------------------------------------------------------
(* Texts                                                                   *)

AllTexts == [length : Lengths, chrome : BOOLEAN, files : BOOLEAN, title : BOOLEAN]
NoText == [length |-> 0, chrome |-> FALSE, files |-> FALSE, title |-> FALSE]
\* The title is short and clean.
Texts == {t \in AllTexts : t.title => t.length = Min(Lengths) /\ ~t.chrome /\ ~t.files}

\* _summary_needs_detail, or the source or Google News asks for the page.
LooksAtPage(entry, told, enrich) ==
    \/ enrich \/ entry.summary = NoText \/ entry.summary.title
    \/ Url(entry, told) # FeedLink(entry)

\* The summary of a page that can be loaded and says something; excerpts of its
\* attachments come behind it.
Summary(entry, told, enrich, page) ==
    IF LooksAtPage(entry, told, enrich) /\ page # NoText THEN page ELSE entry.summary

-----------------------------------------------------------------------------
(* What the fetchers read: some of the numbered entries of a page          *)

Raw(key, title, summary) == [key |-> key, title |-> title, summary |-> summary]
First(limit, places) == {i \in places : Cardinality({j \in places : j <= i}) <= limit}

\* _parse_rss_body, for feeds of news and for the mirrors of X; pages has the text of
\* each entry's page, or none.
ReadFeed(entries, told, enrich, pages, limit) ==
    [i \in First(limit, DOMAIN entries) |->
        Raw(Identity(entries[i], told), entries[i].title,
            Summary(entries[i], told, enrich, pages[i]))]

\* SecEdgarFetcher: filings of the forms that are wanted.
ReadFilings(filings, forms, limit) ==
    [i \in First(limit, {i \in DOMAIN filings : filings[i].form \in forms}) |->
        Raw(<<filings[i].accession, filings[i].file>>, filings[i].title, NoText)]

\* BlsFetcher, FredFetcher: the value is part of the identity, so one that is revised
\* is a new entry.
ReadSeries(series, observations, limit) ==
    [i \in First(limit, DOMAIN observations) |->
        Raw(<<<<series, observations[i].date, observations[i].value>>, series>>,
            <<observations[i].date, observations[i].value>>, NoText)]

\* _parse_announcement_html: links to documents; a page without any fails the source.
ReadLinks(links) ==
    [i \in {i \in DOMAIN links : links[i].title # None} |->
        Raw(<<links[i].to, links[i].to>>, links[i].title, NoText)]

-----------------------------------------------------------------------------
(* Rows                                                                    *)

\* (fault) Any other text is better.
BetterIfOther(current, incoming) == incoming # NoText /\ incoming # current

\* _is_better_summary
Better(current, incoming) ==
    /\ incoming # NoText
    /\ \/ current = NoText
       \/ current.title /\ ~incoming.title
       \/ current.chrome /\ ~incoming.chrome
       \/ /\ current.files /\ incoming.files
          /\ current.length > Long /\ incoming.length + Shrink < current.length
       \/ incoming.length > current.length + Margin

\* _refresh_existing: what changes takes its translation with it.
Refreshed(old, raw) ==
    LET better == Better(old.summary, raw.summary) IN
    [title |-> raw.title, titleZh |-> old.titleZh /\ raw.title = old.title,
     summary |-> IF better THEN raw.summary ELSE old.summary,
     summaryZh |-> old.summaryZh /\ ~better]
Created(raw) ==
    [title |-> raw.title, titleZh |-> FALSE, summary |-> raw.summary, summaryZh |-> FALSE]

\* upsert_from_raw of one entry after the other.
Upsert(table, raw) ==
    [k \in DOMAIN table \cup {raw.key} |->
        IF k # raw.key THEN table[k]
        ELSE IF k \in DOMAIN table THEN Refreshed(table[k], raw) ELSE Created(raw)]
FetchAll(table, raws) ==
    LET last == Max({0} \cup DOMAIN raws)
        after[n \in 0..last] ==
            IF n = 0 THEN table
            ELSE IF n \in DOMAIN raws THEN Upsert(after[n - 1], raws[n]) ELSE after[n - 1]
    IN after[last]
Empty == [k \in {} |-> NoText]
Translated(table) ==
    [k \in DOMAIN table |-> [table[k] EXCEPT !.titleZh = TRUE, !.summaryZh = TRUE]]

-----------------------------------------------------------------------------
(* Properties, over small feeds                                            *)

Feeds == [1..PageSize -> [link : Addresses \cup {None}, id : Addresses \cup {None},
                         title : Headlines, summary : {NoText}]]
NoPages == [i \in 1..PageSize |-> NoText]

\* Two links that lead to one page of a publisher, if Google tells.
SamePage(a, b, told) ==
    a = b \/ (told /\ {a, b} \subseteq News /\ Publisher[a] = Publisher[b])

\* Entries with different links have rows of their own, and so have entries with
\* different identifiers, whether or not Google tells the publisher of its own links,
\* unless it tells the same page of both; an entry gets a second row only if Google
\* tells one time and not another.
IdentityKept ==
    \A feed \in Feeds, told \in BOOLEAN, again \in BOOLEAN :
        LET once == FetchAll(Empty, ReadFeed(feed, told, FALSE, NoPages, PageSize)) IN
        \A i \in 1..PageSize :
            /\ \A j \in 1..PageSize :
                  \/ ~SamePage(feed[i].link, feed[j].link, told)
                  \/ /\ ~SamePage(feed[i].id, feed[j].id, told)
                     /\ None \notin {feed[i].id, feed[j].id}
                     /\ {feed[i].link, feed[j].link} \cap News = {}
                  => LET keys == {Identity(feed[i], told), Identity(feed[j], told)} IN
                     keys \subseteq DOMAIN once /\ Cardinality(keys) = 2
            /\ Identity(feed[i], again) \notin DOMAIN once =>
                  told # again /\ {feed[i].link, feed[i].id} \cap News # {}

Forms == {"10-K", "other"}
Readings ==
    [1..PageSize -> [key : {1, 2}, title : Headlines, summary : Texts \cup {NoText}]]
    \cup {ReadLinks(links) :
              links \in [1..PageSize -> [to : Addresses, title : Headlines \cup {None}]]}
    \cup {ReadSeries(s, o, PageSize) :
              s \in Addresses, o \in [1..PageSize -> [date : 1..2, value : 1..2]]}
    \cup {ReadFilings(f, forms, limit) :
              f \in [1..PageSize -> [accession : 1..2, file : Addresses, form : Forms,
                                   title : Headlines]],
              forms \in SUBSET Forms, limit \in 1..PageSize}

\* Fetching what was fetched before changes no row and no translation, if the entries
\* that share a row have the same title, and not summaries of which each is better than
\* the other.
RefetchIsQuiet ==
    \A raws \in Readings :
        LET table == Translated(FetchAll(Empty, raws)) IN
        (\A i \in DOMAIN raws, j \in DOMAIN raws : raws[i].key = raws[j].key =>
            /\ raws[i].title = raws[j].title
            /\ ~(Better(raws[i].summary, raws[j].summary)
                 /\ Better(raws[j].summary, raws[i].summary)))
        => FetchAll(table, raws) = table

\* A feed that has been read with its pages and without them, in either order, changes
\* nothing any more, unless a page brings its chrome or excerpts beyond the limit.
SummariesSettle ==
    \A brief \in Texts \cup {NoText}, page \in Texts, enrich \in BOOLEAN :
        LET entry == [link |-> CHOOSE a \in Addresses \ News : TRUE, id |-> None,
                      title |-> CHOOSE t \in Headlines : TRUE, summary |-> brief]
            Reads(online) == ReadFeed(<<entry>>, FALSE, enrich,
                                      <<IF online THEN page ELSE NoText>>, 1) IN
        \A order \in [1..3 -> BOOLEAN] :
            LET once == FetchAll(Empty, Reads(order[1]))
                table == Translated(FetchAll(once, Reads(~order[1]))) IN
            ~page.chrome /\ ~brief.chrome /\ ~(page.files /\ page.length > Long)
                /\ ~(brief.files /\ brief.length > Long)
            => FetchAll(FetchAll(table, Reads(order[2])), Reads(order[3])) = table

FetchedOnce == IdentityKept /\ RefetchIsQuiet /\ SummariesSettle
=============================================================================
