-------------------------------- MODULE Evidence --------------------------------
(***************************************************************************)
(* What is quoted as evidence, and where.  Whoever wants an anchor looks   *)
(* for the quote in a stored source, describes its place with a locator    *)
(* and asks the anchor service, which checks the quote once more in a way  *)
(* of its own.  Fact extraction gives up a quote that is refused; the      *)
(* verification of claims, the research workflow and the adapters of the   *)
(* reading desk count on not being refused.  Pure algorithms over sources  *)
(* that do not change meanwhile; Provenance has the anchors' life.         *)
(*                                                                         *)
(* A text is a short sequence of characters, of which one ends a line.     *)
(***************************************************************************)
EXTENDS Integers, Sequences, FiniteSets, FiniteSetsExt

CONSTANTS
    Letters,
    Gap, Break,     \* between the fields of an item, and at the end of a line
    MaxText,        \* bound on the length of a text
    Cut,            \* characters of an excerpt
    None

ASSUME EvidenceAssumption ==
    /\ Letters \subseteq Nat /\ Gap \in Nat \ Letters /\ Break \in Nat \ (Letters \cup {Gap})
    /\ MaxText \in Nat \ {0} /\ None \notin Nat
    /\ Cut \in Nat \ {0, 1}      \* the title of an item is shorter

-----------------------------------------------------------------------------
(* Texts and sources                                                       *)

Lines == UNION {[1..n -> Letters \cup {Break}] : n \in 1..MaxText}
Words == {<<c>> : c \in Letters}

Slice(text, from, to) == SubSeq(text, from + 1, Min({to, Len(text)}))
Places(quote, text) ==
    {i \in 0..Len(text) - Len(quote) : Slice(text, i, i + Len(quote)) = quote}

\* The only place, if there is one only.
Sole(places) == IF Cardinality(places) = 1 THEN places ELSE {}

Together(text, field, between) ==
    IF text = <<>> \/ field = <<>> THEN text \o field ELSE text \o <<between>> \o field

\* A chunk of a video has times, if its captions had; a chunk of a PDF has a page and
\* perhaps a box, which may be out of range.
Chunks == [kind : {"chunk"}, says : Lines, video : BOOLEAN,
           times : {<<>>, <<0, 1>>, <<1, 1>>}, page : {None, 1}, box : {"none", "box", "odd"}]
Frames == [kind : {"frame"}, says : Lines]
Snippets == [kind : {"snippet"}, says : Lines]
Items == [kind : {"item"}, title : Words, summary : Words \cup {<<>>},
          titleZh : Words \cup {<<>>}, summaryZh : Words \cup {<<>>}]

\* _investment_item_text
Says(source) ==
    IF source.kind # "item" THEN source.says
    ELSE Together(Together(Together(source.title, source.summary, Break),
                           source.titleZh, Break), source.summaryZh, Break)

Span(from, to) == [type |-> "span", from |-> from, to |-> to]
Clip(times) == [type |-> "clip", from |-> times[1], to |-> times[2]]
Lasting(times) == times # <<>> /\ times[1] < times[2]
Region(page, box) == [type |-> "region", page |-> page, box |-> box]
Image == [type |-> "image"]
Fragment(quote) == [type |-> "fragment", quote |-> quote]

Request(source, locator, quote) == [source |-> source, locator |-> locator, quote |-> quote]

-----------------------------------------------------------------------------
(* The service                                                             *)

\* Locators and requests that cannot be made.
WellFormed(request) ==
    LET at == request.locator IN
    /\ request.quote # <<>>
    /\ at.type \in {"span", "clip"} => at.from < at.to
    /\ at.type = "region" => at.box = "box"

\* _validate_locator
Matches(request) ==
    LET at == request.locator  quote == request.quote  text == Says(request.source) IN
    CASE at.type = "span" -> Slice(text, at.from, at.to) = quote
      [] at.type = "region" -> at.page = request.source.page /\ Places(quote, text) # {}
      [] at.type = "clip" -> Places(quote, text) # {}
      [] at.type = "image" -> TRUE
      [] at.type = "fragment" -> IF request.source.kind = "item" THEN Places(quote, text) # {}
                                 ELSE at.quote = quote

Accepted(request) == WellFormed(request) /\ Matches(request)

-----------------------------------------------------------------------------
(* Facts                                                                   *)

\* _segment_locator: none, or one.
SegmentLocator(segment, ref, start) ==
    CASE segment.kind = "item" -> {Fragment(ref.quote)}
      [] segment.kind = "frame" -> IF ref.box THEN {Image} ELSE {}
      [] segment.kind = "chunk" /\ segment.video ->
             IF ref.times # <<>> THEN {Clip(ref.times)}
             ELSE IF Lasting(segment.times) THEN {Clip(segment.times)} ELSE {}
      [] segment.kind = "chunk" /\ ~segment.video ->
             IF segment.page = None \/ segment.box = "none"
             THEN {Span(start, start + Len(ref.quote))}
             ELSE IF segment.box = "box" THEN {Region(segment.page, segment.box)} ELSE {}

\* A segment that the model names, and the offset if it gives one, or else the first.
Cited(segment, ref) ==
    LET places == Places(ref.quote, Says(segment)) IN
    UNION {{Request(segment, at, ref.quote) : at \in SegmentLocator(segment, ref, start)} :
              start \in {i \in places : IF ref.start = None THEN \A j \in places : i <= j
                                       ELSE i = ref.start}}

\* _resolve_evidence of a quote alone, in the one segment that has it.
Resolved(segments, quote) ==
    LET ref == [quote |-> quote, start |-> None, times |-> <<>>, box |-> FALSE] IN
    UNION {Cited(segments[k], ref) :
              k \in Sole({k \in DOMAIN segments : Places(quote, Says(segments[k])) # {}})}

\* create, where a refusal costs the fact only.
Kept(requests) == {r \in requests : Accepted(r)}

-----------------------------------------------------------------------------
(* The reading desk, and claims                                            *)

\* validate_anchor: where the model says, or in the only place.
InsightPlace(chunk, from, to, quote) ==
    IF Slice(chunk.says, from, to) = quote THEN {Span(from, to)}
    ELSE {Span(i, i + Len(quote)) : i \in Sole(Places(quote, chunk.says))}

\* from_reading_insight, from_reading_corroboration
InsightRequest(chunk, from, to, quote) ==
    {Request(chunk, at, quote) : at \in InsightPlace(chunk, from, to, quote)}
CorroborationRequest(chunk, excerpt) ==
    {Request(chunk, Span(i, i + Len(excerpt)), excerpt) : i \in Sole(Places(excerpt, chunk.says))}

\* (fault) The excerpt is made for reading: one line.
ExcerptOfOneLine(text) ==
    LET first == Slice(text, 0, Cut) IN
    [i \in DOMAIN first |-> IF first[i] = Break THEN Gap ELSE first[i]]

\* _exact_excerpt
Excerpt(text) == Slice(text, 0, Cut)

\* _chunk_locator
ChunkLocator(chunk) ==
    IF chunk.video /\ Lasting(chunk.times)
    THEN Clip(chunk.times)
    ELSE IF chunk.page # None /\ chunk.box = "box" THEN Region(chunk.page, chunk.box)
    ELSE Span(0, Len(Excerpt(chunk.says)))

\* An item is found by a text of its own, and quoted from that.
FoundText(item) == Together(Together(item.title, item.summary, Gap), item.summaryZh, Gap)

\* from_candidate, for a chunk or an item; the other kinds have no locator.
CandidateRequest(source) ==
    IF source.kind = "chunk"
    THEN Request(source, ChunkLocator(source), Excerpt(source.says))
    ELSE Request(source, Fragment(Excerpt(FoundText(source))), Excerpt(FoundText(source)))

-----------------------------------------------------------------------------
(* Research                                                                *)

\* _research_anchor: a chunk, or the snippet of a page that was searched for.
ResearchLocator(chunk, start, quote) ==
    IF chunk.video THEN IF chunk.times = <<>> THEN {} ELSE {Clip(chunk.times)}
    ELSE IF chunk.page = None THEN {Span(start, start + Len(quote))}
    ELSE IF chunk.box = "none" THEN {} ELSE {Region(chunk.page, chunk.box)}
ResearchRequest(source, quote) ==
    LET places == Places(quote, source.says) IN
    IF source.kind = "snippet"
    THEN {Request(source, Fragment(quote), quote) : i \in places}
    ELSE UNION {{Request(source, at, quote) : at \in ResearchLocator(source, start, quote)} :
                   start \in Sole(places)}

-----------------------------------------------------------------------------
(* Properties, over short texts                                            *)

References(quotes) ==
    [quote : quotes, start : {None} \cup 0..MaxText, times : {<<>>, <<1, 2>>},
     box : BOOLEAN]

\* What somebody finds who follows a locator.
Found(request) ==
    LET at == request.locator  source == request.source IN
    CASE at.type = "span" -> Slice(source.says, at.from, at.to)
      [] at.type = "region" /\ at.page # source.page -> <<>>
      [] at.type = "clip" /\ <<at.from, at.to>> # source.times -> <<>>
      [] OTHER -> Says(source)
Holds(request) == Places(request.quote, Found(request)) # {}

\* An anchor's quote is found where its locator says, whoever made it; but the times in
\* a video that the model gives for a fact are believed.
AnchorsHold ==
    /\ \A chunk \in Chunks, quote \in Lines :
          /\ \A from \in 0..MaxText, to \in 0..MaxText :
                \A r \in InsightRequest(chunk, from, to, quote) : Accepted(r) => Holds(r)
          /\ \A r \in CorroborationRequest(chunk, quote) \cup {CandidateRequest(chunk)}
                      \cup ResearchRequest(chunk, quote) : Accepted(r) => Holds(r)
    /\ \A segment \in Chunks \cup Frames \cup Items :
          \A ref \in References(IF segment.kind = "item" THEN Words ELSE Lines) :
             \A r \in Kept(Cited(segment, ref)) :
                Holds(r) \/ (r.locator.type = "clip" /\ ref.times # <<>>)
    /\ \A snippet \in Snippets, quote \in Lines :
          \A r \in ResearchRequest(snippet, quote) : Accepted(r) => Holds(r)

\* The service accepts what those ask for who count on it, except an item that was found
\* by several fields, and in research a video's chunk without a length and a box out of
\* range.
NobodyIsRefused ==
    /\ \A chunk \in Chunks, quote \in Lines :
          /\ \A from \in 0..MaxText, to \in 0..MaxText :
                \A r \in InsightRequest(chunk, from, to, quote) : Accepted(r)
          /\ \A r \in CorroborationRequest(chunk, quote) \cup {CandidateRequest(chunk)} :
                Accepted(r)
          /\ \A r \in ResearchRequest(chunk, quote) :
                Accepted(r) \/ (chunk.video /\ chunk.times = <<1, 1>>)
                            \/ (chunk.page # None /\ chunk.box = "odd")
    /\ \A snippet \in Snippets, quote \in Lines :
          \A r \in ResearchRequest(snippet, quote) : Accepted(r)
    /\ \A item \in Items :
          Accepted(CandidateRequest(item)) <=> (item.summary = <<>> /\ item.summaryZh = <<>>)

\* A quote that stands in one place of one source is not lost: a fact's, if the place is
\* not given or is the right one; an insight's, wherever the model has put it; and a
\* claim's; unless the source's place cannot be told.
VerbatimIsKept ==
    /\ \A chunk \in Chunks, other \in Items \cup Frames, quote \in Lines :
          LET places == Places(quote, chunk.says)
              told == IF chunk.video THEN chunk.times = <<0, 1>>
                      ELSE chunk.page = None \/ chunk.box # "odd"
              Ref(start) == [quote |-> quote, start |-> start, times |-> <<>>, box |-> FALSE] IN
          told => \A start \in Sole(places) :
             /\ Kept(Cited(chunk, Ref(start))) # {}
             /\ Places(quote, Says(other)) = {} => Kept(Resolved(<<chunk, other>>, quote)) # {}
    /\ \A chunk \in Chunks, quote \in Lines, from \in 0..MaxText :
          Sole(Places(quote, chunk.says)) # {} =>
             InsightRequest(chunk, from, MaxText, quote) # {}

EvidenceKept == AnchorsHold /\ NobodyIsRefused /\ VerbatimIsKept
=============================================================================
