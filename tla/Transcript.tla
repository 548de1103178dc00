------------------------------ MODULE Transcript ------------------------------
(***************************************************************************)
(* From the sound of a YouTube video to the texts that are stored and      *)
(* summarised: where a transcript comes from, how its cues are joined for  *)
(* translation, cut into chunks along chapters or windows of time, grouped *)
(* into paragraphs, summarised section by section and put into a mind map. *)
(* Pure algorithms; Media has the pipeline that calls them.  A cue's text  *)
(* is the set of the numbers of the captions in it, and its length.        *)
(***************************************************************************)
EXTENDS Integers, FiniteSets, FiniteSetsExt, SequencesExt

CONSTANTS
    Backends,       \* number of speech recognisers, at most two
    Attempts,       \* downloads of the audio before it is given up
    Windows,        \* bound on the windows the audio is cut into
    MinChars,       \* characters a window must yield on average
    Target,         \* characters of joined cues
    Window,         \* seconds of a chunk without chapters
    Section,        \* seconds of a chunk in the summary of a long text
    LongChapter,    \* seconds from which a chapter is cut into windows
    ShortTail,      \* seconds below which the last chunk joins the one before
    Pause,          \* seconds of silence that end a paragraph
    Paragraph,      \* characters that end a paragraph at the end of a sentence
    LongParagraph,  \* characters that end a paragraph anywhere
    LongSpan        \* seconds after which a sentence ends even a long paragraph

ASSUME TranscriptAssumption ==
    /\ Backends \in 0..2 /\ Attempts \in Nat \ {0} /\ Windows \in Nat \ {0}
    /\ {MinChars, Target, Window, Section, LongChapter} \subseteq Nat \ {0}
    /\ {ShortTail, Pause, Paragraph, LongParagraph, LongSpan} \subseteq Nat \ {0}

-----------------------------------------------------------------------------
(* Captions by two routes, then speech recognition                         *)

\* yt-dlp writes files of captions and the first is read; one that cannot be read ends
\* the run, and cues without text do not count.
ByFile(loaded, files, readable, cues) ==
    IF ~loaded THEN "unavailable" ELSE
    IF files = 0 THEN "none" ELSE
    IF ~readable THEN "broken" ELSE
    IF cues = 0 THEN "none" ELSE "text"

\* The list of tracks is asked for, then the best of them.
ByApi(listing, tracks, loaded) ==
    IF listing = "disabled" THEN "none" ELSE
    IF listing = "error" THEN "unavailable" ELSE
    IF tracks = 0 THEN "none" ELSE
    IF ~loaded THEN "unavailable" ELSE "text"

\* ChainedTranscriptExtractor: a failure of a known kind tries the next route.
Chained(first, second) == IF first \in {"text", "broken"} THEN first ELSE second

\* One backend's audio: a failure that looks transient is tried again.
Audio(tries) ==
    LET ended == {i \in DOMAIN tries : tries[i] # "transient"} IN
    IF ended = {} THEN "error" ELSE tries[Min(ended)]

\* _transcript_is_too_short: the mean of the windows that yielded something.
TooShort(windows) ==
    LET said == {i \in DOMAIN windows : windows[i] > 0} IN
    said = {} \/ SumFunctionOnSet(windows, said) < MinChars * Cardinality(said)

\* One backend: a window that fails fails the transcript, a silent one is left out.
Heard(audio, windows) ==
    IF audio # "file" THEN audio
    ELSE IF \E i \in DOMAIN windows : windows[i] < 0 THEN "error"
    ELSE IF \A i \in DOMAIN windows : windows[i] = 0 THEN "empty"
    ELSE IF TooShort(windows) THEN "short" ELSE "text"

\* FallbackAsrService: the second backend answers for a first that fails or says
\* too little, and its answer is taken as it is.
FallbackTo(first, second) == IF first = "text" \/ Backends = 1 THEN first ELSE second

\* What the pipeline makes of it.  "aborted" is an exception that leaves the run.
Outcome(captions, speech) ==
    IF captions = "text" THEN "fetched"
    ELSE IF captions = "broken" THEN "aborted"
    ELSE IF Backends = 0 THEN "no_transcript"
    ELSE CASE speech \in {"text", "short"} -> "fetched"
           [] speech = "denied" -> "access_denied"
           [] OTHER -> "failed"

Heards == {Heard(Audio(tries), windows) :
              tries \in [1..Attempts -> {"file", "transient", "denied", "error"}],
              windows \in [1..Windows -> {-1, 0, 1, MinChars}]}
FromFiles == {ByFile(l, f, r, c) : l \in BOOLEAN, f \in 0..1, r \in BOOLEAN, c \in 0..1}
FromApi == {ByApi(l, n, f) :
               l \in {"listed", "disabled", "error"}, n \in 0..1, f \in BOOLEAN}
Outcomes == {Outcome(Chained(c, d), FallbackTo(p, s)) :
                c \in FromFiles, d \in FromApi, p \in Heards, s \in Heards}
-----------------------------------------------------------------------------
(* Translation                                                             *)

Ends(cue) == cue.start + cue.length

\* Two cues in one: the text of both, from the start of the first, for as long as
\* the two take together.
Both(cue, next) ==
    [text |-> cue.text \cup next.text, chars |-> cue.chars + next.chars,
     start |-> cue.start, length |-> cue.length + next.length]

\* _coalesce_segments: short cues are joined up to a number of characters.
Joined(cues, next) ==
    IF cues = <<>> \/ Last(cues).chars + next.chars + 1 > Target THEN Append(cues, next)
    ELSE Append(Front(cues), Both(Last(cues), next))
Coalesced(cues) == FoldLeft(Joined, <<>>, cues)

\* TranslationService.translate: a text in another language is joined and sent in
\* batches; a batch that fails, or comes back with another number of lines, keeps
\* its cues as they are, and a batch that does not gets its lines in order.
Translated(cues, inChinese) == IF inChinese THEN cues ELSE Coalesced(cues)

-----------------------------------------------------------------------------
(* Chapters and chunks                                                     *)

\* parse_chapters: the times found in a description, if they are two at least and in
\* order.
Chapters(times) ==
    IF Len(times) < 2 \/ \E i \in 1..Len(times) - 1 : times[i + 1] <= times[i]
    THEN <<>> ELSE times

Total(cues) == IF cues = <<>> THEN 0 ELSE Ends(Last(cues))

\* _segment_text: the cues that reach into a span.
Within(cues, span) ==
    {i \in DOMAIN cues : Ends(cues[i]) > span.from /\ cues[i].start < span.to}

\* Windows of equal length; the last one ends where the span does.
Slices(span, size) ==
    [k \in 1..((span.to - span.from + size - 1) \div size) |->
        [from |-> span.from + (k - 1) * size,
         to |-> Min({span.from + k * size, span.to})]]

\* Chapters are used if the first starts with the text and the last within it.
Usable(chapters, total) ==
    chapters # <<>> /\ Head(chapters) <= 1 /\ Last(chapters) < total

Spans(chapters, total, size, long) ==
    IF ~Usable(chapters, total) THEN Slices([from |-> 0, to |-> total], size)
    ELSE FlattenSeq([i \in DOMAIN chapters |->
            LET span == [from |-> chapters[i],
                         to |-> IF i = Len(chapters) THEN total ELSE chapters[i + 1]] IN
            IF span.to - span.from > long THEN Slices(span, size) ELSE <<span>>])

Chunk(cues, span) ==
    [from |-> span.from, to |-> span.to,
     text |-> UNION {cues[i].text : i \in Within(cues, span)}]

\* (fault) A last chunk that is too short is dropped.
TailDropped(chunks) ==
    IF Len(chunks) < 2 \/ Last(chunks).to - Last(chunks).from >= ShortTail THEN chunks
    ELSE Front(chunks)

\* _merge_short_tail
TailMerged(chunks) ==
    IF Len(chunks) < 2 \/ Last(chunks).to - Last(chunks).from >= ShortTail THEN chunks
    ELSE LET last == Last(chunks)  before == Last(Front(chunks)) IN
         Append(Front(Front(chunks)),
                [from |-> before.from, to |-> last.to, text |-> before.text \cup last.text])

\* A span without text is passed over.
Chunked(cues, chapters, size, long) ==
    LET Gather(chunks, span) ==
            IF Chunk(cues, span).text = {} THEN chunks ELSE Append(chunks, Chunk(cues, span))
    IN TailMerged(FoldLeft(Gather, <<>>, Spans(chapters, Total(cues), size, long)))

-----------------------------------------------------------------------------
(* Paragraphs for reading                                                  *)

\* format_transcript_for_reading: a pause, the end of a sentence or a great length
\* ends a paragraph; stops are the cues that end a sentence.
Full(p, atStop, end) ==
    \/ p.chars >= LongParagraph
    \/ p.chars >= Paragraph /\ atStop /\ (end - p.from >= LongSpan \/ p.chars < LongParagraph)
Paragraphs(cues, stops) ==
    LET Joins(out, i) == /\ out # <<>> /\ ~Full(Last(out), i - 1 \in stops, Ends(cues[i - 1]))
                         /\ cues[i].start - Ends(cues[i - 1]) < Pause
        Read(out, i) ==
            IF Joins(out, i)
            THEN Append(Front(out), [Last(out) EXCEPT !.cues = Append(@, i),
                                                      !.chars = @ + cues[i].chars])
            ELSE Append(out, [cues |-> <<i>>, chars |-> cues[i].chars, from |-> cues[i].start])
    IN FoldLeftDomain(Read, <<>>, cues)

-----------------------------------------------------------------------------
(* The summary                                                             *)

\* _chunk_to_transcript: what the model sees of a section.
Shown(cues, chunk) == Chunk(cues, chunk).text

\* SummaryService.summarize: a text that is too long goes to the model section by
\* section, and then what it has said of them; sections that fail are left out, and
\* if all do the summary says so.  The other calls fail the summary.
Summary(long, sections, answers, whole) ==
    IF long /\ sections # 0 /\ answers = 0 THEN "unavailable" ELSE whole
Summaries == {Summary(long, n, a, w) :
                 long \in BOOLEAN, n \in 0..2, a \in 0..2, w \in {"text", "raised"}}

\* _sanitize_timestamps
InRange(points, total) == {p \in points : total <= 0 \/ p \in 0..total}

\* _build_mindmap: the summary's chapters as the model has written them, in any order,
\* or else those of the description.
MapChapters(own, parsed) == IF own = <<>> THEN parsed ELSE own

\* build_mindmap: the points of each chapter, which ends where the next one of the list
\* starts; without chapters all are at the root.
Branches(points, chapters) ==
    IF chapters = <<>> THEN <<points>>
    ELSE [i \in DOMAIN chapters |->
            {p \in points : chapters[i] <= p /\ (i = Len(chapters) \/ p < chapters[i + 1])}]

-----------------------------------------------------------------------------
(* Properties, over short texts                                            *)

CONSTANTS MaxCues, MaxTime, MaxLength, Sizes    \* bounds of the texts

ASSUME TextsAssumption == {MaxCues, MaxTime, MaxLength} \subseteq Nat /\ Sizes \subseteq Nat

\* Captions in the order of their starts.
Texts ==
    LET Lists(n) == {s \in [1..n -> 0..MaxTime] : \A i \in 1..n - 1 : s[i] <= s[i + 1]}
        Cues(s, l, c) == [i \in DOMAIN s |->
            [text |-> {i}, start |-> s[i], length |-> l[i], chars |-> c[i]]] IN
    UNION {{Cues(s, l, c) : s \in Lists(n), l \in [1..n -> 0..MaxLength],
                            c \in [1..n -> Sizes]} : n \in 1..MaxCues}
ChapterLists == {Chapters(t) : t \in {<<>>} \cup (0..MaxTime + 1) \X (0..MaxTime + 1)}
OwnLists == {<<>>} \cup UNION {[1..n -> 0..MaxTime + 1] : n \in 1..MaxCues}
MapLists == {MapChapters(own, parsed) : own \in OwnLists, parsed \in ChapterLists}
Cuts == {[size |-> Window, long |-> LongChapter], [size |-> Section, long |-> Section]}

\* Every caption that takes time is in a chunk, joined and translated or not, and what
\* a chunk holds is shown to the model with its section; unless the first chapter
\* starts after the text does, or the last caption takes no time, which ends the text
\* before captions that start with it.
ChunksKeepText ==
    \A captions \in Texts, chapters \in ChapterLists, inChinese \in BOOLEAN, cut \in Cuts :
        LET cues == Translated(captions, inChinese)
            chunks == Chunked(cues, chapters, cut.size, cut.long) IN
        /\ Last(captions).length > 0
        /\ Usable(chapters, Total(cues)) => Head(chapters) = 0
        =>
            /\ \A i \in DOMAIN captions : captions[i].length > 0 =>
                  \E k \in DOMAIN chunks : i \in chunks[k].text
            /\ \A k \in DOMAIN chunks : chunks[k].text \subseteq Shown(cues, chunks[k])

\* The stored transcript has every caption once and in order.
ParagraphsKeepText ==
    \A captions \in Texts : \A stops \in SUBSET DOMAIN captions :
        LET out == Paragraphs(captions, stops) IN
        FlattenSeq([k \in DOMAIN out |-> out[k].cues]) = [i \in DOMAIN captions |-> i]

InTimeOrder(chapters) ==
    \A i, j \in DOMAIN chapters : i <= j => chapters[i] <= chapters[j]

\* The mind map that is built without the model leaves out a point of the summary if and
\* only if every chapter starts after it, whatever chapters the model has written and in
\* whatever order; a list that nobody has put in order may give a point several
\* branches, one in the order of time never does.
BranchesKeepPoints ==
    \A chapters \in MapLists, points \in SUBSET (0..MaxTime + 1), total \in {0, MaxTime} :
        LET kept == InRange(points, total)
            out == Branches(kept, chapters)
            On(p) == {i \in DOMAIN out : p \in out[i]} IN
        \A p \in kept :
            /\ On(p) = {} <=> chapters # <<>> /\ \A i \in DOMAIN chapters : chapters[i] > p
            /\ InTimeOrder(chapters) => \A i, j \in On(p) : i = j

TextKept == ChunksKeepText /\ ParagraphsKeepText /\ BranchesKeepPoints
=============================================================================
