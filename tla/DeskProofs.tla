----------------------------- MODULE DeskProofs -----------------------------
(***************************************************************************)
(* What a reader finds on the desk, for any number of documents, versions, *)
(* passages, verdicts, requests and deaths.                                *)
(***************************************************************************)
EXTENDS Desk, FiniteSetTheorems, TLAPS

-----------------------------------------------------------------------------
(* Types                                                                   *)

LibraryTyped ==
    /\ file \in [Texts -> {"none", "kept", "read"}] /\ doc \in Seq(Seq(Texts))
    /\ Len(doc) <= MaxDocs /\ \A d \in DOMAIN doc : Len(doc[d]) \in 1..MaxVersions

ReadingTyped ==
    /\ analysis \in [Keys -> {"none", "pending", "running", "completed", "failed"}]
    /\ insight \subseteq Insight /\ support \subseteq Support

QueueTyped ==
    /\ waiting \in Seq(Rows) /\ stuck \subseteq Rows
    /\ worker \in [job : Rows \cup {NoJob}, todo : SUBSET Chunk, mid : Nat,
                   judged : SUBSET Insight, held : SUBSET Support]

\* A message of a round has the time at which its transaction began.
TalkTyped ==
    /\ tips \in Nat /\ checking \in Nat /\ clock \in Nat /\ open \subseteq Nat
    /\ \A m \in talk : m.at \in Nat /\ (m.role # "system" => m.at = m.of)

BoundTyped == asks \in 0..MaxAsks /\ deaths \in 0..MaxDeaths

Typed == LibraryTyped /\ ReadingTyped /\ QueueTyped /\ TalkTyped /\ BoundTyped

LEMMA TypedIsTypeOK == Typed => TypeOK
  BY DEF Typed, LibraryTyped, ReadingTyped, QueueTyped, TalkTyped, BoundTyped, TypeOK

LEMMA InitTyped == Init => Typed
  BY DeskAssumption DEF DeskAssumption, Init, Typed, LibraryTyped, ReadingTyped, QueueTyped,
     TalkTyped, BoundTyped, Idle

\* The rows of the queue tell themselves apart.
LEMMA RowsDiffer ==
  /\ \A k \in Keys : Read(k) \in Rows /\ Read(k) # Tips /\ Read(k) # NoJob /\ Read(k)[2] = k
                     /\ Read(k)[1] = "read"
  /\ \A j, k \in Keys : Read(j) = Read(k) => j = k
  /\ Tips \in Rows /\ Tips # NoJob /\ Tips[1] = "tips"
  /\ \A r \in Rows : r[1] = "read" => r[2] \in Keys /\ r = Read(r[2])
  BY DeskAssumption DEF DeskAssumption, Read, Tips, Rows

\* What the worker reads.
LEMMA ReadsKey ==
  ASSUME QueueTyped, Runs("read")
  PROVE  Reading \in Keys /\ worker.job = Read(Reading)
  BY RowsDiffer DEF QueueTyped, Runs, Reading

\* Documents and versions are only added.
Grown == /\ \A k \in Keys : Exists(k) => Exists(k)'

LEMMA LibraryStep ==
  ASSUME LibraryTyped,
         \/ \E t \in Texts : Upload(t) \/ ImportUrl(t)
         \/ \E d \in DOMAIN doc, t \in Texts : SaveContent(d, t)
  PROVE  LibraryTyped' /\ Grown
<1>1. ASSUME NEW t \in Texts, AddDocument(t)
      PROVE  /\ doc' \in Seq(Seq(Texts)) /\ Len(doc') <= MaxDocs
             /\ \A d \in DOMAIN doc' : Len(doc'[d]) \in 1..MaxVersions
             /\ Grown
  <2>1. <<t>> \in Seq(Texts) /\ Len(<<t>>) = 1 OBVIOUS
  <2>2. doc' = Append(doc, <<t>>) /\ Len(doc) < MaxDocs BY <1>1 DEF AddDocument
  <2>3. /\ doc' \in Seq(Seq(Texts)) /\ Len(doc') = Len(doc) + 1
        /\ \A d \in DOMAIN doc : doc'[d] = doc[d] /\ d \in DOMAIN doc'
        /\ doc'[Len(doc) + 1] = <<t>> /\ DOMAIN doc' = DOMAIN doc \cup {Len(doc) + 1}
    BY <2>1, <2>2 DEF LibraryTyped
  <2>4. ASSUME NEW d \in DOMAIN doc' PROVE Len(doc'[d]) \in 1..MaxVersions
    <3>1. CASE d \in DOMAIN doc BY <2>3, <3>1 DEF LibraryTyped
    <3>2. CASE d = Len(doc) + 1
      <4>1. Len(doc'[d]) = 1 BY <2>1, <2>3, <3>2
      <4>2. 1 \in 1..MaxVersions BY DeskAssumption DEF DeskAssumption
      <4>3. QED BY <4>1, <4>2
    <3>3. QED BY <2>3, <3>1, <3>2
  <2>5. Grown BY <2>3 DEF Grown, Exists
  <2>6. Len(doc') <= MaxDocs BY <2>2, <2>3, DeskAssumption DEF LibraryTyped, DeskAssumption
  <2>7. QED BY <2>3, <2>4, <2>5, <2>6
<1>2. ASSUME NEW t \in Texts, Upload(t) PROVE LibraryTyped' /\ Grown
  <2>1. CASE AddDocument(t)
    BY <1>1, <1>2, <2>1 DEF Upload, LibraryTyped, libraryVars
  <2>2. CASE doc' = doc
    BY <1>2, <2>2 DEF Upload, LibraryTyped, libraryVars, Grown, Exists, AddDocument
  <2>3. QED BY <1>2, <2>1, <2>2 DEF Upload, libraryVars
<1>3. ASSUME NEW t \in Texts, ImportUrl(t) PROVE LibraryTyped' /\ Grown
  BY <1>1, <1>3 DEF ImportUrl, LibraryTyped
<1>4. ASSUME NEW d \in DOMAIN doc, NEW t \in Texts, SaveContent(d, t)
      PROVE  LibraryTyped' /\ Grown
  <2>1. doc' = [doc EXCEPT ![d] = Append(@, t)] /\ file' = file /\ Len(doc[d]) < MaxVersions
    BY <1>4 DEF SaveContent
  <2>2. PICK s : s = doc[d] OBVIOUS
  <2>3. s \in Seq(Texts) BY <2>2 DEF LibraryTyped
  <2>4. Append(s, t) \in Seq(Texts) /\ Len(Append(s, t)) = Len(s) + 1 BY <2>3
  <2>5. /\ doc' \in Seq(Seq(Texts)) /\ Len(doc') = Len(doc) /\ DOMAIN doc' = DOMAIN doc
        /\ \A e \in DOMAIN doc : doc'[e] = IF e = d THEN Append(s, t) ELSE doc[e]
    BY <2>1, <2>2, <2>4 DEF LibraryTyped
  <2>6. \A e \in DOMAIN doc : Len(doc[e]) \in Nat
    BY DEF LibraryTyped
  <2>7. Grown
    <3>1. \A e \in DOMAIN doc : DOMAIN doc[e] \subseteq DOMAIN doc'[e]
      BY <2>2, <2>3, <2>4, <2>5
    <3>2. QED BY <2>5, <3>1 DEF Grown, Exists
  <2>8. \A e \in DOMAIN doc' : Len(doc'[e]) \in 1..MaxVersions
    BY <2>1, <2>2, <2>4, <2>5, DeskAssumption DEF LibraryTyped, DeskAssumption
  <2>9. QED BY <2>1, <2>5, <2>7, <2>8 DEF LibraryTyped
<1>5. QED BY <1>2, <1>3, <1>4

\* The version that a reader asks about has a row of its own in the tables.
LEMMA CurrentExists ==
  ASSUME LibraryTyped, NEW d \in DOMAIN doc
  PROVE  Current(d) \in Keys /\ Exists(Current(d))
<1>1. d \in 1..MaxDocs
  <2>1. d \in 1..Len(doc) /\ Len(doc) \in Nat BY DEF LibraryTyped
  <2>2. QED BY <2>1, DeskAssumption DEF LibraryTyped, DeskAssumption
<1>2. doc[d] \in Seq(Texts) /\ Len(doc[d]) \in 1..MaxVersions BY DEF LibraryTyped
<1>3. Len(doc[d]) \in DOMAIN doc[d] BY <1>2
<1>4. QED BY <1>1, <1>2, <1>3 DEF Current, Keys, Exists

\* A version's chunks say passages.
LEMMA ChunksTyped ==
  ASSUME LibraryTyped, NEW k \in Keys, Exists(k)
  PROVE  ChunksOf(k) \subseteq Chunk /\ \A c \in ChunksOf(k) : c.of = k
<1>1. doc[k[1]] \in Seq(Texts) BY DEF LibraryTyped, Exists
<1>2. doc[k[1]][k[2]] \in Texts BY <1>1 DEF Exists
<1>3. doc[k[1]][k[2]] \subseteq Passages
  BY <1>2, DeskAssumption DEF DeskAssumption
<1>4. QED BY <1>3 DEF ChunksOf, Chunk

-----------------------------------------------------------------------------
(* What a step does to insights                                            *)

\* An insight stays, with the reader's review if it has one.
Stays(i, S) == \E j \in S : j.chunk = i.chunk /\ j.n = i.n /\ (i.reviewed => j.reviewed)

\* Chunk c has an insight of number n; one of number n has evidence.
Drawn(c, n) == \E i \in insight : i.chunk = c /\ i.n = n
Supported(c, n) == \E s \in support : s.chunk = c /\ s.n = n

\* What the worker has drawn and judged exists and is not stored as evidence yet.
Judging ==
    /\ \A s \in support \cup worker.held : Drawn(s.chunk, s.n)
    /\ \A s \in worker.held : ~Supported(s.chunk, s.n)
    /\ \A i \in worker.judged : Drawn(i.chunk, i.n) /\ ~Supported(i.chunk, i.n)
    /\ worker.judged # {} => worker.held = {}

\* What an insight shows is what S has of it.
Shows(i, S) ==
    /\ i.state = "insufficient" <=> ~\E s \in S : s.chunk = i.chunk /\ s.n = i.n
    /\ i.state = "conflicted" <=>
          \E s \in S : s.chunk = i.chunk /\ s.n = i.n /\ s.stance = "contradicts"

LEMMA BackedIsShown == StateIsBacked <=> \A i \in insight : Shows(i, support)
  BY DEF StateIsBacked, Shows

\* An assignment of the state leaves the rest of the row.
LEMMA WrittenKeeps ==
  ASSUME NEW i \in Insight, NEW S \in SUBSET Support
  PROVE  /\ Written(i, S) \in Insight
         /\ Written(i, S).chunk = i.chunk /\ Written(i, S).n = i.n
         /\ Written(i, S).reviewed = i.reviewed
         /\ S = {} => Written(i, S) = i
         /\ S # {} => Written(i, S).state = IF \E s \in S : s.stance = "contradicts"
                                            THEN "conflicted" ELSE "corroborated"
<1>1. Verdict({s.stance : s \in S}) = IF \E s \in S : s.stance = "contradicts"
                                      THEN "conflicted" ELSE "corroborated"
  BY DEF Verdict
<1>2. Verdict({s.stance : s \in S}) \in States BY <1>1 DEF States
<1>3. QED BY <1>1, <1>2 DEF Written, Insight

\* A commit writes the evidence that is held and shows it.
LEMMA CommitShows ==
  ASSUME ReadingTyped, QueueTyped, Judging, StateIsBacked,
         NEW more \in SUBSET Insight, Commit(more)
  PROVE  /\ insight' \subseteq Insight /\ support' \subseteq Support
         /\ \A i \in insight : Stays(i, insight')
         /\ \A j \in insight' \ more : Shows(j, support')
                                       /\ \E i \in insight : i.chunk = j.chunk /\ i.n = j.n
<1>1. /\ insight' = {Written(i, HeldOn(i)) : i \in insight} \cup more
      /\ support' = support \cup worker.held
  BY DEF Commit
<1>2. worker.held \in SUBSET Support BY DEF QueueTyped
<1>3. \A i \in insight : i \in Insight /\ HeldOn(i) \in SUBSET Support
  BY <1>2 DEF ReadingTyped, HeldOn
<1>4. \A i \in insight : Written(i, HeldOn(i)) \in insight' BY <1>1
<1>5. insight' \subseteq Insight /\ support' \subseteq Support
  <2>1. \A i \in insight : Written(i, HeldOn(i)) \in Insight BY <1>3, WrittenKeeps
  <2>2. QED BY <1>1, <1>2, <2>1 DEF ReadingTyped
<1>6. \A i \in insight : Stays(i, insight')
  BY <1>3, <1>4, WrittenKeeps DEF Stays
<1>7. ASSUME NEW i \in insight PROVE Shows(Written(i, HeldOn(i)), support')
  <2>1. Shows(i, support) BY BackedIsShown
  <2>2. i \in Insight /\ HeldOn(i) \in SUBSET Support BY <1>3
  <2>3. \A s \in HeldOn(i) : s \in worker.held /\ s.chunk = i.chunk /\ s.n = i.n
    BY DEF HeldOn
  <2>4. CASE HeldOn(i) = {}
    <3>1. Written(i, HeldOn(i)) = i BY <2>2, <2>4, WrittenKeeps
    <3>2. \A s \in support' : s.chunk = i.chunk /\ s.n = i.n => s \in support
      BY <1>1, <2>4 DEF HeldOn
    <3>3. support \subseteq support' BY <1>1
    <3>4. Shows(i, support') BY <2>1, <3>2, <3>3 DEF Shows
    <3>5. QED BY <3>1, <3>4
  <2>5. CASE HeldOn(i) # {}
    <3>1. PICK w : w = Written(i, HeldOn(i)) OBVIOUS
    <3>2. /\ w.chunk = i.chunk /\ w.n = i.n
          /\ w.state = IF \E s \in HeldOn(i) : s.stance = "contradicts"
                       THEN "conflicted" ELSE "corroborated"
      BY <2>2, <2>5, <3>1, WrittenKeeps
    <3>3. ~\E s \in support : s.chunk = i.chunk /\ s.n = i.n
      BY <2>3, <2>5 DEF Judging, Supported
    <3>4. \A s \in support' : s.chunk = i.chunk /\ s.n = i.n <=> s \in HeldOn(i)
      BY <1>1, <3>3 DEF HeldOn
    <3>5. HeldOn(i) \subseteq support' BY <1>1, <2>3
    <3>6. Shows(w, support') BY <2>5, <3>2, <3>4, <3>5 DEF Shows
    <3>7. QED BY <3>1, <3>6
  <2>6. QED BY <2>4, <2>5
<1>8. ASSUME NEW j \in insight' \ more
      PROVE  Shows(j, support') /\ \E i \in insight : i.chunk = j.chunk /\ i.n = j.n
  <2>1. PICK i \in insight : j = Written(i, HeldOn(i)) BY <1>1
  <2>2. QED BY <1>3, <1>7, <2>1, WrittenKeeps
<1>9. QED BY <1>5, <1>6, <1>8

-----------------------------------------------------------------------------
(* A version is analysed once                                              *)

Queued(k) == \E p \in DOMAIN waiting : waiting[p] = Read(k)
Untouched(k) == \A i \in insight : i.chunk.of # k

\* Of the chunks that the worker has before it, only the next may have insights: those
\* drawn so far of the answer about it.
Before(c) ==
    /\ worker.job = Read(c.of)
    /\ \A i \in insight : i.chunk = c => IsNext(c) /\ i.n[2] <= worker.mid
    /\ worker.mid = 0 => ~\E i \in insight : i.chunk = c
    /\ worker.mid # 0 /\ IsNext(c) => \E i \in insight : i.chunk = c

\* A version without an analysis has neither a row nor an insight; one whose row waits
\* has that row only.
ReadOnce ==
    /\ \A k \in Keys : analysis[k] = "none" => ~Queued(k) /\ worker.job # Read(k) /\ Untouched(k)
    /\ \A k \in Keys : Queued(k) => worker.job # Read(k) /\ Untouched(k) /\ Exists(k)
    /\ \A p, q \in DOMAIN waiting : waiting[p] = waiting[q] => p = q \/ waiting[p] = Tips
    /\ \A c \in worker.todo : Before(c)

IInv == Typed /\ ReadOnce /\ Judging /\ InsightsOnce /\ StateIsBacked

\* Reviews stay, whatever a step does to insights.
Kept == \A i \in insight : Stays(i, insight')

LEMMA InitInv == Init => IInv
<1> SUFFICES ASSUME Init PROVE IInv
  OBVIOUS
<1>1. Typed BY InitTyped
<1>2. ReadOnce
  <2>1. worker.job = NoJob /\ worker.todo = {} BY DEF Init, Idle
  <2>2. DOMAIN waiting = {} BY DEF Init
  <2>3. QED BY <2>1, <2>2, RowsDiffer DEF ReadOnce, Queued, Untouched, Init
<1>3. Judging BY DEF Init, Judging, Idle
<1>4. InsightsOnce /\ StateIsBacked BY DEF Init, InsightsOnce, StateIsBacked
<1>5. QED BY <1>1, <1>2, <1>3, <1>4 DEF IInv

\* Steps of the library, the conversation and the worker that concern neither an
\* analysis nor its evidence.
LEMMA Aside ==
  ASSUME IInv, Grown, UNCHANGED <<readingVars, waiting>>,
         \/ worker' = worker
         \/ worker'.job \in {worker.job, NoJob} /\ worker'.todo = {} /\ worker'.judged = {}
            /\ worker'.held = {}
  PROVE  ReadOnce' /\ Judging' /\ InsightsOnce' /\ StateIsBacked' /\ Kept
<1> USE DEF readingVars
<1>1. ReadOnce /\ Judging /\ InsightsOnce /\ StateIsBacked BY DEF IInv
<1>2. ReadOnce'
  <2>1. \A k \in Keys : /\ Queued(k)' <=> Queued(k)
                        /\ Untouched(k)' <=> Untouched(k)
                        /\ worker'.job = Read(k) => worker.job = Read(k)
    BY RowsDiffer DEF Queued, Untouched
  <2>2. \A c \in worker'.todo : Before(c)'
    <3>1. CASE worker' = worker BY <1>1, <3>1 DEF ReadOnce, Before, IsNext
    <3>2. CASE worker'.todo = {} BY <3>2
    <3>3. QED BY <3>1, <3>2
  <2>3. QED BY <1>1, <2>1, <2>2 DEF ReadOnce, Grown, Queued, Untouched
<1>3. Judging' BY <1>1 DEF Judging, Drawn, Supported
<1>4. InsightsOnce' /\ StateIsBacked' BY <1>1 DEF InsightsOnce, StateIsBacked
<1>5. Kept BY DEF Kept, Stays
<1>6. QED BY <1>2, <1>3, <1>4, <1>5

\* A request for an analysis.
LEMMA AskAnalysisStep ==
  ASSUME IInv, NEW d \in DOMAIN doc, AskAnalysis(d)
  PROVE  IInv' /\ Kept
<1> USE DEF libraryVars, readingVars, talkVars, boundVars
<1> PICK k : k = Current(d) OBVIOUS
<1>1. k \in Keys /\ Exists(k) BY CurrentExists DEF IInv, Typed
<1>2. Typed /\ ReadOnce /\ Judging /\ InsightsOnce /\ StateIsBacked BY DEF IInv
<1>3. UNCHANGED <<libraryVars, insight, support, stuck, worker, talkVars, deaths>>
  BY DEF AskAnalysis, Asked
<1>4. BoundTyped' /\ LibraryTyped' /\ TalkTyped'
  BY <1>2, <1>3, DeskAssumption
     DEF Typed, BoundTyped, LibraryTyped, TalkTyped, AskAnalysis, Asked, DeskAssumption
<1>5. Judging' /\ InsightsOnce' /\ StateIsBacked' /\ Kept
  BY <1>2, <1>3 DEF Judging, Drawn, Supported, InsightsOnce, StateIsBacked, Kept, Stays
<1>6. CASE UNCHANGED <<analysis, waiting>>
  <2>1. ReadingTyped' /\ QueueTyped' BY <1>2, <1>3, <1>6 DEF Typed, ReadingTyped, QueueTyped
  <2>2. ReadOnce'
    BY <1>2, <1>3, <1>6 DEF ReadOnce, Before, IsNext, Queued, Untouched, Exists
  <2>3. QED BY <1>4, <1>5, <2>1, <2>2 DEF IInv, Typed
<1>7. CASE /\ analysis[k] = "none" /\ analysis' = [analysis EXCEPT ![k] = "pending"]
           /\ waiting' = Append(waiting, Read(k))
  <2>1. waiting \in Seq(Rows) /\ Read(k) \in Rows
    BY <1>1, <1>2, RowsDiffer DEF Typed, QueueTyped
  <2>2. ReadingTyped' /\ QueueTyped'
    BY <1>1, <1>2, <1>3, <1>7, <2>1 DEF Typed, ReadingTyped, QueueTyped
  <2>3. /\ DOMAIN waiting' = DOMAIN waiting \cup {Len(waiting) + 1}
        /\ \A p \in DOMAIN waiting : waiting'[p] = waiting[p]
        /\ waiting'[Len(waiting) + 1] = Read(k)
    BY <1>7, <2>1
  <2>4. ~Queued(k) /\ worker.job # Read(k) /\ Untouched(k) BY <1>1, <1>2, <1>7 DEF ReadOnce
  <2>5. \A j \in Keys : Queued(j)' <=> Queued(j) \/ j = k
    BY <1>1, <2>3, RowsDiffer DEF Queued
  <2>6. \A j \in Keys : analysis'[j] = "none" => analysis[j] = "none" /\ j # k
    BY <1>1, <1>2, <1>7 DEF Typed, ReadingTyped
  <2>7. \A j \in Keys : (Untouched(j)' <=> Untouched(j)) /\ (Exists(j)' <=> Exists(j))
    BY <1>3 DEF Untouched, Exists
  <2>8. \A p, q \in DOMAIN waiting' : waiting'[p] = waiting'[q] => p = q \/ waiting'[p] = Tips
    BY <1>2, <2>3, <2>4 DEF ReadOnce, Queued
  <2>9. \A j \in Keys : analysis'[j] = "none" =>
                           ~Queued(j)' /\ worker'.job # Read(j) /\ Untouched(j)'
    BY <1>2, <1>3, <2>5, <2>6, <2>7 DEF ReadOnce
  <2>10. \A j \in Keys : Queued(j)' => worker'.job # Read(j) /\ Untouched(j)' /\ Exists(j)'
    BY <1>1, <1>2, <1>3, <2>4, <2>5, <2>7 DEF ReadOnce
  <2>11. ReadOnce'
    BY <1>2, <1>3, <2>8, <2>9, <2>10 DEF ReadOnce, Before, IsNext
  <2>12. QED BY <1>4, <1>5, <2>2, <2>11 DEF IInv, Typed
<1>8. QED BY <1>6, <1>7 DEF AskAnalysis, Reused

\* A reader reviews an insight while it may still be written.
LEMMA ReviewStep ==
  ASSUME IInv, NEW i \in insight, Review(i)
  PROVE  IInv' /\ Kept
<1> USE DEF libraryVars, queueVars, talkVars
<1>1. Typed /\ ReadOnce /\ Judging /\ InsightsOnce /\ StateIsBacked BY DEF IInv
<1>2. UNCHANGED <<libraryVars, analysis, support, queueVars, worker, talkVars, deaths>>
  BY DEF Review, Asked
<1>3. PICK r : r = [i EXCEPT !.reviewed = TRUE] OBVIOUS
<1>4. i \in Insight BY <1>1 DEF Typed, ReadingTyped
<1>5. /\ r \in Insight /\ r.chunk = i.chunk /\ r.n = i.n /\ r.state = i.state /\ r.reviewed
  BY <1>3, <1>4 DEF Insight
<1>6. insight' = (insight \ {i}) \cup {r} BY <1>3 DEF Review
<1>7. Kept BY <1>5, <1>6 DEF Kept, Stays
<1>8. Typed'
  <2>1. BoundTyped' BY <1>1, <1>2, DeskAssumption
                       DEF Typed, BoundTyped, Review, Asked, DeskAssumption
  <2>2. LibraryTyped' /\ TalkTyped' /\ QueueTyped'
    BY <1>1, <1>2 DEF Typed, LibraryTyped, TalkTyped, QueueTyped
  <2>3. ReadingTyped' BY <1>1, <1>2, <1>5, <1>6 DEF Typed, ReadingTyped
  <2>4. QED BY <2>1, <2>2, <2>3 DEF Typed
<1>9. ReadOnce'
  <2>1. \A k \in Keys : Untouched(k) => Untouched(k)' BY <1>5, <1>6 DEF Untouched
  <2>2. \A c \in worker.todo : Before(c)'
    BY <1>1, <1>2, <1>5, <1>6 DEF ReadOnce, Before, IsNext
  <2>3. QED BY <1>1, <1>2, <2>1, <2>2 DEF ReadOnce, Queued, Exists
<1>10. Judging'
  <2>1. \A c, n : Drawn(c, n) => Drawn(c, n)' BY <1>5, <1>6 DEF Drawn
  <2>2. \A c, n : Supported(c, n)' <=> Supported(c, n) BY <1>2 DEF Supported
  <2>3. QED BY <1>1, <1>2, <2>1, <2>2 DEF Judging
<1>11. InsightsOnce' /\ StateIsBacked'
  <2>1. \A j \in insight' : Shows(j, support) /\ j.n[1] = 1
    BY <1>1, <1>5, <1>6, BackedIsShown DEF Shows, InsightsOnce
  <2>2. \A j \in insight' : Shows(j, support') BY <1>2, <2>1
  <2>3. QED BY <2>1, <2>2 DEF InsightsOnce, StateIsBacked, Shows
<1>12. QED BY <1>7, <1>8, <1>9, <1>10, <1>11 DEF IInv

-----------------------------------------------------------------------------
(* The worker                                                              *)

\* A row is taken.
LEMMA StartStep == IInv /\ Start => IInv' /\ Kept
<1> SUFFICES ASSUME IInv, Start PROVE IInv' /\ Kept
  OBVIOUS
<1> USE DEF libraryVars, readingVars, talkVars, boundVars
<1>1. Typed /\ ReadOnce /\ Judging /\ InsightsOnce /\ StateIsBacked BY DEF IInv
<1>2. UNCHANGED <<libraryVars, readingVars, stuck, talkVars, boundVars>> BY DEF Start
<1>3. PICK j : j = Head(waiting) OBVIOUS
<1>4. /\ waiting \in Seq(Rows) /\ waiting # <<>> /\ j \in Rows /\ waiting' = Tail(waiting)
      /\ j = waiting[1] /\ 1 \in DOMAIN waiting
  BY <1>1, <1>3 DEF Start, Typed, QueueTyped
<1>5. /\ waiting' \in Seq(Rows)
      /\ \A p \in DOMAIN waiting' : p + 1 \in DOMAIN waiting /\ waiting'[p] = waiting[p + 1]
                                    /\ p # 0 /\ p \in Nat
  BY <1>4
<1>6. /\ worker' = [job |-> j, todo |-> IF j[1] = "read" THEN ChunksOf(j[2]) ELSE {},
                    mid |-> 0, judged |-> {}, held |-> {}]
  BY <1>3 DEF Start, Idle
<1>7. CASE j = Tips
  <2>1. worker'.job = Tips /\ worker'.todo = {} /\ worker'.judged = {} /\ worker'.held = {}
    BY <1>6, <1>7, RowsDiffer
  <2>2. QueueTyped' BY <1>1, <1>2, <1>4, <1>5, <1>6, <1>7, RowsDiffer DEF Typed, QueueTyped
  <2>3. \A k \in Keys : Queued(k)' => Queued(k) BY <1>5 DEF Queued
  <2>4. \A p, q \in DOMAIN waiting' : waiting'[p] = waiting'[q] => p = q \/ waiting'[p] = Tips
    BY <1>1, <1>5 DEF ReadOnce
  <2>5. ReadOnce'
    BY <1>1, <1>2, <2>1, <2>3, <2>4, RowsDiffer DEF ReadOnce, Untouched, Exists
  <2>6. Typed'
    BY <1>1, <1>2, <2>2
       DEF Typed, LibraryTyped, ReadingTyped, TalkTyped, BoundTyped
  <2>7. Judging' BY <1>1, <1>2, <2>1 DEF Judging, Drawn, Supported
  <2>8. QED BY <1>1, <1>2, <2>5, <2>6, <2>7
               DEF IInv, InsightsOnce, StateIsBacked, Kept, Stays
<1>8. CASE j # Tips
  <2>1. PICK k \in Keys : j = Read(k) BY <1>4, <1>8 DEF Rows
  <2>2. Queued(k) BY <1>4, <2>1 DEF Queued
  <2>3. Untouched(k) /\ Exists(k) /\ analysis[k] # "none"
    BY <1>1, <2>2 DEF ReadOnce
  <2>4. ChunksOf(k) \subseteq Chunk /\ \A c \in ChunksOf(k) : c.of = k
    BY <1>1, <2>3, ChunksTyped DEF Typed
  <2>5. /\ worker'.job = Read(k) /\ worker'.todo = ChunksOf(k)
        /\ worker'.judged = {} /\ worker'.held = {} /\ worker'.mid = 0
    BY <1>6, <2>1, RowsDiffer
  <2>6. QueueTyped'
    <3>1. worker' \in [job : Rows \cup {NoJob}, todo : SUBSET Chunk, mid : Nat,
                       judged : SUBSET Insight, held : SUBSET Support]
      BY <1>4, <1>6, <2>4, <2>5
    <3>2. QED BY <1>1, <1>2, <1>5, <3>1 DEF Typed, QueueTyped
  <2>7. \A i \in Keys : Queued(i)' => Queued(i) /\ i # k
    <3>1. SUFFICES ASSUME NEW i \in Keys, NEW p \in DOMAIN waiting', waiting'[p] = Read(i)
                   PROVE  Queued(i) /\ i # k
      BY DEF Queued
    <3>2. p + 1 \in DOMAIN waiting /\ waiting[p + 1] = Read(i) /\ p + 1 # 1 BY <1>5, <3>1
    <3>3. waiting[p + 1] # waiting[1] BY <1>1, <1>4, <2>1, <3>2, RowsDiffer DEF ReadOnce
    <3>4. QED BY <1>4, <2>1, <3>2, <3>3 DEF Queued
  <2>8. \A p, q \in DOMAIN waiting' : waiting'[p] = waiting'[q] => p = q \/ waiting'[p] = Tips
    BY <1>1, <1>5 DEF ReadOnce
  <2>9. \A c \in worker'.todo : Before(c)'
    BY <1>2, <2>3, <2>4, <2>5 DEF Untouched, Before
  <2>10. \A i \in Keys : analysis'[i] = "none" =>
                           ~Queued(i)' /\ worker'.job # Read(i) /\ Untouched(i)'
    BY <1>1, <1>2, <2>3, <2>5, <2>7, RowsDiffer DEF ReadOnce, Untouched
  <2>11. \A i \in Keys : Queued(i)' => worker'.job # Read(i) /\ Untouched(i)' /\ Exists(i)'
    BY <1>1, <1>2, <2>5, <2>7, RowsDiffer DEF ReadOnce, Untouched, Exists
  <2>12. ReadOnce' BY <2>8, <2>9, <2>10, <2>11 DEF ReadOnce
  <2>13. Typed'
    BY <1>1, <1>2, <2>6 DEF Typed, LibraryTyped, ReadingTyped, TalkTyped, BoundTyped
  <2>14. Judging' BY <1>1, <1>2, <2>5 DEF Judging, Drawn, Supported
  <2>15. QED BY <1>1, <1>2, <2>12, <2>13, <2>14
                DEF IInv, InsightsOnce, StateIsBacked, Kept, Stays
<1>9. QED BY <1>7, <1>8

\* What the worker holds is about what is drawn.
HoldsDrawn ==
    /\ worker' \in [job : Rows \cup {NoJob}, todo : SUBSET Chunk, mid : Nat,
                    judged : SUBSET Insight, held : SUBSET Support]
    /\ \A s \in worker'.held : Drawn(s.chunk, s.n) /\ ~Supported(s.chunk, s.n)
    /\ worker'.judged = {}
    /\ \A c \in worker'.todo : Before(c)'

\* A chunk is passed over, or what a model says of an insight is held.
LEMMA HoldStep ==
  ASSUME IInv, (\E c \in worker.todo : Skip(c))
               \/ \E S \in SUBSET [by : Passages, stance : Stances] : Judge(S)
  PROVE  IInv' /\ Kept
<1> USE DEF libraryVars, readingVars, queueVars, talkVars, boundVars
<1>1. Typed /\ ReadOnce /\ Judging /\ InsightsOnce /\ StateIsBacked BY DEF IInv
<1>2. UNCHANGED <<libraryVars, readingVars, queueVars, talkVars, boundVars>>
  BY DEF Skip, Judge
<1>3. worker \in [job : Rows \cup {NoJob}, todo : SUBSET Chunk, mid : Nat,
                  judged : SUBSET Insight, held : SUBSET Support]
  BY <1>1 DEF Typed, QueueTyped
<1>4. /\ worker'.job = worker.job /\ worker'.todo \subseteq worker.todo
      /\ worker'.judged \subseteq worker.judged
      /\ DOMAIN worker' = DOMAIN worker
  BY <1>3 DEF Skip, Judge
<1>5. HoldsDrawn
  <2>1. CASE \E c \in worker.todo : Skip(c)
    <3>1. worker'.held = worker.held /\ worker'.judged = {} BY <1>3, <2>1 DEF Skip
    <3>2. worker' = [worker EXCEPT !.todo = worker'.todo] BY <1>3, <2>1 DEF Skip
    <3>3. worker'.mid = 0 /\ worker.mid = 0 BY <1>3, <2>1 DEF Skip
    <3>4. \A c \in worker'.todo : Before(c)'
      BY <1>1, <1>2, <1>4, <3>3 DEF ReadOnce, Before
    <3>5. QED BY <1>1, <1>3, <1>4, <3>1, <3>2, <3>4 DEF Judging, HoldsDrawn
  <2>2. ASSUME NEW S \in SUBSET [by : Passages, stance : Stances], Judge(S)
        PROVE  HoldsDrawn
    <3>1. PICK i \in worker.judged :
             worker' = [worker EXCEPT !.judged = {}, !.held =
               {[chunk |-> i.chunk, n |-> i.n, by |-> s.by, stance |-> s.stance] :
                  s \in {v \in S : v.by \in Candidates(i.chunk)}}]
      BY <2>2 DEF Judge
    <3>2. i \in Insight BY <1>3
    <3>3. i.chunk \in Chunk /\ i.n \in Nat \X Nat BY <3>2 DEF Insight
    <3>4. \A s \in S : [chunk |-> i.chunk, n |-> i.n, by |-> s.by, stance |-> s.stance] \in Support
      BY <3>3 DEF Support
    <3>5. worker'.held \subseteq Support /\ worker'.judged = {}
          /\ \A s \in worker'.held : s.chunk = i.chunk /\ s.n = i.n
      BY <1>3, <3>1, <3>4
    <3>6. worker' = [worker EXCEPT !.judged = {}, !.held = worker'.held] BY <1>3, <3>1
    <3>7. worker' \in [job : Rows \cup {NoJob}, todo : SUBSET Chunk, mid : Nat,
                       judged : SUBSET Insight, held : SUBSET Support]
      BY <1>3, <3>5, <3>6
    <3>8. Drawn(i.chunk, i.n) /\ ~Supported(i.chunk, i.n) BY <1>1 DEF Judging
    <3>9. \A c \in worker'.todo : Before(c)'
      <4>1. worker'.todo = worker.todo /\ worker'.mid = worker.mid BY <1>3, <3>1
      <4>2. QED BY <1>1, <1>2, <1>4, <4>1 DEF ReadOnce, Before, IsNext
    <3>10. QED BY <3>5, <3>7, <3>8, <3>9 DEF HoldsDrawn
  <2>3. QED BY <2>1, <2>2
<1>6. Typed'
  BY <1>1, <1>2, <1>5
     DEF HoldsDrawn, Typed, LibraryTyped, ReadingTyped, QueueTyped, TalkTyped, BoundTyped
<1>7. ReadOnce'
  BY <1>1, <1>2, <1>4, <1>5 DEF HoldsDrawn, ReadOnce, Queued, Untouched, Exists
<1>8. Judging'
  <2>1. \A c, n : (Drawn(c, n)' <=> Drawn(c, n)) /\ (Supported(c, n)' <=> Supported(c, n))
    BY <1>2 DEF Drawn, Supported
  <2>2. \A s \in support' : Drawn(s.chunk, s.n)' BY <1>1, <1>2, <2>1 DEF Judging
  <2>3. \A s \in worker'.held : Drawn(s.chunk, s.n)' /\ ~Supported(s.chunk, s.n)'
    BY <1>5, <2>1 DEF HoldsDrawn
  <2>4. QED BY <1>5, <2>2, <2>3 DEF HoldsDrawn, Judging
<1>9. QED BY <1>1, <1>2, <1>6, <1>7, <1>8 DEF IInv, InsightsOnce, StateIsBacked, Kept, Stays

\* After a commit the worker holds nothing.
LEMMA CommitBacks ==
  ASSUME ReadingTyped, QueueTyped, Judging, StateIsBacked, InsightsOnce,
         NEW more \in SUBSET Insight, Commit(more),
         \A i \in more : i.n[1] = 1 /\ i.state = "insufficient" /\ ~Drawn(i.chunk, i.n)
  PROVE  /\ StateIsBacked' /\ InsightsOnce' /\ Kept
         /\ insight' \subseteq Insight /\ support' \subseteq Support
         /\ \A j \in insight' : j \in more \/ \E i \in insight : i.chunk = j.chunk /\ i.n = j.n
         /\ \A c, n : Drawn(c, n) => Drawn(c, n)'
         /\ \A s \in support' : Drawn(s.chunk, s.n)'
         /\ \A i \in more : Drawn(i.chunk, i.n)' /\ ~Supported(i.chunk, i.n)'
<1>1. /\ insight' \subseteq Insight /\ support' \subseteq Support
      /\ \A i \in insight : Stays(i, insight')
      /\ \A j \in insight' \ more : Shows(j, support')
                                    /\ \E i \in insight : i.chunk = j.chunk /\ i.n = j.n
  BY CommitShows
<1>2. support' = support \cup worker.held /\ more \subseteq insight' BY DEF Commit
<1>3. \A c, n : Drawn(c, n) => Drawn(c, n)' BY <1>1 DEF Drawn, Stays
<1>4. \A s \in support' : Drawn(s.chunk, s.n) BY <1>2 DEF Judging
<1>5. \A i \in more : Drawn(i.chunk, i.n)' /\ ~Supported(i.chunk, i.n)'
  <2>1. \A i \in more : Drawn(i.chunk, i.n)' BY <1>2 DEF Drawn
  <2>2. \A i \in more : ~Supported(i.chunk, i.n)' BY <1>4 DEF Supported
  <2>3. QED BY <2>1, <2>2
<1>6. StateIsBacked'
  <2>1. \A j \in more : Shows(j, support') BY <1>5 DEF Shows, Supported
  <2>2. \A j \in insight' : Shows(j, support') BY <1>1, <2>1
  <2>3. QED BY <2>2 DEF StateIsBacked, Shows
<1>7. InsightsOnce' BY <1>1 DEF InsightsOnce
<1>8. QED BY <1>1, <1>3, <1>4, <1>5, <1>6, <1>7 DEF Kept

LEMMA DraftStep ==
  ASSUME IInv, NEW c \in worker.todo, NEW more \in BOOLEAN, Draft(c, more)
  PROVE  IInv' /\ Kept
<1> USE DEF libraryVars, queueVars, talkVars, boundVars
<1>1. Typed /\ ReadOnce /\ Judging /\ InsightsOnce /\ StateIsBacked BY DEF IInv
<1>2. UNCHANGED <<libraryVars, queueVars, talkVars, boundVars>> BY DEF Draft
<1>3. worker \in [job : Rows \cup {NoJob}, todo : SUBSET Chunk, mid : Nat,
                  judged : SUBSET Insight, held : SUBSET Support]
  BY <1>1 DEF Typed, QueueTyped
<1>4. PICK k \in Keys : k = Reading /\ worker.job = Read(k)
  BY <1>1, ReadsKey DEF Draft, Typed
<1>5. c \in Chunk /\ c.of = k /\ Before(c) /\ IsNext(c)
  BY <1>1, <1>3, <1>4, RowsDiffer DEF ReadOnce, Before, Chunk, Draft
<1>6. PICK new : new = [chunk |-> c, n |-> <<AnswerOf(c), worker.mid + 1>>,
                        state |-> "insufficient", reviewed |-> FALSE]
  OBVIOUS
<1>7. /\ new \in Insight /\ new.n = <<1, worker.mid + 1>> /\ new.chunk = c
      /\ new.state = "insufficient"
  <2>1. AnswerOf(c) = 1
    <3>1. CASE worker.mid = 0
      <4>1. Answers(c) = {} BY <1>5, <3>1 DEF Answers, Before
      <4>2. Cardinality({}) = 0 BY FS_EmptySet
      <4>3. QED BY <3>1, <4>1, <4>2 DEF AnswerOf
    <3>2. CASE worker.mid # 0
      <4>1. Answers(c) = {1} BY <1>1, <1>5, <3>2 DEF Answers, Before, InsightsOnce
      <4>2. Cardinality({1}) = 1 BY FS_Singleton
      <4>3. QED BY <3>2, <4>1, <4>2 DEF AnswerOf
    <3>3. QED BY <3>1, <3>2
  <2>2. worker.mid \in Nat BY <1>3
  <2>3. QED BY <1>5, <1>6, <2>1, <2>2 DEF Insight, States
<1>8. /\ Commit({new}) /\ analysis' = [analysis EXCEPT ![k] = "running"]
      /\ worker' = [worker EXCEPT !.todo = IF more THEN @ ELSE @ \ {c},
                                  !.mid = IF more THEN @ + 1 ELSE 0,
                                  !.judged = {new}, !.held = {}]
  BY <1>4, <1>6 DEF Draft
<1>9. ~Drawn(new.chunk, new.n)
  <2>1. \A i \in insight : i.chunk = c => i.n[2] <= worker.mid BY <1>5 DEF Before
  <2>2. worker.mid \in Nat BY <1>3
  <2>3. \A i \in insight : i.chunk = c => i.n # <<1, worker.mid + 1>> BY <2>1, <2>2
  <2>4. QED BY <1>7, <2>3 DEF Drawn
<1>10. /\ StateIsBacked' /\ InsightsOnce' /\ Kept
       /\ insight' \subseteq Insight /\ support' \subseteq Support
       /\ \A j \in insight' : j = new \/ \E i \in insight : i.chunk = j.chunk /\ i.n = j.n
       /\ \A s \in support' : Drawn(s.chunk, s.n)'
       /\ Drawn(new.chunk, new.n)' /\ ~Supported(new.chunk, new.n)'
  <2>1. {new} \in SUBSET Insight /\ \A i \in {new} : i.n[1] = 1 /\ i.state = "insufficient"
                                                      /\ ~Drawn(i.chunk, i.n)
    BY <1>7, <1>9
  <2>2. PICK news : news = {new} OBVIOUS
  <2>3. \A i \in news : i.n[1] = 1 /\ i.state = "insufficient" /\ ~Drawn(i.chunk, i.n)
    BY <2>1, <2>2
  <2>4. news \in SUBSET Insight /\ Commit(news) BY <1>8, <2>1, <2>2
  <2>5. ReadingTyped /\ QueueTyped BY <1>1 DEF Typed
  <2>6. QED BY <1>1, <2>2, <2>3, <2>4, <2>5, CommitBacks
<1>11. /\ worker'.job = Read(k)
       /\ worker'.todo = IF more THEN worker.todo ELSE worker.todo \ {c}
       /\ worker'.mid = IF more THEN worker.mid + 1 ELSE 0
       /\ worker'.judged = {new} /\ worker'.held = {}
       /\ worker' \in [job : Rows \cup {NoJob}, todo : SUBSET Chunk, mid : Nat,
                       judged : SUBSET Insight, held : SUBSET Support]
  <2>1. worker.mid \in Nat /\ worker.mid + 1 \in Nat /\ worker.todo \ {c} \in SUBSET Chunk
        /\ new \in Insight
    BY <1>3, <1>7
  <2>2. CASE more
    <3>1. worker' = [worker EXCEPT !.mid = @ + 1, !.judged = {new}, !.held = {}]
      BY <1>3, <1>8, <2>2
    <3>2. QED BY <1>3, <1>4, <2>1, <2>2, <3>1
  <2>3. CASE ~more
    <3>1. worker' = [worker EXCEPT !.todo = @ \ {c}, !.mid = 0, !.judged = {new}, !.held = {}]
      BY <1>3, <1>8, <2>3
    <3>2. QED BY <1>3, <1>4, <2>1, <2>3, <3>1
  <2>4. QED BY <2>2, <2>3
<1>12. Typed'
  <2>1. ReadingTyped' BY <1>1, <1>4, <1>8, <1>10 DEF Typed, ReadingTyped
  <2>2. QueueTyped' BY <1>1, <1>2, <1>11 DEF Typed, QueueTyped
  <2>3. QED BY <1>1, <1>2, <2>1, <2>2 DEF Typed, LibraryTyped, TalkTyped, BoundTyped
<1>13. ReadOnce'
  <2>1. \A j \in Keys : j # k /\ Untouched(j) => Untouched(j)'
    BY <1>5, <1>7, <1>10 DEF Untouched
  <2>2. \A j \in Keys : analysis'[j] = "none" => analysis[j] = "none" /\ j # k
    BY <1>1, <1>4, <1>8 DEF Typed, ReadingTyped
  <2>3. \A j \in Keys : Queued(j)' => Queued(j) /\ j # k
    BY <1>1, <1>2, <1>4 DEF ReadOnce, Queued
  <2>4. ASSUME NEW d \in worker'.todo PROVE Before(d)'
    <3>1. d \in worker.todo /\ d \in Chunk /\ Before(d) BY <1>1, <1>3, <1>11 DEF ReadOnce
    <3>2. worker'.job = Read(d.of) BY <1>1, <1>4, <1>11, <3>1 DEF Before
    <3>3. IsNext(d) => d = c
      <4>1. ASSUME IsNext(d) PROVE d.says = c.says
        <5>1. d.says <= c.says /\ c.says <= d.says BY <1>5, <3>1, <4>1 DEF IsNext
        <5>2. d.says \in Nat /\ c.says \in Nat
          BY <1>5, <3>1, DeskAssumption DEF Chunk, DeskAssumption
        <5>3. QED BY <5>1, <5>2
      <4>2. d.of = c.of BY <1>4, <1>5, <3>1, RowsDiffer DEF Before, Chunk
      <4>3. QED BY <1>5, <3>1, <4>1, <4>2 DEF Chunk
    <3>4. CASE d = c
      <4>1. /\ more /\ worker'.todo = worker.todo /\ worker'.mid = worker.mid + 1
            /\ worker.mid \in Nat
        BY <1>3, <1>11, <3>4
      <4>2. IsNext(d)' BY <1>5, <3>4, <4>1 DEF IsNext
      <4>3. \A i \in insight' : i.chunk = c => i.n[2] <= worker'.mid
        <5>1. \A i \in insight : i.chunk = c => i.n[2] <= worker.mid BY <1>5 DEF Before
        <5>2. \A i \in insight : i.chunk \in Chunk /\ i.n \in Nat \X Nat
          BY <1>1 DEF Typed, ReadingTyped, Insight
        <5>3. ASSUME NEW j \in insight', j.chunk = c PROVE j.n[2] <= worker'.mid
          <6>1. CASE j.n = <<1, worker.mid + 1>> BY <4>1, <6>1
          <6>2. CASE \E i \in insight : i.chunk = j.chunk /\ i.n = j.n
            BY <4>1, <5>1, <5>2, <5>3, <6>2
          <6>3. QED BY <1>7, <1>10, <6>1, <6>2
        <5>4. QED BY <5>3
      <4>4. \E i \in insight' : i.chunk = c BY <1>7, <1>10 DEF Drawn
      <4>5. QED BY <3>2, <3>4, <4>1, <4>2, <4>3, <4>4 DEF Before
    <3>5. CASE d # c
      <4>1. ~IsNext(d) BY <3>3, <3>5
      <4>2. \A i \in insight : i.chunk # d BY <3>1, <4>1 DEF Before
      <4>3. \A i \in insight' : i.chunk # d BY <1>7, <1>10, <3>5, <4>2
      <4>4. worker'.mid # 0 => ~IsNext(d)'
        <5>1. worker'.mid # 0 => worker'.todo = worker.todo BY <1>11
        <5>2. QED BY <4>1, <5>1 DEF IsNext
      <4>5. QED BY <3>2, <4>3, <4>4 DEF Before
    <3>6. QED BY <3>4, <3>5
  <2>5. \A j \in Keys : analysis'[j] = "none" =>
                           ~Queued(j)' /\ worker'.job # Read(j) /\ Untouched(j)'
    BY <1>1, <1>4, <1>11, <2>1, <2>2, <2>3 DEF ReadOnce
  <2>6. \A j \in Keys : Queued(j)' => worker'.job # Read(j) /\ Untouched(j)' /\ Exists(j)'
    BY <1>1, <1>2, <1>4, <1>11, <2>1, <2>3 DEF ReadOnce, Exists
  <2>7. QED BY <1>1, <1>2, <2>4, <2>5, <2>6 DEF ReadOnce
<1>14. Judging' BY <1>10, <1>11 DEF Judging
<1>15. QED BY <1>10, <1>12, <1>13, <1>14 DEF IInv

\* An analysis ends, well or not.
LEMMA EndStep ==
  ASSUME IInv, Completed \/ ReadingFails
  PROVE  IInv' /\ Kept
<1> USE DEF libraryVars, queueVars, talkVars, boundVars
<1>1. Typed /\ ReadOnce /\ Judging /\ InsightsOnce /\ StateIsBacked BY DEF IInv
<1>2. UNCHANGED <<libraryVars, queueVars, talkVars, boundVars>> /\ worker' = Idle
  BY DEF Completed, ReadingFails
<1>3. PICK k \in Keys : k = Reading /\ worker.job = Read(k)
  BY <1>1, ReadsKey DEF Completed, ReadingFails, Typed
<1>4. PICK s \in {"completed", "failed"} : analysis' = [analysis EXCEPT ![k] = s]
  BY <1>3 DEF Completed, ReadingFails
<1>5. /\ StateIsBacked' /\ InsightsOnce' /\ Kept
      /\ insight' \subseteq Insight /\ support' \subseteq Support
      /\ \A j \in insight' : \E i \in insight : i.chunk = j.chunk /\ i.n = j.n
      /\ \A e \in support' : Drawn(e.chunk, e.n)'
  <2>1. PICK more : more = {} OBVIOUS
  <2>2. Commit(more) /\ more \in SUBSET Insight BY <2>1 DEF Completed, ReadingFails
  <2>3. ReadingTyped /\ QueueTyped BY <1>1 DEF Typed
  <2>4. QED BY <1>1, <2>1, <2>2, <2>3, CommitBacks
<1>6. /\ worker'.job = NoJob /\ worker'.todo = {} /\ worker'.judged = {} /\ worker'.held = {}
      /\ QueueTyped'
  BY <1>1, <1>2 DEF Idle, Typed, QueueTyped
<1>7. Typed'
  <2>1. ReadingTyped' BY <1>1, <1>3, <1>4, <1>5 DEF Typed, ReadingTyped
  <2>2. QED BY <1>1, <1>2, <1>6, <2>1 DEF Typed, LibraryTyped, TalkTyped, BoundTyped
<1>8. ReadOnce'
  <2>1. \A j \in Keys : Untouched(j) => Untouched(j)' BY <1>5 DEF Untouched
  <2>2. \A j \in Keys : analysis'[j] = "none" => analysis[j] = "none"
    BY <1>1, <1>3, <1>4 DEF Typed, ReadingTyped
  <2>3. QED BY <1>1, <1>2, <1>6, <2>1, <2>2, RowsDiffer DEF ReadOnce, Queued, Exists
<1>9. Judging' BY <1>5, <1>6 DEF Judging
<1>10. QED BY <1>5, <1>7, <1>8, <1>9 DEF IInv

-----------------------------------------------------------------------------
(* The library and the conversation                                        *)

LEMMA ShelfStep ==
  ASSUME IInv, \/ \E t \in Texts : Upload(t) \/ ImportUrl(t)
               \/ \E d \in DOMAIN doc, t \in Texts : SaveContent(d, t)
  PROVE  IInv' /\ Kept
<1>1. Typed BY DEF IInv
<1>2. UNCHANGED <<readingVars, queueVars, worker, talkVars, deaths>>
      /\ asks < MaxAsks /\ asks' = asks + 1
  BY DEF Upload, ImportUrl, SaveContent, Asked
<1>3. LibraryTyped' /\ Grown BY <1>1, LibraryStep DEF Typed
<1>4. Typed'
  BY <1>1, <1>2, <1>3, DeskAssumption
     DEF Typed, ReadingTyped, QueueTyped, TalkTyped, BoundTyped, readingVars, queueVars,
         talkVars, DeskAssumption
<1>5. UNCHANGED <<readingVars, waiting>> /\ worker' = worker BY <1>2 DEF queueVars
<1>6. QED BY <1>3, <1>4, <1>5, Aside DEF IInv

LEMMA TalkStep ==
  ASSUME IInv, Question \/ NewRound \/ AskTips \/ RunTips \/ Die \/ \E q \in open : Answer(q)
  PROVE  IInv' /\ Kept
<1> USE DEF libraryVars, readingVars, queueVars, talkVars, boundVars
<1>1. Typed BY DEF IInv
<1>2. UNCHANGED <<libraryVars, readingVars, waiting>> /\ Grown
  BY DEF Question, NewRound, AskTips, RunTips, Die, Answer, Grown, Exists
<1>3. \/ worker' = worker /\ stuck' = stuck
      \/ worker' = Idle /\ stuck' = stuck \cup ({worker.job} \ {NoJob})
      \/ worker' = Idle /\ stuck' = stuck
  BY DEF Question, NewRound, AskTips, RunTips, Die, Answer
<1>4. QueueTyped' BY <1>1, <1>2, <1>3 DEF Typed, QueueTyped, Idle
<1>5. BoundTyped'
  BY <1>1, DeskAssumption
     DEF Typed, BoundTyped, Question, NewRound, AskTips, RunTips, Die, Answer, Asked,
         DeskAssumption
<1>6. TalkTyped'
  <2>1. TalkTyped BY <1>1 DEF Typed
  <2>2. CASE Question BY <2>1, <2>2 DEF Question, TalkTyped
  <2>3. CASE NewRound BY <2>1, <2>3 DEF NewRound, TalkTyped, Message
  <2>4. CASE AskTips BY <2>1, <2>4 DEF AskTips, TalkTyped
  <2>5. CASE RunTips BY <2>1, <2>5 DEF RunTips, TalkTyped
  <2>6. CASE Die BY <2>1, <2>6 DEF Die, TalkTyped
  <2>7. ASSUME NEW q \in open, Answer(q) PROVE TalkTyped'
    BY <2>1, <2>7 DEF Answer, TalkTyped, Message, AnswerTime
  <2>8. QED BY <2>2, <2>3, <2>4, <2>5, <2>6, <2>7
<1>7. Typed' BY <1>1, <1>2, <1>4, <1>5, <1>6 DEF Typed, LibraryTyped, ReadingTyped
<1>8. \/ worker' = worker
      \/ worker'.job \in {worker.job, NoJob} /\ worker'.todo = {} /\ worker'.judged = {}
         /\ worker'.held = {}
  BY <1>3 DEF Idle
<1>9. QED BY <1>2, <1>7, <1>8, Aside DEF IInv

\* A row that nobody's analysis is.
LEMMA InsertTipsStep == IInv /\ InsertTips => IInv' /\ Kept
<1> SUFFICES ASSUME IInv, InsertTips PROVE IInv' /\ Kept
  OBVIOUS
<1> USE DEF libraryVars, readingVars, talkVars, boundVars
<1>1. Typed /\ ReadOnce /\ Judging /\ InsightsOnce /\ StateIsBacked BY DEF IInv
<1>2. /\ UNCHANGED <<libraryVars, readingVars, stuck, worker, talk, open, tips, clock, boundVars>>
      /\ waiting' = Append(waiting, Tips) /\ checking > 0 /\ checking' = checking - 1
  BY DEF InsertTips
<1>3. waiting \in Seq(Rows) BY <1>1 DEF Typed, QueueTyped
<1>4. /\ waiting' \in Seq(Rows) /\ DOMAIN waiting' = DOMAIN waiting \cup {Len(waiting) + 1}
      /\ \A p \in DOMAIN waiting : waiting'[p] = waiting[p]
      /\ waiting'[Len(waiting) + 1] = Tips
  BY <1>2, <1>3, RowsDiffer
<1>5. Typed'
  BY <1>1, <1>2, <1>4
     DEF Typed, LibraryTyped, ReadingTyped, QueueTyped, TalkTyped, BoundTyped
<1>6. ReadOnce'
  <2>1. \A k \in Keys : Queued(k)' <=> Queued(k) BY <1>4, RowsDiffer DEF Queued
  <2>2. \A p, q \in DOMAIN waiting' : waiting'[p] = waiting'[q] => p = q \/ waiting'[p] = Tips
    BY <1>1, <1>4 DEF ReadOnce
  <2>3. \A c \in worker'.todo : Before(c)' BY <1>1, <1>2 DEF ReadOnce, Before, IsNext
  <2>4. QED BY <1>1, <1>2, <2>1, <2>2, <2>3 DEF ReadOnce, Untouched, Exists
<1>7. QED BY <1>1, <1>2, <1>5, <1>6
             DEF IInv, Judging, Drawn, Supported, InsightsOnce, StateIsBacked, Kept, Stays

-----------------------------------------------------------------------------

LEMMA StepInv == IInv /\ [Next]_vars => IInv' /\ Kept
<1> SUFFICES ASSUME IInv, [Next]_vars PROVE IInv' /\ Kept
  OBVIOUS
<1>1. CASE UNCHANGED vars
  <2>1. Typed'
    BY <1>1 DEF vars, libraryVars, readingVars, queueVars, talkVars, boundVars, IInv, Typed,
       LibraryTyped, ReadingTyped, QueueTyped, TalkTyped, BoundTyped
  <2>2. UNCHANGED <<readingVars, waiting>> /\ worker' = worker /\ Grown
    BY <1>1 DEF vars, queueVars, libraryVars, Grown, Exists
  <2>3. QED BY <2>1, <2>2, Aside DEF IInv
<1>2. CASE WorkerStep
  BY <1>2, StartStep, HoldStep, DraftStep, EndStep, TalkStep DEF WorkerStep
<1>3. CASE Next /\ ~WorkerStep
  BY <1>3, ShelfStep, AskAnalysisStep, ReviewStep, TalkStep, InsertTipsStep DEF Next
<1>4. QED BY <1>1, <1>2, <1>3

LEMMA Invariant == Spec => []IInv
<1>1. IInv /\ [Next]_vars => IInv' BY StepInv
<1>2. QED BY <1>1, InitInv, PTL DEF Spec

-----------------------------------------------------------------------------

\* Files, versions, analyses, insights, evidence and rows keep their types.
THEOREM DeskTyped == Spec => []TypeOK
<1>1. IInv => TypeOK BY TypedIsTypeOK DEF IInv
<1>2. QED BY <1>1, Invariant, PTL

\* create_or_reuse_analysis makes one row for a version, so no chunk is ever read twice,
\* whatever an analysis that failed or died has left.
THEOREM NothingTwice == Spec => []InsightsOnce
<1>1. IInv => InsightsOnce BY DEF IInv
<1>2. QED BY <1>1, Invariant, PTL

\* The search commits in the middle of an analysis, and so does its failure; what an
\* insight shows is what is stored of it after each.
THEOREM EvidenceIsShown == Spec => []StateIsBacked
<1>1. IInv => StateIsBacked BY DEF IInv
<1>2. QED BY <1>1, Invariant, PTL

\* The analysis's session writes the column it assigned, not the review beside it.
THEOREM ReviewsSurvive == Spec => ReviewStays
<1>1. IInv /\ [Next]_vars =>
         \A i \in insight : i.reviewed =>
            \E j \in insight' : j.chunk = i.chunk /\ j.n = i.n /\ j.reviewed
  BY StepInv DEF Kept, Stays
<1>2. QED BY <1>1, Invariant, PTL DEF Spec, ReviewStays

\* A question is stored with the time its transaction began, and so is its answer,
\* however long the model takes and whatever rounds begin meanwhile.
THEOREM RoundsDoNotMix == Spec => []RoundsSeparate
<1>1. IInv => RoundsSeparate
  BY DEF IInv, Typed, TalkTyped, RoundsSeparate
<1>2. QED BY <1>1, Invariant, PTL
=============================================================================
