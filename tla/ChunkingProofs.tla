---------------------------- MODULE ChunkingProofs ----------------------------
(***************************************************************************)
(* Theorems about Chunking, for any text and any limit.                    *)
(***************************************************************************)
EXTENDS Chunking, WellFoundedInduction, TLAPS

LEMMA InkIs ==
  ASSUME TypeOK, NEW a \in Nat, NEW b \in Nat, NEW p
  PROVE  /\ p \in Ink(a, b) =>
              p \in Nat /\ a <= p /\ p <= b /\ 1 <= p /\ p <= Len(text) /\ text[p] \notin Space
         /\ p \in Nat /\ a <= p /\ p <= b /\ 1 <= p /\ p <= Len(text) /\ text[p] \notin Space
              => p \in Ink(a, b)
  BY DEF Ink, TypeOK

LEMMA AppendPartType ==
  ASSUME TypeOK, NEW f \in Nat, NEW l \in Nat, AppendPart(f, l)
  PROVE  units' \in Seq(Unit) /\ glue' \in 0..2
  <1>1. [first |-> f, last |-> l, separator |-> glue] \in Unit
    BY DEF TypeOK, Unit
  <1> QED
    BY <1>1 DEF TypeOK, AppendPart

LEMMA AppendSentenceType ==
  ASSUME TypeOK, NEW a \in Nat, NEW b \in Nat, AppendSentence(a, b)
  PROVE  /\ pc' \in {pc, "split"}
         /\ remaining' \in Interval
         /\ glue' \in 0..2
  <1>1. CASE UNCHANGED <<pc, split>>
    BY <1>1 DEF TypeOK, split
  <1>2. ASSUME NEW f \in Ink(a, b), NEW l \in Ink(a, b),
               remaining' = [first |-> f, last |-> l], glue' = separator, pc' = "split"
        PROVE  pc' \in {pc, "split"} /\ remaining' \in Interval /\ glue' \in 0..2
    <2>1. f \in Nat /\ l \in Nat
      BY DEF Ink
    <2> QED
      BY <1>2, <2>1 DEF TypeOK, Interval
  <1> QED
    BY <1>1, <1>2 DEF AppendSentence

LEMMA ContinueType ==
  ASSUME TypeOK, NEW c \in Nat, Continue(c)
  PROVE  remaining' \in Interval
  BY DEF TypeOK, Continue, Ink, Interval

LEMMA StartChunkType ==
  ASSUME TypeOK, NEW n \in 1..Len(units), StartChunk(n),
         \A i \in 1..Len(units) : units[i].first <= units[i].last
  PROVE  current' \in Chunk
  <1>1. units[n] \in Unit /\ units[n].first <= units[n].last
    BY DEF TypeOK
  <1>2. Size(units[n]) \in Nat
    BY <1>1 DEF Unit, Size
  <1> QED
    BY <1>2 DEF StartChunk, Chunk

(* What a boundary matches is whitespace.                                   *)
LEMMA MatchIsBlank ==
  ASSUME TypeOK, NEW a \in Position, NEW b \in Position, Match(a, b)
  PROVE  a <= b /\ \A p \in a..b : text[p] \in Space
  <1> USE DEF Position, Space
  <1>1. CASE SentenceEnd(a, b)
    BY <1>1 DEF SentenceEnd, Run
  <1>2. CASE ParagraphBreak(a, b)
    <2>1. PICK p \in (a + 1)..b :
            (\A q \in (a + 1)..(p - 1) : text[q] = "space") /\ Run(p, b, {"newline"})
      BY <1>2 DEF ParagraphBreak
    <2>2. text[a] = "newline"
      BY <1>2 DEF ParagraphBreak
    <2>3. \A q \in p..b : text[q] = "newline"
      BY <2>1 DEF Run
    <2>4. \A q \in a..b : q = a \/ q \in (a + 1)..(p - 1) \/ q \in p..b
      BY <2>1
    <2> QED
      BY <2>1, <2>2, <2>3, <2>4
  <1> QED
    BY <1>1, <1>2 DEF Match
-----------------------------------------------------------------------------
(* Units are pieces of the text within the limit, in order.                 *)
UnitOK(i) ==
  /\ 1 <= units[i].first
  /\ units[i].first <= units[i].last
  /\ units[i].last <= Len(text)
  /\ Size(units[i]) <= MaxChunkSize

(* Everything before the frontier is in a unit.                             *)
Frontier == IF pc = "split" THEN remaining.first ELSE start

UnitsOK ==
  /\ \A i \in 1..Len(units) : UnitOK(i) /\ units[i].last < Frontier
  /\ Ordered
  /\ WordsWhole
  /\ \A p \in Ink(1, Len(text)) :
       p < Frontier => \E i \in 1..Len(units) : units[i].first <= p /\ p <= units[i].last

(* Between sentences there is whitespace.                                   *)
ScanOK ==
  /\ start <= Len(text) + 1
  /\ pc = "scan" /\ Ink(start, Len(text)) # {} =>
       \A i \in 1..Len(units) : units[i].last + 1 < start
  /\ pc \in {"group", "join", "done"} => Ink(start, Len(text)) = {}

(* What is left of the sentence is stripped and has the rest of the text    *)
(* before start.                                                            *)
SplitOK ==
  pc = "split" =>
    /\ remaining.first \in Ink(1, Len(text))
    /\ remaining.last \in Ink(remaining.first, Len(text))
    /\ \A p \in Ink(remaining.first, start - 1) : p <= remaining.last
    /\ remaining.last < start
    /\ remaining.last + 1 < start \/ start = Len(text) + 1
    /\ \A i \in 1..Len(units) :
         remaining.first = units[i].last + 1 => Size(units[i]) = MaxChunkSize

CurrentOK ==
  pc = "join" =>
    /\ current.from \in 1..current.to
    /\ current.to \in 1..Len(units)
    /\ current.size \in 1..MaxChunkSize

(* The chunks so far, and the one under way, tile the units.                *)
ChunksOK ==
  /\ ChunksFit
  /\ \A k \in 1..(Len(chunks) - 1) : chunks[k + 1].from = chunks[k].to + 1
  /\ pc \in {"scan", "split", "group"} => chunks = <<>>
  /\ pc = "join" /\ chunks = <<>> => current.from = 1
  /\ pc = "join" /\ chunks # <<>> =>
       chunks[1].from = 1 /\ current.from = chunks[Len(chunks)].to + 1
  /\ pc = "done" => Tiled

Safe == UnitsOK /\ ScanOK /\ SplitOK /\ CurrentOK /\ ChunksOK

LEMMA TypeStep == TypeOK /\ Safe /\ [Next]_vars => TypeOK'
  <1> SUFFICES ASSUME TypeOK, Safe, [Next]_vars PROVE TypeOK'
    OBVIOUS
  <1> USE DEF scan, split, group
  <1>1. CASE Sentence
    <2>1. PICK a \in Position, b \in Position :
            /\ AppendSentence(start, a - 1)
            /\ separator' = SeparatorOf(a, b)
            /\ start' = b + 1
      BY <1>1 DEF Sentence
    <2>2. a - 1 \in Nat /\ start \in Nat
      BY DEF Position, TypeOK
    <2>3. pc' \in {pc, "split"} /\ remaining' \in Interval /\ glue' \in 0..2
      BY <2>1, <2>2, AppendSentenceType
    <2>4. separator' \in 0..2 /\ start' \in Nat \ {0}
      BY <2>1 DEF SeparatorOf, Position
    <2> QED
      BY <1>1, <2>3, <2>4 DEF Sentence, TypeOK
  <1>2. CASE LastSentence
    <2>1. Len(text) \in Nat /\ start \in Nat
      BY DEF TypeOK
    <2>2. pc' \in {pc, "split"} /\ remaining' \in Interval /\ glue' \in 0..2
      BY <1>2, <2>1, AppendSentenceType DEF LastSentence
    <2> QED
      BY <1>2, <2>1, <2>2 DEF LastSentence, TypeOK
  <1>3. CASE EndOfText
    BY <1>3 DEF EndOfText, TypeOK
  <1>4. CASE SplitAtSpace
    <2>1. PICK cut \in WithinLimit :
            /\ \E l \in Ink(remaining.first, cut - 1) : AppendPart(remaining.first, l)
            /\ Continue(cut)
      BY <1>4 DEF SplitAtSpace
    <2>2. cut \in Nat /\ remaining.first \in Nat
      BY SizeAssumption DEF WithinLimit, Blank, TypeOK, Interval
    <2>3. PICK l \in Ink(remaining.first, cut - 1) : AppendPart(remaining.first, l)
      BY <2>1
    <2>4. l \in Nat
      BY <2>2 DEF Ink
    <2>5. units' \in Seq(Unit) /\ glue' \in 0..2
      BY <2>2, <2>3, <2>4, AppendPartType
    <2>6. remaining' \in Interval
      BY <2>1, <2>2, ContinueType
    <2> QED
      BY <1>4, <2>5, <2>6 DEF SplitAtSpace, TypeOK
  <1>5. CASE SplitWord
    <2>1. remaining.first \in Nat /\ remaining.first + MaxChunkSize \in Nat
          /\ remaining.first + MaxChunkSize - 1 \in Nat
      BY SizeAssumption DEF TypeOK, Interval
    <2>2. units' \in Seq(Unit) /\ glue' \in 0..2
      BY <1>5, <2>1, AppendPartType DEF SplitWord
    <2>3. remaining' \in Interval
      BY <1>5, <2>1, ContinueType DEF SplitWord
    <2> QED
      BY <1>5, <2>2, <2>3 DEF SplitWord, TypeOK
  <1>6. CASE LastPart
    <2>1. remaining.first \in Nat /\ remaining.last \in Nat
      BY DEF TypeOK, Interval
    <2>2. units' \in Seq(Unit) /\ glue' \in 0..2
      BY <1>6, <2>1, AppendPartType DEF LastPart
    <2> QED
      BY <1>6, <2>2 DEF LastPart, TypeOK
  <1>7. \A i \in 1..Len(units) : units[i].first <= units[i].last
    BY DEF Safe, UnitsOK, UnitOK
  <1>8. CASE FirstUnit
    <2>1. 1 \in 1..Len(units)
      BY <1>8 DEF FirstUnit, TypeOK
    <2>2. current' \in Chunk
      BY <1>7, <1>8, <2>1, StartChunkType DEF FirstUnit
    <2> QED
      BY <1>8, <2>2 DEF FirstUnit, TypeOK
  <1>9. CASE NoUnits
    BY <1>9 DEF NoUnits, TypeOK
  <1>10. CASE Join
    <2> DEFINE n == current.to + 1
    <2>1. n \in 1..Len(units)
      BY <1>10 DEF Join, TypeOK, Chunk
    <2>2. CASE ~ Fits(n) /\ StartChunk(n) /\ chunks' = Append(chunks, current)
      <3>1. current' \in Chunk
        BY <1>7, <2>1, <2>2, StartChunkType
      <3>2. chunks' \in Seq(Chunk)
        BY <2>2 DEF TypeOK
      <3> QED
        BY <1>10, <3>1, <3>2 DEF Join, TypeOK
    <2>3. CASE /\ current' = [current EXCEPT !.to = n,
                               !.size = @ + units[n].separator + Size(units[n])]
               /\ UNCHANGED chunks
      <3>1. units[n] \in Unit /\ units[n].first <= units[n].last
        BY <1>7, <2>1 DEF TypeOK
      <3>2. units[n].separator \in Nat /\ Size(units[n]) \in Nat
        BY <3>1 DEF Unit, Size
      <3>3. current \in Chunk /\ n \in Nat
        BY <2>1 DEF TypeOK
      <3>4. current.size \in Nat
        BY <3>3 DEF Chunk
      <3>5. current.size + units[n].separator + Size(units[n]) \in Nat
        BY <3>2, <3>4
      <3>6. current' \in Chunk
        BY <2>3, <3>3, <3>5 DEF Chunk
      <3> QED
        BY <1>10, <2>3, <3>6 DEF Join, TypeOK
    <2> QED
      BY <1>10, <2>2, <2>3 DEF Join
  <1>11. CASE LastChunk
    BY <1>11 DEF LastChunk, TypeOK
  <1>12. CASE UNCHANGED vars
    BY <1>12 DEF vars, TypeOK
  <1> QED
    BY <1>1, <1>2, <1>3, <1>4, <1>5, <1>6, <1>8, <1>9, <1>10, <1>11, <1>12 DEF Next
-----------------------------------------------------------------------------
(* A sentence is taken out of start..b, where the text goes on at next.     *)
LEMMA AppendSentenceSafe ==
  ASSUME TypeOK, Safe, TypeOK', pc = "scan", NEW b \in Nat,
         start <= b + 1, b <= Len(text),
         AppendSentence(start, b),
         start' \in Nat, start' > b, start' <= Len(text) + 1,
         b + 1 < start' \/ start' = Len(text) + 1,
         \A p \in Ink(1, Len(text)) : p > b => p >= start',
         \A p \in Ink(1, Len(text)) : p >= start' => b + 1 < start',
         Ink(start, b) = {} => b + 1 < start',
         UNCHANGED <<text, units, group>>
  PROVE  Safe'
  <1> USE DEF group
  <1>0. /\ start \in Nat /\ Len(text) \in Nat /\ start' \in Nat
        /\ \A i \in 1..Len(units) : units[i].first \in Nat /\ units[i].last \in Nat
    <2>1. \A i \in 1..Len(units) : units[i] \in Unit
      BY DEF TypeOK
    <2> QED
      BY <2>1 DEF TypeOK, Unit
  <1> DEFINE InText(p) == p \in Nat /\ 1 <= p /\ p <= Len(text) /\ text[p] \notin Space
  <1>a. ASSUME NEW c \in Nat, NEW d \in Nat, NEW p
        PROVE  p \in Ink(c, d) <=> InText(p) /\ c <= p /\ p <= d
    BY InkIs
  <1>b. ASSUME NEW p, InText(p) PROVE p <= b \/ p >= start'
    BY <1>0, <1>a, <1>b
  <1>c. ASSUME NEW p, InText(p), p >= start' PROVE b + 1 < start'
    BY <1>0, <1>a, <1>c
  <1> HIDE DEF InText
  <1>n. ASSUME NEW p, InText(p) PROVE p \in Nat
    BY <1>n DEF InText
  <1>d. text' = text /\ \A c, d \in Nat : Ink(c, d)' = Ink(c, d)
    BY DEF Ink
  <1>e. ASSUME NEW F, F = Frontier', UNCHANGED units,
               \A i \in 1..Len(units) : units[i].last < F,
               \A p : InText(p) /\ p < F => p < start
        PROVE  UnitsOK'
    <2>1. Frontier = start
      BY DEF Frontier
    <2>2. \A p \in Ink(1, Len(text)) : p < F =>
            \E i \in 1..Len(units) : units[i].first <= p /\ p <= units[i].last
      <3>1. \A p \in Ink(1, Len(text)) : InText(p)
        BY <1>0, <1>a
      <3> QED
        BY <1>e, <2>1, <3>1 DEF Safe, UnitsOK
    <2>3. Ordered' /\ WordsWhole'
      BY <1>e DEF Safe, UnitsOK, Ordered, WordsWhole, Size
    <2>4. \A i \in 1..Len(units) : UnitOK(i)'
      BY <1>e DEF Safe, UnitsOK, UnitOK, Size
    <2>5. Ink(1, Len(text))' = Ink(1, Len(text))
      BY <1>0, <1>d
    <2> QED
      BY <1>e, <2>2, <2>3, <2>4, <2>5 DEF UnitsOK
  <1>1. CASE Ink(start, b) = {} /\ UNCHANGED <<pc, split>>
    <2>1. Frontier' = start' /\ b + 1 < start' /\ pc' = "scan"
      BY <1>1 DEF Frontier
    <2>2. ASSUME NEW p, InText(p), p < start' PROVE p < start
      BY <1>0, <1>1, <1>a, <1>b, <1>n, <2>2
    <2>3. \A i \in 1..Len(units) : units[i].last < start'
      <3>1. \A i \in 1..Len(units) : units[i].last < start
        BY DEF Safe, UnitsOK, Frontier
      <3> QED
        BY <1>0, <2>1, <3>1
    <2>4. UnitsOK'
      BY <1>e, <2>1, <2>2, <2>3
    <2>5. Ink(start', Len(text)) # {} => \A i \in 1..Len(units) : units[i].last + 1 < start'
      <3>1. ASSUME NEW p \in Ink(start', Len(text)) PROVE p \in Ink(start, Len(text))
        <4>1. InText(p) /\ start' <= p /\ p <= Len(text)
          BY <1>0, <1>a
        <4> QED
          BY <1>0, <1>a, <1>n, <2>1, <4>1
      <3>2. Ink(start, Len(text)) # {} => \A i \in 1..Len(units) : units[i].last + 1 < start
        BY DEF Safe, ScanOK
      <3> QED
        BY <1>0, <2>1, <3>1, <3>2
    <2>6. ScanOK'
      <3>1. units' = units /\ start' <= Len(text)' + 1
        BY <1>d
      <3>2. Ink(start, Len(text))' = Ink(start', Len(text))
        BY <1>d DEF Ink
      <3> QED
        BY <2>1, <2>5, <3>1, <3>2 DEF ScanOK
    <2>7. SplitOK' /\ CurrentOK'
      BY <2>1 DEF SplitOK, CurrentOK
    <2>8. ChunksOK'
      BY <1>1 DEF Safe, ChunksOK, ChunksFit, Tiled
    <2> QED
      BY <2>4, <2>6, <2>7, <2>8 DEF Safe
  <1>2. ASSUME NEW f \in Ink(start, b), NEW l \in Ink(start, b),
               IsStripped([first |-> f, last |-> l], start, b),
               remaining' = [first |-> f, last |-> l], pc' = "split"
        PROVE  Safe'
    <2>1. /\ InText(f) /\ start <= f /\ f <= b /\ f \in Nat
          /\ InText(l) /\ start <= l /\ l <= b /\ l \in Nat
      BY <1>0, <1>a, <1>n
    <2>2. \A p \in Ink(start, b) : f <= p /\ p <= l
      BY <1>2 DEF IsStripped, IsLeast, IsGreatest
    <2>3. \A i \in 1..Len(units) : units[i].last + 1 < start
      <3>1. f \in Ink(start, Len(text))
        BY <1>0, <1>a, <2>1
      <3> QED
        BY <3>1 DEF Safe, ScanOK
    <2>4. remaining'.first = f /\ remaining'.last = l /\ Frontier' = f
      BY <1>2 DEF Frontier
    <2>5. ASSUME NEW p, InText(p), p < f PROVE p < start
      <3>1. p \in Nat /\ p <= b
        BY <1>0, <1>n, <2>1, <2>5
      <3>2. CASE p >= start
        <4>1. p \in Ink(start, b)
          BY <1>0, <1>a, <2>5, <3>1, <3>2
        <4> QED
          BY <2>1, <2>2, <2>5, <3>1, <4>1
      <3> QED
        BY <1>0, <3>1, <3>2
    <2>6. UnitsOK'
      <3>1. \A i \in 1..Len(units) : units[i].last < f
        BY <1>0, <2>1, <2>3
      <3> QED
        BY <1>e, <2>4, <2>5, <3>1
    <2>7. ScanOK'
      BY <1>2 DEF ScanOK
    <2>8. SplitOK'
      <3>1. f \in Ink(1, Len(text)) /\ l \in Ink(f, Len(text)) /\ f <= l
        BY <1>0, <1>a, <2>1, <2>2 DEF InText
      <3>2. \A p \in Ink(f, start' - 1) : p <= l
        <4> SUFFICES ASSUME NEW p \in Ink(f, start' - 1) PROVE p <= l
          OBVIOUS
        <4>1. start' - 1 \in Nat
          <5>1. \A x, y \in Nat : x > y => x - 1 \in Nat
            OBVIOUS
          <5> QED
            BY <5>1
        <4>2. InText(p) /\ f <= p /\ p < start' /\ p \in Nat
          BY <1>0, <1>a, <1>n, <2>1, <4>1
        <4>3. p <= b
          BY <1>0, <1>b, <4>2
        <4>4. p \in Ink(start, b)
          BY <1>0, <1>a, <2>1, <4>2, <4>3
        <4> QED
          BY <2>2, <4>4
      <3>3. l < start' /\ (l + 1 < start' \/ start' = Len(text) + 1)
        BY <1>0, <2>1
      <3>4. \A i \in 1..Len(units) : f # units[i].last + 1
        BY <1>0, <2>1, <2>3
      <3>5. /\ Ink(1, Len(text))' = Ink(1, Len(text))
            /\ Ink(remaining.first, Len(text))' = Ink(f, Len(text))
            /\ Ink(remaining.first, start - 1)' = Ink(f, start' - 1)
        BY <2>4 DEF Ink
      <3> QED
        BY <2>4, <3>1, <3>2, <3>3, <3>4, <3>5 DEF SplitOK
    <2>9. CurrentOK' /\ ChunksOK'
      BY <1>2 DEF Safe, CurrentOK, ChunksOK, ChunksFit, Tiled
    <2> QED
      BY <2>6, <2>7, <2>8, <2>9 DEF Safe
  <1> QED
    BY <1>1, <1>2 DEF AppendSentence

LEMMA SentenceSafe ==
  ASSUME TypeOK, Safe, TypeOK', Sentence
  PROVE  Safe'
  <1>1. PICK a \in Position, b \in Position :
          /\ IsBoundary(a, b)
          /\ AppendSentence(start, a - 1)
          /\ start' = b + 1
    BY DEF Sentence
  <1>2. a <= b /\ \A p \in a..b : text[p] \in Space
    BY <1>1, MatchIsBlank DEF IsBoundary
  <1>3. start <= a /\ a \in 1..Len(text) /\ b \in 1..Len(text) /\ a - 1 \in Nat
    BY <1>1 DEF IsBoundary, Position, TypeOK
  <1>4. \A p \in Ink(1, Len(text)) : p > a - 1 => p >= b + 1
    BY <1>2, <1>3 DEF Ink
  <1>5. start <= (a - 1) + 1 /\ a - 1 <= Len(text) /\ b + 1 > a - 1
        /\ b + 1 <= Len(text) + 1 /\ (a - 1) + 1 < b + 1
    BY <1>2, <1>3 DEF TypeOK
  <1>6. pc = "scan" /\ UNCHANGED <<text, units, group>>
    BY DEF Sentence
  <1> QED
    BY <1>1, <1>3, <1>4, <1>5, <1>6, AppendSentenceSafe DEF TypeOK

LEMMA LastSentenceSafe ==
  ASSUME TypeOK, Safe, TypeOK', LastSentence
  PROVE  Safe'
  <1> DEFINE n == Len(text)
  <1>1. /\ n \in Nat /\ start <= n + 1 /\ start' = n + 1
        /\ AppendSentence(start, n) /\ pc = "scan" /\ UNCHANGED <<text, units, group>>
        /\ Ink(start, n) # {}
    BY DEF LastSentence, Safe, ScanOK, TypeOK
  <1>2. \A p \in Ink(1, Len(text)) : p <= n
    BY DEF Ink
  <1>3. \A p \in Ink(1, Len(text)) : (p > n => p >= start') /\ (p >= start' => n + 1 < start')
    BY <1>1, <1>2 DEF Ink, TypeOK
  <1> QED
    BY <1>1, <1>3, AppendSentenceSafe DEF TypeOK

LEMMA EndOfTextSafe ==
  ASSUME TypeOK, Safe, TypeOK', EndOfText
  PROVE  Safe'
  <1> USE DEF EndOfText, scan, split, group
  <1>1. Frontier = start /\ Frontier' = start
    BY DEF Frontier
  <1>2. UnitsOK'
    BY <1>1 DEF Safe, UnitsOK, UnitOK, Ordered, WordsWhole, Ink
  <1>3. ScanOK'
    BY DEF Safe, ScanOK, Ink
  <1>4. SplitOK' /\ CurrentOK' /\ ChunksOK'
    BY DEF Safe, SplitOK, CurrentOK, ChunksOK, ChunksFit, Tiled
  <1> QED
    BY <1>2, <1>3, <1>4 DEF Safe
-----------------------------------------------------------------------------
(* The part of remaining up to l becomes a unit; what is skipped after it is *)
(* whitespace.                                                              *)
LEMMA AppendPartSafe ==
  ASSUME TypeOK, Safe, TypeOK', pc = "split", NEW l \in Nat,
         AppendPart(remaining.first, l),
         remaining.first <= l, l <= Len(text),
         l + 1 - remaining.first <= MaxChunkSize,
         text' = text, NEW F \in Nat, F = Frontier', l < F,
         \A p \in Ink(1, Len(text)) : p > l => p >= F
  PROVE  UnitsOK'
  <1> DEFINE f == remaining.first
             n == Len(units) + 1
             u == [first |-> f, last |-> l, separator |-> glue]
  <1>1. f \in Nat /\ 1 <= f /\ Len(text) \in Nat /\ Len(units) \in Nat
    BY DEF TypeOK, Interval, Safe, SplitOK, Ink
  <1>2. \A i \in 1..Len(units) : units[i].first \in Nat /\ units[i].last \in Nat
    <2>1. \A i \in 1..Len(units) : units[i] \in Unit
      BY DEF TypeOK
    <2> QED
      BY <2>1 DEF Unit
  <1>3. /\ Len(units') = n
        /\ units'[n] = u
        /\ \A i \in 1..Len(units) : units'[i] = units[i]
    BY DEF AppendPart, TypeOK
  <1>4. u.first = f /\ u.last = l /\ Size(u) = l + 1 - f
    BY DEF Size
  <1>5. \A i \in 1..Len(units) : units[i].last < f
    BY DEF Safe, UnitsOK, Frontier
  <1>6. \A i \in 1..n : i = n \/ i \in 1..Len(units)
    BY <1>1
  <1>7. ASSUME NEW i \in 1..n PROVE UnitOK(i)' /\ units'[i].last < F
    <2>1. CASE i = n
      BY <1>1, <1>3, <1>4, <2>1 DEF UnitOK, Size
    <2>2. CASE i \in 1..Len(units)
      <3>1. UnitOK(i) /\ units'[i] = units[i] /\ units[i].last < f
        BY <1>3, <1>5, <2>2 DEF Safe, UnitsOK
      <3>2. units[i].last \in Nat
        BY <1>2, <2>2
      <3> QED
        BY <1>1, <3>1, <3>2 DEF UnitOK, Size
    <2> QED
      BY <1>6, <2>1, <2>2
  <1>8. ASSUME NEW i \in 1..n, NEW j \in 1..n, i < j
        PROVE  units'[i].last < units'[j].first
    <2>1. i \in 1..Len(units)
      BY <1>1, <1>8
    <2>2. CASE j = n
      BY <1>3, <1>4, <1>5, <2>1, <2>2
    <2>3. CASE j \in 1..Len(units)
      BY <1>3, <1>8, <2>1, <2>3 DEF Safe, UnitsOK, Ordered
    <2> QED
      BY <1>6, <2>2, <2>3
  <1>9. ASSUME NEW i \in 1..(n - 1), units'[i + 1].first = units'[i].last + 1
        PROVE  Size(units'[i]) = MaxChunkSize
    <2>1. i \in 1..Len(units) /\ units'[i] = units[i] /\ i + 1 \in 1..n
      BY <1>1, <1>3
    <2>2. CASE i + 1 = n
      <3>1. f = units[i].last + 1
        BY <1>3, <1>4, <1>9, <2>1, <2>2
      <3> QED
        BY <2>1, <3>1 DEF Safe, SplitOK
    <2>3. CASE i + 1 \in 1..Len(units)
      <3>1. i \in 1..(Len(units) - 1) /\ units'[i + 1] = units[i + 1]
        BY <1>1, <1>3, <2>1, <2>3
      <3> QED
        BY <1>9, <2>1, <3>1 DEF Safe, UnitsOK, WordsWhole
    <2> QED
      BY <1>6, <2>1, <2>2, <2>3
  <1>10. ASSUME NEW p \in Ink(1, Len(text)), p < F
         PROVE  \E i \in 1..n : units'[i].first <= p /\ p <= units'[i].last
    <2>1. p \in Nat
      BY DEF Ink
    <2>2. p <= l
      BY <1>10, <2>1
    <2>3. CASE p >= f
      BY <1>1, <1>3, <1>4, <2>2, <2>3
    <2>4. CASE p < f
      <3>1. PICK i \in 1..Len(units) : units[i].first <= p /\ p <= units[i].last
        BY <2>4 DEF Safe, UnitsOK, Frontier
      <3> QED
        BY <1>1, <1>3, <3>1
    <2> QED
      BY <1>1, <2>1, <2>3, <2>4
  <1>11. Ordered'
    BY <1>3, <1>8 DEF Ordered
  <1>12. WordsWhole'
    BY <1>3, <1>9 DEF WordsWhole, Size
  <1>13. Ink(1, Len(text))' = Ink(1, Len(text))
    BY DEF Ink
  <1> QED
    BY <1>3, <1>7, <1>10, <1>11, <1>12, <1>13 DEF UnitsOK

(* The sentence goes on at the first character from cut on that is not      *)
(* whitespace.                                                              *)
LEMMA ContinueSafe ==
  ASSUME TypeOK, Safe, TypeOK', pc = "split", NEW l \in Nat, NEW cut \in Nat,
         AppendPart(remaining.first, l), Continue(cut),
         remaining.first <= l, l < cut,
         l + 1 - remaining.first <= MaxChunkSize,
         \A p \in Ink(1, Len(text)) : p > l => p >= cut,
         cut = l + 1 => cut \notin Ink(1, Len(text)) \/ l + 1 - remaining.first = MaxChunkSize,
         UNCHANGED <<text, pc, scan, group>>
  PROVE  Safe'
  <1> USE DEF scan, group
  <1> DEFINE n == Len(units) + 1
             r == remaining.first
             e == remaining.last
  <1>1. PICK f \in Ink(cut, e) :
          /\ IsLeast(f, Ink(cut, e))
          /\ remaining' = [remaining EXCEPT !.first = f]
    BY DEF Continue
  <1>2. /\ r \in Nat /\ e \in Nat /\ 1 <= r /\ Len(text) \in Nat /\ Len(units) \in Nat
        /\ start \in Nat /\ e < start /\ e <= Len(text)
    BY DEF TypeOK, Interval, Safe, SplitOK, Ink
  <1>3. f \in Nat /\ cut <= f /\ f <= e /\ f \in Ink(1, Len(text))
    BY <1>2 DEF Ink
  <1>4. remaining'.first = f /\ remaining'.last = e /\ Frontier' = f
    BY <1>1 DEF TypeOK, Interval, Frontier
  <1>5. ASSUME NEW p \in Ink(1, Len(text)), p > l PROVE p >= f
    <2>1. p \in Nat /\ p >= cut
      BY <1>5 DEF Ink
    <2>2. CASE p <= e
      <3>1. p \in Ink(cut, e)
        BY <1>2, <2>1, <2>2 DEF Ink
      <3> QED
        BY <1>1, <3>1 DEF IsLeast
    <2> QED
      BY <1>2, <1>3, <2>1, <2>2
  <1>6. UnitsOK'
    <2>1. l < f /\ l <= Len(text) /\ text' = text /\ f = Frontier'
      BY <1>2, <1>3, <1>4
    <2> QED
      BY <1>3, <1>5, <2>1, AppendPartSafe
  <1>7. ScanOK'
    BY DEF Safe, ScanOK, Ink
  <1>8. /\ Len(units') = n
        /\ units'[n].last = l
        /\ Size(units'[n]) = l + 1 - r
        /\ \A i \in 1..Len(units) : units'[i] = units[i]
    BY DEF AppendPart, TypeOK, Size
  <1>9. ASSUME NEW i \in 1..n, f = units'[i].last + 1 PROVE Size(units'[i]) = MaxChunkSize
    <2>1. CASE i = n
      <3>1. f = l + 1
        BY <1>8, <1>9, <2>1
      <3>2. cut = f
        BY <1>3, <3>1
      <3> QED
        BY <1>3, <1>8, <2>1, <3>1, <3>2
    <2>2. CASE i \in 1..Len(units)
      <3>1. units[i] \in Unit /\ units[i].last < r
        BY <2>2 DEF TypeOK, Safe, UnitsOK, Frontier
      <3>2. units[i].last \in Nat
        BY <3>1 DEF Unit
      <3> QED
        BY <1>2, <1>3, <1>8, <1>9, <2>2, <3>1, <3>2
    <2> QED
      BY <1>2, <2>1, <2>2
  <1>10. SplitOK'
    <2>1. e \in Ink(f, Len(text))
      BY <1>2, <1>3 DEF Safe, SplitOK, Ink
    <2>2. \A p \in Ink(f, start - 1) : p <= e
      <3>1. \A p \in Ink(f, start - 1) : p \in Ink(r, start - 1)
        BY <1>2, <1>3 DEF Ink
      <3> QED
        BY <3>1 DEF Safe, SplitOK
    <2>3. e + 1 < start \/ start = Len(text) + 1
      BY DEF Safe, SplitOK
    <2>4. /\ Ink(1, Len(text))' = Ink(1, Len(text))
          /\ Ink(remaining.first, Len(text))' = Ink(f, Len(text))
          /\ Ink(remaining.first, start - 1)' = Ink(f, start - 1)
      BY <1>4 DEF Ink
    <2>5. \A i \in 1..Len(units') :
            remaining'.first = units'[i].last + 1 => Size(units'[i]) = MaxChunkSize
      BY <1>4, <1>8, <1>9
    <2> QED
      BY <1>2, <1>3, <1>4, <2>1, <2>2, <2>3, <2>4, <2>5 DEF SplitOK, Size
  <1>11. CurrentOK' /\ ChunksOK'
    BY DEF Safe, CurrentOK, ChunksOK, ChunksFit, Tiled
  <1> QED
    BY <1>6, <1>7, <1>10, <1>11 DEF Safe

LEMMA SplitAtSpaceSafe ==
  ASSUME TypeOK, Safe, TypeOK', SplitAtSpace
  PROVE  Safe'
  <1> DEFINE r == remaining.first
  <1>1. PICK cut \in WithinLimit :
          /\ \E l \in Ink(r, cut - 1) :
               IsGreatest(l, Ink(r, cut - 1)) /\ AppendPart(r, l)
          /\ Continue(cut)
    BY DEF SplitAtSpace
  <1>2. PICK l \in Ink(r, cut - 1) : IsGreatest(l, Ink(r, cut - 1)) /\ AppendPart(r, l)
    BY <1>1
  <1>3. /\ r \in Nat /\ 1 <= r /\ cut \in Nat /\ cut <= r + MaxChunkSize
        /\ text[cut] \in Space /\ cut - 1 \in Nat
    BY SizeAssumption DEF WithinLimit, Blank, TypeOK, Interval, Safe, SplitOK, SplitAtSpace, Ink
  <1>4. l \in Nat /\ r <= l /\ l < cut
    BY <1>3 DEF Ink
  <1>5. l + 1 - r <= MaxChunkSize
    BY <1>3, <1>4, SizeAssumption
  <1>6. ASSUME NEW p \in Ink(1, Len(text)), p > l PROVE p >= cut
    <2>1. p \in Nat
      BY DEF Ink
    <2>2. CASE p < cut
      <3>1. p \in Ink(r, cut - 1)
        BY <1>3, <1>4, <1>6, <2>1, <2>2 DEF Ink
      <3> QED
        BY <1>2, <1>4, <1>6, <2>1, <3>1 DEF IsGreatest
    <2> QED
      BY <1>3, <2>1, <2>2
  <1>7. cut \notin Ink(1, Len(text))
    BY <1>3 DEF Ink
  <1>8. pc = "split" /\ UNCHANGED <<text, pc, scan, group>>
    BY DEF SplitAtSpace
  <1> QED
    BY <1>1, <1>2, <1>3, <1>4, <1>5, <1>6, <1>7, <1>8, ContinueSafe

LEMMA SplitWordSafe ==
  ASSUME TypeOK, Safe, TypeOK', SplitWord
  PROVE  Safe'
  <1> DEFINE r == remaining.first
             l == remaining.first + MaxChunkSize - 1
             cut == remaining.first + MaxChunkSize
  <1>1. /\ r \in Nat /\ 1 <= r /\ l \in Nat /\ cut \in Nat
        /\ r <= l /\ l < cut /\ cut = l + 1 /\ l + 1 - r = MaxChunkSize
    <2>1. r \in Nat /\ 1 <= r
      BY DEF TypeOK, Interval, Safe, SplitOK, SplitWord, Ink
    <2> QED
      BY <2>1, SizeAssumption
  <1>2. ASSUME NEW p \in Ink(1, Len(text)), p > l PROVE p >= cut
    BY <1>1, <1>2 DEF Ink
  <1>3. /\ AppendPart(r, l) /\ Continue(cut) /\ pc = "split"
        /\ UNCHANGED <<text, pc, scan, group>>
    BY DEF SplitWord
  <1>4. l + 1 - r <= MaxChunkSize
    BY <1>1, SizeAssumption
  <1> HIDE DEF l, cut
  <1> QED
    BY <1>1, <1>2, <1>3, <1>4, ContinueSafe

LEMMA LastPartSafe ==
  ASSUME TypeOK, Safe, TypeOK', LastPart
  PROVE  Safe'
  <1> USE DEF scan, group
  <1> DEFINE r == remaining.first
             e == remaining.last
             n == Len(units) + 1
  <1>1. /\ pc = "split" /\ pc' = "scan" /\ UNCHANGED <<text, scan, remaining, group>>
        /\ AppendPart(r, e)
    BY DEF LastPart
  <1>2. /\ r \in Nat /\ e \in Nat /\ 1 <= r /\ r <= e /\ e <= Len(text)
        /\ start \in Nat /\ e < start /\ Len(text) \in Nat /\ Len(units) \in Nat
    BY <1>1 DEF TypeOK, Interval, Safe, SplitOK, Ink
  <1>3. e + 1 - r <= MaxChunkSize
    BY <1>2, SizeAssumption DEF LastPart, Oversized, Size
  <1>4. Frontier' = start
    BY <1>1 DEF Frontier
  <1>5. ASSUME NEW p \in Ink(1, Len(text)), p > e PROVE p >= start
    <2>1. p \in Nat
      BY DEF Ink
    <2>2. CASE p < start
      <3>1. p \in Ink(r, start - 1)
        BY <1>2, <1>5, <2>1, <2>2 DEF Ink
      <3> QED
        BY <1>1, <1>2, <1>5, <2>1, <3>1 DEF Safe, SplitOK
    <2> QED
      BY <1>2, <2>1, <2>2
  <1>6. UnitsOK'
    BY <1>1, <1>2, <1>3, <1>4, <1>5, AppendPartSafe
  <1>7. /\ Len(units') = n
        /\ units'[n].last = e
        /\ \A i \in 1..Len(units) : units'[i] = units[i]
    BY <1>1 DEF AppendPart, TypeOK
  <1>8. ASSUME NEW i \in 1..n, e + 1 < start PROVE units'[i].last + 1 < start
    <2>1. CASE i = n
      BY <1>7, <1>8, <2>1
    <2>2. CASE i \in 1..Len(units)
      <3>1. units[i] \in Unit /\ units[i].last < r
        BY <1>1, <2>2 DEF TypeOK, Safe, UnitsOK, Frontier
      <3>2. units[i].last \in Nat
        BY <3>1 DEF Unit
      <3> QED
        BY <1>2, <1>7, <1>8, <2>2, <3>1, <3>2
    <2> QED
      BY <1>2, <2>1, <2>2
  <1>9. Ink(start, Len(text)) # {} => e + 1 < start
    BY <1>1, <1>2 DEF Safe, SplitOK, Ink
  <1>10. ScanOK'
    <2>1. start' = start /\ start' <= Len(text') + 1 /\ Ink(start, Len(text))' = Ink(start, Len(text))
      BY <1>1 DEF Safe, ScanOK, Ink
    <2> QED
      BY <1>1, <1>7, <1>8, <1>9, <2>1 DEF ScanOK
  <1>11. SplitOK' /\ CurrentOK' /\ ChunksOK'
    BY <1>1 DEF Safe, SplitOK, CurrentOK, ChunksOK, ChunksFit, Tiled
  <1> QED
    BY <1>6, <1>10, <1>11 DEF Safe
-----------------------------------------------------------------------------
(* Grouping leaves the units alone.                                         *)
LEMMA GroupingKeeps ==
  ASSUME TypeOK, Safe, pc \in {"group", "join"}, pc' \in {"join", "done"},
         UNCHANGED <<text, scan, split, units>>
  PROVE  UnitsOK' /\ ScanOK' /\ SplitOK'
  <1> USE DEF scan, split
  <1>1. Frontier = start /\ Frontier' = start
    BY DEF Frontier
  <1>2. UnitsOK'
    BY <1>1 DEF Safe, UnitsOK, UnitOK, Ordered, WordsWhole, Ink, Size
  <1> QED
    BY <1>2 DEF Safe, ScanOK, SplitOK, Ink

LEMMA UnitSize ==
  ASSUME TypeOK, Safe, NEW n \in 1..Len(units)
  PROVE  Size(units[n]) \in 1..MaxChunkSize /\ units[n].separator \in Nat
  <1>1. units[n] \in Unit /\ UnitOK(n)
    BY DEF TypeOK, Safe, UnitsOK
  <1> QED
    BY <1>1, SizeAssumption DEF Unit, UnitOK, Size

LEMMA FirstUnitSafe ==
  ASSUME TypeOK, Safe, TypeOK', FirstUnit
  PROVE  Safe'
  <1>1. UnitsOK' /\ ScanOK' /\ SplitOK'
    BY GroupingKeeps DEF FirstUnit
  <1>2. 1 \in 1..Len(units)
    BY DEF FirstUnit, TypeOK
  <1>3. Size(units[1]) \in 1..MaxChunkSize
    BY <1>2, UnitSize
  <1>4. CurrentOK'
    BY <1>2, <1>3 DEF FirstUnit, StartChunk, CurrentOK
  <1>5. ChunksOK'
    BY DEF FirstUnit, StartChunk, Safe, ChunksOK, ChunksFit
  <1> QED
    BY <1>1, <1>4, <1>5 DEF Safe

LEMMA NoUnitsSafe ==
  ASSUME TypeOK, Safe, TypeOK', NoUnits
  PROVE  Safe'
  <1>1. UnitsOK' /\ ScanOK' /\ SplitOK'
    BY GroupingKeeps DEF NoUnits
  <1>2. CurrentOK' /\ ChunksOK'
    BY DEF NoUnits, group, Safe, CurrentOK, ChunksOK, ChunksFit, Tiled
  <1> QED
    BY <1>1, <1>2 DEF Safe

(* Closing the chunk under way keeps the tiling.                            *)
LEMMA CloseChunk ==
  ASSUME TypeOK, Safe, pc = "join", chunks' = Append(chunks, current)
  PROVE  /\ ChunksFit'
         /\ \A k \in 1..(Len(chunks') - 1) : chunks'[k + 1].from = chunks'[k].to + 1
         /\ chunks' # <<>>
         /\ chunks'[1].from = 1
         /\ chunks'[Len(chunks')] = current
  <1> DEFINE n == Len(chunks) + 1
  <1>1. /\ Len(chunks) \in Nat
        /\ Len(chunks') = n
        /\ chunks'[n] = current
        /\ \A k \in 1..Len(chunks) : chunks'[k] = chunks[k]
    BY DEF TypeOK
  <1>2. current.size \in 1..MaxChunkSize
    BY DEF Safe, CurrentOK
  <1>3. ChunksFit'
    <2>1. \A k \in 1..n : k = n \/ k \in 1..Len(chunks)
      BY <1>1
    <2> QED
      BY <1>1, <1>2, <2>1 DEF Safe, ChunksOK, ChunksFit
  <1>4. ASSUME NEW k \in 1..(n - 1) PROVE chunks'[k + 1].from = chunks'[k].to + 1
    <2>1. k \in 1..Len(chunks) /\ chunks # <<>>
      BY <1>1, <1>4
    <2>2. CASE k = Len(chunks)
      BY <1>1, <2>1, <2>2 DEF Safe, ChunksOK
    <2>3. CASE k \in 1..(Len(chunks) - 1)
      <3>1. k + 1 \in 1..Len(chunks)
        BY <1>1, <2>3
      <3> QED
        BY <1>1, <2>1, <2>3, <3>1 DEF Safe, ChunksOK
    <2> QED
      BY <1>1, <2>1, <2>2, <2>3
  <1>5. chunks'[1].from = 1
    <2>1. CASE chunks = <<>>
      BY <1>1, <2>1 DEF Safe, ChunksOK
    <2>2. CASE chunks # <<>>
      <3>1. 1 \in 1..Len(chunks)
        BY <2>2 DEF TypeOK
      <3> QED
        BY <1>1, <2>2, <3>1 DEF Safe, ChunksOK
    <2> QED
      BY <2>1, <2>2
  <1> QED
    BY <1>1, <1>3, <1>4, <1>5

LEMMA JoinSafe ==
  ASSUME TypeOK, Safe, TypeOK', Join
  PROVE  Safe'
  <1> DEFINE n == current.to + 1
  <1>1. pc = "join" /\ pc' = "join" /\ UNCHANGED <<text, pc, scan, split, units>>
    BY DEF Join
  <1>2. UnitsOK' /\ ScanOK' /\ SplitOK'
    BY <1>1, GroupingKeeps
  <1>3. /\ current.from \in 1..current.to /\ current.to \in 1..Len(units)
        /\ current.size \in 1..MaxChunkSize /\ n \in 1..Len(units)
        /\ current \in Chunk
    BY <1>1 DEF Join, Safe, CurrentOK, TypeOK, Chunk
  <1>4. Size(units[n]) \in 1..MaxChunkSize /\ units[n].separator \in Nat
    BY <1>3, UnitSize
  <1>5. CASE /\ Fits(n)
             /\ current' = [current EXCEPT !.to = n,
                              !.size = @ + units[n].separator + Size(units[n])]
             /\ UNCHANGED chunks
    <2>1. /\ current'.from = current.from /\ current'.to = n
          /\ current'.size = current.size + units[n].separator + Size(units[n])
      BY <1>3, <1>5 DEF Chunk
    <2>2. current.size + units[n].separator + Size(units[n]) <= MaxChunkSize
      BY <1>5 DEF Fits
    <2>3. current.size + units[n].separator + Size(units[n]) \in 1..MaxChunkSize
      BY <1>3, <1>4, <2>2, SizeAssumption
    <2>4. current'.from \in 1..current'.to /\ current'.to \in 1..Len(units)
      BY <1>3, <2>1
    <2>5. CurrentOK'
      BY <1>1, <2>1, <2>3, <2>4 DEF CurrentOK
    <2>6. ChunksOK'
      BY <1>1, <1>5, <2>1 DEF Safe, ChunksOK, ChunksFit
    <2> QED
      BY <1>2, <2>5, <2>6 DEF Safe
  <1>6. CASE StartChunk(n) /\ chunks' = Append(chunks, current)
    <2>1. current'.from = n /\ current'.to = n /\ current'.size = Size(units[n])
      BY <1>6 DEF StartChunk
    <2>2. CurrentOK'
      BY <1>1, <1>3, <1>4, <2>1 DEF CurrentOK
    <2>3. ChunksOK'
      BY <1>1, <1>6, <2>1, CloseChunk DEF ChunksOK
    <2> QED
      BY <1>2, <2>2, <2>3 DEF Safe
  <1> QED
    BY <1>5, <1>6 DEF Join

LEMMA LastChunkSafe ==
  ASSUME TypeOK, Safe, TypeOK', LastChunk
  PROVE  Safe'
  <1>1. UnitsOK' /\ ScanOK' /\ SplitOK'
    BY GroupingKeeps DEF LastChunk
  <1>2. pc = "join" /\ pc' = "done" /\ chunks' = Append(chunks, current)
        /\ units' = units /\ current.to = Len(units)
    BY DEF LastChunk
  <1>3. CurrentOK'
    BY <1>2 DEF CurrentOK
  <1>4. Tiled'
    BY <1>2, CloseChunk DEF Tiled
  <1>5. ChunksOK'
    BY <1>2, <1>4, CloseChunk DEF ChunksOK
  <1> QED
    BY <1>1, <1>3, <1>5 DEF Safe

LEMMA StutterSafe == TypeOK /\ Safe /\ UNCHANGED vars => Safe'
  BY DEF vars, scan, split, group, Safe, UnitsOK, UnitOK, Ordered, WordsWhole, Frontier,
         ScanOK, SplitOK, CurrentOK, ChunksOK, ChunksFit, Tiled, Ink, Size

LEMMA SafeStep == TypeOK /\ Safe /\ [Next]_vars => TypeOK' /\ Safe'
  <1> SUFFICES ASSUME TypeOK, Safe, [Next]_vars PROVE TypeOK' /\ Safe'
    OBVIOUS
  <1>1. TypeOK'
    BY TypeStep
  <1> QED
    BY <1>1, SentenceSafe, LastSentenceSafe, EndOfTextSafe, SplitAtSpaceSafe, SplitWordSafe,
       LastPartSafe, FirstUnitSafe, NoUnitsSafe, JoinSafe, LastChunkSafe, StutterSafe DEF Next

LEMMA SafeInit == Init => TypeOK /\ Safe
  <1> SUFFICES ASSUME Init PROVE TypeOK /\ Safe
    OBVIOUS
  <1>1. text \in Seq(Char)
    BY TextAssumption DEF Init
  <1>2. <<>> \in Seq(Unit) /\ <<>> \in Seq(Chunk)
    OBVIOUS
  <1>3. TypeOK
    BY <1>1, <1>2 DEF Init, TypeOK, Interval, Chunk
  <1>4. UnitsOK
    BY <1>1 DEF Init, UnitsOK, Ordered, WordsWhole, Frontier, Ink
  <1>5. ScanOK /\ SplitOK /\ CurrentOK
    BY <1>1 DEF Init, ScanOK, SplitOK, CurrentOK
  <1>6. ChunksOK
    BY DEF Init, ChunksOK, ChunksFit
  <1> QED
    BY <1>3, <1>4, <1>5, <1>6 DEF Safe

LEMMA AlwaysSafe == Spec => [](TypeOK /\ Safe)
  BY SafeInit, SafeStep, PTL DEF Spec

(* The state of chunk keeps its types, the subtractions stay in the         *)
(* naturals.                                                                *)
THEOREM TypeCorrect == Spec => []TypeOK
  BY AlwaysSafe, PTL

(* _split_oversized and the size check of chunk: no chunk is empty or over  *)
(* max_chunk_size, for any text and any limit from 1 on.                    *)
THEOREM ChunksStayWithinLimit == Spec => []ChunksFit
  <1>1. TypeOK /\ Safe => ChunksFit
    BY DEF Safe, ChunksOK
  <1> QED
    BY <1>1, AlwaysSafe, PTL

LEMMA AllKept ==
  ASSUME TypeOK, Safe, pc = "done"
  PROVE  Ordered /\ Covered /\ Tiled /\ WordsWhole
  <1>1. Ink(start, Len(text)) = {}
    BY DEF Safe, ScanOK
  <1>2. \A p \in Ink(1, Len(text)) : p < start
    BY <1>1 DEF Ink, TypeOK
  <1>3. Covered
    BY <1>2 DEF Safe, UnitsOK, Frontier, Covered
  <1> QED
    BY <1>3 DEF Safe, UnitsOK, ChunksOK

(* _units, _split_oversized and chunk together: when chunk returns, the     *)
(* chunks hold every character but whitespace once and in order, and only   *)
(* words over the limit are cut.                                            *)
THEOREM NoTextIsLost == Spec => []TextIsKept
  <1>1. TypeOK /\ Safe => TextIsKept
    BY AllKept DEF TextIsKept
  <1> QED
    BY <1>1, AlwaysSafe, PTL
-----------------------------------------------------------------------------
(* The loops end: every turn has what it needs, and leaves less to do.      *)

LEMMA LeastExists ==
  ASSUME NEW S \in SUBSET Nat, S # {}
  PROVE  HasLeast(S)
  <1>1. IsWellFoundedOn(OpToRel(<, Nat), Nat)
    BY NatLessThanWellFounded
  <1>2. PICK m \in S : \A p \in S : ~ (<<p, m>> \in OpToRel(<, Nat))
    BY <1>1, WFMin
  <1>3. ASSUME NEW p \in S PROVE m <= p
    <2>1. ~ (p < m)
      BY <1>2 DEF OpToRel
    <2> QED
      BY <2>1
  <1> QED
    BY <1>3 DEF HasLeast, IsLeast

LEMMA GreatestExists ==
  ASSUME NEW n \in Nat, NEW S, S \subseteq 0..n, S # {}
  PROVE  HasGreatest(S)
  <1> DEFINE D == {n - p : p \in S}
  <1>1. ASSUME NEW p \in S PROVE n - p \in Nat
    BY <1>1
  <1>2. D \in SUBSET Nat
    BY <1>1
  <1>3. D # {}
    OBVIOUS
  <1>4. PICK d \in D : \A q \in D : d <= q
    <2> HIDE DEF D
    <2> QED
      BY <1>2, <1>3, LeastExists DEF HasLeast, IsLeast
  <1>5. PICK m \in S : d = n - m
    OBVIOUS
  <1>6. ASSUME NEW p \in S PROVE p <= m
    <2>1. n - m <= n - p
      BY <1>4, <1>5
    <2> QED
      BY <2>1
  <1> QED
    BY <1>6 DEF HasGreatest, IsGreatest

LEMMA InkEnds ==
  ASSUME TypeOK, NEW a \in Nat, NEW b \in Nat, Ink(a, b) # {}
  PROVE  HasLeast(Ink(a, b)) /\ HasGreatest(Ink(a, b))
  <1>1. Ink(a, b) \in SUBSET Nat /\ Ink(a, b) \subseteq 0..b
    BY DEF Ink
  <1> QED
    BY <1>1, LeastExists, GreatestExists

LEMMA TurnExists ==
  ASSUME TypeOK, Safe
  PROVE  NextTurnExists
  <1>1. start \in Nat /\ Len(text) \in Nat
    BY DEF TypeOK
  <1>2. ASSUME NEW b \in Nat
        PROVE  Strippable(start, b)
    BY <1>1, InkEnds DEF Strippable
  <1>3. \A a, b \in Position : IsBoundary(a, b) => Strippable(start, a - 1)
    <2>1. ASSUME NEW a \in Position PROVE a - 1 \in Nat
      BY DEF Position
    <2> QED
      BY <1>2, <2>1
  <1>4. ASSUME pc = "split", Oversized
        PROVE  IF WithinLimit = {}
               THEN HasLeast(Ink(remaining.first + MaxChunkSize, remaining.last))
               ELSE \E cut \in WithinLimit :
                      /\ IsGreatest(cut, WithinLimit)
                      /\ HasGreatest(Ink(remaining.first, cut - 1))
                      /\ HasLeast(Ink(cut, remaining.last))
    <2> DEFINE r == remaining.first
               e == remaining.last
    <2>1. /\ r \in Nat /\ e \in Nat /\ 1 <= r /\ e <= Len(text)
          /\ text[r] \notin Space /\ text[e] \notin Space
      BY <1>4 DEF Safe, SplitOK, TypeOK, Interval, Ink
    <2>2. r + MaxChunkSize <= e
      BY <1>4, <2>1, SizeAssumption DEF Oversized, Size
    <2> HIDE DEF r, e
    <2>3. HasLeast(Ink(r + MaxChunkSize, e))
      <3>1. e \in Ink(r + MaxChunkSize, e)
        BY <1>1, <2>1, <2>2, SizeAssumption DEF Ink
      <3>2. r + MaxChunkSize \in Nat
        BY <2>1, SizeAssumption
      <3> QED
        BY <2>1, <3>1, <3>2, InkEnds
    <2>4. ASSUME WithinLimit # {}
          PROVE  \E cut \in WithinLimit :
                   /\ IsGreatest(cut, WithinLimit)
                   /\ HasGreatest(Ink(r, cut - 1))
                   /\ HasLeast(Ink(cut, e))
      <3>1. \A p \in WithinLimit :
              p \in Nat /\ r + 1 <= p /\ p <= r + MaxChunkSize /\ text[p] \in Space
        BY <2>1, SizeAssumption DEF WithinLimit, Blank, r
      <3>2. WithinLimit \subseteq 0..(r + MaxChunkSize) /\ r + MaxChunkSize \in Nat
        BY <2>1, <3>1, SizeAssumption
      <3>3. PICK cut \in WithinLimit : IsGreatest(cut, WithinLimit)
        BY <2>4, <3>2, GreatestExists DEF HasGreatest, IsGreatest
      <3>4. cut \in Nat /\ cut - 1 \in Nat /\ r <= cut - 1 /\ cut <= e
        BY <2>1, <2>2, <3>1, SizeAssumption
      <3>5. r \in Ink(r, cut - 1) /\ e \in Ink(cut, e)
        BY <1>1, <2>1, <2>2, <3>4, SizeAssumption DEF Ink
      <3>6. HasGreatest(Ink(r, cut - 1)) /\ HasLeast(Ink(cut, e))
        BY <2>1, <3>4, <3>5, InkEnds
      <3> QED
        BY <3>3, <3>6
    <2> QED
      BY <2>3, <2>4 DEF r, e
  <1>5. pc = "join" => current.to <= Len(units)
    BY DEF Safe, CurrentOK, TypeOK
  <1> QED
    BY <1>1, <1>2, <1>3, <1>4, <1>5 DEF NextTurnExists

(* What is left to do at each place.                                        *)
LEMMA WorkIs ==
  ASSUME TypeOK, Safe
  PROVE  /\ Len(text) \in Nat /\ Len(units) \in Nat /\ start \in Nat /\ Ahead \in Nat
         /\ pc = "scan" => Work = 6 * Ahead + Len(units) + 3
         /\ pc = "split" =>
              /\ Size(remaining) \in Nat \ {0}
              /\ Work = 6 * Ahead + 2 * (Size(remaining) + 1) + Len(units) + 3
         /\ pc = "group" => Work = Len(units) + 2
         /\ pc = "join" =>
              current.to \in 1..Len(units) /\ Work = Len(units) + 1 - current.to
         /\ pc = "done" => Work = 0
         /\ Work \in Nat
  <1>1. Len(text) \in Nat /\ Len(units) \in Nat /\ start \in Nat /\ Ahead \in Nat
    BY DEF TypeOK, Safe, ScanOK, Ahead
  <1>2. pc = "split" => Size(remaining) \in Nat \ {0}
    <2>1. ASSUME pc = "split" PROVE Size(remaining) \in Nat \ {0}
      <3>1. /\ remaining.first \in Nat /\ remaining.last \in Nat
            /\ remaining.first <= remaining.last
        BY <2>1 DEF TypeOK, Interval, Safe, SplitOK, Ink
      <3> QED
        BY <3>1 DEF Size
    <2> QED
      BY <2>1
  <1>3. pc = "join" => current.to \in 1..Len(units)
    BY DEF Safe, CurrentOK
  <1>4. CASE pc = "scan"
    <2>1. Work = 6 * Ahead + Len(units) + 3
      BY <1>4 DEF Work
    <2> QED
      BY <1>1, <1>4, <2>1
  <1>5. CASE pc = "split"
    <2>1. Work = 6 * Ahead + 2 * (Size(remaining) + 1) + Len(units) + 3
      BY <1>5 DEF Work
    <2> QED
      BY <1>1, <1>2, <1>5, <2>1
  <1>6. CASE pc = "group"
    <2>1. Work = Len(units) + 2
      BY <1>6 DEF Work
    <2> QED
      BY <1>1, <1>6, <2>1
  <1>7. CASE pc = "join"
    <2>1. Work = Len(units) + 1 - current.to
      BY <1>7 DEF Work
    <2> QED
      BY <1>1, <1>3, <1>7, <2>1
  <1>8. CASE pc = "done"
    <2>1. Work = 0
      BY <1>8 DEF Work
    <2> QED
      BY <1>1, <1>8, <2>1
  <1> QED
    BY <1>4, <1>5, <1>6, <1>7, <1>8 DEF TypeOK

(* 6 a + u + 3 is what the scan has to do, d what it passes, z the length   *)
(* of the sentence it finds there.                                          *)
LEMMA SentenceCosts ==
  ASSUME NEW a \in Nat, NEW u \in Nat, NEW d \in Nat, NEW z \in Nat, 1 <= d, z <= d
  PROVE  6 * (a - d) + 2 * (z + 1) + u + 3 < 6 * a + u + 3
  OBVIOUS

LEMMA ScanCosts ==
  ASSUME NEW a \in Nat, NEW u \in Nat, NEW c \in Nat, c < a
  PROVE  6 * c + u + 3 < 6 * a + u + 3
  OBVIOUS

LEMMA CutCosts ==
  ASSUME NEW a \in Nat, NEW u \in Nat, NEW x \in Nat, NEW y \in Nat, y < x
  PROVE  6 * a + 2 * (y + 1) + (u + 1) + 3 < 6 * a + 2 * (x + 1) + u + 3
  OBVIOUS

LEMMA Passed ==
  ASSUME NEW s \in Nat, NEW t \in Nat, NEW b \in Nat, NEW f \in Nat, NEW l \in Nat,
         s < t, b < t, s <= f, f <= l, l <= b
  PROVE  t - s \in Nat /\ 1 <= t - s /\ l + 1 - f \in Nat /\ l + 1 - f <= t - s
  OBVIOUS

(* A sentence of start..b costs less than the text in front of its end.     *)
LEMMA SentenceGetsOn ==
  ASSUME TypeOK, Safe, TypeOK', Safe', pc = "scan", NEW b \in Nat,
         AppendSentence(start, b),
         start' > start, start' > b, UNCHANGED <<text, units>>
  PROVE  Work' < Work
  <1>1. Work = 6 * Ahead + Len(units) + 3 /\ Len(units) \in Nat /\ Len(text) \in Nat
    BY WorkIs
  <1>2. Ahead = Len(text) + 1 - start /\ Ahead' = Len(text) + 1 - start'
    BY DEF Ahead
  <1>3. Ahead \in Nat /\ Ahead' \in Nat /\ start \in Nat /\ start' \in Nat
    BY WorkIs DEF Ahead, TypeOK, Safe, ScanOK
  <1>4. Ahead' = Ahead - (start' - start) /\ Ahead' < Ahead
    BY <1>1, <1>2, <1>3
  <1>5. CASE Ink(start, b) = {} /\ UNCHANGED <<pc, split>>
    <2>1. Work' = 6 * Ahead' + Len(units) + 3
      BY <1>5 DEF Work
    <2>2. 6 * Ahead' + Len(units) + 3 < 6 * Ahead + Len(units) + 3
      BY <1>1, <1>3, <1>4, ScanCosts
    <2> QED
      BY <1>1, <2>1, <2>2
  <1>6. ASSUME NEW f \in Ink(start, b), NEW l \in Ink(start, b),
               IsStripped([first |-> f, last |-> l], start, b),
               remaining' = [first |-> f, last |-> l], pc' = "split"
        PROVE  Work' < Work
    <2>1. Work' = 6 * Ahead' + 2 * ((l + 1 - f) + 1) + Len(units) + 3
      BY <1>6 DEF Work, Size
    <2>2. f \in Nat /\ l \in Nat /\ start <= f /\ l <= b
      BY <1>3, <1>6 DEF Ink
    <2>3. f <= l
      BY <1>6 DEF IsStripped, IsLeast
    <2>4. /\ start' - start \in Nat /\ 1 <= start' - start
          /\ l + 1 - f \in Nat /\ l + 1 - f <= start' - start
      BY <1>3, <2>2, <2>3, Passed
    <2>5. 6 * (Ahead - (start' - start)) + 2 * ((l + 1 - f) + 1) + Len(units) + 3
            < 6 * Ahead + Len(units) + 3
      BY <1>1, <1>3, <2>4, SentenceCosts
    <2> QED
      BY <1>1, <1>4, <2>1, <2>5
  <1> QED
    BY <1>5, <1>6 DEF AppendSentence

(* A part cut off costs less than the sentence gets shorter.                *)
LEMMA CutGetsOn ==
  ASSUME TypeOK, Safe, TypeOK', Safe', pc = "split", NEW l \in Nat, NEW cut \in Nat,
         AppendPart(remaining.first, l), Continue(cut), remaining.first < cut,
         UNCHANGED <<text, pc, scan>>
  PROVE  Work' < Work
  <1>1. /\ Work = 6 * Ahead + 2 * (Size(remaining) + 1) + Len(units) + 3
        /\ Len(units) \in Nat /\ Ahead \in Nat /\ Size(remaining) \in Nat
    BY WorkIs
  <1>2. PICK f \in Ink(cut, remaining.last) : remaining' = [remaining EXCEPT !.first = f]
    BY DEF Continue
  <1>3. /\ f \in Nat /\ remaining.first \in Nat /\ remaining.last \in Nat
        /\ cut <= f /\ f <= remaining.last
    BY <1>2 DEF Ink, TypeOK, Interval
  <1>4. remaining'.first = f /\ remaining'.last = remaining.last
    BY <1>2 DEF TypeOK, Interval
  <1>5. Ahead' = Ahead /\ Len(units') = Len(units) + 1
    BY DEF Ahead, scan, AppendPart, TypeOK
  <1>6. Work' = 6 * Ahead + 2 * ((remaining.last + 1 - f) + 1) + (Len(units) + 1) + 3
    BY <1>4, <1>5 DEF Work, Size
  <1>7. remaining.last + 1 - f \in Nat /\ remaining.last + 1 - f < Size(remaining)
    BY <1>3 DEF Size
  <1>8. 6 * Ahead + 2 * ((remaining.last + 1 - f) + 1) + (Len(units) + 1) + 3
          < 6 * Ahead + 2 * (Size(remaining) + 1) + Len(units) + 3
    BY <1>1, <1>7, CutCosts
  <1> QED
    BY <1>1, <1>6, <1>8

LEMMA TurnGetsOn ==
  ASSUME TypeOK, Safe, TypeOK', Safe', Next
  PROVE  Work' < Work
  <1>1. CASE Sentence
    <2>1. PICK a \in Position, b \in Position :
            /\ IsBoundary(a, b)
            /\ AppendSentence(start, a - 1)
            /\ start' = b + 1
      BY <1>1 DEF Sentence
    <2>2. a <= b
      BY <2>1, MatchIsBlank DEF IsBoundary
    <2>3. start <= a /\ a - 1 \in Nat /\ b + 1 > start /\ b + 1 > a - 1
      BY <2>1, <2>2 DEF IsBoundary, Position, TypeOK
    <2>4. pc = "scan" /\ UNCHANGED <<text, units>>
      BY <1>1 DEF Sentence
    <2> QED
      BY <2>1, <2>3, <2>4, SentenceGetsOn
  <1>2. CASE LastSentence
    <2>1. /\ pc = "scan" /\ UNCHANGED <<text, units>>
          /\ AppendSentence(start, Len(text)) /\ start' = Len(text) + 1
          /\ Ink(start, Len(text)) # {}
      BY <1>2 DEF LastSentence
    <2>2. Len(text) \in Nat /\ start <= Len(text)
      BY <2>1 DEF Ink, TypeOK
    <2>3. Len(text) + 1 > start /\ Len(text) + 1 > Len(text)
      BY <2>2 DEF TypeOK
    <2> QED
      BY <2>1, <2>2, <2>3, SentenceGetsOn
  <1>3. CASE EndOfText
    <2>1. Work = 6 * Ahead + Len(units) + 3 /\ Len(units) \in Nat /\ Ahead \in Nat
      BY <1>3, WorkIs DEF EndOfText
    <2>2. Work' = Len(units) + 2
      BY <1>3 DEF EndOfText, Work
    <2> QED
      BY <2>1, <2>2
  <1>4. CASE SplitAtSpace
    <2>1. PICK cut \in WithinLimit :
            /\ \E l \in Ink(remaining.first, cut - 1) : AppendPart(remaining.first, l)
            /\ Continue(cut)
      BY <1>4 DEF SplitAtSpace
    <2>2. cut \in Nat /\ remaining.first < cut
      BY <2>1, SizeAssumption DEF WithinLimit, Blank, TypeOK, Interval
    <2>3. PICK l \in Nat : AppendPart(remaining.first, l)
      BY <2>1, <2>2 DEF Ink, TypeOK, Interval
    <2>4. pc = "split" /\ UNCHANGED <<text, pc, scan>>
      BY <1>4 DEF SplitAtSpace
    <2> QED
      BY <2>1, <2>2, <2>3, <2>4, CutGetsOn
  <1>5. CASE SplitWord
    <2> DEFINE cut == remaining.first + MaxChunkSize
               l == remaining.first + MaxChunkSize - 1
    <2>1. AppendPart(remaining.first, l) /\ Continue(cut) /\ pc = "split"
      BY <1>5 DEF SplitWord
    <2>2. UNCHANGED <<text, pc, scan>>
      BY <1>5 DEF SplitWord
    <2>3. cut \in Nat /\ l \in Nat /\ remaining.first < cut
      BY SizeAssumption DEF TypeOK, Interval
    <2> HIDE DEF cut, l
    <2> QED
      BY <2>1, <2>2, <2>3, CutGetsOn
  <1>6. CASE LastPart
    <2>1. /\ Work = 6 * Ahead + 2 * (Size(remaining) + 1) + Len(units) + 3
          /\ Len(units) \in Nat /\ Ahead \in Nat /\ Size(remaining) \in Nat \ {0}
      BY <1>6, WorkIs DEF LastPart
    <2>2. Len(units') = Len(units) + 1 /\ Ahead' = Ahead
      BY <1>6 DEF LastPart, AppendPart, TypeOK, Ahead, scan
    <2>3. Work' = 6 * Ahead' + Len(units') + 3
      BY <1>6 DEF LastPart, Work
    <2> QED
      BY <2>1, <2>2, <2>3
  <1>7. CASE FirstUnit
    <2>1. Work = Len(units) + 2 /\ Len(units) \in Nat
      BY <1>7, WorkIs DEF FirstUnit
    <2>2. Work' = Len(units) + 1 - current'.to /\ current'.to = 1
      BY <1>7 DEF FirstUnit, StartChunk, Work
    <2> QED
      BY <2>1, <2>2
  <1>8. CASE NoUnits
    <2>1. Work = Len(units) + 2 /\ Len(units) \in Nat
      BY <1>8, WorkIs DEF NoUnits
    <2>2. Work' = 0
      BY <1>8 DEF NoUnits, Work
    <2> QED
      BY <2>1, <2>2
  <1>9. CASE Join
    <2>1. /\ Work = Len(units) + 1 - current.to /\ Len(units) \in Nat
          /\ current.to \in Nat
      BY <1>9, WorkIs DEF Join
    <2>2. current'.to = current.to + 1
      <3>1. CASE StartChunk(current.to + 1)
        BY <3>1 DEF StartChunk
      <3>2. CASE \E z : current' = [current EXCEPT !.to = current.to + 1, !.size = z]
        BY <3>2 DEF TypeOK, Chunk
      <3> QED
        BY <1>9, <3>1, <3>2 DEF Join
    <2>3. Work' = Len(units) + 1 - current'.to
      BY <1>9 DEF Join, Work
    <2> QED
      BY <2>1, <2>2, <2>3
  <1>10. CASE LastChunk
    <2>1. Work = Len(units) + 1 - current.to /\ current.to = Len(units) /\ Len(units) \in Nat
      BY <1>10, WorkIs DEF LastChunk
    <2>2. Work' = 0
      BY <1>10 DEF LastChunk, Work
    <2> QED
      BY <2>1, <2>2
  <1> QED
    BY <1>1, <1>2, <1>3, <1>4, <1>5, <1>6, <1>7, <1>8, <1>9, <1>10 DEF Next

(* The loops of chunk, _units and _split_oversized always find what their   *)
(* next turn takes, for any text and any limit.                             *)
THEOREM TurnsAreFound == Spec => []NextTurnExists
  <1>1. TypeOK /\ Safe => NextTurnExists
    BY TurnExists
  <1> QED
    BY <1>1, AlwaysSafe, PTL

(* Every turn of these loops leaves less to do: none goes round without     *)
(* getting on.                                                              *)
THEOREM TurnsGetOn == Spec => EveryTurnGetsOn
  <1>1. /\ TypeOK /\ Safe /\ (TypeOK /\ Safe)' /\ [Next]_vars => [Work' < Work]_vars
    BY TurnGetsOn
  <1> QED
    BY <1>1, AlwaysSafe, PTL DEF Spec, EveryTurnGetsOn

LEMMA AlwaysNatural == Spec => [](Work \in Nat)
  <1>1. TypeOK /\ Safe => Work \in Nat
    BY WorkIs
  <1> QED
    BY <1>1, AlwaysSafe, PTL

(* chunk takes at most six turns per character, and three.                  *)
THEOREM WorkStaysBounded == Spec => []WorkIsBounded
  <1>1. Init => WorkIsBounded
    <2> SUFFICES ASSUME Init
                 PROVE  WorkIsBounded
      OBVIOUS
    <2>1. TypeOK /\ Safe
      BY SafeInit
    <2>2. Work = 6 * Ahead + Len(units) + 3 /\ Len(text) \in Nat /\ Ahead \in Nat
      BY <2>1, WorkIs DEF Init
    <2>3. Ahead = Len(text) /\ Len(units) = 0
      BY <2>2 DEF Init, Ahead
    <2> QED
      BY <2>2, <2>3 DEF WorkIsBounded
  <1>2. /\ TypeOK /\ Safe /\ (TypeOK /\ Safe)' /\ Work \in Nat /\ (Work \in Nat)'
        /\ WorkIsBounded /\ [Next]_vars
        => WorkIsBounded'
    <2> SUFFICES ASSUME TypeOK, Safe, TypeOK', Safe', Work \in Nat, Work' \in Nat,
                        WorkIsBounded, [Next]_vars
                 PROVE  WorkIsBounded'
      OBVIOUS
    <2>1. text' = text
      BY DEF vars, Next, Sentence, LastSentence, EndOfText, SplitAtSpace, SplitWord, LastPart,
             FirstUnit, NoUnits, Join, LastChunk
    <2>2. Work' <= Work
      <3>1. CASE Next
        BY <3>1, TurnGetsOn
      <3>2. CASE UNCHANGED vars
        <4>1. Work' = Work
          BY <3>2 DEF vars, scan, split, group, Work, Ahead, Size
        <4> QED
          BY <4>1
      <3> QED
        BY <3>1, <3>2
    <2>3. Len(text) \in Nat
      BY DEF TypeOK
    <2> QED
      BY <2>1, <2>2, <2>3 DEF WorkIsBounded
  <1> QED
    BY <1>1, <1>2, AlwaysSafe, AlwaysNatural, PTL DEF Spec
=============================================================================
