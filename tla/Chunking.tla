------------------------------- MODULE Chunking -------------------------------
(***************************************************************************)
(* ChunkingService.chunk: a normalized text is cut into sentences at       *)
(* paragraph breaks and sentence ends, sentences over the limit into parts *)
(* at spaces or, for want of one, in the middle of a word, and the parts   *)
(* (units) are joined again to chunks within the limit.                    *)
(*                                                                         *)
(* A piece of the text is an interval of its positions, a separator is its *)
(* length: 0 in front of the first unit, 1 for " ", 2 for "\n\n".          *)
(***************************************************************************)
EXTENDS Naturals, Sequences

CONSTANTS
  Text,        \* texts as parsed
  MaxChunkSize

Space == {"space", "newline"}
Char == Space \cup {"word", "stop", "quote"}

ASSUME TextAssumption == Text \subseteq Seq(Char)

ASSUME SizeAssumption == MaxChunkSize \in Nat \ {0}

VARIABLES
  text,      \* the normalized text
  pc,        \* the loop the service is in
  start,     \* start: first position not scanned
  separator, \* separator of the next sentence
  remaining, \* remaining: what is left of the sentence being split
  glue,      \* separator of the next part of that sentence
  units,     \* units: parts with the separators in front of them
  current,   \* current: the units from..to of the chunk under way, its size
  chunks

scan == <<start, separator>>
split == <<remaining, glue>>
group == <<current, chunks>>
vars == <<text, pc, scan, split, units, group>>

Interval == [first : Nat, last : Nat]
Unit == [first : Nat, last : Nat, separator : 0..2]
Chunk == [from : Nat, to : Nat, size : Nat]

TypeOK ==
  /\ text \in Seq(Char)
  /\ pc \in {"scan", "split", "group", "join", "done"}
  /\ start \in Nat \ {0}
  /\ separator \in 0..2
  /\ remaining \in Interval
  /\ glue \in 0..2
  /\ units \in Seq(Unit)
  /\ current \in Chunk
  /\ chunks \in Seq(Chunk)

(* strip, and runs of spaces collapsed; newlines stay.                      *)
Normalized(t) ==
  /\ t # <<>> => t[1] \notin Space /\ t[Len(t)] \notin Space
  /\ \A p \in 1..(Len(t) - 1) : ~ (t[p] = "space" /\ t[p + 1] = "space")

Init ==
  /\ text \in {t \in Text : Normalized(t)}
  /\ pc = "scan"
  /\ start = 1
  /\ separator = 0
  /\ remaining = [first |-> 1, last |-> 0]
  /\ glue = 0
  /\ units = <<>>
  /\ current = [from |-> 0, to |-> 0, size |-> 0]
  /\ chunks = <<>>
-----------------------------------------------------------------------------
Size(i) == i.last + 1 - i.first

IsLeast(m, S) == m \in S /\ \A p \in S : m <= p

IsGreatest(m, S) == m \in S /\ \A p \in S : p <= m

(* The characters of a..b that are not whitespace.                          *)
Ink(a, b) == {p \in a..b : p \in 1..Len(text) /\ text[p] \notin Space}

Blank(a, b) == {p \in a..b : p \in 1..Len(text) /\ text[p] \in Space}

(* i is what strip leaves of a..b.                                          *)
IsStripped(i, a, b) == IsLeast(i.first, Ink(a, b)) /\ IsGreatest(i.last, Ink(a, b))

Run(a, b, class) == a <= b /\ (\A p \in a..b : text[p] \in class) /\ text[b + 1] \notin class

(* \n[ \t]*\n+                                                             *)
ParagraphBreak(a, b) ==
  /\ text[a] = "newline"
  /\ \E p \in (a + 1)..b :
       (\A q \in (a + 1)..(p - 1) : text[q] = "space") /\ Run(p, b, {"newline"})

(* (?<=[.!?])\s+ and (?<=[.!?]["”’])\s+                                     *)
SentenceEnd(a, b) ==
  /\ \/ a > 1 /\ text[a - 1] = "stop"
     \/ a > 2 /\ text[a - 1] = "quote" /\ text[a - 2] = "stop"
  /\ Run(a, b, Space)

Position == 1..Len(text)

(* What _boundary matches at a: the first alternative that does.            *)
Match(a, b) ==
  \/ ParagraphBreak(a, b)
  \/ SentenceEnd(a, b) /\ ~ \E c \in Position : ParagraphBreak(a, c)

(* finditer: the first match from position start on.                        *)
IsBoundary(a, b) ==
  /\ a \in start..Len(text)
  /\ b \in start..Len(text)
  /\ Match(a, b)
  /\ \A c \in start..(a - 1) : \A d \in Position : ~ Match(c, d)

Newlines(a, b) == {p \in a..b : text[p] = "newline"}

(* boundary.group().count("\n") >= 2                                        *)
SeparatorOf(a, b) == IF \E p, q \in Newlines(a, b) : p # q THEN 2 ELSE 1

(* The sentence a..b, if there is one, goes to _append_sentence.            *)
AppendSentence(a, b) ==
  \/ /\ Ink(a, b) = {}
     /\ UNCHANGED <<pc, split>>
  \/ \E f, l \in Ink(a, b) :
       /\ IsStripped([first |-> f, last |-> l], a, b)
       /\ remaining' = [first |-> f, last |-> l]
       /\ glue' = separator
       /\ pc' = "split"

Sentence ==
  /\ pc = "scan"
  /\ \E a, b \in Position :
       /\ IsBoundary(a, b)
       /\ AppendSentence(start, a - 1)
       /\ separator' = SeparatorOf(a, b)
       /\ start' = b + 1
  /\ UNCHANGED <<text, units, group>>

NoBoundary == ~ \E a, b \in Position : IsBoundary(a, b)

LastSentence ==
  /\ pc = "scan"
  /\ NoBoundary
  /\ Ink(start, Len(text)) # {}
  /\ AppendSentence(start, Len(text))
  /\ start' = Len(text) + 1
  /\ UNCHANGED <<text, separator, units, group>>

EndOfText ==
  /\ pc = "scan"
  /\ NoBoundary
  /\ Ink(start, Len(text)) = {}
  /\ pc' = "group"
  /\ UNCHANGED <<text, scan, split, units, group>>
-----------------------------------------------------------------------------
AppendPart(f, l) ==
  /\ units' = Append(units, [first |-> f, last |-> l, separator |-> glue])
  /\ glue' = 1

(* Mutant: the rest is what follows the next character.                     *)
SkipOne(cut) == remaining' \in {[remaining EXCEPT !.first = p] : p \in Ink(cut + 1, cut + 1)}

(* Mutant: the part is kept, but not cut off what remains.                  *)
CutNothing(cut) == cut \in Nat /\ UNCHANGED remaining

(* remaining[cut:].lstrip()                                                 *)
Continue(cut) ==
  \E f \in Ink(cut, remaining.last) :
    /\ IsLeast(f, Ink(cut, remaining.last))
    /\ remaining' = [remaining EXCEPT !.first = f]

(* Whitespace at an index in 1..max_chunk_size of remaining.                *)
WithinLimit == Blank(remaining.first + 1, remaining.first + MaxChunkSize)

(* Mutant: a sentence of just the limit is split.                           *)
AtLimit == Size(remaining) >= MaxChunkSize

Oversized == Size(remaining) > MaxChunkSize

SplitAtSpace ==
  /\ pc = "split"
  /\ Oversized
  /\ \E cut \in WithinLimit :
       /\ IsGreatest(cut, WithinLimit)
       /\ \E l \in Ink(remaining.first, cut - 1) :
            /\ IsGreatest(l, Ink(remaining.first, cut - 1))
            /\ AppendPart(remaining.first, l)
       /\ Continue(cut)
  /\ UNCHANGED <<text, pc, scan, group>>

SplitWord ==
  /\ pc = "split"
  /\ Oversized
  /\ WithinLimit = {}
  /\ AppendPart(remaining.first, remaining.first + MaxChunkSize - 1)
  /\ Continue(remaining.first + MaxChunkSize)
  /\ UNCHANGED <<text, pc, scan, group>>

LastPart ==
  /\ pc = "split"
  /\ ~ Oversized
  /\ AppendPart(remaining.first, remaining.last)
  /\ pc' = "scan"
  /\ UNCHANGED <<text, scan, remaining, group>>
-----------------------------------------------------------------------------
StartChunk(n) == current' = [from |-> n, to |-> n, size |-> Size(units[n])]

FirstUnit ==
  /\ pc = "group"
  /\ units # <<>>
  /\ StartChunk(1)
  /\ pc' = "join"
  /\ UNCHANGED <<text, scan, split, units, chunks>>

NoUnits ==
  /\ pc = "group"
  /\ units = <<>>
  /\ pc' = "done"
  /\ UNCHANGED <<text, scan, split, units, group>>

(* Mutant: the separator does not count toward the limit.                   *)
WithoutSeparator(n) == current.size + Size(units[n]) <= MaxChunkSize

(* current + separator + text is within the limit.                          *)
Fits(n) == current.size + units[n].separator + Size(units[n]) <= MaxChunkSize

Join ==
  /\ pc = "join"
  /\ current.to < Len(units)
  /\ LET n == current.to + 1 IN
       \/ /\ Fits(n)
          /\ current' = [current EXCEPT !.to = n,
                           !.size = @ + units[n].separator + Size(units[n])]
          /\ UNCHANGED chunks
       \/ /\ ~ Fits(n)
          /\ StartChunk(n)
          /\ chunks' = Append(chunks, current)
  /\ UNCHANGED <<text, pc, scan, split, units>>

LastChunk ==
  /\ pc = "join"
  /\ current.to = Len(units)
  /\ chunks' = Append(chunks, current)
  /\ pc' = "done"
  /\ UNCHANGED <<text, scan, split, units, current>>

Next ==
  \/ Sentence \/ LastSentence \/ EndOfText
  \/ SplitAtSpace \/ SplitWord \/ LastPart
  \/ FirstUnit \/ NoUnits \/ Join \/ LastChunk

Spec == Init /\ [][Next]_vars

(* A function runs to its end.                                              *)
FairSpec == Spec /\ WF_vars(Next)
-----------------------------------------------------------------------------
(* No chunk is empty or longer than max_chunk_size, separators included.    *)
ChunksFit == \A k \in 1..Len(chunks) : chunks[k].size \in 1..MaxChunkSize

Ordered == \A i, j \in 1..Len(units) : i < j => units[i].last < units[j].first

Covered ==
  \A p \in Ink(1, Len(text)) :
    \E i \in 1..Len(units) : units[i].first <= p /\ p <= units[i].last

Tiled ==
  /\ units # <<>> => chunks # <<>> /\ chunks[1].from = 1 /\ chunks[Len(chunks)].to = Len(units)
  /\ \A k \in 1..(Len(chunks) - 1) : chunks[k + 1].from = chunks[k].to + 1

(* Two units without whitespace between them are cut from one word that     *)
(* did not fit.                                                             *)
WordsWhole ==
  \A i \in 1..(Len(units) - 1) :
    units[i + 1].first = units[i].last + 1 => Size(units[i]) = MaxChunkSize

(* The chunks are the text: every character but whitespace is in exactly    *)
(* one of them, in its order, and only words over the limit are cut.        *)
TextIsKept == pc = "done" => Ordered /\ Covered /\ Tiled /\ WordsWhole

Ahead == Len(text) + 1 - start

(* An upper bound of the turns the loops still take: two for each part that *)
(* could be cut off, one for each unit.                                     *)
Work ==
  CASE pc = "scan"  -> 6 * Ahead + Len(units) + 3
    [] pc = "split" -> 6 * Ahead + 2 * (Size(remaining) + 1) + Len(units) + 3
    [] pc = "group" -> Len(units) + 2
    [] pc = "join"  -> Len(units) + 1 - current.to
    [] pc = "done"  -> 0

(* The service takes a number of turns at most linear in the length of the  *)
(* text, however its breaks, spaces and words over the limit lie.           *)
WorkIsBounded == Work \in 0..(6 * Len(text) + 3)

(* No turn of a loop leaves it where it was: neither a boundary nor a cut   *)
(* is ever empty.                                                           *)
EveryTurnGetsOn == [][Work' < Work]_vars

HasLeast(S) == \E m \in S : IsLeast(m, S)

HasGreatest(S) == \E m \in S : IsGreatest(m, S)

Strippable(a, b) == Ink(a, b) = {} \/ (HasLeast(Ink(a, b)) /\ HasGreatest(Ink(a, b)))

(* Until it is done, the service finds what its next turn takes: what strip *)
(* leaves of a sentence, the last space within the limit with a part in     *)
(* front of it, and a rest to go on with (strip, rstrip and lstrip, the max *)
(* of _split_oversized).                                                    *)
NextTurnExists ==
  /\ pc = "scan" =>
       /\ \A a, b \in Position : IsBoundary(a, b) => Strippable(start, a - 1)
       /\ Strippable(start, Len(text))
  /\ pc = "split" /\ Oversized =>
       IF WithinLimit = {}
       THEN HasLeast(Ink(remaining.first + MaxChunkSize, remaining.last))
       ELSE \E cut \in WithinLimit :
              /\ IsGreatest(cut, WithinLimit)
              /\ HasGreatest(Ink(remaining.first, cut - 1))
              /\ HasLeast(Ink(cut, remaining.last))
  /\ pc = "join" => current.to <= Len(units)

(* chunk returns, whatever the text: each turn of the loops gets on.        *)
ChunkingEnds == <>(pc = "done")
=============================================================================
