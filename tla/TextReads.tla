----------------------------- MODULE TextReads ------------------------------
(***************************************************************************)
(* Reading and searching one text file block by block: read_ranges of      *)
(* mcp_local/stream_read.py and scan_file_many of stream_search.py.  Both  *)
(* cut each block into parts of a line and line breaks, and carry a line   *)
(* that is cut by the end of a block over to the next.  The blocks have    *)
(* any length here; the program uses 65536 bytes.                          *)
(***************************************************************************)
EXTENDS Integers, Sequences, FiniteSets, SequencesExt

CONSTANTS
  Characters, \* what a text consists of
  Texts,      \* the texts to read, as sequences of characters
  Requests,   \* what to do: ranges [start, stop] to read, or needles to find
  Maximum,    \* the largest size of a file
  Budgets,    \* how much of the scan a search may still use
  RowWidth,   \* characters of a line that a search keeps (600), and of a
  Lead,       \* snippet; those before the match in it (120)
  RangeWidth, \* characters of a range (24000)
  Output,     \* characters of all ranges together
  Matches,    \* matches a search may still return
  Context     \* lines shown around a match

(* Lines are numbered from 1 and a range is not empty (validate_ranges); a *)
(* needle is not empty and fits into a row (search_text).                  *)
LineRange == {r \in [start : Nat \ {0}, stop : Nat] : r.start < r.stop}
Needle == {n \in Seq(Characters) : Len(n) \in 1..RowWidth}

ASSUME TextsAssumption == Texts \subseteq Seq(Characters)
ASSUME RequestsAssumption ==
  Requests \subseteq [kind : {"read"}, items : Seq(LineRange)] \cup [kind : {"find"}, items : Seq(Needle)]
ASSUME SizesAssumption ==
  {Maximum, RowWidth, Lead, RangeWidth, Output, Matches, Context} \subseteq Nat /\ Budgets \subseteq Nat

Breaks == {"LF", "CR"}
Nul == "NUL"

VARIABLES
  text, request, budget,
  at,       \* how much has been processed
  block,    \* the end of the block that has been read
  valid, afterCr, number, length, prefix,
  ranges,   \* read_ranges: per range, the rows rendered
  needles,  \* scan_file_many: per needle, tail, found, snippet and matches
  done      \* "reading", "done" or "error"
textVars == <<text, request, budget, at, block, valid, afterCr, number, length, prefix,
              ranges, needles, done>>

Reads == request.kind = "read"
First(s, n) == SubSeq(s, 1, IF n < Len(s) THEN n ELSE Len(s))
Ending(s, n) == SubSeq(s, IF n < Len(s) THEN Len(s) - n + 1 ELSE 1, Len(s))
Bigger(a, b) == IF a > b THEN a ELSE b
Smaller(a, b) == IF a < b THEN a ELSE b

NewRange(r) == [start |-> r.start, stop |-> r.stop, rows |-> <<>>, chars |-> 0, end |-> 0,
                full |-> FALSE]
NewNeedle(n) == [needle |-> n, tail |-> <<>>, found |-> FALSE, snippet |-> <<>>, hits |-> <<>>]

TextInit ==
  /\ text \in Texts /\ request \in Requests /\ budget \in Budgets
  /\ at = 0 /\ block = 0 /\ valid = TRUE /\ afterCr = FALSE
  /\ number = 0 /\ length = 0 /\ prefix = <<>> /\ done = "reading"
  /\ ranges = IF Reads THEN [i \in DOMAIN request.items |-> NewRange(request.items[i])] ELSE <<>>
  /\ needles = IF Reads THEN <<>> ELSE [i \in DOMAIN request.items |-> NewNeedle(request.items[i])]

(* activate(): the ranges that still take the line after n. *)
Active(n) == {i \in DOMAIN ranges : /\ ranges[i].start <= n + 1 /\ n + 1 < ranges[i].stop
                                    /\ ~ranges[i].full}

(* The next block: of any length up to the limits.  A NUL byte ends a read *)
(* and makes a search of the file worthless, as a file too large does.     *)
Limit == IF Reads THEN Maximum + 1 ELSE Smaller(Maximum + 1, budget)
ReadBlock ==
  /\ done = "reading" /\ at = block /\ block < Smaller(Len(text), Limit)
  /\ \E end \in (block + 1)..Smaller(Len(text), Limit) :
       LET bad == Nul \in ToSet(SubSeq(text, block + 1, end)) \/ (Reads /\ end > Maximum)
       IN /\ block' = end
          /\ valid' = (valid /\ ~bad)
          /\ at' = IF valid' THEN at ELSE end
          /\ done' = IF Reads /\ bad THEN "error" ELSE done
  /\ UNCHANGED <<text, request, budget, afterCr, number, length, prefix, ranges, needles>>

(* append(part): the line grows; a needle is looked for in the part and    *)
(* what is kept of the line before it.                                     *)
IndexIn(needle, s) ==
  IF \E k \in 0..(Len(s) - Len(needle)) : SubSeq(s, k + 1, k + Len(needle)) = needle
  THEN CHOOSE k \in 0..(Len(s) - Len(needle)) :
         /\ SubSeq(s, k + 1, k + Len(needle)) = needle
         /\ \A j \in 0..(k - 1) : SubSeq(s, j + 1, j + Len(needle)) # needle
  ELSE -1
(* Mutant: nothing of the line before a part is kept. *)
NoTail(n) == 0

TailLength(n) == Bigger(1, Len(n.needle) - 1)
Sought(n, part) ==
  LET folded == n.tail \o part
      position == IndexIn(n.needle, folded)
      begin == Bigger(0, position - Smaller(Lead, Bigger(0, (RowWidth - Len(n.needle)) \div 2)))
      kept == [n EXCEPT !.tail = Ending(folded, TailLength(n))]
  IN IF n.found \/ position < 0 THEN kept
     ELSE [kept EXCEPT !.found = TRUE, !.snippet = First(SubSeq(folded, begin + 1, Len(folded)), RowWidth)]

PartEnd == CHOOSE e \in (at + 1)..block :
             /\ \A k \in (at + 1)..e : text[k] \notin Breaks
             /\ e < block => text[e + 1] \in Breaks
Part ==
  /\ done = "reading" /\ at < block /\ text[at + 1] \notin Breaks
  /\ LET part == SubSeq(text, at + 1, PartEnd)
     IN /\ at' = PartEnd
        /\ length' = length + Len(part)
        /\ prefix' = IF Reads /\ Active(number) = {} THEN prefix
                     ELSE First(prefix \o part, IF Reads THEN RangeWidth + 1 ELSE RowWidth)
        /\ needles' = [i \in DOMAIN needles |-> Sought(needles[i], part)]
  /\ afterCr' = FALSE
  /\ UNCHANGED <<text, request, budget, block, valid, number, ranges, done>>

(* finish() of read_ranges: the row goes to every range that takes the     *)
(* line, unless the range is full.  A row costs its text and its number.   *)
RowCost(row) == Len(row) + 1
(* Mutant: a range goes on after a line that did not fit. *)
RenderedOn(r, row) ==
  LET cost == RowCost(row) + (IF r.rows = <<>> THEN 0 ELSE 1)
  IN IF r.chars + cost > RangeWidth THEN r
     ELSE [r EXCEPT !.rows = Append(@, row), !.chars = @ + cost, !.end = number + 1]

Rendered(r, row) ==
  LET cost == RowCost(row) + (IF r.rows = <<>> THEN 0 ELSE 1)
  IN IF r.chars + cost > RangeWidth THEN [r EXCEPT !.full = TRUE]
     ELSE [r EXCEPT !.rows = Append(@, row), !.chars = @ + cost, !.end = number + 1]
FinishRanges ==
  [i \in DOMAIN ranges |-> IF i \in Active(number) THEN Rendered(ranges[i], prefix) ELSE ranges[i]]
TooLong == Active(number) # {} /\ length + 1 > RangeWidth

(* finish() of scan_file_many: the line is context of earlier matches, and *)
(* a match itself if a needle was found in it.                             *)
Noted(n) ==
  LET line == number + 1
      earlier == [k \in DOMAIN n.hits |->
                    IF line <= n.hits[k].line + Context
                    THEN [n.hits[k] EXCEPT !.context = @ \cup {line}] ELSE n.hits[k]]
      hit == [line |-> line, text |-> prefix, cut |-> length > RowWidth,
              snippet |-> IF length > RowWidth THEN n.snippet ELSE <<>>,
              context |-> Bigger(1, line - Context)..line]
  IN [NewNeedle(n.needle) EXCEPT
        !.hits = IF n.found /\ Len(n.hits) < Matches + 1 THEN Append(earlier, hit) ELSE earlier]

FinishLine ==
  /\ number' = number + 1 /\ length' = 0 /\ prefix' = <<>>
  /\ ranges' = FinishRanges
  /\ needles' = [i \in DOMAIN needles |-> Noted(needles[i])]

(* A line break; the LF of a CR LF ends no second line, even as the first  *)
(* character of a block.                                                   *)
Break ==
  /\ done = "reading" /\ at < block /\ text[at + 1] \in Breaks
  /\ at' = at + 1 /\ afterCr' = (text[at + 1] = "CR")
  /\ IF afterCr /\ text[at + 1] = "LF"
     THEN UNCHANGED <<number, length, prefix, ranges, needles, done>>
     ELSE IF TooLong
          THEN done' = "error" /\ UNCHANGED <<number, length, prefix, ranges, needles>>
          ELSE FinishLine /\ UNCHANGED done
  /\ UNCHANGED <<text, request, budget, block, valid>>

(* The end: a last line without a break counts; a search returns nothing   *)
(* of a file it could not read as a whole.                                 *)
Usable == Reads \/ (valid /\ block = Len(text) /\ block <= Maximum)
Finish ==
  /\ done = "reading" /\ at = block /\ block = Smaller(Len(text), Limit)
  /\ valid' = Usable
  /\ IF Usable /\ length > 0
     THEN IF TooLong THEN done' = "error" /\ UNCHANGED <<number, length, prefix, ranges, needles>>
          ELSE FinishLine /\ done' = "done"
     ELSE done' = "done" /\ UNCHANGED <<number, length, prefix, ranges, needles>>
  /\ UNCHANGED <<text, request, budget, at, block, afterCr>>

TextNext == ReadBlock \/ Part \/ Break \/ Finish

(* The results.  A range that does not fit into what is left of the output *)
(* is returned empty, to be asked for again.                               *)
Spent[i \in 0..Len(ranges)] ==
  IF i = 0 THEN 0
  ELSE IF Spent[i - 1] + ranges[i].chars > Output THEN Spent[i - 1] ELSE Spent[i - 1] + ranges[i].chars
Result(i) ==
  LET r == ranges[i]
      dropped == Spent[i - 1] + r.chars > Output
  IN IF dropped
     THEN [rows |-> <<>>, next |-> IF r.start <= number THEN r.start ELSE 0, truncated |-> TRUE]
     ELSE [rows |-> r.rows, next |-> IF r.end > 0 /\ r.end < number THEN r.end + 1 ELSE 0,
           truncated |-> r.full]
Found(i) == IF valid THEN needles[i].hits ELSE <<>>

-----------------------------------------------------------------------------
(* What the lines of a text are, without blocks: a line ends at each break *)
(* that is not the LF of a CR LF, and at the end of the text.              *)
LineEnds(t) == {k \in 1..Len(t) :
                  t[k] \in Breaks /\ ~(t[k] = "LF" /\ k > 1 /\ t[k - 1] = "CR")}
LinesTo(t, k) == Cardinality({e \in LineEnds(t) : e <= k})
EndOf(t, n) == CHOOSE e \in LineEnds(t) \cup {Len(t) + 1} : LinesTo(t, e - 1) = n - 1
After(t, e) == IF t[e] = "CR" /\ e < Len(t) /\ t[e + 1] = "LF" THEN e + 2 ELSE e + 1
StartOf(t, n) == IF n = 1 THEN 1 ELSE After(t, EndOf(t, n - 1))
Line(t, n) == SubSeq(t, StartOf(t, n), EndOf(t, n) - 1)
LineCount(t) == LET all == Cardinality(LineEnds(t))
                IN IF StartOf(t, all + 1) <= Len(t) THEN all + 1 ELSE all

(* However the file is cut into blocks, a range holds whole lines of the   *)
(* text from its start on, and the line to go on with is the first that    *)
(* was left out: a reader who follows it misses no line and sees none      *)
(* twice; and what was left out of a range is always told.                 *)
ReadIsWindow ==
  Reads /\ done = "done" =>
    /\ number = LineCount(text)
    /\ \A i \in DOMAIN ranges :
         LET r == ranges[i]
             result == Result(i)
             stop == r.start + Len(result.rows)
         IN /\ \A k \in DOMAIN result.rows : result.rows[k] = Line(text, r.start + k - 1)
            /\ result.next = IF stop <= number THEN stop ELSE 0
            /\ stop < Smaller(r.stop, number + 1) => result.truncated

Holds(t, n, needle) == IndexIn(needle, Line(t, n)) >= 0

(* The matches are, of the first lines, those that hold the needle, in     *)
(* their order, up to the limit and one more.                              *)
Listed(t, hits, needle, count) ==
  /\ Len(hits) <= Matches + 1
  /\ \A k \in DOMAIN hits : hits[k].line \in 1..count /\ Holds(t, hits[k].line, needle)
  /\ \A j, k \in DOMAIN hits : j < k => hits[j].line < hits[k].line
  /\ \A n \in 1..count : Holds(t, n, needle) =>
       \E k \in DOMAIN hits : hits[k].line = n \/ (k = Matches + 1 /\ hits[k].line < n)

(* What is shown of a match: the lines around it, and the needle.          *)
Shown(hit, needle, count) ==
  /\ hit.context = Bigger(1, hit.line - Context)..Smaller(count, hit.line + Context)
  /\ IndexIn(needle, IF hit.cut THEN hit.snippet ELSE hit.text) >= 0

(* However the file is cut into blocks, a search finds the lines that hold *)
(* the needle, the first of them up to its limit and one more, with the    *)
(* lines around them; and what is shown of such a line contains the        *)
(* needle: the line itself, or the snippet when the line is cut.           *)
SearchFindsLines ==
  ~Reads /\ done = "done" =>
    \A i \in DOMAIN needles :
      LET hits == Found(i)
          needle == needles[i].needle
      IN IF valid
         THEN /\ Listed(text, hits, needle, LineCount(text))
              /\ \A k \in DOMAIN hits : Shown(hits[k], needle, LineCount(text))
         ELSE Nul \in ToSet(text) \/ Len(text) > Smaller(Maximum, budget)
=============================================================================
