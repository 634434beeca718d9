-------------------------- MODULE FileReadsProofs ---------------------------
(***************************************************************************)
(* Proofs about FileReads: what a search over a folder leaves out is told, *)
(* a range of a text is its lines, a search of a text finds its lines.     *)
(***************************************************************************)
EXTENDS FileReads, TLAPS, WellFoundedInduction, SequenceTheorems, FiniteSetTheorems

-----------------------------------------------------------------------------
(* Induction over the natural numbers, stated with a set.                  *)
LEMMA LeastNatural ==
  ASSUME NEW S \in SUBSET Nat, S # {}
  PROVE  \E n \in S : \A m \in S : n <= m
<1> DEFINE Less == {pair \in Nat \X Nat : pair[1] < pair[2]}
<1>1. IsWellFoundedOn(Less, Nat)
  BY NatLessThanWellFounded DEF OpToRel
<1>2. \A m, n \in Nat : m < n => <<m, n>> \in Less
  OBVIOUS
<1> HIDE DEF Less
<1>3. PICK n \in S : \A m \in S : ~(<<m, n>> \in Less)
  BY <1>1, WFMin
<1>4. ASSUME NEW m \in S PROVE n <= m
  <2>1. ~(m < n)
    BY <1>2, <1>3
  <2> QED BY <2>1
<1> QED BY <1>4

LEMMA NaturalsInSet ==
  ASSUME NEW T, 0 \in T, \A n \in Nat : n \in T => n + 1 \in T
  PROVE  Nat \subseteq T
<1> DEFINE Outside == Nat \ T
<1> SUFFICES ASSUME Outside # {} PROVE FALSE
  OBVIOUS
<1>1. PICK n \in Outside : \A m \in Outside : n <= m
  BY LeastNatural
<1>2. n \in Nat /\ n # 0 /\ n - 1 \in Nat /\ n = (n - 1) + 1
  BY <1>1
<1> QED BY <1>1, <1>2

(* Partial sums add one element after the other.                           *)
Adds(f, s, N) == f = [n \in 0 .. N |-> IF n = 0 THEN 0 ELSE f[n - 1] + s[n]]

LEMMA SumsExist ==
  ASSUME NEW s, NEW N \in Nat
  PROVE  \E f : Adds(f, s, N)
<1> DEFINE T == {m \in Nat : \E f : Adds(f, s, m)}
<1>1. 0 \in T
  <2>1. Adds([n \in 0 .. 0 |-> 0], s, 0)
    BY DEF Adds
  <2> QED BY <2>1
<1>2. ASSUME NEW m \in Nat, m \in T PROVE m + 1 \in T
  <2>1. PICK f : Adds(f, s, m)
    BY <1>2
  <2> DEFINE g == [n \in 0 .. m + 1 |-> IF n <= m THEN f[n] ELSE f[m] + s[m + 1]]
  <2>2. \A n \in 0 .. m : f[n] = IF n = 0 THEN 0 ELSE f[n - 1] + s[n]
    BY <2>1 DEF Adds
  <2>3. \A n \in 0 .. m + 1 : g[n] = IF n = 0 THEN 0 ELSE g[n - 1] + s[n]
    <3> TAKE n \in 0 .. m + 1
    <3>1. CASE n = 0
      BY <2>2, <3>1
    <3>2. CASE n \in 1 .. m
      <4>1. g[n] = f[n] /\ g[n - 1] = f[n - 1] /\ n # 0 /\ n \in 0 .. m
        BY <3>2
      <4> HIDE DEF g
      <4> QED BY <2>2, <4>1
    <3>3. CASE n = m + 1
      <4>1. g[n] = f[m] + s[m + 1] /\ g[n - 1] = f[m] /\ n # 0
        BY <3>3
      <4> HIDE DEF g
      <4> QED BY <3>3, <4>1
    <3> QED BY <3>1, <3>2, <3>3
  <2>4. g = [n \in 0 .. m + 1 |-> g[n]]
    OBVIOUS
  <2> HIDE DEF g
  <2>5. Adds(g, s, m + 1)
    BY <2>3, <2>4 DEF Adds
  <2> QED BY <2>5
<1> HIDE DEF T
<1>3. N \in T
  BY <1>1, <1>2, NaturalsInSet
<1> QED BY <1>3 DEF T

LEMMA SumsAdd ==
  ASSUME NEW s, Len(s) \in Nat
  PROVE  /\ Sums(s)[0] = 0
         /\ \A n \in 1 .. Len(s) : Sums(s)[n] = Sums(s)[n - 1] + s[n]
<1>1. \E f : Adds(f, s, Len(s))
  BY SumsExist
<1>2. Sums(s) = CHOOSE f : Adds(f, s, Len(s))
  BY DEF Sums, Adds
<1>3. Adds(Sums(s), s, Len(s))
  BY <1>1, <1>2
<1>4. \A n \in 0 .. Len(s) : Sums(s)[n] = IF n = 0 THEN 0 ELSE Sums(s)[n - 1] + s[n]
  BY <1>3 DEF Adds
<1> QED BY <1>4

LEMMA SumsNatural ==
  ASSUME NEW s \in Seq(Nat)
  PROVE  \A n \in 0 .. Len(s) : Sums(s)[n] \in Nat
<1> DEFINE T == {n \in Nat : n <= Len(s) => Sums(s)[n] \in Nat}
<1>1. 0 \in T
  BY SumsAdd
<1>2. ASSUME NEW n \in Nat, n \in T PROVE n + 1 \in T
  <2>1. CASE n + 1 <= Len(s)
    <3>1. Sums(s)[n + 1] = Sums(s)[n] + s[n + 1]
      BY <2>1, SumsAdd
    <3>2. s[n + 1] \in Nat /\ Sums(s)[n] \in Nat
      BY <1>2, <2>1
    <3> QED BY <3>1, <3>2
  <2>2. CASE ~(n + 1 <= Len(s))
    BY <2>2
  <2> QED BY <2>1, <2>2
<1> HIDE DEF T
<1>3. Nat \subseteq T
  BY <1>1, <1>2, NaturalsInSet
<1> QED BY <1>3 DEF T

-----------------------------------------------------------------------------
(* FolderSearch.                                                           *)

LEMMA QueryNumbers ==
  /\ Cardinality(Queries) \in Nat /\ Queries = 1 .. Cardinality(Queries)
  /\ MaxFile \in Nat /\ PerQuery \in Nat /\ AllMatches \in Nat /\ MaxScan \in Nat /\ MaxScan # 0
BY QueriesAssumption, LimitsAssumption, FS_CardinalityType

LEMMA AskedQueries == Asked \subseteq Queries
<1>1. 1 \in Queries
  BY QueryNumbers, QueriesAssumption
<1> QED BY <1>1 DEF Asked

FolderTypes ==
  /\ folder \in Seq(Item) /\ task \in Tasks /\ next \in 1 .. Len(folder) + 1
  /\ matched \in [Queries -> 0 .. PerQuery] /\ total \in 0 .. MaxScan
  /\ cut \subseteq Queries /\ truncated \in BOOLEAN /\ over \in BOOLEAN

(* What has been counted of the entries so far is right as long as nothing *)
(* was left out.  A search that has used up its scan may have left         *)
(* something out, and says so at the end.                                  *)
Scans == task = "find_files" \/ total < MaxScan
UnreadSoFar == {n \in Unread : n < next}
CountsOK ==
  /\ skipped = Cardinality(UnreadSoFar)
  /\ \A q \in Asked : ~SaysCut(q) => matched[q] = Expected(q)[next - 1]
(* A batch has kept the reserve of the requests to come, and answered all  *)
(* files before them that can be read, unless it says otherwise.           *)
BatchOK ==
  /\ used \in Nat /\ answers \in Seq(BOOLEAN)
  /\ task = "batch" =>
       /\ Len(answers) = next - 1
       /\ used + (Len(folder) - (next - 1)) * Reserve <= BatchBudget
       /\ ~truncated => \A n \in 1 .. next - 1 : answers[n] = Readable(folder[n])
       /\ over => next > Len(folder)
FolderInv ==
  /\ FolderTypes
  /\ task = "find_files" /\ truncated => over
  /\ task = "search_text" /\ total >= MaxScan => truncated
  /\ task # "batch" /\ ~truncated => /\ over => next > Len(folder) /\ Scans
                                     /\ Scans => CountsOK

(* At the end of a walk the invariant is the promise of the search.        *)
LEMMA CompleteAtEnd ==
  ASSUME FolderInv, BatchOK
  PROVE  UntruncatedIsComplete
<1>0. CASE over /\ task = "batch"
  <2>1. folder \in Seq(Item) /\ next \in 1 .. Len(folder) + 1 /\ next > Len(folder) /\ used \in Nat
    BY <1>0 DEF FolderInv, FolderTypes, BatchOK
  <2>2. next - 1 = Len(folder)
    BY <2>1
  <2>3. used + 0 * Reserve <= BatchBudget
    BY <1>0, <2>2 DEF BatchOK
  <2>4. used <= BatchBudget
    BY <2>1, <2>3, LimitsAssumption
  <2>5. ~truncated => \A n \in 1 .. Len(folder) : answers[n] = Readable(folder[n])
    BY <1>0, <2>2 DEF BatchOK
  <2> QED BY <1>0, <2>4, <2>5 DEF UntruncatedIsComplete
<1> SUFFICES ASSUME over, task # "batch", NEW q \in Asked, ~SaysCut(q)
             PROVE  /\ matched[q] = Expected(q)[Len(folder)]
                    /\ skipped = Cardinality(Unread)
  BY <1>0 DEF UntruncatedIsComplete
<1>1. ~truncated
  BY DEF SaysCut
<1>2. CountsOK /\ next > Len(folder) /\ next \in 1 .. Len(folder) + 1 /\ Len(folder) \in Nat
  BY <1>1 DEF FolderInv, FolderTypes
<1>3. next - 1 = Len(folder)
  BY <1>2
<1>4. UnreadSoFar = Unread
  BY <1>2, <1>3 DEF UnreadSoFar, Unread
<1> QED BY <1>2, <1>3, <1>4 DEF CountsOK

(* What each entry adds.                                                   *)
LEMMA ExpectedAdds ==
  ASSUME FolderTypes, NEW q \in Queries
  PROVE  /\ Expected(q)[0] = 0
         /\ \A n \in 1 .. Len(folder) : Expected(q)[n] = Expected(q)[n - 1] + HitsOf(q, folder[n])
<1> DEFINE s == [n \in 1 .. Len(folder) |-> HitsOf(q, folder[n])]
<1>1. Len(folder) \in Nat /\ Len(s) = Len(folder)
  BY DEF FolderTypes
<1>2. Expected(q) = Sums(s)
  BY DEF Expected
<1>3. \A n \in 1 .. Len(folder) : s[n] = HitsOf(q, folder[n])
  OBVIOUS
<1> HIDE DEF s
<1> QED BY <1>1, <1>2, <1>3, SumsAdd

LEMMA EntryItem ==
  ASSUME FolderTypes, next <= Len(folder)
  PROVE  /\ Entry \in Item /\ next \in 1 .. Len(folder) /\ next \in Nat
         /\ \A q \in Queries : Entry.hits[q] \in Nat
         /\ Entry.kind \in {"folder", "other", "file"} /\ Entry.size \in Nat
<1>1. next \in 1 .. Len(folder) /\ next \in Nat /\ folder \in Seq(Item)
  BY DEF FolderTypes
<1>2. Entry \in Item
  BY <1>1, ElementOfSeq DEF Entry
<1> QED BY <1>1, <1>2 DEF Item

LEMMA UnreadIsFinite ==
  ASSUME FolderTypes, NEW k \in Int
  PROVE  IsFiniteSet({n \in Unread : n < k})
<1>1. IsFiniteSet(1 .. Len(folder))
  BY FS_Interval DEF FolderTypes
<1>2. {n \in Unread : n < k} \subseteq 1 .. Len(folder)
  BY DEF Unread
<1> QED BY <1>1, <1>2, FS_Subset

(* A visited entry is counted once.                                        *)
LEMMA OneMore ==
  ASSUME FolderTypes, next <= Len(folder), folder' = folder, task' = task, next' = next + 1
  PROVE  /\ Entry.kind # "folder" /\ ~Readable(Entry)
              => Cardinality(UnreadSoFar') = Cardinality(UnreadSoFar) + 1
         /\ Entry.kind = "folder" \/ Readable(Entry) => UnreadSoFar' = UnreadSoFar
         /\ \A q \in Queries : Expected(q)'[next' - 1] = Expected(q)[next - 1] + HitsOf(q, Entry)
<1>1. next \in 1 .. Len(folder) /\ next \in Nat
  BY EntryItem
<1>2. Unread' = Unread
  BY DEF Unread, Readable
<1>3. \A q \in Queries : Expected(q)' = Expected(q)
  BY DEF Expected, HitsOf, Readable
<1>4. \A n \in Unread : n \in Int
  BY DEF Unread
<1>5. next \in Unread <=> Entry.kind # "folder" /\ ~Readable(Entry)
  BY <1>1 DEF Unread, Entry
<1>6. UnreadSoFar' = UnreadSoFar \cup {n \in Unread : n = next}
  BY <1>1, <1>2, <1>4 DEF UnreadSoFar
<1>7. next \notin UnreadSoFar /\ IsFiniteSet(UnreadSoFar)
  BY <1>1, UnreadIsFinite DEF UnreadSoFar
<1>8. ASSUME next \in Unread PROVE Cardinality(UnreadSoFar') = Cardinality(UnreadSoFar) + 1
  <2>1. UnreadSoFar' = UnreadSoFar \cup {next}
    BY <1>6, <1>8
  <2> QED BY <1>7, <2>1, FS_AddElement
<1>9. ASSUME next \notin Unread PROVE UnreadSoFar' = UnreadSoFar
  BY <1>6, <1>9
<1>10. ASSUME NEW q \in Queries
       PROVE  Expected(q)'[next' - 1] = Expected(q)[next - 1] + HitsOf(q, Entry)
  <2>1. next' - 1 = next
    BY <1>1
  <2> QED BY <1>1, <1>3, <2>1, ExpectedAdds DEF Entry
<1> QED BY <1>5, <1>8, <1>9, <1>10

(* The matches of the queries before one.                                  *)
LEMMA GivenBounds ==
  ASSUME FolderTypes, next <= Len(folder), NEW q \in Queries
  PROVE  /\ Given(q) \in Nat
         /\ matched[q] + Given(q) \in 0 .. PerQuery
         /\ q \in Asked /\ Candidates(q) <= Given(q) => Given(q) = Entry.hits[q]
<1> DEFINE s == [p \in Queries |-> IF p \in Asked THEN Taken(p) ELSE 0]
           N == Cardinality(Queries)
<1>1. N \in Nat /\ Queries = 1 .. N /\ PerQuery \in Nat /\ AllMatches \in Nat
  BY QueryNumbers
<1>2. \A p \in Queries : matched[p] \in 0 .. PerQuery /\ Entry.hits[p] \in Nat
  BY EntryItem DEF FolderTypes
<1>3. \A p \in Queries : /\ Taken(p) \in 0 .. PerQuery - matched[p]
                         /\ Candidates(p) \in Nat
                         /\ Taken(p) <= Candidates(p)
                         /\ Candidates(p) <= Taken(p) => Taken(p) = Entry.hits[p]
  BY <1>1, <1>2 DEF Taken, Candidates, Least
<1>4. \A p \in Queries : Taken(p) \in Nat
  BY <1>1, <1>2, <1>3
<1>5. s \in Seq(Nat) /\ Len(s) = N
  BY <1>1, <1>4
<1>6. \A n \in 0 .. N : Before[n] \in Nat
  <2>1. Before = Sums(s)
    BY DEF Before
  <2> HIDE DEF s
  <2> QED BY <1>5, <2>1, SumsNatural
<1>7. Len(matched) = N /\ matched \in Seq(Nat)
  BY <1>1, <1>2 DEF FolderTypes
<1>8. Room \in Nat
  <2>1. Count(matched) \in Nat
    BY <1>1, <1>7, SumsNatural DEF Count
  <2> QED BY <1>1, <2>1 DEF Room
<1>9. Before[q - 1] \in Nat
  BY <1>1, <1>6
<1>10. Given(q) \in 0 .. Taken(q)
  BY <1>3, <1>4, <1>8, <1>9 DEF Given, Least
<1>11. matched[q] + Given(q) \in 0 .. PerQuery /\ Given(q) \in Nat
  BY <1>1, <1>2, <1>3, <1>10
<1>12. Candidates(q) <= Given(q) => Given(q) = Entry.hits[q]
  BY <1>2, <1>3, <1>4, <1>10
<1> QED BY <1>11, <1>12

LEMMA UsedBounds ==
  ASSUME FolderTypes, next <= Len(folder), total < MaxScan
  PROVE  /\ total + Used \in 0 .. MaxScan
         /\ total + Used < MaxScan /\ Used # Entry.size => ~(Entry.size <= MaxFile)
         /\ Used # Entry.size => Used < Entry.size
<1>1. total \in 0 .. MaxScan /\ MaxFile \in Nat /\ MaxScan \in Nat /\ Entry.size \in Nat
  BY QueryNumbers, EntryItem DEF FolderTypes
<1> QED BY <1>1 DEF Used, Least

(* FolderInv holds before the first entry.                                 *)
LEMMA FolderStart == FolderInit => FolderInv
<1> SUFFICES ASSUME FolderInit PROVE FolderInv
  OBVIOUS
<1>1. folder \in Seq(Item) /\ Len(folder) \in Nat
  BY FoldersAssumption DEF FolderInit
<1>2. FolderTypes
  <2>1. next \in 1 .. Len(folder) + 1 /\ 0 \in 0 .. PerQuery /\ 0 \in 0 .. MaxScan
    BY <1>1, QueryNumbers DEF FolderInit
  <2>2. matched \in [Queries -> 0 .. PerQuery] /\ total \in 0 .. MaxScan
    BY <2>1 DEF FolderInit
  <2> QED BY <1>1, <2>1, <2>2 DEF FolderInit, FolderTypes
<1>3. UnreadSoFar = {}
  <2>1. \A n \in Unread : n >= 1
    BY DEF Unread
  <2> QED BY <2>1 DEF UnreadSoFar, FolderInit, Unread
<1>4. \A q \in Queries : Expected(q)[next - 1] = 0
  BY <1>2, ExpectedAdds DEF FolderInit
<1>5. CountsOK
  BY <1>3, <1>4, AskedQueries, FS_EmptySet DEF CountsOK, FolderInit
<1>6. ~truncated /\ ~over /\ ~(total >= MaxScan)
  BY QueryNumbers DEF FolderInit
<1> QED BY <1>2, <1>5, <1>6 DEF FolderInv

LEMMA VisitStep ==
  ASSUME FolderInv, Visit
  PROVE  /\ FolderTypes /\ ~over /\ task # "batch" /\ next <= Len(folder)
         /\ folder' = folder /\ task' = task /\ next' = next + 1
         /\ next' \in 1 .. Len(folder) + 1 /\ Asked' = Asked /\ Asked \subseteq Queries
         /\ task = "find_files" => ~truncated
BY AskedQueries DEF FolderInv, Visit, Walking, FolderTypes, Asked

LEMMA WalkLimitKeeps == FolderInv /\ WalkLimit => FolderInv'
<1> SUFFICES ASSUME FolderInv, WalkLimit PROVE FolderInv'
  OBVIOUS
<1>1. FolderTypes' /\ truncated' /\ over'
  BY DEF FolderInv, WalkLimit, FolderTypes
<1> QED BY <1>1 DEF FolderInv

LEMMA PassKeeps == FolderInv /\ Pass => FolderInv'
<1> SUFFICES ASSUME FolderInv, Pass PROVE FolderInv'
  OBVIOUS
<1>1. /\ FolderTypes /\ ~over /\ task # "batch" /\ next <= Len(folder)
      /\ folder' = folder /\ task' = task /\ next' = next + 1
      /\ next' \in 1 .. Len(folder) + 1 /\ Asked' = Asked /\ Asked \subseteq Queries
  BY VisitStep DEF Pass
<1>2. UNCHANGED <<total, matched, cut, truncated, over>>
  BY DEF Pass
<1>3. FolderTypes'
  BY <1>1, <1>2 DEF FolderTypes
<1>4. Entry.kind \in {"folder", "other"} /\ ~Readable(Entry)
  BY <1>1, EntryItem DEF Pass, Readable
<1>5. ASSUME ~truncated, Scans PROVE CountsOK'
  <2>1. CountsOK
    BY <1>1, <1>5 DEF FolderInv
  <2>2. skipped' = Cardinality(UnreadSoFar)'
    BY <1>1, <1>4, <2>1, OneMore DEF Pass, CountsOK
  <2>3. ASSUME NEW q \in Asked, ~SaysCut(q) PROVE matched[q] = Expected(q)'[next' - 1]
    <3>1. Expected(q)'[next' - 1] = Expected(q)[next - 1] + 0
      BY <1>1, <1>4, OneMore DEF HitsOf
    <3>2. matched[q] \in 0 .. PerQuery /\ matched[q] = Expected(q)[next - 1]
      BY <1>1, <2>1, <2>3 DEF FolderTypes, CountsOK
    <3> QED BY <3>1, <3>2
  <2> QED BY <1>1, <1>2, <2>2, <2>3 DEF CountsOK, SaysCut
<1> QED BY <1>1, <1>2, <1>3, <1>5 DEF FolderInv, Scans

LEMMA FindKeeps == FolderInv /\ Find => FolderInv'
<1> SUFFICES ASSUME FolderInv, Find PROVE FolderInv'
  OBVIOUS
<1>1. /\ FolderTypes /\ ~over /\ task # "batch" /\ next <= Len(folder)
      /\ folder' = folder /\ task' = task /\ next' = next + 1
      /\ next' \in 1 .. Len(folder) + 1 /\ Asked' = Asked /\ Asked \subseteq Queries
      /\ task = "find_files" /\ ~truncated
  BY VisitStep DEF Find, File
<1>2. UNCHANGED <<total, cut, skipped>> /\ Entry.kind = "file"
  BY DEF Find, File
<1>3. PerQuery \in Nat /\ \A q \in Queries : matched[q] \in 0 .. PerQuery
  BY <1>1, QueryNumbers DEF FolderTypes
<1>4. \A q \in Served(Room) : q \in Wanting /\ q \in Queries /\ matched[q] < PerQuery
  BY DEF Served, Wanting
<1>5. matched' \in [Queries -> 0 .. PerQuery]
  <2>1. \A q \in Queries : matched[q] + (IF q \in Served(Room) THEN 1 ELSE 0) \in 0 .. PerQuery
    BY <1>3, <1>4
  <2> QED BY <2>1 DEF Find
<1>6. truncated' \in BOOLEAN /\ over' = truncated'
  <2> DEFINE stop == Served(Room) # Wanting \/ Count(matched') >= AllMatches \/ AllFull(matched')
  <2>1. truncated' = stop /\ over' = stop /\ stop \in BOOLEAN
    BY DEF Find
  <2> HIDE DEF stop
  <2> QED BY <2>1
<1>7. FolderTypes'
  BY <1>1, <1>2, <1>5, <1>6 DEF FolderTypes
<1>8. ASSUME ~truncated' PROVE CountsOK'
  <2>1. CountsOK
    BY <1>1 DEF FolderInv, Scans
  <2>2. Readable(Entry)
    BY <1>1, <1>2 DEF Readable
  <2>3. skipped' = Cardinality(UnreadSoFar)'
    BY <1>1, <1>2, <2>1, <2>2, OneMore DEF CountsOK
  <2>4. Served(Room) = Wanting
    BY <1>8 DEF Find
  <2>5. ASSUME NEW q \in Asked, ~SaysCut(q)' PROVE matched'[q] = Expected(q)'[next' - 1]
    <3>1. Entry.hits[q] \in Nat /\ q \in Queries
      BY <1>1, EntryItem
    <3>2. matched'[q] = matched[q] + (IF q \in Wanting THEN 1 ELSE 0)
      BY <2>4, <3>1 DEF Find
    <3>3. ~(matched'[q] >= PerQuery) /\ q \notin cut
      BY <1>1, <1>2, <2>5 DEF SaysCut
    <3>4. matched[q] < PerQuery
      BY <1>3, <3>1, <3>2, <3>3
    <3>5. q \in Wanting <=> Entry.hits[q] > 0
      BY <3>1, <3>4 DEF Wanting
    <3>6. HitsOf(q, Entry) = IF q \in Wanting THEN 1 ELSE 0
      BY <1>1, <2>2, <3>1, <3>5 DEF HitsOf, Least
    <3>7. matched[q] = Expected(q)[next - 1]
      BY <1>1, <1>3, <2>1, <3>1, <3>3, <3>4 DEF CountsOK, SaysCut
    <3> QED BY <1>1, <3>1, <3>2, <3>6, <3>7, OneMore
  <2> QED BY <1>1, <2>3, <2>5 DEF CountsOK
<1>9. over' = truncated'
  BY <1>6
<1> QED BY <1>1, <1>7, <1>8, <1>9 DEF FolderInv, Scans

LEMMA UnscannedKeeps == FolderInv /\ Unscanned => FolderInv'
<1> SUFFICES ASSUME FolderInv, Unscanned PROVE FolderInv'
  OBVIOUS
<1>1. /\ FolderTypes /\ ~over /\ task # "batch" /\ next <= Len(folder)
      /\ folder' = folder /\ task' = task /\ next' = next + 1
      /\ next' \in 1 .. Len(folder) + 1 /\ Asked' = Asked /\ Asked \subseteq Queries
      /\ task \in {"search_text", "search_texts"}
  BY VisitStep DEF Unscanned, File
<1>2. UNCHANGED <<total, matched, cut>> /\ Entry.kind = "file"
  BY DEF Unscanned, File
<1>3. CASE Entry.text /\ total >= MaxScan /\ truncated' = TRUE /\ over' = TRUE
  <2>1. FolderTypes'
    BY <1>1, <1>2, <1>3 DEF FolderTypes
  <2> QED BY <1>1, <1>3, <2>1 DEF FolderInv
<1>4. CASE /\ ~Entry.text \/ (Entry.read = "fails" /\ total < MaxScan)
           /\ skipped' = skipped + 1 /\ UNCHANGED <<truncated, over>>
  <2>1. FolderTypes'
    BY <1>1, <1>2, <1>4 DEF FolderTypes
  <2>2. ~Readable(Entry)
    BY <1>1, <1>4 DEF Readable
  <2>3. ASSUME ~truncated, Scans PROVE CountsOK'
    <3>1. CountsOK
      BY <1>1, <2>3 DEF FolderInv
    <3>2. skipped' = Cardinality(UnreadSoFar)'
      BY <1>1, <1>2, <1>4, <2>2, <3>1, OneMore DEF CountsOK
    <3>3. ASSUME NEW q \in Asked, ~SaysCut(q) PROVE matched[q] = Expected(q)'[next' - 1]
      <4>1. Expected(q)'[next' - 1] = Expected(q)[next - 1] + 0
        BY <1>1, <2>2, OneMore DEF HitsOf
      <4>2. matched[q] \in 0 .. PerQuery /\ matched[q] = Expected(q)[next - 1]
        BY <1>1, <3>1, <3>3 DEF FolderTypes, CountsOK
      <4> QED BY <4>1, <4>2
    <3> QED BY <1>1, <1>2, <1>4, <3>2, <3>3 DEF CountsOK, SaysCut
  <2> QED BY <1>1, <1>2, <1>4, <2>1, <2>3 DEF FolderInv, Scans
<1> QED BY <1>3, <1>4 DEF Unscanned

LEMMA ScanKeeps == FolderInv /\ Scan => FolderInv'
<1> SUFFICES ASSUME FolderInv, Scan PROVE FolderInv'
  OBVIOUS
<1>1. /\ FolderTypes /\ ~over /\ task # "batch" /\ next <= Len(folder)
      /\ folder' = folder /\ task' = task /\ next' = next + 1
      /\ next' \in 1 .. Len(folder) + 1 /\ Asked' = Asked /\ Asked \subseteq Queries
      /\ task \in {"search_text", "search_texts"} /\ task # "find_files"
  BY VisitStep DEF Scan, File
<1>2. /\ Entry.kind = "file" /\ Entry.text /\ Entry.read # "fails" /\ total < MaxScan
      /\ total' = total + Used
  BY DEF Scan, File
<1>3. /\ total' \in 0 .. MaxScan
      /\ total' < MaxScan /\ Used # Entry.size => ~(Entry.size <= MaxFile)
  BY <1>1, <1>2, UsedBounds
<1>4. truncated \in BOOLEAN /\ over \in BOOLEAN /\ cut \subseteq Queries
  BY <1>1 DEF FolderTypes
<1>5. CASE /\ ~Valid /\ skipped' = skipped + 1 /\ UNCHANGED <<matched, cut, over>>
           /\ truncated' = (truncated \/ (task = "search_text" /\ total' >= MaxScan))
  <2>1. FolderTypes'
    BY <1>1, <1>3, <1>5 DEF FolderTypes
  <2>2. ASSUME total' < MaxScan PROVE ~Readable(Entry)
    BY <1>1, <1>3, <1>5, <2>2 DEF Readable, Valid
  <2>3. ASSUME ~truncated', Scans' PROVE CountsOK'
    <3>1. total' < MaxScan /\ ~truncated
      BY <1>1, <1>5, <2>3 DEF Scans
    <3>2. CountsOK
      BY <1>1, <1>2, <3>1 DEF FolderInv, Scans
    <3>3. skipped' = Cardinality(UnreadSoFar)'
      BY <1>1, <1>2, <1>5, <2>2, <3>1, <3>2, OneMore DEF CountsOK
    <3>4. ASSUME NEW q \in Asked, ~SaysCut(q) PROVE matched[q] = Expected(q)'[next' - 1]
      <4>1. Expected(q)'[next' - 1] = Expected(q)[next - 1] + 0
        BY <1>1, <2>2, <3>1, OneMore DEF HitsOf
      <4>2. matched[q] \in 0 .. PerQuery /\ matched[q] = Expected(q)[next - 1]
        BY <1>1, <3>2, <3>4 DEF FolderTypes, CountsOK
      <4> QED BY <4>1, <4>2
    <3>5. \A q \in Asked : ~SaysCut(q)' => ~SaysCut(q)
      BY <1>1, <1>5, <3>1 DEF SaysCut
    <3> QED BY <1>1, <1>5, <3>3, <3>4, <3>5 DEF CountsOK
  <2> QED BY <1>1, <1>5, <2>1, <2>3 DEF FolderInv
<1>6. CASE /\ Valid /\ matched' = [q \in Queries |-> matched[q] + Given(q)]
           /\ cut' = cut \cup {q \in Asked : Candidates(q) > Given(q)}
           /\ over' = (Short \/ AllFull(matched') \/ (task = "search_text" /\ (cut' # {} \/ total' >= MaxScan)))
           /\ truncated' = (truncated \/ over') /\ UNCHANGED skipped
  <2>1. matched' \in [Queries -> 0 .. PerQuery]
    BY <1>1, <1>6, GivenBounds
  <2>2. over' \in BOOLEAN /\ truncated' \in BOOLEAN
    <3> DEFINE stop == Short \/ AllFull(matched') \/ (task = "search_text" /\ (cut' # {} \/ total' >= MaxScan))
    <3>1. over' = stop /\ stop \in BOOLEAN
      BY <1>6
    <3> HIDE DEF stop
    <3> QED BY <1>4, <1>6, <3>1
  <2>3. FolderTypes'
    BY <1>1, <1>3, <1>4, <1>6, <2>1, <2>2 DEF FolderTypes
  <2>4. Readable(Entry)
    BY <1>1, <1>2, <1>6 DEF Valid, Readable
  <2>5. ASSUME ~truncated' PROVE ~over' /\ CountsOK'
    <3>1. ~over' /\ ~truncated
      BY <1>6, <2>2, <2>5
    <3>2. CountsOK
      BY <1>1, <1>2, <3>1 DEF FolderInv, Scans
    <3>3. skipped' = Cardinality(UnreadSoFar)'
      BY <1>1, <1>6, <2>4, <3>2, OneMore DEF CountsOK
    <3>4. ASSUME NEW q \in Asked, ~SaysCut(q)' PROVE matched'[q] = Expected(q)'[next' - 1]
      <4>1. q \in Queries /\ q \notin cut' /\ ~SaysCut(q)
        BY <1>1, <1>6, <3>1, <3>4 DEF SaysCut
      <4>2. ~(Candidates(q) > Given(q))
        BY <1>6, <4>1
      <4>3. Given(q) = Entry.hits[q]
        <5>1. Candidates(q) \in Int /\ Given(q) \in Int
          BY <1>1, <4>1, EntryItem, QueryNumbers, GivenBounds DEF Candidates, Least, FolderTypes
        <5>2. Candidates(q) <= Given(q)
          BY <4>2, <5>1
        <5> QED BY <1>1, <4>1, <5>2, GivenBounds
      <4>4. HitsOf(q, Entry) = Entry.hits[q]
        BY <1>1, <2>4 DEF HitsOf
      <4>5. matched[q] = Expected(q)[next - 1]
        BY <3>2, <4>1 DEF CountsOK
      <4> QED BY <1>1, <1>6, <4>1, <4>3, <4>4, <4>5, OneMore
    <3> QED BY <1>1, <3>1, <3>3, <3>4 DEF CountsOK
  <2>6. task = "search_text" /\ total' >= MaxScan => truncated'
    BY <1>6
  <2> QED BY <1>1, <2>3, <2>5, <2>6 DEF FolderInv
<1> QED BY <1>5, <1>6 DEF Scan

LEMMA EndKeeps == FolderInv /\ EndOfWalk => FolderInv'
<1> SUFFICES ASSUME FolderInv, EndOfWalk PROVE FolderInv'
  OBVIOUS
<1>1. /\ UNCHANGED <<folder, task, next, entries, files, total, matched, cut, skipped>>
      /\ over' = TRUE /\ task # "batch" /\ next > Len(folder) /\ FolderTypes /\ ~over
      /\ truncated' = (truncated \/ (task = "search_texts" /\ total >= MaxScan))
  BY DEF EndOfWalk, FolderInv
<1>2. FolderTypes'
  BY <1>1 DEF FolderTypes
<1>3. ASSUME ~truncated' PROVE ~truncated
  BY <1>1, <1>3
<1>4. UnreadSoFar' = UnreadSoFar /\ Asked' = Asked /\ \A q \in Asked : Expected(q)' = Expected(q)
  BY <1>1 DEF UnreadSoFar, Unread, Readable, Asked, Expected, HitsOf
<1>5. ASSUME ~truncated', Scans' PROVE CountsOK'
  <2>1. CountsOK
    BY <1>1, <1>3, <1>5 DEF FolderInv, Scans
  <2>2. \A q \in Asked : ~SaysCut(q)' => ~SaysCut(q)
    BY <1>1, <1>3, <1>5 DEF SaysCut
  <2> QED BY <1>1, <1>4, <2>1, <2>2 DEF CountsOK
<1>6. ASSUME ~truncated' PROVE Scans'
  <2>1. total \in 0 .. MaxScan /\ MaxScan \in Nat /\ task \in {"find_files", "search_text", "search_texts"}
    BY <1>1, QueryNumbers DEF FolderTypes, Tasks
  <2>2. task = "search_texts" => ~(total >= MaxScan)
    BY <1>1, <1>6
  <2>3. task = "search_text" => ~(total >= MaxScan)
    BY <1>3, <1>6 DEF FolderInv
  <2> QED BY <1>1, <2>1, <2>2, <2>3 DEF Scans
<1>7. task = "search_text" /\ total >= MaxScan => truncated'
  BY <1>1 DEF FolderInv
<1> QED BY <1>1, <1>2, <1>5, <1>6, <1>7 DEF FolderInv

LEMMA BatchKeeps == FolderInv /\ BatchOK /\ Batch => FolderInv' /\ BatchOK'
<1> SUFFICES ASSUME FolderInv, BatchOK, Batch PROVE FolderInv' /\ BatchOK'
  OBVIOUS
<1>1. /\ task = "batch" /\ task' = "batch" /\ FolderTypes /\ next' = next + 1 /\ next <= Len(folder)
      /\ over' = (next' > Len(folder)) /\ UNCHANGED <<folder, matched, total, cut>>
  BY DEF Batch, FolderInv
<1>2. PICK wanted \in AnswerSizes :
        LET fits == used + wanted + Rest * Reserve <= BatchBudget
        IN /\ used' = used + (IF fits THEN wanted ELSE Reserve)
           /\ answers' = Append(answers, fits /\ ~truncated /\ Answered)
           /\ truncated' = (truncated \/ ~fits)
  BY DEF Batch
<1> DEFINE fits == used + wanted + Rest * Reserve <= BatchBudget
<1>3. /\ used' = used + (IF fits THEN wanted ELSE Reserve)
      /\ answers' = Append(answers, fits /\ ~truncated /\ Answered)
      /\ truncated' = (truncated \/ ~fits)
  BY <1>2
<1>4. /\ used \in Nat /\ answers \in Seq(BOOLEAN) /\ Len(answers) = next - 1
      /\ used + (Len(folder) - (next - 1)) * Reserve <= BatchBudget
      /\ ~truncated => \A n \in 1 .. next - 1 : answers[n] = Readable(folder[n])
  BY <1>1 DEF BatchOK
<1>5. folder \in Seq(Item) /\ next \in 1 .. Len(folder) + 1 /\ truncated \in BOOLEAN
  BY <1>1 DEF FolderTypes
<1>6. wanted \in Nat /\ Reserve \in Nat /\ BatchBudget \in Nat /\ Rest \in Nat
  BY <1>1, <1>5, LimitsAssumption DEF Rest
<1>7. used' + Rest * Reserve <= BatchBudget
  <2>1. \A m, k \in Nat : (m + 1) * k = m * k + k
    OBVIOUS
  <2>2. Len(folder) - (next - 1) = Rest + 1
    BY <1>5 DEF Rest
  <2>3. used + Reserve + Rest * Reserve <= BatchBudget
    <3>1. (Rest + 1) * Reserve = Rest * Reserve + Reserve
      BY <1>6, <2>1
    <3>2. PICK kept \in Nat : kept = Rest * Reserve
      BY <1>6
    <3> QED BY <1>4, <1>6, <2>2, <3>1, <3>2
  <2> QED BY <1>3, <2>3
<1>8. Len(folder) - (next' - 1) = Rest
  BY <1>1, <1>5 DEF Rest
<1>9. truncated' \in BOOLEAN /\ over' \in BOOLEAN
  BY <1>1, <1>3, <1>5
<1> DEFINE done1 == fits /\ ~truncated /\ Answered
<1>10. done1 \in BOOLEAN /\ answers' = Append(answers, done1)
  BY <1>3
<1>11. ~truncated' => done1 = Readable(folder[next])
  BY <1>1, <1>3 DEF Answered, Readable, Entry
<1> HIDE DEF fits, done1
<1>12. /\ answers' \in Seq(BOOLEAN) /\ Len(answers') = next /\ answers'[next] = done1
       /\ \A n \in 1 .. next - 1 : answers'[n] = answers[n]
  BY <1>4, <1>5, <1>10
<1>13. ~truncated' => \A n \in 1 .. next : answers'[n] = Readable(folder[n])
  <2> SUFFICES ASSUME ~truncated', NEW n \in 1 .. next PROVE answers'[n] = Readable(folder[n])
    OBVIOUS
  <2>1. CASE n = next BY <1>11, <1>12, <2>1
  <2>2. CASE n # next
    <3>1. n \in 1 .. next - 1 /\ ~truncated BY <1>3, <1>5, <2>2
    <3> QED BY <1>4, <1>12, <3>1
  <2> QED BY <2>1, <2>2
<1>14. used' \in Nat BY <1>3, <1>4, <1>6
<1>15. FolderTypes'
  BY <1>1, <1>9 DEF FolderTypes
<1>16. next' - 1 = next
  BY <1>1, <1>5
<1>17. \A n \in 1 .. next : Readable(folder[n])' = Readable(folder[n])
  BY <1>1 DEF Readable
<1>18. BatchOK'
  BY <1>1, <1>7, <1>8, <1>12, <1>13, <1>14, <1>16, <1>17 DEF BatchOK, Readable
<1> QED BY <1>1, <1>15, <1>18 DEF FolderInv

(* A walk is no batch, and leaves the answers of one alone.                *)
LEMMA WalkApart ==
  ASSUME BatchOK, WalkLimit \/ Pass \/ Find \/ Unscanned \/ Scan \/ EndOfWalk PROVE BatchOK'
<1>1. task # "batch" /\ UNCHANGED <<task, used, answers>>
  BY DEF WalkLimit, Pass, Find, Unscanned, Scan, EndOfWalk, File, Visit, Walking
<1> QED BY <1>1 DEF BatchOK

LEMMA FolderStutter ==
  ASSUME FolderInv, BatchOK, UNCHANGED folderVars
  PROVE  FolderInv' /\ BatchOK'
<1> USE DEF folderVars
<1>1. FolderTypes'
  BY DEF FolderInv, FolderTypes
<1>2. CountsOK' = CountsOK /\ Scans' = Scans
  BY DEF CountsOK, Scans, UnreadSoFar, Unread, Readable, Asked, Expected, HitsOf, SaysCut
<1>3. BatchOK'
  BY DEF BatchOK, Readable
<1> QED BY <1>1, <1>2, <1>3 DEF FolderInv

(* Every step of a walk and of a batch keeps both.                         *)
LEMMA FolderStep == FolderInv /\ BatchOK /\ FolderNext => FolderInv' /\ BatchOK'
BY WalkLimitKeeps, PassKeeps, FindKeeps, UnscannedKeeps, ScanKeeps, EndKeeps, BatchKeeps, WalkApart
   DEF FolderNext

-----------------------------------------------------------------------------
(* Pieces of sequences.                                                    *)

LEMMA FirstIs ==
  ASSUME NEW S, NEW s \in Seq(S), NEW n \in Nat
  PROVE  /\ First(s, n) \in Seq(S) /\ Len(First(s, n)) = Smaller(n, Len(s))
         /\ \A i \in 1 .. Smaller(n, Len(s)) : First(s, n)[i] = s[i]
         /\ Len(s) <= n => First(s, n) = s
<1> DEFINE m == IF n < Len(s) THEN n ELSE Len(s)
<1>1. m \in 0 .. Len(s) /\ m = Smaller(n, Len(s)) /\ Len(s) \in Nat
  BY DEF Smaller
<1>2. First(s, n) = SubSeq(s, 1, m)
  BY DEF First
<1>3. \A i \in 1 .. m : s[i] \in S
  BY <1>1
<1> HIDE DEF m
<1>4. /\ SubSeq(s, 1, m) \in Seq(S) /\ Len(SubSeq(s, 1, m)) = m
      /\ \A i \in 1 .. m : SubSeq(s, 1, m)[i] = s[i]
  BY <1>1, <1>3, SubSeqProperties
<1>5. Len(s) <= n => m = Len(s)
  BY <1>1 DEF Smaller
<1> QED BY <1>1, <1>2, <1>4, <1>5, SubSeqFull

LEMMA EndingIs ==
  ASSUME NEW S, NEW s \in Seq(S), NEW n \in Nat
  PROVE  /\ Ending(s, n) \in Seq(S) /\ Len(Ending(s, n)) = Smaller(n, Len(s))
         /\ \A i \in 1 .. Smaller(n, Len(s)) :
              Ending(s, n)[i] = s[Len(s) - Smaller(n, Len(s)) + i]
<1> DEFINE m == Smaller(n, Len(s))
<1>1. m \in 0 .. Len(s) /\ Len(s) \in Nat
  BY DEF Smaller
<1>2. (IF n < Len(s) THEN Len(s) - n + 1 ELSE 1) = Len(s) - m + 1
  BY <1>1 DEF Smaller
<1>3. Ending(s, n) = SubSeq(s, Len(s) - m + 1, Len(s))
  BY <1>2 DEF Ending
<1> HIDE DEF m
<1>4. \A i \in Len(s) - m + 1 .. Len(s) : s[i] \in S
  BY <1>1
<1>5. /\ SubSeq(s, Len(s) - m + 1, Len(s)) \in Seq(S)
      /\ Len(SubSeq(s, Len(s) - m + 1, Len(s))) = m
      /\ \A i \in 1 .. m : SubSeq(s, Len(s) - m + 1, Len(s))[i] = s[Len(s) - m + i]
  <2> DEFINE from == Len(s) - m + 1
  <2>1. from \in Int /\ Len(s) - from + 1 = m /\ (from <= Len(s) <=> m # 0)
    BY <1>1
  <2>2. \A i \in 1 .. m : from + i - 1 = Len(s) - m + i
    BY <1>1
  <2> HIDE DEF from
  <2>3. \A i \in from .. Len(s) : s[i] \in S
    BY <1>4 DEF from
  <2>4. /\ SubSeq(s, from, Len(s)) \in Seq(S)
        /\ Len(SubSeq(s, from, Len(s))) = IF from <= Len(s) THEN Len(s) - from + 1 ELSE 0
        /\ \A i \in 1 .. Len(s) - from + 1 : SubSeq(s, from, Len(s))[i] = s[from + i - 1]
    BY <1>1, <2>1, <2>3, SubSeqProperties
  <2>5. Len(SubSeq(s, from, Len(s))) = m
    BY <2>1, <2>4
  <2>6. \A i \in 1 .. m : SubSeq(s, from, Len(s))[i] = s[Len(s) - m + i]
    BY <2>1, <2>2, <2>4
  <2> QED BY <2>4, <2>5, <2>6 DEF from
<1> QED BY <1>3, <1>5 DEF m

LEMMA JoinIs ==
  ASSUME NEW S, NEW a \in Seq(S), NEW b \in Seq(S)
  PROVE  /\ a \o b \in Seq(S) /\ Len(a \o b) = Len(a) + Len(b)
         /\ \A i \in 1 .. Len(a) : (a \o b)[i] = a[i]
         /\ \A i \in Len(a) + 1 .. Len(a) + Len(b) : (a \o b)[i] = b[i - Len(a)]
BY ConcatProperties

(* What is kept of a line does not depend on where its parts were cut.     *)
LEMMA FirstOfParts ==
  ASSUME NEW S, NEW a \in Seq(S), NEW b \in Seq(S), NEW n \in Nat
  PROVE  First(First(a, n) \o b, n) = First(a \o b, n)
<1> DEFINE f == First(a, n)
<1>1. f \in Seq(S) /\ Len(f) = Smaller(n, Len(a)) /\ \A i \in 1 .. Len(f) : f[i] = a[i]
  BY FirstIs
<1> HIDE DEF f
<1> DEFINE g == f \o b  h == a \o b
<1>2. /\ g \in Seq(S) /\ Len(g) = Len(f) + Len(b)
      /\ \A i \in 1 .. Len(f) : g[i] = f[i]
      /\ \A i \in Len(f) + 1 .. Len(f) + Len(b) : g[i] = b[i - Len(f)]
  BY <1>1, JoinIs
<1>3. /\ h \in Seq(S) /\ Len(h) = Len(a) + Len(b)
      /\ \A i \in 1 .. Len(a) : h[i] = a[i]
      /\ \A i \in Len(a) + 1 .. Len(a) + Len(b) : h[i] = b[i - Len(a)]
  BY JoinIs
<1>4. Len(a) \in Nat /\ Len(b) \in Nat /\ Len(f) \in Nat
  BY <1>1
<1> HIDE DEF g, h
<1>5. Smaller(n, Len(g)) = Smaller(n, Len(h))
  BY <1>1, <1>2, <1>3, <1>4 DEF Smaller
<1>6. \A i \in 1 .. Smaller(n, Len(h)) : g[i] = h[i]
  <2> TAKE i \in 1 .. Smaller(n, Len(h))
  <2>1. CASE Len(a) <= n
    <3>1. Len(f) = Len(a)
      BY <1>1, <1>4, <2>1 DEF Smaller
    <3>2. i \in 1 .. Len(a) \/ i \in Len(a) + 1 .. Len(a) + Len(b)
      BY <1>3, <1>4 DEF Smaller
    <3> QED BY <1>1, <1>2, <1>3, <3>1, <3>2
  <2>2. CASE n < Len(a)
    <3>1. Len(f) = n /\ i \in 1 .. n /\ i \in 1 .. Len(a)
      BY <1>1, <1>3, <1>4, <2>2 DEF Smaller
    <3> QED BY <1>1, <1>2, <1>3, <3>1
  <2> QED BY <1>4, <2>1, <2>2
<1>7. /\ First(g, n) \in Seq(S) /\ Len(First(g, n)) = Smaller(n, Len(g))
      /\ \A i \in 1 .. Smaller(n, Len(g)) : First(g, n)[i] = g[i]
  BY <1>2, FirstIs
<1>8. /\ First(h, n) \in Seq(S) /\ Len(First(h, n)) = Smaller(n, Len(h))
      /\ \A i \in 1 .. Smaller(n, Len(h)) : First(h, n)[i] = h[i]
  BY <1>3, FirstIs
<1>9. First(g, n) = First(h, n)
  BY <1>5, <1>6, <1>7, <1>8, SeqEqual
<1> QED BY <1>9 DEF f, g, h

LEMMA EndingOfParts ==
  ASSUME NEW S, NEW a \in Seq(S), NEW b \in Seq(S), NEW n \in Nat
  PROVE  /\ Ending(Ending(a, n) \o b, n) = Ending(a \o b, n)
         /\ Ending(a, n) \o b \in Seq(S)
         /\ Len(Ending(a, n) \o b) = Smaller(n, Len(a)) + Len(b)
         /\ \A i \in 1 .. Smaller(n, Len(a)) + Len(b) :
              (Ending(a, n) \o b)[i] = (a \o b)[Len(a) - Smaller(n, Len(a)) + i]
<1> DEFINE f == Ending(a, n)
<1>1. /\ f \in Seq(S) /\ Len(f) = Smaller(n, Len(a))
      /\ \A i \in 1 .. Len(f) : f[i] = a[Len(a) - Len(f) + i]
  <2>1. /\ f \in Seq(S) /\ Len(f) = Smaller(n, Len(a))
        /\ \A i \in 1 .. Smaller(n, Len(a)) : f[i] = a[Len(a) - Smaller(n, Len(a)) + i]
    BY EndingIs
  <2> HIDE DEF f
  <2> QED BY <2>1
<1> HIDE DEF f
<1> DEFINE g == f \o b  h == a \o b
<1>2. /\ g \in Seq(S) /\ Len(g) = Len(f) + Len(b)
      /\ \A i \in 1 .. Len(f) : g[i] = f[i]
      /\ \A i \in Len(f) + 1 .. Len(f) + Len(b) : g[i] = b[i - Len(f)]
  BY <1>1, JoinIs
<1>3. /\ h \in Seq(S) /\ Len(h) = Len(a) + Len(b)
      /\ \A i \in 1 .. Len(a) : h[i] = a[i]
      /\ \A i \in Len(a) + 1 .. Len(a) + Len(b) : h[i] = b[i - Len(a)]
  BY JoinIs
<1>4. Len(a) \in Nat /\ Len(b) \in Nat /\ Len(f) \in Nat /\ Len(f) <= Len(a)
  BY <1>1 DEF Smaller
<1> HIDE DEF g, h
<1>5. \A i \in 1 .. Len(g) : g[i] = h[Len(a) - Len(f) + i]
  <2> TAKE i \in 1 .. Len(g)
  <2> DEFINE j == Len(a) - Len(f) + i
  <2>1. CASE i <= Len(f)
    <3>1. i \in 1 .. Len(f) /\ j \in 1 .. Len(a)
      BY <1>2, <1>4, <2>1
    <3> HIDE DEF j
    <3>2. g[i] = f[i] /\ h[j] = a[j]
      BY <1>2, <1>3, <3>1
    <3>3. f[i] = a[j]
      BY <1>1, <3>1 DEF j
    <3> QED BY <3>2, <3>3 DEF j
  <2>2. CASE i > Len(f)
    <3>1. /\ i \in Len(f) + 1 .. Len(f) + Len(b) /\ j \in Len(a) + 1 .. Len(a) + Len(b)
          /\ j - Len(a) = i - Len(f)
      BY <1>2, <1>4, <2>2
    <3> HIDE DEF j
    <3>2. g[i] = b[i - Len(f)] /\ h[j] = b[j - Len(a)]
      BY <1>2, <1>3, <3>1
    <3> QED BY <3>1, <3>2 DEF j
  <2> QED BY <1>2, <1>4, <2>1, <2>2
<1> DEFINE m == Smaller(n, Len(h))
<1>6. Smaller(n, Len(g)) = m /\ m \in 0 .. Len(g) /\ m \in 0 .. Len(h)
  BY <1>1, <1>2, <1>3, <1>4 DEF Smaller
<1> HIDE DEF m
<1>7. /\ Ending(g, n) \in Seq(S) /\ Len(Ending(g, n)) = m
      /\ \A i \in 1 .. m : Ending(g, n)[i] = g[Len(g) - m + i]
  BY <1>2, <1>6, EndingIs
<1>8. /\ Ending(h, n) \in Seq(S) /\ Len(Ending(h, n)) = m
      /\ \A i \in 1 .. m : Ending(h, n)[i] = h[Len(h) - m + i]
  BY <1>3, EndingIs DEF m
<1>9. ASSUME NEW i \in 1 .. m PROVE Ending(g, n)[i] = Ending(h, n)[i]
  <2> DEFINE k == Len(g) - m + i
  <2>1. k \in 1 .. Len(g) /\ Len(a) - Len(f) + k = Len(h) - m + i
    BY <1>2, <1>3, <1>4, <1>6
  <2>2. Ending(g, n)[i] = g[k]
    BY <1>7
  <2> HIDE DEF k
  <2>3. g[k] = h[Len(h) - m + i]
    BY <1>5, <2>1
  <2> QED BY <1>8, <2>2, <2>3
<1>10. Ending(g, n) = Ending(h, n)
  BY <1>7, <1>8, <1>9, SeqEqual
<1> QED BY <1>1, <1>2, <1>5, <1>10 DEF f, g, h

-----------------------------------------------------------------------------
(* Looking for a needle.                                                   *)

Occurs(p, s) == \E k \in 0 .. Len(s) - Len(p) : SubSeq(s, k + 1, k + Len(p)) = p

(* It occurs where each of its characters does.                            *)
LEMMA MatchIs ==
  ASSUME NEW S, NEW p \in Seq(S), NEW s \in Seq(S), NEW k \in 0 .. Len(s) - Len(p)
  PROVE  SubSeq(s, k + 1, k + Len(p)) = p <=> \A i \in 1 .. Len(p) : s[k + i] = p[i]
<1> DEFINE m == k + 1  n == k + Len(p)
<1>1. Len(p) \in Nat /\ Len(s) \in Nat
  OBVIOUS
<1>2. m \in Int /\ n \in Int /\ n - m + 1 = Len(p) /\ (m <= n <=> Len(p) # 0)
  BY <1>1
<1>3. \A i \in m .. n : s[i] \in S
  BY <1>1
<1>4. \A i \in 1 .. Len(p) : m + i - 1 = k + i
  BY <1>1
<1> HIDE DEF m, n
<1>5. /\ SubSeq(s, m, n) \in Seq(S)
      /\ Len(SubSeq(s, m, n)) = IF m <= n THEN n - m + 1 ELSE 0
      /\ \A i \in 1 .. n - m + 1 : SubSeq(s, m, n)[i] = s[m + i - 1]
  BY <1>2, <1>3, SubSeqProperties
<1>6. Len(SubSeq(s, m, n)) = Len(p) /\ \A i \in 1 .. Len(p) : SubSeq(s, m, n)[i] = s[k + i]
  BY <1>2, <1>4, <1>5
<1>7. SubSeq(s, m, n) = p <=> \A i \in 1 .. Len(p) : s[k + i] = p[i]
  BY <1>5, <1>6, SeqEqual
<1> QED BY <1>7 DEF m, n

LEMMA IndexIs ==
  ASSUME NEW S, NEW p \in Seq(S), NEW s \in Seq(S)
  PROVE  /\ IndexIn(p, s) >= 0 <=> Occurs(p, s)
         /\ IndexIn(p, s) \in Int
         /\ Occurs(p, s) => /\ IndexIn(p, s) \in 0 .. Len(s) - Len(p)
                            /\ SubSeq(s, IndexIn(p, s) + 1, IndexIn(p, s) + Len(p)) = p
<1>1. CASE ~Occurs(p, s)
  <2>1. IndexIn(p, s) = -1
    BY <1>1 DEF IndexIn, Occurs
  <2> QED BY <1>1, <2>1
<1>2. CASE Occurs(p, s)
  <2> DEFINE At == {k \in 0 .. Len(s) - Len(p) : SubSeq(s, k + 1, k + Len(p)) = p}
  <2>1. At # {}
    BY <1>2 DEF Occurs
  <2>7. At \in SUBSET Nat
    OBVIOUS
  <2>2. PICK k \in At : \A j \in At : k <= j
    BY <2>1, <2>7, LeastNatural
  <2>3. ASSUME NEW j \in 0 .. k - 1 PROVE SubSeq(s, j + 1, j + Len(p)) # p
    <3>1. j \in 0 .. Len(s) - Len(p) /\ ~(k <= j)
      BY <2>2
    <3> QED BY <2>2, <3>1
  <2>4. IndexIn(p, s) = CHOOSE i \in 0 .. Len(s) - Len(p) :
          /\ SubSeq(s, i + 1, i + Len(p)) = p
          /\ \A j \in 0 .. i - 1 : SubSeq(s, j + 1, j + Len(p)) # p
    BY <1>2 DEF IndexIn, Occurs
  <2>5. \E i \in 0 .. Len(s) - Len(p) :
          /\ SubSeq(s, i + 1, i + Len(p)) = p
          /\ \A j \in 0 .. i - 1 : SubSeq(s, j + 1, j + Len(p)) # p
    BY <2>2, <2>3
  <2>6. IndexIn(p, s) \in 0 .. Len(s) - Len(p)
        /\ SubSeq(s, IndexIn(p, s) + 1, IndexIn(p, s) + Len(p)) = p
    BY <2>4, <2>5
  <2> QED BY <1>2, <2>6
<1> QED BY <1>1, <1>2

(* What occurs in a line so far and a further part occurs in the line so    *)
(* far, or in what is kept of its end and the part.                        *)
LEMMA OccursInParts ==
  ASSUME NEW S, NEW p \in Seq(S), NEW a \in Seq(S), NEW b \in Seq(S), NEW n \in Nat,
         Len(p) >= 1, n >= Len(p) - 1
  PROVE  Occurs(p, a \o b) <=> Occurs(p, a) \/ Occurs(p, Ending(a, n) \o b)
<1> DEFINE h == a \o b  m == Smaller(n, Len(a))
<1>1. /\ h \in Seq(S) /\ Len(h) = Len(a) + Len(b)
      /\ \A i \in 1 .. Len(a) : h[i] = a[i]
  BY JoinIs
<1> DEFINE g == Ending(a, n) \o b
<1>2. /\ g \in Seq(S) /\ Len(g) = m + Len(b)
      /\ \A i \in 1 .. m + Len(b) : g[i] = h[Len(a) - m + i]
  BY EndingOfParts
<1>3. /\ Len(a) \in Nat /\ Len(b) \in Nat /\ Len(p) \in Nat
      /\ m \in 0 .. Len(a) /\ (m = Len(a) \/ m >= Len(p) - 1)
  BY DEF Smaller
<1> HIDE DEF g, h, m
<1>4. \A k \in 0 .. Len(h) - Len(p) :
        SubSeq(h, k + 1, k + Len(p)) = p <=> \A i \in 1 .. Len(p) : h[k + i] = p[i]
  BY <1>1, MatchIs
<1>5. \A k \in 0 .. Len(a) - Len(p) :
        SubSeq(a, k + 1, k + Len(p)) = p <=> \A i \in 1 .. Len(p) : a[k + i] = p[i]
  BY MatchIs
<1>6. \A k \in 0 .. Len(g) - Len(p) :
        SubSeq(g, k + 1, k + Len(p)) = p <=> \A i \in 1 .. Len(p) : g[k + i] = p[i]
  <2>1. g \in Seq(S)
    BY <1>2
  <2> QED BY ONLY <2>1, p \in Seq(S), MatchIs
<1>7. ASSUME Occurs(p, a) PROVE Occurs(p, h)
  <2>1. PICK k \in 0 .. Len(a) - Len(p) : \A i \in 1 .. Len(p) : a[k + i] = p[i]
    BY <1>5, <1>7 DEF Occurs
  <2>2. k \in 0 .. Len(h) - Len(p) /\ \A i \in 1 .. Len(p) : k + i \in 1 .. Len(a)
    BY <1>1, <1>3
  <2>3. \A i \in 1 .. Len(p) : h[k + i] = p[i]
    BY <1>1, <2>1, <2>2
  <2> QED BY <1>4, <2>2, <2>3 DEF Occurs
<1>8. ASSUME Occurs(p, g) PROVE Occurs(p, h)
  <2>1. PICK k \in 0 .. Len(g) - Len(p) : \A i \in 1 .. Len(p) : g[k + i] = p[i]
    BY <1>6, <1>8 DEF Occurs
  <2> DEFINE j == Len(a) - m + k
  <2>2. j \in 0 .. Len(h) - Len(p) /\ \A i \in 1 .. Len(p) : /\ k + i \in 1 .. m + Len(b)
                                                           /\ Len(a) - m + (k + i) = j + i
    BY <1>1, <1>2, <1>3
  <2> HIDE DEF j
  <2>3. \A i \in 1 .. Len(p) : h[j + i] = p[i]
    BY <1>2, <2>1, <2>2
  <2> QED BY <1>4, <2>2, <2>3 DEF Occurs
<1>9. ASSUME Occurs(p, h), ~Occurs(p, a) PROVE Occurs(p, g)
  <2>1. PICK j \in 0 .. Len(h) - Len(p) : \A i \in 1 .. Len(p) : h[j + i] = p[i]
    BY <1>4, <1>9 DEF Occurs
  <2>2. j > Len(a) - Len(p)
    <3>1. SUFFICES ASSUME j <= Len(a) - Len(p) PROVE FALSE
      BY <1>1, <1>3
    <3>2. j \in 0 .. Len(a) - Len(p) /\ \A i \in 1 .. Len(p) : j + i \in 1 .. Len(a)
      BY <1>1, <1>3, <3>1
    <3>3. \A i \in 1 .. Len(p) : a[j + i] = p[i]
      BY <1>1, <2>1, <3>2
    <3> QED BY <1>5, <1>9, <3>2, <3>3 DEF Occurs
  <2> DEFINE k == j - (Len(a) - m)
  <2>3. k \in 0 .. Len(g) - Len(p) /\ \A i \in 1 .. Len(p) : /\ k + i \in 1 .. m + Len(b)
                                                           /\ Len(a) - m + (k + i) = j + i
    BY <1>1, <1>2, <1>3, <2>2
  <2> HIDE DEF k
  <2>4. \A i \in 1 .. Len(p) : g[k + i] = p[i]
    BY <1>2, <2>1, <2>3
  <2> QED BY <1>6, <2>3, <2>4 DEF Occurs
<1>10. Occurs(p, h) <=> Occurs(p, a) \/ Occurs(p, g)
  BY <1>7, <1>8, <1>9
<1> QED BY <1>10 DEF g, h

(* The snippet around a match contains it.                                 *)
LEMMA SnippetHolds ==
  ASSUME NEW S, NEW p \in Seq(S), NEW s \in Seq(S), NEW position \in 0 .. Len(s) - Len(p),
         SubSeq(s, position + 1, position + Len(p)) = p,
         NEW begin \in 0 .. position, position - begin + Len(p) <= RowWidth, RowWidth \in Nat
  PROVE  LET f == First(SubSeq(s, begin + 1, Len(s)), RowWidth)
         IN f \in Seq(S) /\ Occurs(p, f)
<1> DEFINE t == SubSeq(s, begin + 1, Len(s))
<1>1. Len(p) \in Nat /\ Len(s) \in Nat
  OBVIOUS
<1>2. \A i \in begin + 1 .. Len(s) : s[i] \in S
  BY <1>1
<1>3. /\ t \in Seq(S) /\ Len(t) = Len(s) - begin
      /\ \A i \in 1 .. Len(s) - begin : t[i] = s[begin + i]
  <2> DEFINE from == begin + 1
  <2>1. /\ from \in Int /\ Len(s) - from + 1 = Len(s) - begin
        /\ (IF from <= Len(s) THEN Len(s) - from + 1 ELSE 0) = Len(s) - begin
        /\ \A i \in 1 .. Len(s) - begin : from + i - 1 = begin + i
    BY <1>1
  <2>2. \A i \in from .. Len(s) : s[i] \in S
    BY <1>2
  <2> HIDE DEF from
  <2>3. /\ SubSeq(s, from, Len(s)) \in Seq(S)
        /\ Len(SubSeq(s, from, Len(s))) = IF from <= Len(s) THEN Len(s) - from + 1 ELSE 0
        /\ \A i \in 1 .. Len(s) - from + 1 : SubSeq(s, from, Len(s))[i] = s[from + i - 1]
    BY <1>1, <2>1, <2>2, SubSeqProperties
  <2>4. /\ SubSeq(s, from, Len(s)) \in Seq(S) /\ Len(SubSeq(s, from, Len(s))) = Len(s) - begin
        /\ \A i \in 1 .. Len(s) - begin : SubSeq(s, from, Len(s))[i] = s[begin + i]
    BY <2>1, <2>3
  <2> QED BY <2>4 DEF from
<1> HIDE DEF t
<1> DEFINE f == First(t, RowWidth)
<1>4. /\ f \in Seq(S) /\ Len(f) = Smaller(RowWidth, Len(t))
      /\ \A i \in 1 .. Smaller(RowWidth, Len(t)) : f[i] = t[i]
  BY <1>3, FirstIs
<1> HIDE DEF f
<1> DEFINE k == position - begin
<1>5. /\ k \in 0 .. Len(f) - Len(p)
      /\ \A i \in 1 .. Len(p) : /\ k + i \in 1 .. Smaller(RowWidth, Len(t))
                                /\ k + i \in 1 .. Len(s) - begin
                                /\ begin + (k + i) = position + i
  BY <1>1, <1>3, <1>4 DEF Smaller
<1> HIDE DEF k
<1>6. \A i \in 1 .. Len(p) : s[position + i] = p[i]
  BY MatchIs
<1>7. \A i \in 1 .. Len(p) : f[k + i] = p[i]
  BY <1>3, <1>4, <1>5, <1>6
<1>8. SubSeq(f, k + 1, k + Len(p)) = p
  BY <1>4, <1>5, <1>7, MatchIs
<1> QED BY <1>4, <1>5, <1>8 DEF Occurs, f, t

-----------------------------------------------------------------------------
(* The lines of a text.                                                    *)

LEMMA EndsFinite ==
  ASSUME NEW t \in Seq(Characters)
  PROVE  /\ LineEnds(t) \subseteq 1 .. Len(t) /\ IsFiniteSet(LineEnds(t))
         /\ \A k \in Int : /\ IsFiniteSet({e \in LineEnds(t) : e <= k})
                           /\ LinesTo(t, k) \in Nat
<1>1. LineEnds(t) \subseteq 1 .. Len(t) /\ Len(t) \in Int
  BY DEF LineEnds
<1>2. IsFiniteSet(1 .. Len(t))
  BY <1>1, FS_Interval
<1>3. IsFiniteSet(LineEnds(t))
  BY <1>1, <1>2, FS_Subset
<1>4. ASSUME NEW k \in Int
      PROVE  IsFiniteSet({e \in LineEnds(t) : e <= k}) /\ LinesTo(t, k) \in Nat
  <2>1. IsFiniteSet({e \in LineEnds(t) : e <= k})
    BY <1>3, FS_Subset
  <2> QED BY <2>1, FS_CardinalityType DEF LinesTo
<1> QED BY <1>1, <1>3, <1>4

LEMMA LinesNatural ==
  ASSUME NEW t \in Seq(Characters), NEW k \in Int
  PROVE  LinesTo(t, k) \in Nat
BY EndsFinite

(* A character adds a line if it ends one.                                 *)
LEMMA LinesAdd ==
  ASSUME NEW t \in Seq(Characters), NEW k \in Nat
  PROVE  LinesTo(t, k + 1) = IF k + 1 \in LineEnds(t) THEN LinesTo(t, k) + 1 ELSE LinesTo(t, k)
<1> DEFINE E(m) == {e \in LineEnds(t) : e <= m}
<1>1. LineEnds(t) \subseteq Int
  BY EndsFinite
<1>2. IsFiniteSet(E(k))
  BY EndsFinite
<1>3. LinesTo(t, k) = Cardinality(E(k)) /\ LinesTo(t, k + 1) = Cardinality(E(k + 1))
  BY DEF LinesTo
<1>4. CASE k + 1 \in LineEnds(t)
  <2>1. E(k + 1) = E(k) \cup {k + 1} /\ k + 1 \notin E(k)
    BY <1>1, <1>4
  <2> HIDE DEF E
  <2>2. Cardinality(E(k + 1)) = Cardinality(E(k)) + 1
    BY <1>2, <2>1, FS_AddElement
  <2> QED BY <1>3, <1>4, <2>2
<1>5. CASE k + 1 \notin LineEnds(t)
  <2>1. E(k + 1) = E(k)
    BY <1>1, <1>5
  <2> QED BY <1>3, <1>5, <2>1
<1> QED BY <1>4, <1>5

LEMMA LinesSame ==
  ASSUME NEW t \in Seq(Characters), NEW j \in Int, NEW k \in Int, j <= k
  PROVE  /\ LinesTo(t, j) <= LinesTo(t, k)
         /\ (\A e \in j + 1 .. k : e \notin LineEnds(t)) => LinesTo(t, j) = LinesTo(t, k)
<1> DEFINE E(m) == {e \in LineEnds(t) : e <= m}
<1>1. LineEnds(t) \subseteq Int
  BY EndsFinite
<1>2. IsFiniteSet(E(k))
  BY EndsFinite
<1>3. LinesTo(t, j) = Cardinality(E(j)) /\ LinesTo(t, k) = Cardinality(E(k))
  BY DEF LinesTo
<1>4. E(j) \subseteq E(k)
  BY <1>1
<1>5. (\A e \in j + 1 .. k : e \notin LineEnds(t)) => E(j) = E(k)
  BY <1>1
<1> HIDE DEF E
<1>6. Cardinality(E(j)) <= Cardinality(E(k))
  BY <1>2, <1>4, FS_Subset
<1> QED BY <1>3, <1>5, <1>6

LEMMA LinesAtEnds ==
  ASSUME NEW t \in Seq(Characters)
  PROVE  /\ LinesTo(t, 0) = 0
         /\ LinesTo(t, Len(t)) = Cardinality(LineEnds(t))
<1>1. {e \in LineEnds(t) : e <= 0} = {} /\ {e \in LineEnds(t) : e <= Len(t)} = LineEnds(t)
  BY EndsFinite
<1> QED BY <1>1, FS_EmptySet DEF LinesTo

(* The end of the line that follows those before it.                       *)
LEMMA EndOfLine ==
  ASSUME NEW t \in Seq(Characters), NEW e \in LineEnds(t) \cup {Len(t) + 1}
  PROVE  EndOf(t, LinesTo(t, e - 1) + 1) = e
<1> DEFINE Ends == LineEnds(t) \cup {Len(t) + 1}
           n == LinesTo(t, e - 1)
<1>1. LineEnds(t) \subseteq 1 .. Len(t) /\ Ends \subseteq 1 .. Len(t) + 1 /\ Len(t) \in Nat
  BY EndsFinite
<1>2. n \in Nat
  <2>1. e - 1 \in Int
    BY <1>1
  <2> QED BY <2>1, LinesNatural
<1>3. ASSUME NEW f \in Ends, NEW g \in Ends, f < g
      PROVE  LinesTo(t, f - 1) < LinesTo(t, g - 1)
  <2>1. f \in LineEnds(t) /\ f \in Nat /\ g \in Nat /\ f - 1 \in Nat /\ f <= g - 1
    BY <1>1, <1>3
  <2>2. LinesTo(t, (f - 1) + 1) = LinesTo(t, f - 1) + 1
    BY <2>1, LinesAdd
  <2>3. LinesTo(t, f) <= LinesTo(t, g - 1)
    BY <2>1, LinesSame
  <2>4. LinesTo(t, f - 1) \in Nat /\ LinesTo(t, g - 1) \in Nat /\ (f - 1) + 1 = f
    <3>1. f - 1 \in Int /\ g - 1 \in Int /\ (f - 1) + 1 = f
      BY <2>1
    <3> QED BY <3>1, LinesNatural
  <2> QED BY <2>2, <2>3, <2>4
<1>4. \A f \in Ends : LinesTo(t, f - 1) = n => f = e
  <2> TAKE f \in Ends
  <2>1. f < e \/ e < f \/ f = e
    BY <1>1
  <2>2. LinesTo(t, f - 1) \in Nat
    <3>1. f - 1 \in Int
      BY <1>1
    <3> QED BY <3>1, LinesNatural
  <2> QED BY <1>2, <1>3, <2>1, <2>2
<1>5. EndOf(t, n + 1) = CHOOSE f \in Ends : LinesTo(t, f - 1) = (n + 1) - 1
  BY DEF EndOf
<1>6. (n + 1) - 1 = n
  BY <1>2
<1> QED BY <1>4, <1>5, <1>6

-----------------------------------------------------------------------------
(* Where the reading is: k characters of a text make n lines and the first *)
(* l characters of another; c says that the last of them is a CR.  After a *)
(* CR the LF of a CR LF still comes before the line that is read next.     *)
Begin(t, n) == StartOf(t, n + 1)
Held(t, n, k) == SubSeq(t, Begin(t, n), k)
Place(t, k, n, l, c) ==
  /\ n = LinesTo(t, k)
  /\ Begin(t, n) \in 1 .. Len(t) + 1
  /\ Begin(t, n) <= k + 2
  /\ Begin(t, n) = k + 2 => c /\ t[k + 1] = "LF"
  /\ l = Bigger(0, k + 1 - Begin(t, n))
  /\ \A j \in Begin(t, n) .. k : t[j] \notin Breaks
  /\ c <=> k > 0 /\ t[k] = "CR"

LEMMA PlaceStart ==
  ASSUME NEW t \in Seq(Characters)
  PROVE  Place(t, 0, 0, 0, FALSE)
<1>1. Begin(t, 0) = 1
  BY DEF Begin, StartOf
<1>2. LinesTo(t, 0) = 0 /\ Len(t) \in Nat
  BY LinesAtEnds
<1> QED BY <1>1, <1>2 DEF Place, Bigger

LEMMA HeldIs ==
  ASSUME NEW t \in Seq(Characters), NEW k \in 0 .. Len(t), NEW n, NEW l, NEW c,
         Place(t, k, n, l, c)
  PROVE  /\ n \in Nat /\ l \in Nat
         /\ Held(t, n, k) \in Seq(Characters) /\ Len(Held(t, n, k)) = l
         /\ l = 0 => Held(t, n, k) = <<>>
<1> DEFINE b == Begin(t, n)
<1>1. /\ n = LinesTo(t, k) /\ b \in 1 .. Len(t) + 1 /\ l = Bigger(0, k + 1 - b)
      /\ Len(t) \in Nat
  BY DEF Place
<1>2. k \in Int
  BY <1>1
<1>3. n \in Nat
  BY <1>1, <1>2, LinesNatural
<1>4. Held(t, n, k) = SubSeq(t, b, k)
  BY DEF Held
<1> HIDE DEF b
<1>5. b \in Int /\ (\A i \in b .. k : t[i] \in Characters)
      /\ l \in Nat /\ l = (IF b <= k THEN k - b + 1 ELSE 0) /\ (l = 0 => k < b)
  BY <1>1, <1>2 DEF Bigger
<1>6. SubSeq(t, b, k) \in Seq(Characters) /\ Len(SubSeq(t, b, k)) = l
  BY <1>2, <1>5, SubSeqProperties
<1>7. l = 0 => SubSeq(t, b, k) = <<>>
  BY <1>2, <1>5, SubSeqEmpty
<1> QED BY <1>3, <1>4, <1>5, <1>6, <1>7

(* A part of a line, up to the character e.                                *)
LEMMA PlacePart ==
  ASSUME NEW t \in Seq(Characters), NEW k \in 0 .. Len(t), NEW n, NEW l, NEW c,
         Place(t, k, n, l, c),
         NEW e \in k + 1 .. Len(t), \A j \in k + 1 .. e : t[j] \notin Breaks
  PROVE  /\ Place(t, e, n, l + (e - k), FALSE)
         /\ Held(t, n, e) = Held(t, n, k) \o SubSeq(t, k + 1, e)
<1> DEFINE b == Begin(t, n)
<1>1. /\ n = LinesTo(t, k) /\ b \in 1 .. Len(t) + 1 /\ b <= k + 2
      /\ (b = k + 2 => t[k + 1] = "LF") /\ l = Bigger(0, k + 1 - b)
      /\ \A j \in b .. k : t[j] \notin Breaks
  BY DEF Place
<1>2. Held(t, n, e) = SubSeq(t, b, e) /\ Held(t, n, k) = SubSeq(t, b, k)
  BY DEF Held
<1>3. Len(t) \in Nat /\ k \in Nat /\ e \in Nat
  OBVIOUS
<1>4. b <= k + 1
  <2>1. t[k + 1] # "LF"
    BY <1>3 DEF Breaks
  <2> QED BY <1>1, <1>3, <2>1
<1>5. LinesTo(t, e) = n
  <2>1. \A j \in k + 1 .. e : j \notin LineEnds(t)
    BY DEF LineEnds
  <2> QED BY <1>1, <1>3, <2>1, LinesSame
<1>6. \A j \in b .. e : t[j] \notin Breaks
  <2>1. \A j \in b .. e : j \in b .. k \/ j \in k + 1 .. e
    BY <1>1, <1>3
  <2> QED BY <1>1, <2>1
<1>7. t[e] # "CR"
  <2>1. e \in k + 1 .. e
    BY <1>3
  <2> QED BY <2>1 DEF Breaks
<1>8. b <= e + 2 /\ b # e + 2 /\ l + (e - k) = Bigger(0, e + 1 - b)
  <2>1. b \in Nat /\ b < e + 1 /\ 0 <= k + 1 - b
    BY <1>1, <1>3, <1>4
  <2>2. l = k + 1 - b
    BY <1>1, <1>3, <2>1 DEF Bigger
  <2>3. Bigger(0, e + 1 - b) = e + 1 - b
    BY <1>3, <2>1 DEF Bigger
  <2> QED BY <1>3, <2>1, <2>2, <2>3
<1>9. Place(t, e, n, l + (e - k), FALSE)
  BY <1>1, <1>5, <1>6, <1>7, <1>8 DEF Place
<1> HIDE DEF b
<1>10. b \in 1 .. Len(t) + 1 /\ k \in b - 1 .. Len(t) /\ e \in k .. Len(t)
  BY <1>1, <1>3, <1>4
<1>11. SubSeq(t, b, k) \o SubSeq(t, k + 1, e) = SubSeq(t, b, e)
  BY <1>10, ConcatAdjacentSubSeq
<1> QED BY <1>2, <1>9, <1>11

(* The LF of a CR LF.                                                      *)
LEMMA PlaceSecond ==
  ASSUME NEW t \in Seq(Characters), NEW k \in 0 .. Len(t), NEW n, NEW l,
         Place(t, k, n, l, TRUE), k < Len(t), t[k + 1] = "LF"
  PROVE  /\ Place(t, k + 1, n, l, FALSE)
         /\ Held(t, n, k + 1) = <<>> /\ Held(t, n, k) = <<>> /\ l = 0
<1> DEFINE b == Begin(t, n)
<1>1. /\ n = LinesTo(t, k) /\ b \in 1 .. Len(t) + 1 /\ b <= k + 2
      /\ l = Bigger(0, k + 1 - b)
      /\ \A j \in b .. k : t[j] \notin Breaks
      /\ k > 0 /\ t[k] = "CR"
  BY DEF Place
<1>2. Len(t) \in Nat /\ k \in Nat /\ k - 1 \in Nat /\ (k - 1) + 1 = k
  BY <1>1
<1>3. k \in LineEnds(t) /\ k + 1 \notin LineEnds(t)
  BY <1>1, <1>2 DEF LineEnds, Breaks
<1>4. n = LinesTo(t, k - 1) + 1
  BY <1>1, <1>2, <1>3, LinesAdd
<1>5. LinesTo(t, k + 1) = n
  BY <1>1, <1>2, <1>3, LinesAdd
<1>6. EndOf(t, n) = k
  BY <1>3, <1>4, EndOfLine
<1>7. n \in Nat /\ n >= 1
  <2>1. LinesTo(t, k - 1) \in Nat
    BY <1>2, LinesNatural
  <2> QED BY <1>4, <2>1
<1>8. b = k + 2
  <2>1. n + 1 # 1 /\ (n + 1) - 1 = n
    BY <1>7
  <2>2. b = After(t, k)
    BY <1>6, <2>1 DEF Begin, StartOf
  <2> QED BY <1>1, <2>2 DEF After
<1>9. Held(t, n, k + 1) = SubSeq(t, b, k + 1) /\ Held(t, n, k) = SubSeq(t, b, k)
  BY DEF Held
<1>10. l = 0 /\ l = Bigger(0, (k + 1) + 1 - b) /\ b <= (k + 1) + 2 /\ b # (k + 1) + 2
       /\ b .. k + 1 = {} /\ k < b /\ k + 1 < b
  BY <1>1, <1>2, <1>8 DEF Bigger
<1>11. Place(t, k + 1, n, l, FALSE)
  BY <1>1, <1>5, <1>10 DEF Place
<1> HIDE DEF b
<1>12. SubSeq(t, b, k + 1) = <<>> /\ SubSeq(t, b, k) = <<>>
  BY <1>1, <1>2, <1>10, SubSeqEmpty
<1> QED BY <1>9, <1>10, <1>11, <1>12

(* A break that ends a line.                                               *)
LEMMA PlaceBreak ==
  ASSUME NEW t \in Seq(Characters), NEW k \in 0 .. Len(t), NEW n, NEW l, NEW c,
         Place(t, k, n, l, c), k < Len(t), t[k + 1] \in Breaks, ~(c /\ t[k + 1] = "LF")
  PROVE  /\ Place(t, k + 1, n + 1, 0, t[k + 1] = "CR")
         /\ Line(t, n + 1) = Held(t, n, k) /\ Held(t, n + 1, k + 1) = <<>>
<1>1. /\ n = LinesTo(t, k)
      /\ c <=> k > 0 /\ t[k] = "CR"
  BY DEF Place
<1>2. Len(t) \in Nat /\ k \in Nat /\ k + 1 \in 1 .. Len(t) /\ (k + 1) - 1 = k
  OBVIOUS
<1>3. k + 1 \in LineEnds(t)
  BY <1>1, <1>2 DEF LineEnds
<1>4. LinesTo(t, k + 1) = n + 1 /\ n \in Nat
  BY <1>1, <1>2, <1>3, LinesAdd, LinesNatural
<1>5. EndOf(t, n + 1) = k + 1
  <2>1. EndOf(t, LinesTo(t, (k + 1) - 1) + 1) = k + 1
    BY <1>3, EndOfLine
  <2> QED BY <1>1, <1>2, <2>1
<1>6. Line(t, n + 1) = Held(t, n, k)
  BY <1>2, <1>5 DEF Line, Held, Begin
<1> DEFINE b == Begin(t, n + 1)
<1>7. b = After(t, k + 1)
  <2>1. (n + 1) + 1 # 1 /\ ((n + 1) + 1) - 1 = n + 1
    BY <1>4
  <2> QED BY <1>5, <2>1 DEF Begin, StartOf
<1>8. /\ b = k + 2 \/ b = k + 3
      /\ b \in 1 .. Len(t) + 1
      /\ b = k + 3 => t[k + 1] = "CR" /\ t[(k + 1) + 1] = "LF"
  <2>1. (k + 1) + 1 = k + 2 /\ (k + 1) + 2 = k + 3
    BY <1>2
  <2> QED BY <1>2, <1>7, <2>1 DEF After
<1>9. Held(t, n + 1, k + 1) = SubSeq(t, b, k + 1)
  BY DEF Held
<1>10. /\ b <= (k + 1) + 2 /\ (b = (k + 1) + 2 => b = k + 3)
       /\ 0 = Bigger(0, (k + 1) + 1 - b) /\ b .. k + 1 = {} /\ k + 1 < b /\ k + 1 > 0
  BY <1>2, <1>8 DEF Bigger
<1>11. Place(t, k + 1, n + 1, 0, t[k + 1] = "CR")
  BY <1>4, <1>8, <1>10 DEF Place
<1> HIDE DEF b
<1>12. SubSeq(t, b, k + 1) = <<>>
  BY <1>2, <1>8, <1>10, SubSeqEmpty
<1> QED BY <1>6, <1>9, <1>11, <1>12

(* The end of the text.                                                    *)
LEMMA PlaceEnd ==
  ASSUME NEW t \in Seq(Characters), NEW n, NEW l, NEW c,
         Place(t, Len(t), n, l, c)
  PROVE  /\ l > 0 => LineCount(t) = n + 1 /\ Line(t, n + 1) = Held(t, n, Len(t))
         /\ l = 0 => LineCount(t) = n
<1> DEFINE b == Begin(t, n)
<1>1. n = LinesTo(t, Len(t)) /\ b \in 1 .. Len(t) + 1 /\ l = Bigger(0, Len(t) + 1 - b)
  BY DEF Place
<1>2. Len(t) \in Nat /\ (Len(t) + 1) - 1 = Len(t)
  OBVIOUS
<1>3. Cardinality(LineEnds(t)) = n
  BY <1>1, LinesAtEnds
<1>4. LineCount(t) = IF b <= Len(t) THEN n + 1 ELSE n
  BY <1>3 DEF LineCount, Begin
<1>5. l > 0 <=> b <= Len(t)
  BY <1>1, <1>2 DEF Bigger
<1>6. EndOf(t, n + 1) = Len(t) + 1
  <2>1. EndOf(t, LinesTo(t, (Len(t) + 1) - 1) + 1) = Len(t) + 1
    BY EndOfLine
  <2> QED BY <1>1, <1>2, <2>1
<1>7. Line(t, n + 1) = Held(t, n, Len(t))
  BY <1>2, <1>6 DEF Line, Held, Begin
<1> QED BY <1>1, <1>4, <1>5, <1>7 DEF Bigger

-----------------------------------------------------------------------------
(* Ranges.                                                                 *)

RangeState == [start : Nat \ {0}, stop : Nat, rows : Seq(Seq(Characters)), chars : Nat,
               end : Nat, full : BOOLEAN]

(* The rows of a range are the lines from its start on, without a gap; a   *)
(* full range has at least one, and left out a line that was there.        *)
RangeOK(t, r, n) ==
  /\ r \in RangeState /\ r.start < r.stop
  /\ \A k \in DOMAIN r.rows : r.rows[k] = Line(t, r.start + k - 1)
  /\ r.end = IF r.rows = <<>> THEN 0 ELSE r.start + Len(r.rows) - 1
  /\ r.rows = <<>> => r.chars = 0 /\ ~r.full
  /\ r.full => r.start + Len(r.rows) <= Smaller(n, r.stop - 1)
  /\ ~r.full => Len(r.rows) = Bigger(0, Smaller(n + 1, r.stop) - r.start)

LEMMA RangeStart ==
  ASSUME NEW t, NEW r \in LineRange
  PROVE  RangeOK(t, NewRange(r), 0)
<1>1. r.start \in Nat \ {0} /\ r.stop \in Nat /\ r.start < r.stop
  BY DEF LineRange
<1> DEFINE new == NewRange(r)
<1>2. new \in RangeState
  BY <1>1 DEF NewRange, RangeState
<1>3. /\ new.start = r.start /\ new.stop = r.stop /\ new.rows = <<>> /\ new.chars = 0
      /\ new.end = 0 /\ new.full = FALSE
  BY DEF NewRange
<1> HIDE DEF new
<1>4. Bigger(0, Smaller(0 + 1, new.stop) - new.start) = 0
  BY <1>1, <1>3 DEF Smaller, Bigger
<1> QED BY <1>1, <1>2, <1>3, <1>4 DEF RangeOK, new

LEMMA RangeOther ==
  ASSUME NEW t, NEW r, NEW n \in Nat, RangeOK(t, r, n),
         ~(r.start <= n + 1 /\ n + 1 < r.stop /\ ~r.full)
  PROVE  RangeOK(t, r, n + 1)
<1>1. r.start \in Nat /\ r.stop \in Nat /\ r.start < r.stop /\ r.full \in BOOLEAN
      /\ Len(r.rows) \in Nat
  BY DEF RangeOK, RangeState
<1>2. r.full => r.start + Len(r.rows) <= Smaller(n + 1, r.stop - 1)
  BY <1>1 DEF RangeOK, Smaller
<1>3. ~r.full => Len(r.rows) = Bigger(0, Smaller((n + 1) + 1, r.stop) - r.start)
  BY <1>1 DEF RangeOK, Smaller, Bigger
<1> QED BY <1>2, <1>3 DEF RangeOK

(* A row that is alone in its range fits.                                  *)
LEMMA RangeRow ==
  ASSUME NEW t, NEW r, number \in Nat, RangeOK(t, r, number),
         r.start <= number + 1, number + 1 < r.stop, ~r.full,
         NEW row \in Seq(Characters), row = Line(t, number + 1),
         Len(row) + 1 <= RangeWidth, RangeWidth \in Nat
  PROVE  RangeOK(t, Rendered(r, row), number + 1)
<1>1. /\ r \in RangeState /\ r.start \in Nat \ {0} /\ r.stop \in Nat /\ r.start < r.stop
      /\ r.rows \in Seq(Seq(Characters)) /\ r.chars \in Nat /\ r.end \in Nat
      /\ Len(r.rows) \in Nat /\ Len(row) \in Nat
  BY DEF RangeOK, RangeState
<1>2. Len(r.rows) = number + 1 - r.start
  BY <1>1 DEF RangeOK, Smaller, Bigger
<1>3. /\ \A k \in DOMAIN r.rows : r.rows[k] = Line(t, r.start + k - 1)
      /\ r.end = IF r.rows = <<>> THEN 0 ELSE r.start + Len(r.rows) - 1
      /\ r.rows = <<>> => r.chars = 0
  BY DEF RangeOK
<1> DEFINE cost == RowCost(row) + (IF r.rows = <<>> THEN 0 ELSE 1)
<1>4. cost \in Nat /\ (r.rows = <<>> => r.chars + cost <= RangeWidth)
  BY <1>1, <1>3 DEF RowCost
<1>5. Rendered(r, row) = IF r.chars + cost > RangeWidth THEN [r EXCEPT !.full = TRUE]
        ELSE [r EXCEPT !.rows = Append(@, row), !.chars = @ + cost, !.end = number + 1]
  BY DEF Rendered
<1> HIDE DEF cost
<1> DEFINE new == Rendered(r, row)
<1>6. CASE r.chars + cost > RangeWidth
  <2>1. new = [r EXCEPT !.full = TRUE]
    BY <1>5, <1>6
  <2> HIDE DEF new
  <2>2. new \in RangeState
    BY <1>1, <2>1 DEF RangeState
  <2>3. /\ new.start = r.start /\ new.stop = r.stop /\ new.rows = r.rows /\ new.chars = r.chars
        /\ new.end = r.end /\ new.full = TRUE
    BY <1>1, <2>1 DEF RangeState
  <2>4. r.rows # <<>>
    BY <1>1, <1>4, <1>6
  <2>5. r.start + Len(r.rows) <= Smaller(number + 1, r.stop - 1)
    BY <1>1, <1>2 DEF Smaller
  <2> QED BY <1>1, <1>3, <2>2, <2>3, <2>4, <2>5 DEF RangeOK, new
<1>7. CASE ~(r.chars + cost > RangeWidth)
  <2>1. new = [r EXCEPT !.rows = Append(@, row), !.chars = @ + cost, !.end = number + 1]
    BY <1>5, <1>7
  <2> HIDE DEF new
  <2> DEFINE rows == Append(r.rows, row)
  <2>2. /\ rows \in Seq(Seq(Characters)) /\ rows # <<>> /\ Len(rows) = Len(r.rows) + 1
        /\ DOMAIN rows = 1 .. Len(rows)
        /\ \A i \in 1 .. Len(r.rows) : rows[i] = r.rows[i]
        /\ rows[Len(r.rows) + 1] = row
    BY <1>1, AppendProperties, LenProperties
  <2> HIDE DEF rows
  <2>3. /\ new.start = r.start /\ new.stop = r.stop /\ new.rows = rows
        /\ new.chars = r.chars + cost /\ new.end = number + 1 /\ new.full = r.full
    BY <1>1, <2>1 DEF RangeState, rows
  <2>4. r.chars + cost \in Nat /\ number + 1 \in Nat
    BY <1>1, <1>4
  <2>5. new \in RangeState
    <3>1. new = [r EXCEPT !.rows = rows, !.chars = r.chars + cost, !.end = number + 1]
      BY <2>1 DEF rows
    <3> QED BY <1>1, <2>2, <2>4, <3>1 DEF RangeState
  <2>6. ASSUME NEW k \in DOMAIN rows PROVE rows[k] = Line(t, r.start + k - 1)
    <3>1. CASE k \in 1 .. Len(r.rows)
      <4>1. k \in DOMAIN r.rows
        BY <1>1, <3>1, LenProperties
      <4> QED BY <1>3, <2>2, <3>1, <4>1
    <3>2. CASE k = Len(r.rows) + 1
      <4>1. r.start + k - 1 = number + 1
        BY <1>1, <1>2, <3>2
      <4> QED BY <2>2, <3>2, <4>1
    <3> QED BY <1>1, <2>2, <3>1, <3>2
  <2>7. number + 1 = r.start + Len(rows) - 1
        /\ Len(rows) = Bigger(0, Smaller((number + 1) + 1, r.stop) - r.start)
    <3>1. Len(rows) = number + 2 - r.start /\ Len(rows) \in Nat /\ number + 2 <= r.stop
      <4>1. number \in Nat /\ number + 1 < r.stop
        OBVIOUS
      <4>2. Len(rows) = (number + 1 - r.start) + 1
        BY <1>2, <2>2
      <4>3. Len(rows) \in Nat
        BY <1>1, <2>2
      <4> QED BY <1>1, <4>1, <4>2, <4>3
    <3>2. Smaller((number + 1) + 1, r.stop) = number + 2
      BY <1>1, <3>1 DEF Smaller
    <3>3. Bigger(0, number + 2 - r.start) = number + 2 - r.start
      BY <1>1, <3>1 DEF Bigger
    <3> QED BY <1>1, <3>1, <3>2, <3>3
  <2> QED BY <1>1, <2>2, <2>3, <2>5, <2>6, <2>7 DEF RangeOK, new
<1> QED BY <1>6, <1>7

-----------------------------------------------------------------------------
(* Needles.                                                                *)

Hit == [line : Nat, text : Seq(Characters), cut : BOOLEAN, snippet : Seq(Characters),
        context : SUBSET Nat]
NeedleState == [needle : Needle, tail : Seq(Characters), found : BOOLEAN,
                snippet : Seq(Characters), hits : Seq(Hit)]

(* In a line so far, the needle was found if it is there; its end is kept. *)
NeedleOK(n, held) ==
  /\ n \in NeedleState
  /\ n.tail = Ending(held, TailLength(n))
  /\ n.found <=> Occurs(n.needle, held)
  /\ n.found => Occurs(n.needle, n.snippet)

LEMMA NeedleLengths ==
  ASSUME NEW n \in NeedleState
  PROVE  /\ n.needle \in Seq(Characters) /\ Len(n.needle) \in Nat /\ Len(n.needle) >= 1
         /\ Len(n.needle) <= RowWidth /\ RowWidth \in Nat
         /\ TailLength(n) \in Nat /\ TailLength(n) >= Len(n.needle) - 1
<1>1. n.needle \in Needle /\ RowWidth \in Nat
  BY SizesAssumption DEF NeedleState
<1>2. n.needle \in Seq(Characters) /\ Len(n.needle) \in 1 .. RowWidth
  BY <1>1 DEF Needle
<1> QED BY <1>1, <1>2 DEF TailLength, Bigger

LEMMA NothingHeld ==
  ASSUME NEW n \in NeedleState, n.tail = <<>>, n.found = FALSE
  PROVE  NeedleOK(n, <<>>)
<1>1. <<>> \in Seq(Characters) /\ Len(<<>>) = 0
  BY EmptySeq
<1>2. TailLength(n) \in Nat /\ Len(n.needle) \in Nat /\ Len(n.needle) >= 1
  BY NeedleLengths
<1>3. ~Occurs(n.needle, <<>>)
  BY <1>1, <1>2 DEF Occurs
<1>4. Ending(<<>>, TailLength(n)) = <<>>
  <2>1. Ending(<<>>, TailLength(n)) \in Seq(Characters)
        /\ Len(Ending(<<>>, TailLength(n))) = Smaller(TailLength(n), Len(<<>>))
    BY <1>1, <1>2, EndingIs
  <2>2. Smaller(TailLength(n), Len(<<>>)) = 0
    BY <1>1, <1>2 DEF Smaller
  <2> HIDE DEF Ending
  <2> QED BY <2>1, <2>2, EmptySeq
<1> QED BY <1>3, <1>4 DEF NeedleOK

LEMMA SoughtIs ==
  ASSUME NEW held \in Seq(Characters), NEW part \in Seq(Characters), NEW n, NeedleOK(n, held)
  PROVE  /\ NeedleOK(Sought(n, part), held \o part)
         /\ Sought(n, part).hits = n.hits /\ Sought(n, part).needle = n.needle
<1>1. /\ n \in NeedleState /\ n.tail = Ending(held, TailLength(n)) /\ n.found \in BOOLEAN
      /\ n.found <=> Occurs(n.needle, held)
      /\ n.found => Occurs(n.needle, n.snippet)
  BY DEF NeedleOK, NeedleState
<1> DEFINE p == n.needle
           tl == TailLength(n)
<1>2. /\ p \in Seq(Characters) /\ Len(p) \in Nat /\ Len(p) >= 1 /\ Len(p) <= RowWidth
      /\ RowWidth \in Nat /\ tl \in Nat /\ tl >= Len(p) - 1
  BY <1>1, NeedleLengths
<1> DEFINE folded == n.tail \o part
           position == IndexIn(p, folded)
           lead == Smaller(Lead, Bigger(0, (RowWidth - Len(p)) \div 2))
           begin == Bigger(0, position - lead)
           shown == First(SubSeq(folded, begin + 1, Len(folded)), RowWidth)
           kept == [n EXCEPT !.tail = Ending(folded, tl)]
           new == Sought(n, part)
<1>3. new = IF n.found \/ position < 0 THEN kept
            ELSE [kept EXCEPT !.found = TRUE, !.snippet = shown]
  BY DEF Sought
<1>4. /\ folded \in Seq(Characters)
      /\ Ending(folded, tl) = Ending(held \o part, tl)
      /\ Ending(folded, tl) \in Seq(Characters)
  <2> HIDE DEF p, tl
  <2>1. /\ Ending(held, tl) \o part \in Seq(Characters)
        /\ Ending(Ending(held, tl) \o part, tl) = Ending(held \o part, tl)
    BY <1>2, EndingOfParts
  <2>2. Ending(Ending(held, tl) \o part, tl) \in Seq(Characters)
    BY <1>2, <2>1, EndingIs
  <2> QED BY <1>1, <2>1, <2>2 DEF tl
<1>5. Occurs(p, held \o part) <=> Occurs(p, held) \/ Occurs(p, folded)
  <2> HIDE DEF p, tl
  <2>1. Occurs(p, held \o part) <=> Occurs(p, held) \/ Occurs(p, Ending(held, tl) \o part)
    BY <1>2, OccursInParts
  <2> QED BY <1>1, <2>1 DEF tl
<1> HIDE DEF folded
<1>6. /\ position \in Int /\ (position >= 0 <=> Occurs(p, folded))
      /\ position >= 0 => /\ position \in 0 .. Len(folded) - Len(p)
                          /\ SubSeq(folded, position + 1, position + Len(p)) = p
  <2> HIDE DEF p
  <2> QED BY <1>2, <1>4, IndexIs
<1>7. lead \in Nat /\ lead + Len(p) <= RowWidth
  <2> DEFINE half == (RowWidth - Len(p)) \div 2
  <2>1. half \in Nat /\ half + Len(p) <= RowWidth
    <3>1. \A x \in Nat : x \div 2 \in Nat /\ x \div 2 <= x
      BY SMT
    <3>2. RowWidth - Len(p) \in Nat
      BY <1>2
    <3>3. half \in Nat /\ half <= RowWidth - Len(p)
      BY <3>1, <3>2
    <3> HIDE DEF half, p
    <3> QED BY <1>2, <3>3
  <2> HIDE DEF half, p
  <2>2. Lead \in Nat
    BY SizesAssumption
  <2> QED BY <1>2, <2>1, <2>2 DEF Smaller, Bigger, half
<1> HIDE DEF position, lead
<1>8. position >= 0 => begin \in 0 .. position /\ position - begin + Len(p) <= RowWidth
  BY <1>2, <1>6, <1>7 DEF Bigger
<1> HIDE DEF begin
<1>9. position >= 0 => shown \in Seq(Characters) /\ Occurs(p, shown)
  <2> HIDE DEF p
  <2> SUFFICES ASSUME position >= 0 PROVE shown \in Seq(Characters) /\ Occurs(p, shown)
    OBVIOUS
  <2> QED BY <1>2, <1>4, <1>6, <1>8, SnippetHolds
<1> HIDE DEF shown, new
<1>10. /\ kept \in NeedleState /\ kept.tail = Ending(folded, tl) /\ kept.needle = n.needle
       /\ kept.found = n.found /\ kept.snippet = n.snippet /\ kept.hits = n.hits
  BY <1>1, <1>4 DEF NeedleState
<1> HIDE DEF kept
<1>11. CASE n.found \/ position < 0
  <2>1. new = kept
    BY <1>3, <1>11
  <2>2. TailLength(new) = tl
    BY <1>10, <2>1 DEF TailLength
  <2>3. n.found <=> Occurs(p, held \o part)
    BY <1>1, <1>5, <1>6, <1>11
  <2>4. NeedleOK(new, held \o part)
    BY <1>1, <1>4, <1>10, <2>1, <2>2, <2>3 DEF NeedleOK
  <2> QED BY <1>10, <2>1, <2>4 DEF new
<1>12. CASE ~(n.found \/ position < 0)
  <2>1. new = [kept EXCEPT !.found = TRUE, !.snippet = shown] /\ position >= 0
    BY <1>3, <1>6, <1>12
  <2>2. /\ new \in NeedleState /\ new.tail = kept.tail /\ new.needle = n.needle
        /\ new.found = TRUE /\ new.snippet = shown /\ new.hits = n.hits
    BY <1>9, <1>10, <2>1 DEF NeedleState
  <2>3. TailLength(new) = tl
    BY <2>2 DEF TailLength
  <2>4. Occurs(p, held \o part)
    BY <1>5, <1>6, <2>1
  <2>5. NeedleOK(new, held \o part)
    BY <1>4, <1>9, <1>10, <2>1, <2>2, <2>3, <2>4 DEF NeedleOK
  <2> QED BY <2>2, <2>5 DEF new
<1> QED BY <1>11, <1>12

LEMMA MapIs ==
  ASSUME NEW S, NEW R, NEW s \in Seq(S), NEW f, DOMAIN f = DOMAIN s,
         f = [k \in DOMAIN f |-> f[k]], \A k \in DOMAIN s : f[k] \in R
  PROVE  f \in Seq(R) /\ Len(f) = Len(s)
<1>1. DOMAIN s = 1 .. Len(s) /\ Len(s) \in Nat
  BY LenProperties
<1>2. f \in [1 .. Len(s) -> R]
  BY <1>1
<1>3. f \in Seq(R)
  BY <1>1, <1>2
<1>4. DOMAIN f = 1 .. Len(f) /\ Len(f) \in Nat
  BY <1>3, LenProperties
<1> QED BY <1>1, <1>3, <1>4

LEMMA HoldsIs ==
  ASSUME NEW p \in Seq(Characters), NEW s \in Seq(Characters)
  PROVE  IndexIn(p, s) >= 0 <=> Occurs(p, s)
BY IndexIs

(* The hits up to the line n.                                              *)
HitsOK(t, n, count) ==
  Listed(t, n.hits, n.needle, count) /\ \A k \in DOMAIN n.hits : Shown(n.hits[k], n.needle, count)

(* A further line is context of the hits before it.                        *)
LEMMA ContextGrows ==
  ASSUME NEW hit \in Hit, NEW p, NEW n \in Nat, hit.line \in 1 .. n, Shown(hit, p, n)
  PROVE  LET new == IF n + 1 <= hit.line + Context
                    THEN [hit EXCEPT !.context = @ \cup {n + 1}] ELSE hit
         IN new \in Hit /\ new.line = hit.line /\ Shown(new, p, n + 1)
<1> DEFINE new == IF n + 1 <= hit.line + Context
                  THEN [hit EXCEPT !.context = @ \cup {n + 1}] ELSE hit
           from == Bigger(1, hit.line - Context)
<1>1. Context \in Nat /\ hit.line \in Nat /\ hit.context \in SUBSET Nat
  BY SizesAssumption DEF Hit
<1>2. from \in Nat /\ from <= n
  BY <1>1 DEF Bigger
<1>3. hit.context = from .. Smaller(n, hit.line + Context)
  BY DEF Shown
<1>4. IndexIn(p, IF hit.cut THEN hit.snippet ELSE hit.text) >= 0
  BY DEF Shown
<1>5. CASE n + 1 <= hit.line + Context
  <2>1. hit.context \cup {n + 1} = from .. n + 1
    <3>1. Smaller(n, hit.line + Context) = n
      BY <1>1, <1>5 DEF Smaller
    <3>2. from .. n \cup {n + 1} = from .. n + 1
      <4> HIDE DEF from
      <4> QED BY <1>2
    <3> QED BY <1>3, <3>1, <3>2
  <2>2. Smaller(n + 1, hit.line + Context) = n + 1
    BY <1>1, <1>5 DEF Smaller
  <2>3. new = [hit EXCEPT !.context = from .. n + 1]
    BY <1>5, <2>1
  <2>4. from .. n + 1 \in SUBSET Nat
    <3> HIDE DEF from
    <3> QED BY <1>2
  <2> HIDE DEF new
  <2>5. /\ new \in Hit /\ new.line = hit.line /\ new.context = from .. n + 1
        /\ new.cut = hit.cut /\ new.snippet = hit.snippet /\ new.text = hit.text
    <3> HIDE DEF from
    <3> QED BY <2>3, <2>4 DEF Hit
  <2> QED BY <1>4, <2>2, <2>5 DEF Shown, new
<1>6. CASE ~(n + 1 <= hit.line + Context)
  <2>1. Smaller(n, hit.line + Context) = hit.line + Context
        /\ Smaller(n + 1, hit.line + Context) = hit.line + Context
    BY <1>1, <1>6 DEF Smaller
  <2>2. new = hit
    BY <1>6
  <2> QED BY <1>3, <1>4, <2>1, <2>2 DEF Shown
<1> QED BY <1>5, <1>6

LEMMA NotedIs ==
  ASSUME NEW t, number \in Nat, NEW n \in NeedleState, HitsOK(t, n, number),
         NEW row \in Seq(Characters), row = Line(t, number + 1),
         length = Len(row), prefix = First(row, RowWidth),
         n.found <=> Occurs(n.needle, row), n.found => Occurs(n.needle, n.snippet)
  PROVE  /\ NeedleOK(Noted(n), <<>>)
         /\ HitsOK(t, Noted(n), number + 1)
<1> DEFINE line == number + 1
           p == n.needle
           earlier == [k \in DOMAIN n.hits |->
                         IF line <= n.hits[k].line + Context
                         THEN [n.hits[k] EXCEPT !.context = @ \cup {line}] ELSE n.hits[k]]
           hit == [line |-> line, text |-> prefix, cut |-> length > RowWidth,
                   snippet |-> IF length > RowWidth THEN n.snippet ELSE <<>>,
                   context |-> Bigger(1, line - Context) .. line]
           hits == IF n.found /\ Len(n.hits) < Matches + 1 THEN Append(earlier, hit) ELSE earlier
           new == Noted(n)
<1>1. /\ p \in Seq(Characters) /\ p \in Needle /\ n.found \in BOOLEAN /\ n.snippet \in Seq(Characters)
      /\ n.hits \in Seq(Hit) /\ Len(n.hits) \in Nat /\ DOMAIN n.hits = 1 .. Len(n.hits)
      /\ RowWidth \in Nat /\ Matches \in Nat /\ Context \in Nat
  BY NeedleLengths, LenProperties, SizesAssumption DEF NeedleState
<1>2. new = [NewNeedle(p) EXCEPT !.hits = hits]
  BY DEF Noted
<1> HIDE DEF new
<1>3. /\ Len(n.hits) <= Matches + 1
      /\ \A k \in DOMAIN n.hits : n.hits[k].line \in 1 .. number /\ Holds(t, n.hits[k].line, p)
      /\ \A j, k \in DOMAIN n.hits : j < k => n.hits[j].line < n.hits[k].line
      /\ \A m \in 1 .. number : Holds(t, m, p) =>
           \E k \in DOMAIN n.hits : n.hits[k].line = m \/ (k = Matches + 1 /\ n.hits[k].line < m)
      /\ \A k \in DOMAIN n.hits : Shown(n.hits[k], p, number)
  BY DEF HitsOK, Listed
<1>4. \A k \in DOMAIN n.hits : /\ earlier[k] \in Hit /\ earlier[k].line = n.hits[k].line
                               /\ Shown(earlier[k], p, number + 1)
  <2> TAKE k \in DOMAIN n.hits
  <2> DEFINE h == n.hits[k]
  <2>1. earlier[k] = IF number + 1 <= h.line + Context
                     THEN [h EXCEPT !.context = @ \cup {number + 1}] ELSE h
    OBVIOUS
  <2>2. h \in Hit /\ h.line \in 1 .. number /\ Shown(h, p, number)
    BY <1>1, <1>3
  <2> HIDE DEF h, p, earlier
  <2>3. /\ earlier[k] \in Hit /\ earlier[k].line = h.line
        /\ Shown(earlier[k], p, number + 1)
    BY <2>1, <2>2, ContextGrows
  <2> QED BY <2>3 DEF h
<1>5. earlier \in Seq(Hit) /\ Len(earlier) = Len(n.hits) /\ DOMAIN earlier = DOMAIN n.hits
  <2>1. DOMAIN earlier = DOMAIN n.hits /\ earlier = [k \in DOMAIN earlier |-> earlier[k]]
    OBVIOUS
  <2>2. \A k \in DOMAIN n.hits : earlier[k] \in Hit
    BY <1>4
  <2> HIDE DEF earlier
  <2>3. earlier \in Seq(Hit) /\ Len(earlier) = Len(n.hits)
    <3>1. n.hits \in Seq(Hit)
      BY <1>1
    <3> QED BY ONLY <2>1, <2>2, <3>1, MapIs
  <2> QED BY <2>1, <2>3
<1> HIDE DEF earlier
<1>6. n.found => Holds(t, number + 1, p)
  BY <1>1, HoldsIs DEF Holds
<1>7. Holds(t, number + 1, p) => n.found
  BY <1>1, HoldsIs DEF Holds
<1>8. /\ prefix \in Seq(Characters)
      /\ length <= RowWidth => prefix = row
      /\ length \in Nat
  BY <1>1, FirstIs
<1>9. hit \in Hit /\ hit.line = number + 1 /\ (n.found => Shown(hit, p, number + 1))
  <2> DEFINE from == Bigger(1, line - Context)
             snippet == IF length > RowWidth THEN n.snippet ELSE <<>>
  <2>1. from \in Nat /\ Smaller(number + 1, (number + 1) + Context) = number + 1
    BY <1>1 DEF Bigger, Smaller
  <2>2. snippet \in Seq(Characters)
    BY <1>1, EmptySeq
  <2>3. n.found => Occurs(p, IF length > RowWidth THEN snippet ELSE prefix)
    BY <1>1, <1>8
  <2> HIDE DEF from, snippet, p
  <2>4. n.found => IndexIn(p, IF length > RowWidth THEN snippet ELSE prefix) >= 0
    BY <1>1, <1>8, <2>2, <2>3, HoldsIs
  <2>5. hit = [line |-> number + 1, text |-> prefix, cut |-> length > RowWidth,
               snippet |-> snippet, context |-> from .. number + 1]
    BY DEF from, snippet
  <2>6. from .. number + 1 \in SUBSET Nat
    BY <2>1
  <2> HIDE DEF hit
  <2>7. hit \in Hit
    BY <1>8, <2>2, <2>5, <2>6 DEF Hit
  <2>8. /\ hit.line = number + 1 /\ hit.text = prefix /\ hit.cut = (length > RowWidth)
        /\ hit.snippet = snippet /\ hit.context = from .. number + 1
    BY <2>5
  <2>9. n.found => Shown(hit, p, number + 1)
    BY <2>1, <2>4, <2>8 DEF Shown, from
  <2> QED BY <2>7, <2>8, <2>9
<1> HIDE DEF hit
<1>10. ASSUME n.found /\ Len(n.hits) < Matches + 1
              PROVE  /\ hits \in Seq(Hit) /\ Listed(t, hits, p, number + 1)
                     /\ \A k \in DOMAIN hits : Shown(hits[k], p, number + 1)
  <2>1. hits = Append(earlier, hit)
    BY <1>10
  <2>2. /\ hits \in Seq(Hit) /\ Len(hits) = Len(n.hits) + 1 /\ DOMAIN hits = 1 .. Len(n.hits) + 1
        /\ \A k \in DOMAIN n.hits : hits[k] = earlier[k]
        /\ hits[Len(n.hits) + 1] = hit
    BY <1>1, <1>5, <1>9, <2>1, AppendProperties, LenProperties
  <2> HIDE DEF hits
  <2>3. \A k \in DOMAIN hits : k \in DOMAIN n.hits \/ k = Len(n.hits) + 1
    BY <1>1, <2>2
  <2>4. DOMAIN n.hits \subseteq DOMAIN hits /\ Len(n.hits) + 1 \in DOMAIN hits
        /\ Len(n.hits) + 1 \notin DOMAIN n.hits
    BY <1>1, <2>2
  <2>5. \A k \in DOMAIN hits : hits[k].line \in 1 .. number + 1 /\ Holds(t, hits[k].line, p)
    BY <1>3, <1>4, <1>6, <1>9, <1>10, <2>2, <2>3
  <2>6. \A j, k \in DOMAIN hits : j < k => hits[j].line < hits[k].line
    <3> TAKE j, k \in DOMAIN hits
    <3> HAVE j < k
    <3>1. j \in DOMAIN n.hits
      BY <1>1, <2>2
    <3>2. hits[j].line = n.hits[j].line /\ n.hits[j].line \in 1 .. number
      BY <1>3, <1>4, <2>2, <3>1
    <3>3. CASE k \in DOMAIN n.hits
      BY <1>3, <1>4, <2>2, <3>1, <3>3
    <3>4. CASE k = Len(n.hits) + 1
      <4>1. hits[k].line = number + 1
        BY <1>9, <2>2, <3>4
      <4> QED BY <3>2, <4>1
    <3> QED BY <2>3, <3>3, <3>4
  <2>7. ASSUME NEW m \in 1 .. number + 1, Holds(t, m, p)
        PROVE  \E k \in DOMAIN hits : hits[k].line = m \/ (k = Matches + 1 /\ hits[k].line < m)
    <3>1. CASE m = number + 1
      BY <1>9, <2>2, <2>4, <3>1
    <3>2. CASE m \in 1 .. number
      <4>1. PICK k \in DOMAIN n.hits : n.hits[k].line = m \/ (k = Matches + 1 /\ n.hits[k].line < m)
        BY <1>3, <2>7, <3>2
      <4>2. hits[k].line = n.hits[k].line /\ k \in DOMAIN hits
        BY <1>4, <2>2, <2>4
      <4> QED BY <4>1, <4>2
    <3> QED BY <3>1, <3>2
  <2>8. \A k \in DOMAIN hits : Shown(hits[k], p, number + 1)
    BY <1>4, <1>9, <1>10, <2>2, <2>3
  <2>9. Len(hits) <= Matches + 1
    BY <1>1, <1>10, <2>2
  <2>10. Listed(t, hits, p, number + 1)
    BY <2>5, <2>6, <2>7, <2>9 DEF Listed
  <2> QED BY <2>2, <2>8, <2>10
<1>11. ASSUME ~(n.found /\ Len(n.hits) < Matches + 1)
              PROVE  /\ hits \in Seq(Hit) /\ Listed(t, hits, p, number + 1)
                     /\ \A k \in DOMAIN hits : Shown(hits[k], p, number + 1)
  <2>1. hits = earlier
    BY <1>11
  <2>2. \A k \in DOMAIN earlier : earlier[k].line \in 1 .. number + 1 /\ Holds(t, earlier[k].line, p)
    BY <1>3, <1>4, <1>5
  <2>3. \A j, k \in DOMAIN earlier : j < k => earlier[j].line < earlier[k].line
    BY <1>3, <1>4, <1>5
  <2>4. ASSUME NEW m \in 1 .. number + 1, Holds(t, m, p)
        PROVE  \E k \in DOMAIN earlier : earlier[k].line = m \/ (k = Matches + 1 /\ earlier[k].line < m)
    <3>1. CASE m = number + 1
      <4>1. Len(n.hits) = Matches + 1
        BY <1>1, <1>3, <1>7, <1>11, <2>4, <3>1
      <4>2. Matches + 1 \in DOMAIN n.hits
        BY <1>1, <4>1
      <4>3. earlier[Matches + 1].line \in 1 .. number
        BY <1>3, <1>4, <4>2
      <4> QED BY <1>5, <3>1, <4>2, <4>3
    <3>2. CASE m \in 1 .. number
      <4>1. PICK k \in DOMAIN n.hits : n.hits[k].line = m \/ (k = Matches + 1 /\ n.hits[k].line < m)
        BY <1>3, <2>4, <3>2
      <4> QED BY <1>4, <1>5, <4>1
    <3> QED BY <3>1, <3>2
  <2>5. Listed(t, earlier, p, number + 1)
    BY <1>3, <1>5, <2>2, <2>3, <2>4 DEF Listed
  <2> QED BY <1>4, <1>5, <2>1, <2>5
<1>12. /\ hits \in Seq(Hit) /\ Listed(t, hits, p, number + 1)
       /\ \A k \in DOMAIN hits : Shown(hits[k], p, number + 1)
  BY <1>10, <1>11
<1> HIDE DEF hits
<1>13. /\ new \in NeedleState /\ new.tail = <<>> /\ new.found = FALSE /\ new.hits = hits
       /\ new.needle = p
  BY <1>1, <1>2, <1>12, EmptySeq DEF NewNeedle, NeedleState
<1>14. NeedleOK(new, <<>>)
  BY <1>13, NothingHeld
<1>15. HitsOK(t, new, number + 1)
  BY <1>12, <1>13 DEF HitsOK
<1> QED BY <1>14, <1>15 DEF new

-----------------------------------------------------------------------------
(* TextReads.                                                              *)

TextTypes ==
  /\ text \in Seq(Characters) /\ request \in Requests /\ budget \in Nat
  /\ at \in Nat /\ block \in Nat /\ at <= block /\ block <= Len(text)
  /\ valid \in BOOLEAN /\ afterCr \in BOOLEAN
  /\ number \in Nat /\ length \in Nat /\ prefix \in Seq(Characters)
  /\ Reads => needles = <<>>
  /\ ~Reads => ranges = <<>>

(* While it reads: the line so far is known, from it what a range or a     *)
(* search keeps of it, and what every needle found in it.                  *)
Reading == done = "reading" /\ valid
SoFar == Held(text, number, at)
PrefixOK == IF Reads THEN Active(number) # {} => prefix = First(SoFar, RangeWidth + 1)
            ELSE prefix = First(SoFar, RowWidth)
PlaceOK == Place(text, at, number, length, afterCr) /\ PrefixOK
NeedlesOK == \A i \in DOMAIN needles : NeedleOK(needles[i], SoFar)

RangesOK == Reads /\ done # "error" => \A i \in DOMAIN ranges : RangeOK(text, ranges[i], number)
FoundOK == valid => \A i \in DOMAIN needles : HitsOK(text, needles[i], number)

(* A search gives up the rest of a file it cannot use; a reading has an    *)
(* error then.                                                             *)
Unusable == Nul \in ToSet(text) \/ (done # "reading" /\ Len(text) > Smaller(Maximum, budget))
GivenUpOK == ~valid /\ ~Reads => at = block /\ Unusable
ReadsOK == Reads /\ done = "reading" => valid /\ block <= Maximum
EndOK == done = "done" /\ (Reads \/ valid) => number = LineCount(text)

TextInv == /\ TextTypes
           /\ Reading => PlaceOK /\ NeedlesOK
           /\ RangesOK /\ FoundOK /\ GivenUpOK /\ ReadsOK /\ EndOK

LEMMA Sizes ==
  /\ Maximum \in Nat /\ RowWidth \in Nat /\ Lead \in Nat /\ RangeWidth \in Nat
  /\ Output \in Nat /\ Matches \in Nat /\ Context \in Nat /\ Budgets \subseteq Nat
BY SizesAssumption

LEMMA TextStart ==
  ASSUME TextInit
  PROVE  TextInv
<1> USE DEF TextInit
<1>1. text \in Seq(Characters) /\ budget \in Nat /\ request \in Requests /\ Len(text) \in Nat
  BY TextsAssumption, Sizes
<1>2. <<>> \in Seq(Characters)
  BY EmptySeq
<1>3. TextTypes
  <2>1. (Reads => needles = <<>>) /\ (~Reads => ranges = <<>>)
    OBVIOUS
  <2>2. /\ at = 0 /\ block = 0 /\ valid = TRUE /\ afterCr = FALSE /\ number = 0
        /\ length = 0 /\ prefix = <<>>
    OBVIOUS
  <2>3. at \in Nat /\ block \in Nat /\ at <= block /\ block <= Len(text) /\ number \in Nat
        /\ length \in Nat /\ prefix \in Seq(Characters)
    BY ONLY <1>1, <1>2, <2>2
  <2>4. valid \in BOOLEAN /\ afterCr \in BOOLEAN
    BY ONLY <2>2
  <2> QED BY ONLY <1>1, <2>1, <2>3, <2>4 DEF TextTypes
<1>4. Place(text, at, number, length, afterCr) /\ SoFar = <<>>
  <2>1. Place(text, 0, 0, 0, FALSE)
    BY <1>1, PlaceStart
  <2>2. 0 \in 0 .. Len(text)
    BY <1>1
  <2>3. Held(text, 0, 0) = <<>>
    BY <1>1, <2>1, <2>2, HeldIs
  <2> QED BY <2>1, <2>3 DEF SoFar
<1>5. PrefixOK
  <2>1. \A n \in Nat : First(<<>>, n) = <<>>
    <3> TAKE n \in Nat
    <3>1. Len(<<>>) <= n
      BY EmptySeq
    <3> QED BY <1>2, <3>1, FirstIs
  <2>2. RangeWidth + 1 \in Nat /\ RowWidth \in Nat
    BY Sizes
  <2> QED BY <1>4, <2>1, <2>2 DEF PrefixOK
<1>6. \A i \in DOMAIN needles : NeedleOK(needles[i], <<>>) /\ HitsOK(text, needles[i], number)
  <2> SUFFICES ASSUME ~Reads, NEW i \in DOMAIN request.items
               PROVE  /\ NeedleOK(NewNeedle(request.items[i]), <<>>)
                      /\ HitsOK(text, NewNeedle(request.items[i]), 0)
    BY <1>3 DEF TextTypes
  <2>1. request.items \in Seq(Needle)
    BY <1>1, RequestsAssumption DEF Reads
  <2> DEFINE n == NewNeedle(request.items[i])
  <2>2. request.items[i] \in Needle
    BY <2>1
  <2>3. n \in NeedleState /\ n.tail = <<>> /\ n.found = FALSE /\ n.hits = <<>>
    <3>1. <<>> \in Seq(Hit)
      BY EmptySeq
    <3> QED BY <1>2, <2>2, <3>1 DEF NewNeedle, NeedleState
  <2> HIDE DEF n
  <2>4. HitsOK(text, n, 0)
    <3>1. Len(<<>>) <= Matches + 1 /\ DOMAIN <<>> = {}
      BY Sizes, EmptySeq
    <3>2. Listed(text, <<>>, n.needle, 0)
      BY <3>1 DEF Listed
    <3> QED BY <2>3, <3>1, <3>2 DEF HitsOK
  <2> QED BY <2>3, <2>4, NothingHeld DEF n
<1>7. RangesOK
  <2> SUFFICES ASSUME Reads, NEW i \in DOMAIN request.items
               PROVE  RangeOK(text, NewRange(request.items[i]), 0)
    BY DEF RangesOK
  <2>1. request.items \in Seq(LineRange)
    BY <1>1, RequestsAssumption DEF Reads
  <2> QED BY <2>1, RangeStart
<1>8. GivenUpOK /\ EndOK
  BY DEF GivenUpOK, EndOK
<1>9. ReadsOK
  BY Sizes DEF ReadsOK
<1> QED BY <1>3, <1>4, <1>5, <1>6, <1>7, <1>8, <1>9 DEF TextInv, PlaceOK, NeedlesOK, FoundOK

LEMMA TextStutter ==
  ASSUME TextInv, UNCHANGED textVars
  PROVE  TextInv'
<1> USE DEF textVars
<1>1. TextTypes' /\ (Reading' <=> Reading) /\ SoFar' = SoFar
  BY DEF TextInv, TextTypes, Reads, Reading, SoFar
<1>2. (PlaceOK <=> PlaceOK') /\ (NeedlesOK <=> NeedlesOK')
  BY <1>1 DEF PlaceOK, PrefixOK, NeedlesOK, Active, Reads
<1>3. (RangesOK' <=> RangesOK) /\ (FoundOK' <=> FoundOK) /\ (GivenUpOK' <=> GivenUpOK)
      /\ (ReadsOK' <=> ReadsOK) /\ (EndOK' <=> EndOK)
  BY DEF RangesOK, FoundOK, GivenUpOK, Unusable, ReadsOK, EndOK, Reads
<1> QED BY <1>1, <1>2, <1>3 DEF TextInv

LEMMA ReadBlockKeeps ==
  ASSUME TextInv, ReadBlock
  PROVE  TextInv'
<1>1. TextTypes /\ done = "reading" /\ at = block
      /\ UNCHANGED <<text, request, budget, afterCr, number, length, prefix, ranges, needles>>
  BY DEF TextInv, ReadBlock
<1>2. Len(text) \in Nat /\ Maximum \in Nat /\ budget \in Nat /\ block \in Nat
  BY <1>1, Sizes DEF TextTypes
<1> DEFINE last == Smaller(Len(text), Limit)
<1>3. last \in Nat /\ last <= Len(text)
  BY <1>2 DEF Limit, Smaller
<1>4. PICK end \in block + 1 .. last :
        LET bad == Nul \in ToSet(SubSeq(text, block + 1, end)) \/ (Reads /\ end > Maximum)
        IN /\ block' = end
           /\ valid' = (valid /\ ~bad)
           /\ at' = IF valid' THEN at ELSE end
           /\ done' = IF Reads /\ bad THEN "error" ELSE done
  BY DEF ReadBlock
<1> DEFINE nul == Nul \in ToSet(SubSeq(text, block + 1, end))
           bad == nul \/ (Reads /\ end > Maximum)
<1>5. /\ block' = end /\ valid' = (valid /\ ~bad) /\ at' = IF valid' THEN at ELSE end
      /\ done' = IF Reads /\ bad THEN "error" ELSE done
      /\ bad \in BOOLEAN
  BY <1>4
<1>6. end \in Nat /\ block < end /\ end <= Len(text)
  BY <1>2, <1>3
<1>7. nul => Nul \in ToSet(text)
  <2> DEFINE from == block + 1
             piece == SubSeq(text, from, end)
  <2>1. /\ from \in Int /\ from <= end /\ \A i \in from .. end : text[i] \in Characters
        /\ \A i \in 1 .. end - from + 1 : from + i - 1 \in 1 .. Len(text)
    BY <1>1, <1>2, <1>6 DEF TextTypes
  <2> HIDE DEF from
  <2>2. /\ piece \in Seq(Characters) /\ Len(piece) = end - from + 1
        /\ \A i \in 1 .. end - from + 1 : piece[i] = text[from + i - 1]
    BY <1>6, <2>1, SubSeqProperties
  <2> HIDE DEF piece
  <2>3. DOMAIN piece = 1 .. end - from + 1 /\ DOMAIN text = 1 .. Len(text)
    BY <1>1, <2>2, LenProperties DEF TextTypes
  <2>4. Nul \in ToSet(piece) => Nul \in ToSet(text)
    BY <2>1, <2>2, <2>3 DEF ToSet
  <2> QED BY <2>4 DEF piece, from
<1> HIDE DEF nul
<1>8. (Reads' <=> Reads) /\ (Active(number)' = Active(number))
  BY <1>1 DEF Reads, Active
<1>9. TextTypes'
  BY <1>1, <1>2, <1>5, <1>6, <1>8 DEF TextTypes
<1>10. Reading' => PlaceOK' /\ NeedlesOK'
  <2> SUFFICES ASSUME Reading' PROVE PlaceOK' /\ NeedlesOK'
    OBVIOUS
  <2>1. Reading /\ at' = at
    BY <1>1, <1>5 DEF Reading
  <2>2. PlaceOK /\ NeedlesOK
    BY <2>1 DEF TextInv
  <2>3. SoFar' = SoFar
    BY <1>1, <2>1 DEF SoFar
  <2> QED BY <1>1, <1>8, <2>1, <2>2, <2>3 DEF PlaceOK, PrefixOK, NeedlesOK
<1>11. RangesOK' /\ FoundOK'
  BY <1>1, <1>5, <1>8 DEF TextInv, RangesOK, FoundOK
<1>12. GivenUpOK'
  BY <1>1, <1>5, <1>7, <1>8 DEF TextInv, GivenUpOK, Unusable
<1>13. ReadsOK'
  <2> SUFFICES ASSUME Reads, done' = "reading" PROVE valid' /\ block' <= Maximum
    BY <1>8 DEF ReadsOK
  <2>1. valid
    BY <1>1 DEF TextInv, ReadsOK
  <2>2. ~bad
    BY <1>5
  <2>3. ~(end > Maximum)
    BY <2>2
  <2>4. valid'
    BY <1>5, <2>1, <2>2
  <2> QED BY <1>2, <1>5, <1>6, <2>3, <2>4
<1>14. EndOK'
  BY <1>1, <1>5 DEF EndOK
<1> QED BY <1>9, <1>10, <1>11, <1>12, <1>13, <1>14 DEF TextInv

(* A part of a line that ends before a break, or with the block.           *)
LEMMA PartEndIs ==
  ASSUME TextTypes, at < block, text[at + 1] \notin Breaks
  PROVE  /\ PartEnd \in at + 1 .. block
         /\ \A k \in at + 1 .. PartEnd : text[k] \notin Breaks
<1> DEFINE Later == {k \in at + 2 .. block : text[k] \in Breaks}
           IsEnd(e) == /\ \A k \in at + 1 .. e : text[k] \notin Breaks
                       /\ e < block => text[e + 1] \in Breaks
<1>1. at \in Nat /\ block \in Nat
  BY DEF TextTypes
<1>2. \E e \in at + 1 .. block : IsEnd(e)
  <2>1. CASE Later = {}
    <3>1. block \in at + 1 .. block
      BY <1>1
    <3>2. ASSUME NEW k \in at + 1 .. block PROVE text[k] \notin Breaks
      <4>1. k = at + 1 \/ k \in at + 2 .. block
        BY <1>1
      <4> QED BY <2>1, <4>1
    <3>3. IsEnd(block)
      BY <1>1, <3>2
    <3> QED BY <3>1, <3>3
  <2>2. CASE Later # {}
    <3>1. Later \in SUBSET Nat
      BY <1>1
    <3>2. PICK f \in Later : \A k \in Later : f <= k
      BY <2>2, <3>1, LeastNatural
    <3>3. f \in at + 2 .. block /\ text[f] \in Breaks /\ f - 1 \in at + 1 .. block
          /\ (f - 1) + 1 = f
      BY <1>1, <3>2
    <3>4. ASSUME NEW k \in at + 1 .. f - 1 PROVE text[k] \notin Breaks
      <4>1. k = at + 1 \/ (k \in at + 2 .. block /\ ~(f <= k))
        BY <1>1, <3>3
      <4> QED BY <3>2, <4>1
    <3>5. IsEnd(f - 1)
      BY <3>3, <3>4
    <3> QED BY <3>3, <3>5
  <2> QED BY <2>1, <2>2
<1>3. PartEnd = CHOOSE e \in at + 1 .. block : IsEnd(e)
  BY DEF PartEnd
<1> HIDE DEF IsEnd
<1>4. PartEnd \in at + 1 .. block /\ IsEnd(PartEnd)
  BY <1>2, <1>3
<1> QED BY <1>4 DEF IsEnd

LEMMA PartKeeps ==
  ASSUME TextInv, Part
  PROVE  TextInv'
<1> DEFINE e == PartEnd
           part == SubSeq(text, at + 1, e)
<1>1. /\ TextTypes /\ done = "reading" /\ at < block /\ text[at + 1] \notin Breaks
      /\ at' = e /\ length' = length + Len(part)
      /\ prefix' = IF Reads /\ Active(number) = {} THEN prefix
                   ELSE First(prefix \o part, IF Reads THEN RangeWidth + 1 ELSE RowWidth)
      /\ needles' = [i \in DOMAIN needles |-> Sought(needles[i], part)]
      /\ afterCr' = FALSE
      /\ UNCHANGED <<text, request, budget, block, valid, number, ranges, done>>
  BY DEF TextInv, Part
<1>2. e \in at + 1 .. block /\ \A k \in at + 1 .. e : text[k] \notin Breaks
  BY <1>1, PartEndIs
<1> HIDE DEF e
<1>3. /\ text \in Seq(Characters) /\ at \in Nat /\ block \in Nat /\ block <= Len(text)
      /\ Len(text) \in Nat /\ length \in Nat /\ prefix \in Seq(Characters)
      /\ e \in Nat /\ at < e /\ e <= block
  BY <1>1, <1>2 DEF TextTypes
<1>4. part \in Seq(Characters) /\ Len(part) = e - at
  <2> DEFINE from == at + 1
  <2>1. /\ from \in Int /\ from <= e /\ \A i \in from .. e : text[i] \in Characters
        /\ e - from + 1 = e - at
    BY <1>3
  <2> HIDE DEF from
  <2>2. SubSeq(text, from, e) \in Seq(Characters) /\ Len(SubSeq(text, from, e)) = e - from + 1
    BY <1>3, <2>1, SubSeqProperties
  <2> QED BY <2>1, <2>2 DEF from
<1>5. Reading
  <2>1. valid
    BY <1>1, <1>3 DEF TextInv, TextTypes, GivenUpOK, ReadsOK
  <2> QED BY <1>1, <2>1 DEF Reading
<1>6. Place(text, at, number, length, afterCr) /\ PrefixOK /\ NeedlesOK
  BY <1>5 DEF TextInv, PlaceOK
<1>7. at \in 0 .. Len(text) /\ e \in at + 1 .. Len(text)
  BY <1>3
<1>8. SoFar \in Seq(Characters)
  BY <1>3, <1>6, <1>7, HeldIs DEF SoFar
<1>9. Place(text, e, number, length + (e - at), FALSE)
      /\ Held(text, number, e) = SoFar \o part
  <2> HIDE DEF part
  <2>1. /\ Place(text, e, number, length + (e - at), FALSE)
        /\ Held(text, number, e) = Held(text, number, at) \o SubSeq(text, at + 1, e)
    <3>1. text \in Seq(Characters) /\ Place(text, at, number, length, afterCr)
          /\ \A j \in at + 1 .. e : text[j] \notin Breaks
      BY <1>2, <1>3, <1>6
    <3> QED BY ONLY <1>7, <3>1, PlacePart
  <2> QED BY <2>1 DEF SoFar, part
<1>10. Place(text, at, number, length, afterCr)' /\ SoFar' = SoFar \o part
  BY <1>1, <1>4, <1>9 DEF SoFar
<1>11. (Reads' <=> Reads) /\ Active(number)' = Active(number)
  BY <1>1 DEF Reads, Active
<1> HIDE DEF part
<1>12. RangeWidth + 1 \in Nat /\ RowWidth \in Nat
  BY Sizes
<1>13. PrefixOK' /\ prefix' \in Seq(Characters)
  <2>1. CASE Reads /\ Active(number) = {}
    BY <1>1, <1>3, <1>11, <2>1 DEF PrefixOK
  <2>2. CASE ~(Reads /\ Active(number) = {})
    <3> DEFINE w == IF Reads THEN RangeWidth + 1 ELSE RowWidth
    <3>1. w \in Nat /\ prefix' = First(prefix \o part, w) /\ prefix = First(SoFar, w)
      BY <1>1, <1>6, <1>12, <2>2 DEF PrefixOK
    <3>2. prefix' = First(SoFar \o part, w)
      <4> HIDE DEF w
      <4> QED BY <1>4, <1>8, <3>1, FirstOfParts
    <3>3. prefix \o part \in Seq(Characters)
      BY <1>3, <1>4, JoinIs
    <3>4. prefix' \in Seq(Characters)
      <4> HIDE DEF w
      <4> QED BY <3>1, <3>3, FirstIs
    <3>5. PrefixOK'
      BY <1>10, <1>11, <2>2, <3>2 DEF PrefixOK
    <3> QED BY <3>4, <3>5
  <2> QED BY <2>1, <2>2
<1>14. \A i \in DOMAIN needles :
         /\ NeedleOK(Sought(needles[i], part), SoFar \o part)
         /\ Sought(needles[i], part).hits = needles[i].hits
         /\ Sought(needles[i], part).needle = needles[i].needle
  BY <1>4, <1>6, <1>8, SoughtIs DEF NeedlesOK
<1>15. NeedlesOK'
  BY <1>1, <1>10, <1>14 DEF NeedlesOK
<1>16. FoundOK'
  BY <1>1, <1>14 DEF TextInv, FoundOK, HitsOK
<1>17. TextTypes'
  <2>1. Reads => needles' = <<>>
    BY <1>1 DEF TextTypes
  <2>2. /\ at' \in Nat /\ block' \in Nat /\ at' <= block' /\ block' <= Len(text)'
        /\ length' \in Nat
    BY <1>1, <1>3, <1>4
  <2>3. valid' \in BOOLEAN /\ afterCr' \in BOOLEAN
    BY <1>1 DEF TextTypes
  <2> QED BY <1>1, <1>11, <1>13, <2>1, <2>2, <2>3 DEF TextTypes
<1>18. RangesOK' /\ ReadsOK' /\ EndOK'
  BY <1>1, <1>11 DEF TextInv, RangesOK, ReadsOK, EndOK
<1>19. GivenUpOK'
  BY <1>1, <1>5 DEF GivenUpOK, Reading
<1> QED BY <1>10, <1>13, <1>15, <1>16, <1>17, <1>18, <1>19 DEF TextInv, PlaceOK

(* A line that is finished goes to the ranges that take it, and to the     *)
(* needles found in it.                                                    *)
LEMMA FinishLineKeeps ==
  ASSUME TextTypes, PlaceOK, NeedlesOK, RangesOK, FoundOK, Reading, at <= Len(text),
         Line(text, number + 1) = SoFar, ~TooLong,
         FinishLine, UNCHANGED <<text, request>>
  PROVE  /\ Reads => \A i \in DOMAIN ranges' : RangeOK(text, ranges'[i], number + 1)
         /\ \A i \in DOMAIN needles' : /\ NeedleOK(needles'[i], <<>>)
                                       /\ HitsOK(text, needles'[i], number + 1)
         /\ Reads' <=> Reads
         /\ Reads' => needles' = <<>>
         /\ ~Reads' => ranges' = <<>>
         /\ number' = number + 1 /\ length' = 0 /\ prefix' = <<>>
<1>1. /\ number' = number + 1 /\ length' = 0 /\ prefix' = <<>>
      /\ ranges' = [i \in DOMAIN ranges |->
                      IF i \in Active(number) THEN Rendered(ranges[i], prefix) ELSE ranges[i]]
      /\ needles' = [i \in DOMAIN needles |-> Noted(needles[i])]
  BY DEF FinishLine, FinishRanges
<1>2. /\ text \in Seq(Characters) /\ number \in Nat /\ at \in 0 .. Len(text)
      /\ Place(text, at, number, length, afterCr)
  BY DEF TextTypes, PlaceOK
<1>3. SoFar \in Seq(Characters) /\ Len(SoFar) = length /\ length \in Nat
  BY <1>2, HeldIs DEF SoFar
<1>4. RangeWidth \in Nat /\ RowWidth \in Nat
  BY Sizes
<1>5. Reads' <=> Reads
  BY DEF Reads
<1>6. (Reads' => needles' = <<>>) /\ (~Reads' => ranges' = <<>>)
  BY <1>1, <1>5 DEF TextTypes
<1>7. ASSUME Reads, NEW i \in DOMAIN ranges
      PROVE  RangeOK(text, ranges'[i], number + 1)
  <2>1. RangeOK(text, ranges[i], number)
    BY <1>7 DEF RangesOK, Reading
  <2>2. CASE i \in Active(number)
    <3>1. /\ ranges[i].start <= number + 1 /\ number + 1 < ranges[i].stop /\ ~ranges[i].full
      BY <2>2 DEF Active
    <3>2. length + 1 <= RangeWidth
      BY <1>3, <1>4, <2>2 DEF TooLong
    <3>3. prefix = SoFar
      <4>1. prefix = First(SoFar, RangeWidth + 1)
        BY <1>7, <2>2 DEF PlaceOK, PrefixOK
      <4>2. RangeWidth + 1 \in Nat /\ Len(SoFar) <= RangeWidth + 1
        BY <1>3, <1>4, <3>2
      <4> QED BY <1>3, <4>1, <4>2, FirstIs
    <3>4. RangeOK(text, Rendered(ranges[i], prefix), number + 1)
      BY <1>2, <1>3, <1>4, <2>1, <3>1, <3>2, <3>3, RangeRow
    <3> QED BY <1>1, <2>2, <3>4
  <2>3. CASE i \notin Active(number)
    <3>1. ~(ranges[i].start <= number + 1 /\ number + 1 < ranges[i].stop /\ ~ranges[i].full)
      BY <2>3 DEF Active
    <3>2. RangeOK(text, ranges[i], number + 1)
      BY <1>2, <2>1, <3>1, RangeOther
    <3> QED BY <1>1, <2>3, <3>2
  <2> QED BY <2>2, <2>3
<1>8. ASSUME NEW i \in DOMAIN needles
      PROVE  /\ NeedleOK(Noted(needles[i]), <<>>)
             /\ HitsOK(text, Noted(needles[i]), number + 1)
  <2>1. ~Reads
    BY <1>8 DEF TextTypes
  <2>2. prefix = First(SoFar, RowWidth)
    BY <2>1 DEF PlaceOK, PrefixOK
  <2>3. NeedleOK(needles[i], SoFar) /\ HitsOK(text, needles[i], number)
    BY DEF NeedlesOK, FoundOK, Reading
  <2>4. /\ needles[i] \in NeedleState
        /\ needles[i].found <=> Occurs(needles[i].needle, SoFar)
        /\ needles[i].found => Occurs(needles[i].needle, needles[i].snippet)
    BY <2>3 DEF NeedleOK
  <2> QED BY <1>2, <1>3, <2>2, <2>3, <2>4, NotedIs
<1> QED BY <1>1, <1>5, <1>6, <1>7, <1>8

LEMMA NothingKept ==
  ASSUME NEW n \in Nat
  PROVE  <<>> \in Seq(Characters) /\ First(<<>>, n) = <<>>
<1>1. <<>> \in Seq(Characters) /\ Len(<<>>) <= n
  BY EmptySeq
<1> QED BY <1>1, FirstIs

LEMMA BreakKeeps ==
  ASSUME TextInv, Break
  PROVE  TextInv'
<1>1. /\ TextTypes /\ done = "reading" /\ at < block /\ text[at + 1] \in Breaks
      /\ at' = at + 1 /\ afterCr' = (text[at + 1] = "CR")
      /\ UNCHANGED <<text, request, budget, block, valid>>
  BY DEF TextInv, Break
<1>2. /\ text \in Seq(Characters) /\ at \in Nat /\ block \in Nat /\ block <= Len(text)
      /\ Len(text) \in Nat /\ number \in Nat
  BY <1>1 DEF TextTypes
<1>3. at \in 0 .. Len(text) /\ at + 1 \in 0 .. Len(text) /\ at < Len(text) /\ at <= Len(text)
      /\ at' \in Nat /\ at' <= block'
  BY <1>1, <1>2
<1>4. Reading
  <2>1. valid
    BY <1>1, <1>2 DEF TextInv, TextTypes, GivenUpOK, ReadsOK
  <2> QED BY <1>1, <2>1 DEF Reading
<1>5. PlaceOK /\ NeedlesOK /\ RangesOK /\ FoundOK /\ Place(text, at, number, length, afterCr)
  BY <1>4 DEF TextInv, PlaceOK
<1>6. (Reads' <=> Reads) /\ afterCr' \in BOOLEAN /\ valid' /\ valid' \in BOOLEAN
  BY <1>1, <1>4 DEF Reads, Reading
<1>7. GivenUpOK' /\ (ReadsOK' \/ done' # "reading")
  BY <1>1, <1>6 DEF TextInv, ReadsOK, GivenUpOK
<1>8. RangeWidth + 1 \in Nat /\ RowWidth \in Nat
  BY Sizes
<1>9. CASE afterCr /\ text[at + 1] = "LF"
  <2>1. UNCHANGED <<number, length, prefix, ranges, needles, done>>
    BY <1>9 DEF Break
  <2>2. afterCr = TRUE /\ afterCr' = FALSE
    BY <1>1, <1>9 DEF TextTypes
  <2>3. Place(text, at, number, length, TRUE)
    BY <1>5, <2>2
  <2>4. /\ Place(text, at + 1, number, length, FALSE)
        /\ Held(text, number, at + 1) = <<>> /\ Held(text, number, at) = <<>>
    BY <1>2, <1>3, <1>9, <2>3, PlaceSecond
  <2>5. Place(text, at, number, length, afterCr)' /\ SoFar' = SoFar
    BY <1>1, <2>1, <2>2, <2>4 DEF SoFar
  <2>6. Active(number)' = Active(number)
    BY <2>1 DEF Active
  <2>7. PlaceOK' /\ NeedlesOK'
    BY <1>5, <1>6, <2>1, <2>5, <2>6 DEF PlaceOK, PrefixOK, NeedlesOK
  <2>8. TextTypes'
    BY <1>1, <1>2, <1>3, <1>6, <2>1 DEF TextTypes
  <2>9. RangesOK' /\ FoundOK' /\ EndOK' /\ ReadsOK'
    BY <1>1, <1>5, <1>6, <1>7, <2>1 DEF RangesOK, FoundOK, EndOK
  <2> QED BY <1>7, <2>7, <2>8, <2>9 DEF TextInv
<1>10. CASE ~(afterCr /\ text[at + 1] = "LF")
  <2>1. /\ Place(text, at + 1, number + 1, 0, text[at + 1] = "CR")
        /\ Line(text, number + 1) = SoFar /\ Held(text, number + 1, at + 1) = <<>>
    <3>1. text[at + 1] \in Breaks
      BY <1>1
    <3> QED BY <1>2, <1>3, <1>5, <1>10, <3>1, PlaceBreak DEF SoFar
  <2>2. CASE TooLong
    <3>1. done' = "error" /\ UNCHANGED <<number, length, prefix, ranges, needles>>
      BY <1>10, <2>2 DEF Break
    <3>2. TextTypes'
      BY <1>1, <1>2, <1>3, <1>6, <3>1 DEF TextTypes
    <3>3. ~Reading' /\ RangesOK' /\ EndOK' /\ ReadsOK'
      BY <3>1 DEF Reading, RangesOK, EndOK, ReadsOK
    <3>4. FoundOK'
      BY <1>1, <1>5, <3>1 DEF FoundOK
    <3> QED BY <1>7, <3>2, <3>3, <3>4 DEF TextInv
  <2>3. CASE ~TooLong
    <3>1. FinishLine /\ UNCHANGED done
      BY <1>10, <2>3 DEF Break
    <3>2. /\ Reads => \A i \in DOMAIN ranges' : RangeOK(text, ranges'[i], number + 1)
          /\ \A i \in DOMAIN needles' : /\ NeedleOK(needles'[i], <<>>)
                                        /\ HitsOK(text, needles'[i], number + 1)
          /\ Reads' => needles' = <<>>
          /\ ~Reads' => ranges' = <<>>
          /\ number' = number + 1 /\ length' = 0 /\ prefix' = <<>>
      BY <1>1, <1>3, <1>4, <1>5, <2>1, <2>3, <3>1, FinishLineKeeps
    <3>3. Place(text, at, number, length, afterCr)' /\ SoFar' = <<>>
      BY <1>1, <2>1, <3>2 DEF SoFar
    <3>4. PrefixOK' /\ prefix' \in Seq(Characters)
      BY <1>8, <3>2, <3>3, NothingKept DEF PrefixOK
    <3>5. NeedlesOK' /\ FoundOK'
      BY <1>1, <3>2, <3>3 DEF NeedlesOK, FoundOK
    <3>6. RangesOK'
      BY <1>1, <1>6, <3>2 DEF RangesOK
    <3>7. TextTypes'
      BY <1>1, <1>2, <1>3, <1>6, <3>2, <3>4 DEF TextTypes
    <3>8. EndOK' /\ ReadsOK'
      BY <1>1, <1>7, <3>1 DEF EndOK
    <3> QED BY <1>7, <3>3, <3>4, <3>5, <3>6, <3>7, <3>8 DEF TextInv, PlaceOK
  <2> QED BY <2>2, <2>3
<1> QED BY <1>9, <1>10

LEMMA FinishKeeps ==
  ASSUME TextInv, Finish
  PROVE  TextInv'
<1>1. /\ TextTypes /\ done = "reading" /\ at = block /\ block = Smaller(Len(text), Limit)
      /\ valid' = Usable
      /\ UNCHANGED <<text, request, budget, at, block, afterCr>>
  BY DEF TextInv, Finish
<1>2. /\ text \in Seq(Characters) /\ at \in Nat /\ Len(text) \in Nat /\ number \in Nat
      /\ length \in Nat /\ Maximum \in Nat /\ budget \in Nat /\ block <= Len(text)
  BY <1>1, Sizes DEF TextTypes
<1>3. Usable \in BOOLEAN
  BY DEF Usable, Reads
<1>4. Reads' <=> Reads
  BY <1>1 DEF Reads
<1>5. Usable => Reading /\ at = Len(text)
  <2>1. CASE Reads
    <3>1. valid /\ block <= Maximum
      BY <1>1, <2>1 DEF TextInv, ReadsOK
    <3>2. Limit = Maximum + 1
      BY <2>1 DEF Limit
    <3>3. block = Len(text)
      BY <1>1, <1>2, <3>1, <3>2 DEF Smaller
    <3> QED BY <1>1, <3>1, <3>3 DEF Reading
  <2>2. CASE ~Reads
    BY <1>1, <2>2 DEF Usable, Reading
  <2> QED BY <2>1, <2>2
<1>6. GivenUpOK'
  <2> SUFFICES ASSUME ~Reads, ~Usable, done' # "reading"
               PROVE  Nul \in ToSet(text) \/ Len(text) > Smaller(Maximum, budget)
    <3>1. done' # "reading"
      BY DEF Finish
    <3> QED BY <1>1, <1>4, <3>1 DEF GivenUpOK, Unusable
  <2>1. CASE ~valid
    BY <1>1, <2>1 DEF TextInv, GivenUpOK, Unusable
  <2>2. CASE ~(block = Len(text) /\ block <= Maximum)
    <3>1. Limit = Smaller(Maximum + 1, budget)
      BY DEF Limit
    <3> QED BY <1>1, <1>2, <2>2, <3>1 DEF Smaller
  <2> QED BY <2>1, <2>2 DEF Usable
<1>7. done' # "reading"
  BY DEF Finish
<1>8. ~Reading' /\ ReadsOK'
  BY <1>7 DEF Reading, ReadsOK
<1>9. (Reads => Usable)
  BY DEF Usable
<1>10. valid' \in BOOLEAN /\ at' \in Nat /\ at' <= block'
  BY <1>1, <1>2, <1>3
<1>11. Usable => /\ Place(text, Len(text), number, length, afterCr)
                 /\ SoFar = Held(text, number, Len(text))
                 /\ PlaceOK /\ NeedlesOK /\ RangesOK /\ FoundOK
  BY <1>5 DEF TextInv, PlaceOK, SoFar
<1>12. Usable => /\ length > 0 => LineCount(text) = number + 1 /\ Line(text, number + 1) = SoFar
                 /\ length = 0 => LineCount(text) = number
  BY <1>2, <1>11, PlaceEnd
<1>13. CASE Usable /\ length > 0 /\ ~TooLong
  <2>1. FinishLine /\ done' = "done"
    BY <1>13 DEF Finish
  <2>2. /\ Reads => \A i \in DOMAIN ranges' : RangeOK(text, ranges'[i], number + 1)
        /\ \A i \in DOMAIN needles' : /\ NeedleOK(needles'[i], <<>>)
                                      /\ HitsOK(text, needles'[i], number + 1)
        /\ Reads' => needles' = <<>>
        /\ ~Reads' => ranges' = <<>>
        /\ number' = number + 1 /\ length' = 0 /\ prefix' = <<>>
    <3>1. at <= Len(text)
      BY <1>1, <1>2
    <3> QED BY <1>1, <1>5, <1>11, <1>12, <1>13, <2>1, <3>1, FinishLineKeeps
  <2>3. prefix' \in Seq(Characters)
    BY <1>2, <2>2, NothingKept
  <2>4. TextTypes'
    BY <1>1, <1>2, <1>10, <2>2, <2>3 DEF TextTypes
  <2>5. RangesOK' /\ FoundOK'
    BY <1>1, <1>4, <2>2 DEF RangesOK, FoundOK
  <2>6. EndOK'
    BY <1>1, <1>12, <1>13, <2>2 DEF EndOK
  <2> QED BY <1>6, <1>8, <2>4, <2>5, <2>6 DEF TextInv
<1>14. CASE ~(Usable /\ length > 0 /\ ~TooLong)
  <2>1. UNCHANGED <<number, length, prefix, ranges, needles>>
        /\ (done' = "done" /\ Usable => length = 0)
    BY <1>2, <1>14 DEF Finish
  <2>2. TextTypes'
    BY <1>1, <1>2, <1>4, <1>10, <2>1 DEF TextTypes
  <2>3. FoundOK'
    <3> SUFFICES ASSUME Usable, NEW i \in DOMAIN needles
                 PROVE  HitsOK(text, needles[i], number)
      BY <1>1, <2>1 DEF FoundOK
    <3> QED BY <1>5, <1>11 DEF FoundOK, Reading
  <2>4. RangesOK'
    BY <1>1, <1>4, <1>9, <1>11, <2>1 DEF RangesOK
  <2>5. EndOK'
    BY <1>1, <1>4, <1>9, <1>12, <2>1 DEF EndOK
  <2> QED BY <1>6, <1>8, <2>2, <2>3, <2>4, <2>5 DEF TextInv
<1> QED BY <1>13, <1>14

(* Every step of a reading and of a search keeps TextInv.                  *)
LEMMA TextStep ==
  ASSUME TextInv, TextNext
  PROVE  TextInv'
BY ReadBlockKeeps, PartKeeps, BreakKeeps, FinishKeeps DEF TextNext

(* What is returned of a range says what is missing.                       *)
LEMMA WindowAtEnd ==
  ASSUME TextInv
  PROVE  ReadIsWindow
<1> SUFFICES ASSUME Reads, done = "done"
             PROVE  /\ number = LineCount(text)
                    /\ \A i \in DOMAIN ranges :
                         LET r == ranges[i]
                             result == Result(i)
                             stop == r.start + Len(result.rows)
                         IN /\ \A k \in DOMAIN result.rows : result.rows[k] = Line(text, r.start + k - 1)
                            /\ result.next = IF stop <= number THEN stop ELSE 0
                            /\ stop < Smaller(r.stop, number + 1) => result.truncated
  BY DEF ReadIsWindow
<1>1. number = LineCount(text) /\ number \in Nat
  BY DEF TextInv, EndOK, TextTypes
<1>2. ASSUME NEW i \in DOMAIN ranges
      PROVE  LET r == ranges[i]
                 result == Result(i)
                 stop == r.start + Len(result.rows)
             IN /\ \A k \in DOMAIN result.rows : result.rows[k] = Line(text, r.start + k - 1)
                /\ result.next = IF stop <= number THEN stop ELSE 0
                /\ stop < Smaller(r.stop, number + 1) => result.truncated
  <2> DEFINE r == ranges[i]
             result == Result(i)
             dropped == Spent[i - 1] + r.chars > Output
  <2>1. RangeOK(text, r, number)
    BY DEF TextInv, RangesOK
  <2>2. /\ r.start \in Nat \ {0} /\ r.stop \in Nat /\ r.start < r.stop /\ Len(r.rows) \in Nat
        /\ r.rows \in Seq(Seq(Characters))
        /\ \A k \in DOMAIN r.rows : r.rows[k] = Line(text, r.start + k - 1)
        /\ r.end = IF r.rows = <<>> THEN 0 ELSE r.start + Len(r.rows) - 1
        /\ r.rows = <<>> => ~r.full
        /\ ~r.full => Len(r.rows) = Bigger(0, Smaller(number + 1, r.stop) - r.start)
    BY <2>1 DEF RangeOK, RangeState
  <2>3. result = IF dropped
                 THEN [rows |-> <<>>, next |-> IF r.start <= number THEN r.start ELSE 0,
                       truncated |-> TRUE]
                 ELSE [rows |-> r.rows, next |-> IF r.end > 0 /\ r.end < number THEN r.end + 1 ELSE 0,
                       truncated |-> r.full]
    BY DEF Result
  <2> HIDE DEF result, dropped, r
  <2>4. CASE dropped
    <3>1. result.rows = <<>> /\ result.next = (IF r.start <= number THEN r.start ELSE 0)
          /\ result.truncated = TRUE
      BY <2>3, <2>4
    <3>2. Len(result.rows) = 0 /\ DOMAIN result.rows = {} /\ r.start + 0 = r.start
      BY <2>2, <3>1, EmptySeq
    <3> QED BY <3>1, <3>2 DEF r, result
  <2>5. CASE ~dropped
    <3>1. /\ result.rows = r.rows /\ result.truncated = r.full
          /\ result.next = IF r.end > 0 /\ r.end < number THEN r.end + 1 ELSE 0
      BY <2>3, <2>5
    <3> DEFINE stop == r.start + Len(r.rows)
    <3>2. stop < Smaller(r.stop, number + 1) => r.full
      BY <1>1, <2>2 DEF Smaller, Bigger
    <3>3. result.next = IF stop <= number THEN stop ELSE 0
      <4>1. CASE r.rows = <<>>
        <5>1. r.end = 0 /\ Len(r.rows) = 0 /\ ~r.full
          BY <2>2, <4>1, EmptySeq
        <5>2. ~(r.start <= number)
          BY <1>1, <2>2, <5>1 DEF Smaller, Bigger
        <5> QED BY <2>2, <3>1, <5>1, <5>2
      <4>2. CASE r.rows # <<>>
        <5>1. Len(r.rows) >= 1
          BY <2>2, <4>2, EmptySeq
        <5> QED BY <1>1, <2>2, <3>1, <4>2, <5>1
      <4> QED BY <4>1, <4>2
    <3> QED BY <2>2, <3>1, <3>2, <3>3 DEF r, result
  <2> QED BY <2>4, <2>5
<1> QED BY <1>1, <1>2

(* At the end of a text the matches are the lines that hold the needle.    *)
LEMMA FoundAtEnd ==
  ASSUME TextInv
  PROVE  SearchFindsLines
<1> SUFFICES ASSUME ~Reads, done = "done", NEW i \in DOMAIN needles
             PROVE  LET hits == Found(i)
                        needle == needles[i].needle
                    IN IF valid
                       THEN /\ Listed(text, hits, needle, LineCount(text))
                            /\ \A k \in DOMAIN hits : Shown(hits[k], needle, LineCount(text))
                       ELSE Nul \in ToSet(text) \/ Len(text) > Smaller(Maximum, budget)
  BY DEF SearchFindsLines
<1>1. CASE valid
  <2>1. HitsOK(text, needles[i], LineCount(text))
    BY <1>1 DEF TextInv, FoundOK, EndOK
  <2>2. Found(i) = needles[i].hits
    BY <1>1 DEF Found
  <2> QED BY <1>1, <2>1, <2>2 DEF HitsOK
<1>2. CASE ~valid
  BY <1>2 DEF TextInv, GivenUpOK, Unusable
<1> QED BY <1>1, <1>2

-----------------------------------------------------------------------------
(* FileReads.                                                              *)

(* The inductive invariant of one reading tool: TextInv while it reads or  *)
(* searches a text, FolderInv for a folder that it walks, BatchOK for a    *)
(* batch that it serves; a tool that reads a text has an empty folder.     *)
ReadInv == /\ tool \in {"text", "folder"}
           /\ FolderInv /\ BatchOK
           /\ tool = "text" => TextInv
           /\ tool = "folder" => done = "none"

(* A batch has kept the reserve of all its requests before the first one,  *)
(* and a tool that reads a text has no request at all.                     *)
LEMMA BatchStart == FolderInit => BatchOK
<1> SUFFICES ASSUME FolderInit PROVE BatchOK
  OBVIOUS
<1>1. folder \in Seq(Item) /\ Len(folder) \in Nat /\ Len(folder) * Reserve <= BatchBudget
  BY FoldersAssumption, BatchAssumption DEF FolderInit
<1>2. next = 1 /\ used = 0 /\ answers = <<>> /\ ~over
  BY DEF FolderInit
<1>3. Reserve \in Nat /\ BatchBudget \in Nat
  BY LimitsAssumption
<1>4. used + (Len(folder) - (next - 1)) * Reserve <= BatchBudget
  <2>1. Len(folder) - (next - 1) = Len(folder)
    BY <1>1, <1>2
  <2>2. Len(folder) * Reserve \in Nat
    BY <1>1, <1>3
  <2> QED BY <1>1, <1>2, <2>1, <2>2
<1>5. answers \in Seq(BOOLEAN) /\ Len(answers) = next - 1 /\ used \in Nat
  BY <1>2
<1>6. \A n \in 1 .. next - 1 : answers[n] = Readable(folder[n])
  BY <1>2
<1> QED BY <1>2, <1>4, <1>5, <1>6 DEF BatchOK

LEMMA NoFolderStart == NoFolder => FolderInv /\ BatchOK
<1> SUFFICES ASSUME NoFolder PROVE FolderInv /\ BatchOK
  OBVIOUS
<1>1. folder = <<>> /\ Len(folder) = 0 /\ folder \in Seq(Item)
  BY DEF NoFolder
<1>2. /\ task = "batch" /\ next = 1 /\ total = 0 /\ cut = {} /\ truncated = FALSE
      /\ matched = [q \in Queries |-> 0] /\ used = 0 /\ answers = <<>> /\ over = TRUE
  BY DEF NoFolder
<1>3. FolderTypes
  <2>1. 0 \in 0 .. PerQuery /\ 0 \in 0 .. MaxScan
    BY QueryNumbers
  <2>2. matched \in [Queries -> 0 .. PerQuery]
    BY <1>2, <2>1
  <2>3. task \in Tasks /\ truncated \in BOOLEAN /\ over \in BOOLEAN /\ cut \subseteq Queries
    BY <1>2 DEF Tasks
  <2>4. next \in 1 .. Len(folder) + 1 /\ total \in 0 .. MaxScan
    BY <1>1, <1>2, <2>1
  <2> QED BY <1>1, <2>2, <2>3, <2>4 DEF FolderTypes
<1>4. BatchOK
  <2>1. Reserve \in Nat /\ BatchBudget \in Nat
    BY LimitsAssumption
  <2>2. Len(folder) - (next - 1) = 0
    BY <1>1, <1>2
  <2>3. used + (Len(folder) - (next - 1)) * Reserve <= BatchBudget
    BY <1>2, <2>1, <2>2
  <2>4. answers \in Seq(BOOLEAN) /\ Len(answers) = next - 1 /\ used \in Nat
    BY <1>2
  <2>5. \A n \in 1 .. next - 1 : answers[n] = Readable(folder[n])
    BY <1>2
  <2> QED BY <1>1, <1>2, <2>3, <2>4, <2>5 DEF BatchOK
<1> QED BY <1>2, <1>3, <1>4 DEF FolderInv

(* It holds at the start, before anything is read.                         *)
LEMMA ReadStart == ReadInit => ReadInv
<1> SUFFICES ASSUME ReadInit PROVE ReadInv
  OBVIOUS
<1>1. CASE tool = "text" /\ TextInit /\ NoFolder
  BY <1>1, TextStart, NoFolderStart DEF ReadInv
<1>2. CASE tool = "folder" /\ FolderInit /\ NoText
  BY <1>2, FolderStart, BatchStart DEF NoText, ReadInv
<1> QED BY <1>1, <1>2 DEF ReadInit

(* Every block, part, break, entry and request keeps it.                   *)
LEMMA ReadStep == ReadInv /\ [ReadNext]_readVars => ReadInv'
<1> SUFFICES ASSUME ReadInv, [ReadNext]_readVars PROVE ReadInv'
  OBVIOUS
<1>1. CASE tool = "text" /\ TextNext /\ UNCHANGED <<tool, folderVars>>
  <2>1. FolderInv' /\ BatchOK'
    BY <1>1, FolderStutter DEF ReadInv
  <2>2. TextInv'
    BY <1>1, TextStep DEF ReadInv
  <2> QED BY <1>1, <2>1, <2>2 DEF ReadInv
<1>2. CASE tool = "folder" /\ FolderNext /\ UNCHANGED <<tool, textVars>>
  <2>1. FolderInv' /\ BatchOK'
    BY <1>2, FolderStep DEF ReadInv
  <2> QED BY <1>2, <2>1 DEF ReadInv, textVars
<1>3. CASE UNCHANGED readVars
  <2>1. UNCHANGED tool /\ UNCHANGED textVars /\ UNCHANGED folderVars
    BY <1>3 DEF readVars
  <2>2. done' = done
    BY <2>1 DEF textVars
  <2> QED BY <2>1, <2>2, TextStutter, FolderStutter DEF ReadInv
<1> QED BY <1>1, <1>2, <1>3 DEF ReadNext

(* What the streaming readers carry from block to block, and the walks     *)
(* from entry to entry, stays what has been read so far, for any texts,    *)
(* folders and limits (stream_read.py, stream_search.py, FileReader.walk). *)
THEOREM ReadsInductive == ReadSpec => []ReadInv
BY ReadStart, ReadStep, PTL DEF ReadSpec

(* What a search leaves out is told: a search of a folder that does not    *)
(* say it was cut short has counted every match of the folder (find_files, *)
(* search_text and search_texts, with the limits of walk); a batch that    *)
(* does not say it was cut short has answered every file that could be     *)
(* read, and no batch answers more than fits.                              *)
THEOREM FolderComplete == ReadSpec => []UntruncatedIsComplete
<1>1. ReadInv => UntruncatedIsComplete
  BY CompleteAtEnd DEF ReadInv, UntruncatedIsComplete
<1> QED BY <1>1, ReadsInductive, PTL

(* A range that read_ranges returns is the lines of the text it was asked  *)
(* for, however the text was cut into blocks, and what it leaves out is    *)
(* said.                                                                   *)
THEOREM WindowExact == ReadSpec => []ReadIsWindow
<1>1. ReadInv => ReadIsWindow
  BY WindowAtEnd DEF ReadInv, ReadIsWindow
<1> QED BY <1>1, ReadsInductive, PTL

(* scan_file_many counts a needle in exactly the lines that hold it, also  *)
(* where a block cuts the needle or its line, and the snippet of a long    *)
(* line shows the match.                                                   *)
THEOREM SearchExact == ReadSpec => []SearchFindsLines
<1>1. ReadInv => SearchFindsLines
  BY FoundAtEnd DEF ReadInv, SearchFindsLines
<1> QED BY <1>1, ReadsInductive, PTL
=============================================================================
