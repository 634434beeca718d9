---------------------------- MODULE FolderSearch ----------------------------
(***************************************************************************)
(* Searches over a folder, and batches of reads, each with its limits:     *)
(* walk, find_files, search_text and search_texts of local_files_mcp.py,   *)
(* and batch of workspace_reader.py.  A client must learn from the answer  *)
(* whether something is missing from it.                                   *)
(***************************************************************************)
EXTENDS Integers, Sequences, FiniteSets, SequencesExt

CONSTANTS
  Folders,      \* what the walk meets: sequences of entries
  Queries,      \* 1..n, the queries of one call
  MaxEntries, MaxFiles,   \* entries and files of a walk
  MaxFile, MaxScan,       \* size of a file, and of a whole search
  PerQuery, AllMatches,   \* matches of a query, and of the call
  BatchBudget, Reserve,   \* size of the answer to a batch; what is kept for
                          \* each request that may have to be skipped
  AnswerSizes             \* of a request: a few lines or many, or why there are none

(* An entry that the walk meets: how often each query matches it, and how  *)
(* its file can be read.                                                   *)
Item == [kind : {"folder", "other", "file"}, text : BOOLEAN, size : Nat,
         read : {"well", "fails", "binary"}, hits : [Queries -> Nat]]

ASSUME QueriesAssumption == IsFiniteSet(Queries) /\ Queries # {} /\ Queries = 1..Cardinality(Queries)
ASSUME FoldersAssumption == Folders \subseteq Seq(Item)
ASSUME LimitsAssumption ==
  /\ {MaxFile, PerQuery, AllMatches, BatchBudget, Reserve} \subseteq Nat /\ MaxScan \in Nat \ {0}
  /\ AnswerSizes \subseteq Nat
(* batch subtracts the reserve of all its requests from the budget. *)
ASSUME BatchAssumption == \A f \in Folders : Len(f) * Reserve <= BatchBudget

VARIABLES folder, task, next, entries, files, total, matched, cut, truncated, skipped, used, answers, over
folderVars == <<folder, task, next, entries, files, total, matched, cut, truncated, skipped, used, answers, over>>

Tasks == {"find_files", "search_text", "search_texts", "batch"}
Asked == IF task = "search_text" THEN {1} ELSE Queries

FolderInit ==
  /\ folder \in Folders /\ task \in Tasks
  /\ next = 1 /\ entries = 0 /\ files = 0 /\ total = 0 /\ skipped = 0
  /\ matched = [q \in Queries |-> 0]   \* how many matches each query has
  /\ cut = {}                          \* the queries whose own limit was met
  /\ truncated = FALSE /\ used = 0 /\ answers = <<>> /\ over = FALSE

Entry == folder[next]
Walking == ~over /\ task # "batch" /\ next <= Len(folder)
(* What the elements of a sequence add up to, up to each of them. *)
Sums(s) == LET sum[n \in 0..Len(s)] == IF n = 0 THEN 0 ELSE sum[n - 1] + s[n] IN sum
Count(m) == Sums(m)[Len(m)]
AllFull(m) == \A q \in Asked : m[q] >= PerQuery

(* walk: the entry over the limit ends the walk; folders are entered, and  *)
(* what is neither folder nor file, or may not be listed, is skipped.      *)
WalkLimit ==
  /\ Walking /\ (entries >= MaxEntries \/ (Entry.kind = "file" /\ files >= MaxFiles))
  /\ truncated' = TRUE /\ over' = TRUE
  /\ UNCHANGED <<folder, task, next, entries, files, total, matched, cut, skipped, used, answers>>

Visit == /\ Walking /\ entries < MaxEntries /\ entries' = entries + 1 /\ next' = next + 1
         /\ UNCHANGED <<folder, task, used, answers>>
Pass == /\ Visit /\ Entry.kind # "file"
        /\ skipped' = IF Entry.kind = "other" THEN skipped + 1 ELSE skipped
        /\ UNCHANGED <<files, total, matched, cut, truncated, over>>
File == Visit /\ Entry.kind = "file" /\ files < MaxFiles /\ files' = files + 1

(* find_files: a file goes to every query it matches that is not full. *)
Wanting == {q \in Queries : matched[q] < PerQuery /\ Entry.hits[q] > 0}
Room == IF AllMatches > Count(matched) THEN AllMatches - Count(matched) ELSE 0
Served(room) == {q \in Wanting : Cardinality({p \in Wanting : p < q}) < room}
Find ==
  /\ task = "find_files" /\ File
  /\ matched' = [q \in Queries |-> matched[q] + (IF q \in Served(Room) THEN 1 ELSE 0)]
  /\ LET stop == Served(Room) # Wanting \/ Count(matched') >= AllMatches \/ AllFull(matched')
     IN truncated' = stop /\ over' = stop
  /\ UNCHANGED <<total, cut, skipped>>

(* scan_file reads at most what the search may still scan; a file that     *)
(* changes or fails meanwhile is skipped, and what was read of it is not   *)
(* counted.                                                                *)
Least(a, b) == IF a < b THEN a ELSE b
Used == Least(Entry.size, Least(MaxFile + 1, MaxScan - total))
Valid == Entry.read = "well" /\ Used = Entry.size /\ Used <= MaxFile
Unscanned ==
  /\ task \in {"search_text", "search_texts"} /\ File
  /\ \/ /\ ~Entry.text \/ (Entry.read = "fails" /\ total < MaxScan)
        /\ skipped' = skipped + 1 /\ UNCHANGED <<truncated, over>>
     \/ /\ Entry.text /\ total >= MaxScan
        /\ truncated' = TRUE /\ over' = TRUE /\ UNCHANGED skipped
  /\ UNCHANGED <<total, matched, cut>>

(* Mutant: no candidate more than the query may have. *)
CandidatesExactly(q) == Least(Entry.hits[q], PerQuery - matched[q])

(* The candidates of the queries in their order: one more than a query may *)
(* still have, so that the limit is noticed.                               *)
Candidates(q) == Least(Entry.hits[q], PerQuery - matched[q] + 1)
Taken(q) == Least(Candidates(q), PerQuery - matched[q])
Before == Sums([q \in Queries |-> IF q \in Asked THEN Taken(q) ELSE 0])
Given(q) == IF q \notin Asked \/ Before[q - 1] >= Room THEN 0 ELSE Least(Taken(q), Room - Before[q - 1])
Short == \E q \in Asked : Given(q) < Taken(q)
Scan ==
  /\ task \in {"search_text", "search_texts"} /\ File
  /\ Entry.text /\ Entry.read # "fails" /\ total < MaxScan
  /\ total' = total + Used
  /\ IF ~Valid
     THEN /\ skipped' = skipped + 1 /\ UNCHANGED <<matched, cut, over>>
          /\ truncated' = (truncated \/ (task = "search_text" /\ total' >= MaxScan))
     ELSE /\ matched' = [q \in Queries |-> matched[q] + Given(q)]
          /\ cut' = cut \cup {q \in Asked : Candidates(q) > Given(q)}
          /\ over' = (Short \/ AllFull(matched') \/ (task = "search_text" /\ (cut' # {} \/ total' >= MaxScan)))
          /\ truncated' = (truncated \/ over') /\ UNCHANGED skipped

(* The end of the walk. *)
EndOfWalk ==
  /\ ~over /\ task # "batch" /\ next > Len(folder) /\ over' = TRUE
  /\ truncated' = (truncated \/ (task = "search_texts" /\ total >= MaxScan))
  /\ UNCHANGED <<folder, task, next, entries, files, total, matched, cut, skipped, used, answers>>

(* batch: every request has its answer, the requested lines or why there   *)
(* are none; once one does not fit, the others are skipped, which never    *)
(* takes more than the reserve.                                            *)
Rest == Len(folder) - next
Answered == Entry.kind = "file" /\ Entry.text /\ Entry.read = "well" /\ Entry.size <= MaxFile
Batch ==
  /\ ~over /\ task = "batch" /\ next <= Len(folder)
  /\ \E wanted \in AnswerSizes :
       LET fits == used + wanted + Rest * Reserve <= BatchBudget
       IN /\ truncated => wanted <= Reserve
          /\ used' = used + (IF fits THEN wanted ELSE Reserve)
          /\ answers' = Append(answers, fits /\ ~truncated /\ Answered)
          /\ truncated' = (truncated \/ ~fits)
  /\ next' = next + 1 /\ over' = (next' > Len(folder))
  /\ UNCHANGED <<folder, task, entries, files, total, matched, cut, skipped>>

FolderNext == WalkLimit \/ Pass \/ Find \/ Unscanned \/ Scan \/ EndOfWalk \/ Batch

(* What the answer says of a query. *)
SaysCut(q) == truncated \/ q \in cut \/ (task = "find_files" /\ matched[q] >= PerQuery)

-----------------------------------------------------------------------------
(* A query that the answer does not call truncated has every match of      *)
(* every file that could be read; the files that could not are counted.  A *)
(* batch that is not called truncated has an answer for every file that    *)
(* could be read, and no batch answers more than fits.                     *)
Readable(e) == e.kind = "file" /\ (task = "find_files" \/ (e.text /\ e.read = "well" /\ e.size <= MaxFile))
HitsOf(q, e) == IF ~Readable(e) THEN 0 ELSE IF task = "find_files" THEN Least(e.hits[q], 1) ELSE e.hits[q]
Expected(q) == Sums([n \in 1..Len(folder) |-> HitsOf(q, folder[n])])
Unread == {n \in 1..Len(folder) : folder[n].kind # "folder" /\ ~Readable(folder[n])}
UntruncatedIsComplete ==
  over =>
    IF task = "batch"
    THEN /\ used <= BatchBudget
         /\ ~truncated => \A n \in 1..Len(folder) : answers[n] = Readable(folder[n])
    ELSE \A q \in Asked : ~SaysCut(q) =>
           /\ matched[q] = Expected(q)[Len(folder)]
           /\ skipped = Cardinality(Unread)

=============================================================================
