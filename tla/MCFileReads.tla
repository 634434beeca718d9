---------------------------- MODULE MCFileReads -----------------------------
(***************************************************************************)
(* Every text of up to five characters and three longer ones, in blocks of *)
(* every length; folders of up to four entries of ten sorts, and of five   *)
(* entries of four.  Every limit is met by some of them.                   *)
(***************************************************************************)
EXTENDS FileReads

MCCharacters == {"a", "b", "CR", "LF", "NUL"}
MCTexts == UNION {[1..n -> MCCharacters \ {"NUL"}] : n \in 0..5}
             \cup {<<"a", "NUL", "a">>, <<"a", "a", "b", "a", "a", "CR", "LF">>, <<"a", "a", "b", "b", "a", "b">>}
MCRequests ==
  {[kind |-> "read", items |-> <<[start |-> 1, stop |-> 3]>>],
   [kind |-> "read", items |-> <<[start |-> 2, stop |-> 5], [start |-> 1, stop |-> 4]>>],
   [kind |-> "find", items |-> <<<<"a">>>>],
   [kind |-> "find", items |-> <<<<"a", "b">>, <<"b", "a">>>>]}

EntryOf(kind, isText, size, read, one, two) ==
  [kind |-> kind, text |-> isText, size |-> size, read |-> read, hits |-> <<one, two>>]
MCEntries ==
  {EntryOf("folder", FALSE, 0, "fails", 0, 0), EntryOf("other", FALSE, 0, "fails", 0, 0),
   EntryOf("file", FALSE, 1, "well", 1, 0), EntryOf("file", TRUE, 1, "fails", 1, 1),
   EntryOf("file", TRUE, 2, "binary", 0, 1), EntryOf("file", TRUE, 4, "well", 1, 1),
   EntryOf("file", TRUE, 1, "well", 1, 0), EntryOf("file", TRUE, 2, "well", 2, 1),
   EntryOf("file", TRUE, 3, "well", 0, 2), EntryOf("file", TRUE, 2, "well", 3, 3)}
MCFew ==
  {EntryOf("folder", FALSE, 0, "fails", 0, 0), EntryOf("other", FALSE, 0, "fails", 0, 0),
   EntryOf("file", TRUE, 1, "well", 1, 0), EntryOf("file", TRUE, 2, "well", 0, 1)}
MCFolders == UNION {[1..n -> MCEntries] : n \in 0..4} \cup [1..5 -> MCFew]
=============================================================================
