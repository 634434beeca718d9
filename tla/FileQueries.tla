---------------------------- MODULE FileQueries -----------------------------
(***************************************************************************)
(* Reading the shared folders: list_files and query_files page through a   *)
(* snapshot of the names that SnapshotCache keeps for a short time, and    *)
(* project_status compares an inventory of digests with an earlier one     *)
(* that Baselines keeps (file_query.py, local_files_mcp.py,                *)
(* snapshot_cache.py, incremental_state.py).  None of it locks the files,  *)
(* which may change between any two steps.                                 *)
(***************************************************************************)
EXTENDS SharedFiles, FiniteSets, SequencesExt

CONSTANTS
  Readers,      \* calls that read
  OwnerOf(_),   \* the reader service, with its own cursor key, of a call
  MaxClock, IdleTime, Lifetime, \* bound of the clock; when an entry expires
  MaxOwned, MaxEntries,         \* entries of one owner, and of all
  Limit                         \* rows of a page

ASSUME CacheNumbers ==
  /\ MaxClock \in Nat /\ Limit \in Nat /\ IdleTime \in Nat /\ Lifetime \in Nat
  /\ IdleTime <= Lifetime /\ MaxOwned \in Nat \ {0} /\ MaxEntries \in Nat \ {0}

VARIABLES
  call,       \* what each call is doing
  cache,      \* SnapshotCache.items, in the order of their use
  baselines,  \* Baselines.items, in the order of their creation
  cursors,    \* the cursors given out, each with the rows that led to it
  uses,       \* how often the cache was used since a call stored its snapshot
  clock
queryVars == <<call, cache, baselines, cursors, uses, clock>>

(* left: the folders yet to list, then to check; folder: what was seen of  *)
(* each; sig: what was seen of the file being read; moment: the files when *)
(* the inventory was complete; back: the paths whose modification time was *)
(* found as it was, although it had been set back; since: when the         *)
(* snapshot was stored.                                                    *)
Nothing == [at |-> "idle", kind |-> "list", key |-> 0, left |-> {}, names |-> {}, rows |-> <<>>,
            sig |-> <<>>, sha |-> "none", folder |-> [d \in Folders |-> 0], offset |-> 0, got |-> <<>>,
            since |-> 0, base |-> <<>>, moment |-> <<>>, back |-> {}]

Unused == [own |-> 0, all |-> 0]  \* by its own service, and by all

QueriesInit == /\ call = [r \in Readers |-> Nothing] /\ cache = <<>> /\ baselines = <<>>
               /\ cursors = {} /\ clock = 0 /\ uses = [r \in Readers |-> Unused]

Now(r, c) == call' = [call EXCEPT ![r] = c]
Fail(r) == Now(r, Nothing)   \* an exception reaches the client
Names(d) == {p \in Paths : Exists(p) /\ FolderOf(p) = d}

(* The entries that belong to a set, in their order. *)
Kept(items, wanted) ==
  FoldLeft(LAMBDA kept, e : IF e \in wanted THEN Append(kept, e) ELSE kept, <<>>, items)

(* Storing: the first of the owner's entries goes, then the first of all.  *)
Owned(items, owner) == Kept(items, {e \in ToSet(items) : e.owner = owner})
WithinOwn(items, owner) ==
  IF Len(Owned(items, owner)) < MaxOwned THEN items
  ELSE Kept(items, ToSet(items) \ {Owned(items, owner)[1]})
(* Mutant: one entry less is kept. *)
WithinAllButOne(items) == IF Len(items) < MaxEntries - 1 THEN items ELSE Tail(items)

WithinAll(items) == IF Len(items) < MaxEntries THEN items ELSE Tail(items)
Stored(items, entry) == Append(WithinAll(WithinOwn(items, entry.owner)), entry)

EntryOf(r) == [key |-> call[r].key, owner |-> OwnerOf(r), kind |-> call[r].kind,
               rows |-> call[r].rows, created |-> clock, access |-> clock]
Young(items) == Kept(items, {e \in ToSet(items) : clock - e.created < Lifetime})
Unexpired(items) == Kept(Young(items), {e \in ToSet(items) : clock - e.access < IdleTime})

-----------------------------------------------------------------------------
(* A listing or an inventory begins with all folders to list; a status may *)
(* name a baseline of the same owner.                                      *)
Begin(r) ==
  /\ call[r].at = "idle" /\ NextCall
  /\ \E kind \in {"list", "query", "status"} :
     \E base \in {<<>>} \cup {e.rows : e \in ToSet(Owned(Young(baselines), OwnerOf(r)))} :
       /\ base # <<>> => kind = "status"
       /\ Now(r, [Nothing EXCEPT !.at = "scan", !.kind = kind, !.key = calls + 1,
                    !.left = Folders, !.base = base])
  /\ UNCHANGED <<fileVars, cache, baselines, cursors, uses, clock>>

(* A further page: the cursor carries the key of its snapshot. *)
BeginPage(r) ==
  /\ call[r].at = "idle" /\ NextCall
  /\ \E c \in cursors :
       /\ c.owner = OwnerOf(r)
       /\ Now(r, [Nothing EXCEPT !.at = "get", !.kind = c.kind, !.key = c.key, !.offset = c.offset,
                    !.got = c.got, !.since = -IdleTime])
  /\ UNCHANGED <<fileVars, cache, baselines, cursors, uses, clock>>

(* The names in the next folder. *)
ListFolder(r) ==
  LET c == call[r]
      d == Min(c.left)
  IN /\ c.at = "scan" /\ c.names = {} /\ c.left # {}
     /\ Now(r, [c EXCEPT !.left = @ \ {d}, !.names = Names(d), !.folder[d] = folder[d]])
     /\ UNCHANGED <<fileVars, cache, baselines, cursors, uses, clock>>

(* The next name: a listing skips one that is gone, a query and an         *)
(* inventory fail; an inventory opens the file to hash it, if it can.      *)
Scan(r) ==
  LET c == call[r]
      p == Min(c.names)
      rest == [c EXCEPT !.names = @ \ {p}]
      row == [path |-> p, sig |-> HandleSignature(files[p]), sha |-> "none"]
  IN /\ c.at = "scan" /\ c.names # {}
     /\ IF ~Exists(p) \/ (c.kind = "status" /\ p \in held)
        THEN IF c.kind = "list" THEN Now(r, rest) ELSE Fail(r)
        ELSE IF c.kind = "status" THEN Now(r, [c EXCEPT !.at = "open", !.sig = row.sig])
             ELSE Now(r, [rest EXCEPT !.rows = Append(@, row)])
     /\ UNCHANGED <<fileVars, cache, baselines, cursors, uses, clock>>

(* hash_record: an unchanged file keeps the digest of the baseline; any    *)
(* other is read.                                                          *)
Known(c, p) == {row \in ToSet(c.base) : row.path = p /\ row.sig = c.sig}
Digest(r) ==
  LET c == call[r]
      p == Min(c.names)
  IN /\ c.at = "open"
     /\ Now(r, [c EXCEPT !.at = "read", !.sha = IF Known(c, p) = {} THEN files[p].data
                                                ELSE (CHOOSE row \in Known(c, p) : TRUE).sha])
     /\ UNCHANGED <<fileVars, cache, baselines, cursors, uses, clock>>

(* The handle must show what it showed before, if the file has been read,  *)
(* and the path the same identity and time.                                *)
CloseHandle(r) ==
  LET c == call[r]
      p == Min(c.names)
      same == IF Known(c, p) = {} THEN HandleSignature(files[p]) = c.sig
              ELSE Signature(files[p]) = SubSeq(c.sig, 1, 2)
  IN /\ c.at = "read"
     /\ IF same THEN Now(r, [c EXCEPT !.at = "scan", !.names = @ \ {p}, !.sig = <<>>, !.sha = "none",
                               !.rows = Append(@, [path |-> p, sig |-> c.sig, sha |-> c.sha])])
        ELSE Fail(r)
     /\ UNCHANGED <<fileVars, cache, baselines, cursors, uses, clock>>

(* The end of the inventory: each folder must be as it was, *)
Unchecked(c) == IF c.at = "scan" THEN Folders ELSE c.left
Inventoried(c) == /\ c.kind = "status" /\ c.names = {} /\ Unchecked(c) # {}
                  /\ \/ c.at = "scan" /\ c.left = {}
                     \/ c.at = "folders"
FolderDone(r) ==
  LET c == call[r]
      left == Unchecked(c) \ {Min(Unchecked(c))}
  IN Now(r, [c EXCEPT !.at = IF left = {} THEN "rows" ELSE "folders", !.left = left,
               !.moment = IF c.at = "scan" THEN files ELSE @,
               !.names = IF left = {} THEN {row.path : row \in ToSet(c.rows)} ELSE {}])

CheckFolder(r) ==
  LET d == Min(Unchecked(call[r]))
  IN /\ Inventoried(call[r])
     /\ IF folder[d] = call[r].folder[d] THEN FolderDone(r) ELSE Fail(r)
     /\ UNCHANGED <<fileVars, cache, baselines, cursors, uses, clock>>

(* then each file; *)
(* Mutant: only the identity is compared. *)
ShowsIdentity(row) == files[row.path].id = row.sig[1]

Shows(row) == Signature(files[row.path]) = SubSeq(row.sig, 1, 2)
CheckRow(r) ==
  LET c == call[r]
      p == Min(c.names)
      mine == {row \in ToSet(c.rows) : row.path = p}
  IN /\ c.at = "rows" /\ c.names # {}
     /\ IF \A row \in mine : Shows(row)
        THEN Now(r, [c EXCEPT !.names = @ \ {p},
                       !.back = IF \E row \in mine : files[p].back > row.sig[3] THEN @ \cup {p} ELSE @])
        ELSE Fail(r)
     /\ UNCHANGED <<fileVars, cache, baselines, cursors, uses, clock>>

(* what the baseline has and the inventory has not must be gone; then the  *)
(* inventory is the next baseline.                                         *)
Compare(r) ==
  LET c == call[r]
      paths(rows) == {row.path : row \in ToSet(rows)}
  IN /\ c.at = "rows" /\ c.names = {}
     /\ baselines' = IF \E p \in paths(c.base) \ paths(c.rows) : Exists(p) THEN baselines
                     ELSE Stored(Young(baselines), EntryOf(r))
     /\ Now(r, Nothing)
     /\ UNCHANGED <<fileVars, cache, cursors, uses, clock>>

(* The cache is used by one more call: what the others stored grows older. *)
Use(r) ==
  uses' = [s \in Readers |->
             IF s = r \/ call[s].at # "get" THEN Unused
             ELSE [own |-> uses[s].own + (IF OwnerOf(s) = OwnerOf(r) THEN 1 ELSE 0),
                   all |-> uses[s].all + 1]]

(* CACHE.put, and the CACHE.get that follows it or begins a further page. *)
Put(r) ==
  LET c == call[r]
  IN /\ c.at = "scan" /\ c.names = {} /\ c.left = {} /\ c.kind # "status"
     /\ cache' = Stored(Unexpired(cache), EntryOf(r))
     /\ Now(r, [c EXCEPT !.at = "get", !.rows = <<>>, !.since = clock]) /\ Use(r)
     /\ UNCHANGED <<fileVars, baselines, cursors, clock>>

Found(r) == {e \in ToSet(Unexpired(cache)) :
               e.key = call[r].key /\ e.owner = OwnerOf(r) /\ e.kind = call[r].kind}
Get(r) ==
  /\ call[r].at = "get"
  /\ IF Found(r) = {} THEN /\ Fail(r) /\ cache' = Unexpired(cache)
                          /\ uses' = [uses EXCEPT ![r] = Unused]
     ELSE LET e == CHOOSE f \in Found(r) : TRUE
          IN /\ cache' = Append(Kept(Unexpired(cache), ToSet(cache) \ {e}),
                                [e EXCEPT !.access = clock])
             /\ Use(r)
             /\ Now(r, [call[r] EXCEPT !.at = "page", !.rows = e.rows])
  /\ UNCHANGED <<fileVars, baselines, cursors, clock>>

(* A page.  A query checks each of its files again. *)
PageOf(c) == SubSeq(c.rows, c.offset + 1, IF c.offset + Limit < Len(c.rows) THEN c.offset + Limit
                                          ELSE Len(c.rows))
NextOffset(c) == c.offset + Len(PageOf(c))
Page(r) ==
  LET c == call[r]
  IN /\ c.at = "page"
     /\ cursors' = IF (c.kind = "list" \/ \A row \in ToSet(PageOf(c)) : Shows(row)) /\ NextOffset(c) < Len(c.rows)
                   THEN cursors \cup {[key |-> c.key, owner |-> OwnerOf(r), kind |-> c.kind,
                                       offset |-> NextOffset(c), got |-> c.got \o PageOf(c)]}
                   ELSE cursors
     /\ Now(r, Nothing)
     /\ UNCHANGED <<fileVars, cache, baselines, uses, clock>>

(* Time matters once something has been stored. *)
Tick == /\ clock < MaxClock /\ clock' = clock + 1 /\ (cache # <<>> \/ baselines # <<>>)
        /\ UNCHANGED <<fileVars, call, cache, baselines, cursors, uses>>

ReadStep(r) == \/ ListFolder(r) \/ Scan(r) \/ Digest(r) \/ CloseHandle(r)
               \/ CheckFolder(r) \/ CheckRow(r) \/ Compare(r) \/ Put(r) \/ Get(r) \/ Page(r)

-----------------------------------------------------------------------------
(* The call that stored a snapshot finds it again, unless it slept or the  *)
(* whole cache, or all that its service may keep, has been used meanwhile: *)
(* older snapshots are displaced first.  And a cursor stands behind        *)
(* exactly the rows of its snapshot that were given out before it, once    *)
(* each and in order, whatever was used or displaced.                      *)
Awaits(r) == /\ call[r].at = "get" /\ clock - call[r].since < IdleTime
             /\ uses[r].own < MaxOwned /\ uses[r].all < MaxEntries
SnapshotsAreStable ==
  /\ \A r \in Readers : Awaits(r) => Found(r) # {}
  /\ \A c \in cursors, e \in ToSet(cache) :
       e.key = c.key => e.owner = c.owner /\ c.got = SubSeq(e.rows, 1, c.offset)

(* A digest that a later status may reuse is the digest of the file, as    *)
(* long as the file shows the same identity, time and change time, even    *)
(* though a program may have restored the modification time.               *)
HashesAreTrue ==
  \A e \in ToSet(baselines), p \in Paths : \A row \in ToSet(e.rows) :
    row.path = p /\ row.sig = HandleSignature(files[p]) => row.sha = files[p].data

(* A stored inventory fits the shared folders as they were at one moment,  *)
(* although they were listed, hashed and checked one by one without a      *)
(* lock: the same paths with the same files, and each with the digest and  *)
(* times of that moment.  Only a file whose modification time was set back *)
(* after it was hashed may have an older digest (it shows a new change     *)
(* time to the next status).                                               *)
InventoryFitsAMoment ==
  \A r \in Readers :
    LET c == call[r]
    IN c.at = "rows" /\ c.names = {} => \A p \in Paths :
         LET mine == {row \in ToSet(c.rows) : row.path = p}
         IN /\ mine = {} <=> c.moment[p] = NoFile
            /\ \A row \in mine :
                 /\ row.sig[1] = c.moment[p].id
                 /\ p \notin c.back => /\ row.sig = HandleSignature(c.moment[p])
                                      /\ row.sha = c.moment[p].data
=============================================================================
