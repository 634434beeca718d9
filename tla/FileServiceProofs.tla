------------------------- MODULE FileServiceProofs --------------------------
(***************************************************************************)
(* Proofs about FileService, for any number of files, contents, calls and  *)
(* changes: what a call that writes replaces, what a stored digest says,   *)
(* what an inventory is a picture of, and what the cursors stand behind.   *)
(***************************************************************************)
EXTENDS FileService, TLAPS, WellFoundedInduction, SequenceTheorems, FiniteSetTheorems

(* A file bears numbers no later than the last change; one that exists has *)
(* an identity that no other file has.                                     *)
FileRecord == [id : 0 .. stamp, mtime : 0 .. stamp, change : 0 .. stamp, back : 0 .. stamp,
               data : Contents \cup {"none", Partial}]
FileTypes ==
  /\ stamp \in Nat /\ folder \in [Folders -> 0 .. stamp] /\ held \subseteq Paths
  /\ files \in [Paths -> FileRecord]
Real == \A p \in Paths : Exists(p) => files[p].id # 0 /\ files[p].change # 0 /\ files[p].data # "none"
Separate == \A p, q \in Paths : Exists(p) /\ files[p].id = files[q].id => p = q
FilesInv == FileTypes /\ Real /\ Separate

(* A call past the queue has the lock; it names what it may replace.       *)
Operation == [at : {"idle", "queued", "entered", "checked", "writing"}, kind : WriteKinds,
              path : Paths, to : Paths, expect : Contents \cup {"none"},
              new : Contents \cup {"none"}, overtaken : BOOLEAN]
Admitted == \A c \in Callers : op[c].at \in {"entered", "checked", "writing"} => lock = c
Named(o) == o.at # "idle" =>
  /\ o.kind = "move" => o.to # o.path
  /\ o.kind \in {"create", "rewrite"} => o.new \in Contents
  /\ o.kind # "create" => o.expect \in Contents
(* What the check has seen stands until another program overtakes it.      *)
Stands(o) == o.at = "checked" /\ o.kind \in {"move", "delete"} /\ ~o.overtaken
               => files[o.path].data = o.expect
(* A call that writes has its file open.                                   *)
Opened(o) == o.at = "writing" =>
  /\ o.kind \in {"create", "rewrite"} /\ Exists(o.path)
  /\ o.kind = "rewrite" => o.path \in held /\ files[o.path].data = o.expect
  /\ o.kind = "create" /\ ~o.overtaken => files[o.path].data = Partial
WritesInv ==
  /\ op \in [Callers -> Operation] /\ Admitted
  /\ \A c \in Callers : Named(op[c]) /\ Stands(op[c]) /\ Opened(op[c])
ServiceInv == FilesInv /\ WritesInv

(* A file later on: its modification time is not earlier, or has just been *)
(* set back; and a file just written to, whose time is even later then.    *)
Onward(f, g, now) ==
  g.id = f.id /\ g.back >= f.back /\ (g.mtime >= f.mtime \/ g.back = now)
Rewritten(f, g, now) ==
  g.id = f.id /\ g.change = now /\ g.back >= f.back /\ (g.mtime > f.mtime \/ g.back = now)

(* What a step may do to the files: the files it changes vanish, or bear   *)
(* the number of the change; an identity is new, or its file was there     *)
(* before; and unless its folder shows it, every name keeps its file.      *)
Evolves ==
  \/ UNCHANGED <<files, stamp, folder>>
  \/ /\ stamp' = stamp + 1
     /\ \A p \in Paths : \/ files'[p] \in {files[p], NoFile}
                         \/ files'[p].change = stamp'
     /\ \A p \in Paths : \/ files'[p].id \in {0, stamp'}
                         \/ \E q \in Paths : Onward(files[q], files'[p], stamp')
     /\ \A d \in Folders : folder'[d] \in {folder[d], stamp'}
     /\ \A p \in Paths : \/ folder'[FolderOf(p)] = stamp'
                         \/ files'[p] = files[p]
                         \/ Rewritten(files[p], files'[p], stamp')

-----------------------------------------------------------------------------
(* The files.                                                              *)

LEMMA FilesAre ==
  ASSUME FilesInv, NEW p \in Paths
  PROVE  /\ files[p] \in FileRecord
         /\ files[p].id \in 0 .. stamp
         /\ files[p].mtime \in 0 .. stamp
         /\ files[p].change \in 0 .. stamp
         /\ files[p].back \in 0 .. stamp
         /\ Exists(p) <=> files[p].id # 0
<1>1. NoFile.id = 0 BY DEF NoFile
<1> QED BY <1>1 DEF FilesInv, FileTypes, FileRecord, Real, Exists

LEMMA FilesKept ==
  FilesInv /\ UNCHANGED <<files, stamp, folder>> /\ held' \subseteq Paths => FilesInv' /\ Evolves
BY DEF FilesInv, FileTypes, FileRecord, Real, Separate, Exists, Evolves

(* One file changes, under its old identity or a new one.                  *)
LEMMA OneChanges ==
  ASSUME FilesInv, NEW p \in Paths, NEW f, Change(p, f), held' \subseteq Paths,
         \/ f = NoFile
         \/ /\ f \in FileRecord' /\ f.change = stamp + 1 /\ f.data # "none" /\ f.id # 0
            /\ Rewritten(files[p], f, stamp + 1) \/ f.id = stamp + 1
  PROVE  FilesInv' /\ Evolves
<1>1. /\ NoFile \in FileRecord' /\ NoFile.id = 0 /\ NoFile.mtime = 0
      /\ stamp' = stamp + 1 /\ files' = [files EXCEPT ![p] = f]
      /\ folder' = IF f.id = files[p].id THEN folder
                   ELSE [folder EXCEPT ![FolderOf(p)] = stamp + 1]
  BY DEF NoFile, FileRecord, Change, FilesInv, FileTypes
<1>2. stamp \in Nat /\ folder \in [Folders -> 0 .. stamp] /\ files \in [Paths -> FileRecord]
      /\ FolderOf(p) \in Folders
  BY FolderAssumption DEF FilesInv, FileTypes
<1>3. \A q \in Paths : q # p => files'[q] = files[q]
  BY <1>1, <1>2
<1>4. files'[p] = f BY <1>1, <1>2
<1>5. FileTypes'
  <2>1. \A g \in FileRecord : g \in FileRecord' BY <1>1, <1>2 DEF FileRecord
  <2>2. f \in FileRecord' BY <1>1
  <2>3. folder' \in [Folders -> 0 .. stamp'] BY <1>1, <1>2
  <2> QED BY <2>1, <2>2, <2>3, <1>1, <1>2 DEF FileTypes
<1>6. Real'
  <2> SUFFICES ASSUME NEW q \in Paths, files'[q] # NoFile
               PROVE  files'[q].id # 0 /\ files'[q].change # 0 /\ files'[q].data # "none"
    BY DEF Real, Exists
  <2>1. CASE q = p BY <2>1, <1>2, <1>4
  <2>2. CASE q # p BY <2>2, <1>3 DEF FilesInv, Real, Exists
  <2> QED BY <2>1, <2>2
<1>7. Separate'
  <2> SUFFICES ASSUME NEW q \in Paths, NEW r \in Paths, Exists(q)', files'[q].id = files'[r].id
               PROVE  q = r
    BY DEF Separate
  <2>1. files'[q].id # 0 BY <1>6 DEF Real
  <2>2. \A s \in Paths : files[s].id \in 0 .. stamp BY FilesAre
  <2>3. CASE f = NoFile
    <3>1. q # p /\ r # p BY <2>1, <2>3, <1>1, <1>4
    <3> QED BY <2>1, <3>1, <1>3, FilesAre DEF FilesInv, Separate
  <2>4. CASE f # NoFile /\ f.id = files[p].id
    <3>1. \A s \in Paths : files'[s].id = files[s].id BY <2>4, <1>3, <1>4
    <3> QED BY <2>1, <3>1, FilesAre DEF FilesInv, Separate
  <2>5. CASE f # NoFile /\ f.id = stamp + 1
    <3>1. \A s \in Paths : s # p => files'[s].id = files[s].id /\ files'[s].id # stamp + 1
      BY <2>2, <1>2, <1>3
    <3> QED BY <2>1, <2>5, <3>1, <1>3, <1>4, FilesAre DEF FilesInv, Separate
  <2> QED BY <2>3, <2>4, <2>5 DEF Rewritten
<1>8. Evolves
  <2>1. \A q \in Paths : files'[q] \in {files[q], NoFile} \/ files'[q].change = stamp'
    BY <1>1, <1>3, <1>4
  <2>2. \A q \in Paths : /\ files[q].id \in 0 .. stamp /\ files[q].mtime \in 0 .. stamp
                          /\ files[q].back \in 0 .. stamp
    BY FilesAre
  <2>3. f \in FileRecord' => f.mtime \in Nat /\ f.back \in Nat BY <1>1, <1>2 DEF FileRecord
  <2>4. ASSUME NEW q \in Paths
        PROVE  \/ files'[q].id \in {0, stamp'}
               \/ \E r \in Paths : Onward(files[r], files'[q], stamp')
    <3>1. CASE q = p
      <4>1. Rewritten(files[p], f, stamp + 1) /\ f \in FileRecord' => Onward(files[p], f, stamp')
        BY <1>1, <2>2, <2>3 DEF Rewritten, Onward
      <4> QED BY <3>1, <4>1, <1>1, <1>4
    <3>2. CASE q # p
      <4>1. files'[q] = files[q] BY <3>2, <1>3
      <4>2. Onward(files[q], files'[q], stamp') BY <4>1, <2>2 DEF Onward
      <4> QED BY <4>2
    <3> QED BY <3>1, <3>2
  <2>5. \A d \in Folders : folder'[d] \in {folder[d], stamp'} BY <1>1, <1>2
  <2>6. ASSUME NEW q \in Paths
        PROVE  \/ folder'[FolderOf(q)] = stamp'
               \/ files'[q] = files[q]
               \/ Rewritten(files[q], files'[q], stamp')
    <3>1. CASE q # p BY <3>1, <1>3
    <3>2. CASE q = p /\ f.id # files[p].id BY <3>2, <1>1, <1>2
    <3>3. CASE q = p /\ f.id = files[p].id
      <4>1. f = NoFile => files[p] = NoFile BY <3>3, <1>1, FilesAre DEF Exists
      <4>2. f.id # stamp + 1 BY <3>3, <1>2, <2>2
      <4> QED BY <3>3, <4>1, <4>2, <1>1, <1>4
    <3> QED BY <3>1, <3>2, <3>3
  <2> QED BY <2>1, <2>4, <2>5, <2>6, <1>1 DEF Evolves
<1> QED BY <1>5, <1>6, <1>7, <1>8 DEF FilesInv

(* Another content in a file that exists, or a new file.                   *)
LEMMA WrittenIs ==
  ASSUME FilesInv, NEW p \in Paths, Exists(p), stamp' = stamp + 1,
         NEW data \in Contents, NEW time \in 1 .. stamp + 1
  PROVE  LET f == Written(files[p], data, time)
         IN /\ f \in FileRecord' /\ f.change = stamp + 1 /\ f.data = data /\ f.id # 0
            /\ f.data # "none" /\ f.id = files[p].id /\ Rewritten(files[p], f, stamp + 1)
<1>1. files[p] \in FileRecord /\ stamp \in Nat /\ files[p].id # 0
  BY FilesAre DEF FilesInv, FileTypes
<1>2. PICK f \in FileRecord : f = files[p] BY <1>1
<1> DEFINE w == Written(f, data, time)
<1>3. /\ w.id = f.id /\ w.change = stamp + 1 /\ w.data = data /\ w.mtime = time
      /\ w.back = IF time > f.mtime THEN f.back ELSE stamp + 1
  BY DEF Written, FileRecord
<1>4. f.mtime \in 0 .. stamp /\ f.id \in 0 .. stamp /\ f.back \in 0 .. stamp BY DEF FileRecord
<1>5. /\ w.mtime \in 0 .. stamp + 1 /\ w.back \in 0 .. stamp + 1 /\ w.back >= f.back
      /\ w.mtime > f.mtime \/ w.back = stamp + 1
  BY <1>1, <1>3, <1>4
<1>6. w \in FileRecord'
  <2>1. /\ stamp + 1 \in 0 .. stamp + 1 /\ f.id \in 0 .. stamp + 1
        /\ FileRecord' = [id : 0 .. stamp + 1, mtime : 0 .. stamp + 1, change : 0 .. stamp + 1,
                          back : 0 .. stamp + 1, data : Contents \cup {"none", Partial}]
    BY <1>1, <1>4 DEF FileRecord
  <2>2. f \in FileRecord' BY <1>1, <2>1 DEF FileRecord
  <2>3. w = [f EXCEPT !.data = w.data, !.change = w.change, !.mtime = w.mtime, !.back = w.back]
    BY <1>3 DEF Written, FileRecord
  <2> HIDE DEF w
  <2> QED BY <1>1, <1>3, <1>5, <2>1, <2>2, <2>3
<1>7. Rewritten(f, w, stamp + 1) BY <1>3, <1>5 DEF Rewritten
<1> QED BY <1>1, <1>2, <1>3, <1>6, <1>7, DistinctContents

LEMMA CreatedIs ==
  ASSUME FilesInv, stamp' = stamp + 1, NEW data \in Contents \cup {Partial}
  PROVE  LET f == Created(data)
         IN /\ f \in FileRecord' /\ f.change = stamp + 1 /\ f.data = data /\ f.id # 0
            /\ f.data # "none" /\ f.id = stamp + 1
<1>1. stamp \in Nat BY DEF FilesInv, FileTypes
<1>2. Created(data) \in FileRecord' BY <1>1 DEF Created, FileRecord
<1>3. data # "none" BY DistinctContents DEF Partial
<1> QED BY <1>1, <1>2, <1>3 DEF Created

(* What other programs do changes one file, as OneChanges says.            *)
LEMMA OtherChanges ==
  ASSUME FilesInv, NEW p \in Paths, OtherProgram(p)
  PROVE  /\ FilesInv' /\ Evolves /\ p \notin held /\ held' = held
         /\ \A q \in Paths : q # p => files'[q] = files[q]
<1> DEFINE Becomes(f) == /\ stamp' = stamp + 1 /\ Change(p, f)
                         /\ \/ f = NoFile
                            \/ /\ f \in FileRecord' /\ f.change = stamp + 1 /\ f.data # "none" /\ f.id # 0
                               /\ Rewritten(files[p], f, stamp + 1) \/ f.id = stamp + 1
<1>1. p \notin held /\ held' = held /\ held' \subseteq Paths
  BY DEF OtherProgram, FilesInv, FileTypes
<1>2. ASSUME NEW f, Becomes(f)
      PROVE  FilesInv' /\ Evolves /\ \A q \in Paths : q # p => files'[q] = files[q]
  <2>1. FilesInv' /\ Evolves BY <1>1, <1>2, OneChanges
  <2> QED BY <1>2, <2>1 DEF Change, FilesInv, FileTypes
<1>3. CASE Exists(p) /\ \E data \in Contents, time \in 1 .. stamp + 1 :
             Change(p, Written(files[p], data, time))
  <2>1. PICK data \in Contents, time \in 1 .. stamp + 1 : Change(p, Written(files[p], data, time))
    BY <1>3
  <2> DEFINE f == Written(files[p], data, time)
  <2>2. stamp' = stamp + 1 BY <2>1 DEF Change
  <2>3. /\ f \in FileRecord' /\ f.change = stamp + 1 /\ f.id # 0
        /\ f.data # "none" /\ Rewritten(files[p], f, stamp + 1)
    BY <1>3, <2>2, WrittenIs
  <2> HIDE DEF f
  <2>4. Becomes(f) BY <2>1, <2>2, <2>3 DEF f
  <2> QED BY <2>4, <1>2, <1>1
<1>4. CASE \E data \in Contents : Change(p, Created(data))
  <2>1. PICK data \in Contents : Change(p, Created(data)) BY <1>4
  <2> DEFINE f == Created(data)
  <2>2. stamp' = stamp + 1 BY <2>1 DEF Change
  <2>3. /\ f \in FileRecord' /\ f.change = stamp + 1 /\ f.id # 0
        /\ f.data # "none" /\ f.id = stamp + 1
    BY <2>2, CreatedIs
  <2> HIDE DEF f
  <2>4. Becomes(f) BY <2>1, <2>2, <2>3 DEF f
  <2> QED BY <2>4, <1>2, <1>1
<1>5. CASE Change(p, NoFile)
  <2>1. Becomes(NoFile) BY <1>5 DEF Change
  <2> QED BY <2>1, <1>2, <1>1
<1> QED BY <1>3, <1>4, <1>5 DEF OtherProgram

-----------------------------------------------------------------------------
(* The calls that write.                                                   *)

(* The lock and the two flags of the service move as a step says; nothing  *)
(* changes for the calls that take no part.                                *)
LEMMA WritesKept ==
  ASSUME ServiceInv, UNCHANGED <<files, held, op, lock>> PROVE WritesInv'
BY DEF ServiceInv, WritesInv, Admitted, Named, Stands, Opened, Exists

(* Call c takes a step while every other call waits outside the lock.      *)
LEMMA OneCalls ==
  ASSUME ServiceInv, NEW c \in Callers, NEW o \in Operation,
         op' = [op EXCEPT ![c] = o],
         \A d \in Callers : op[d].at \in {"entered", "checked", "writing"} => d = c,
         o.at \in {"entered", "checked", "writing"} => lock' = c,
         Named(o), Stands(o)', Opened(o)'
  PROVE  WritesInv'
<1>1. op \in [Callers -> Operation] BY DEF ServiceInv, WritesInv
<1>2. op' \in [Callers -> Operation]
  <2>1. Operation' = Operation BY DEF Operation
  <2> QED BY <1>1, <2>1
<1>3. op'[c] = o BY <1>1
<1>4. ASSUME NEW d \in Callers, d # c
      PROVE  op'[d] = op[d] /\ op[d].at \in {"idle", "queued"}
  BY <1>1, <1>4 DEF Operation
<1>5. Admitted' BY <1>3, <1>4 DEF Admitted
<1>6. ASSUME NEW d \in Callers PROVE (Named(op[d]) /\ Stands(op[d]) /\ Opened(op[d]))'
  <2>1. CASE d = c BY <2>1, <1>3 DEF Named, Stands, Opened
  <2>2. CASE d # c
    <3>1. op'[d] = op[d] /\ op[d].at \notin {"checked", "writing"} BY <2>2, <1>4
    <3> QED BY <3>1 DEF ServiceInv, WritesInv, Named, Stands, Opened
  <2> QED BY <2>1, <2>2
<1> QED BY <1>2, <1>5, <1>6 DEF WritesInv

LEMMA CallWriteKeeps ==
  ASSUME ServiceInv, NEW c \in Callers, CallWrite(c) PROVE ServiceInv'
<1>1. UNCHANGED <<files, stamp, folder, held, lock>> /\ op[c].at = "idle"
  BY DEF CallWrite, fileVars
<1>2. FilesInv' BY <1>1, FilesKept DEF ServiceInv, FilesInv, FileTypes
<1>3. PICK kind \in WriteKinds, p \in Paths, to \in Paths, new \in Contents \cup {"none"} :
        /\ (kind = "move") = (to # p)
        /\ (kind = "create") = ~Exists(p)
        /\ (kind \in {"create", "rewrite"}) = (new # "none")
        /\ files[p].data \notin {new, Partial}
        /\ op' = [op EXCEPT ![c] = [Idle EXCEPT !.at = "queued", !.kind = kind, !.path = p,
                    !.to = to, !.expect = files[p].data, !.new = new]]
  BY DEF CallWrite
<1>4. files[p].data \in Contents \cup {"none"} /\ (kind # "create" => files[p].data \in Contents)
  BY <1>3, FilesAre DEF ServiceInv, FilesInv, Real, FileRecord
<1>5. PICK o \in Operation :
        /\ op' = [op EXCEPT ![c] = o]
        /\ o.at = "queued" /\ o.kind = kind /\ o.path = p /\ o.to = to
        /\ o.expect = files[p].data /\ o.new = new
  <2> DEFINE q == [Idle EXCEPT !.at = "queued", !.kind = kind, !.path = p,
                     !.to = to, !.expect = files[p].data, !.new = new]
  <2>1. Idle \in [at : {"idle", "queued", "entered", "checked", "writing"}, kind : WriteKinds,
                  path : Int, to : Int, expect : Contents \cup {"none"},
                  new : Contents \cup {"none"}, overtaken : BOOLEAN]
    BY DEF Idle, WriteKinds
  <2>2. q \in Operation BY <1>4, <2>1 DEF Operation, Paths
  <2>3. /\ q.at = "queued" /\ q.kind = kind /\ q.path = p /\ q.to = to
        /\ q.expect = files[p].data /\ q.new = new
    BY DEF Idle
  <2>4. op' = [op EXCEPT ![c] = q] BY <1>3
  <2> HIDE DEF q
  <2> QED BY <2>2, <2>3, <2>4
<1>7. Named(o) BY <1>3, <1>4, <1>5 DEF Named
<1>9. Stands(o)' /\ Opened(o)' BY <1>5 DEF Stands, Opened
<1>10. op' \in [Callers -> Operation]
  <2>1. Operation' = Operation BY DEF Operation
  <2> QED BY <1>5, <2>1 DEF ServiceInv, WritesInv
<1>11. ASSUME NEW d \in Callers
       PROVE  /\ op'[d] = op[d] \/ op'[d] = o
              /\ (Named(op[d]) /\ Stands(op[d]) /\ Opened(op[d]))'
  <2>1. op'[d] = op[d] \/ op'[d] = o BY <1>5 DEF ServiceInv, WritesInv
  <2>2. CASE op'[d] = o BY <2>2, <1>7, <1>9 DEF Named, Stands, Opened
  <2>3. CASE op'[d] = op[d]
    BY <2>3, <1>1 DEF ServiceInv, WritesInv, Named, Stands, Opened, Exists
  <2> QED BY <2>1, <2>2, <2>3
<1>12. Admitted' BY <1>1, <1>5, <1>11 DEF ServiceInv, WritesInv, Admitted
<1>13. WritesInv' BY <1>10, <1>11, <1>12 DEF WritesInv
<1> QED BY <1>2, <1>13 DEF ServiceInv

(* A call inside the lock is there alone.                                  *)
LEMMA Alone ==
  ASSUME ServiceInv, NEW c \in Callers,
         op[c].at \in {"entered", "checked", "writing"} \/ lock = NoCaller
  PROVE  \A d \in Callers : op[d].at \in {"entered", "checked", "writing"} => d = c
BY WriteAssumption DEF ServiceInv, WritesInv, Admitted

LEMMA Leaves ==
  ASSUME ServiceInv, NEW c \in Callers, Leave(c),
         op[c].at \in {"entered", "checked", "writing"} \/ lock = NoCaller
  PROVE  WritesInv'
<1>1. Idle \in Operation /\ Idle.at = "idle"
  BY FileBounds DEF Idle, Operation, WriteKinds, Paths
<1>2. Named(Idle) /\ Stands(Idle)' /\ Opened(Idle)'
  BY <1>1 DEF Named, Stands, Opened
<1>3. op' = [op EXCEPT ![c] = Idle] BY DEF Leave
<1> QED BY <1>1, <1>2, <1>3, Alone, OneCalls

LEMMA Goes ==
  ASSUME ServiceInv, NEW c \in Callers, NEW at \in {"entered", "checked", "writing"}, To(c, at),
         op[c].at \in {"entered", "checked", "writing"} \/ lock = NoCaller,
         lock' = c, op[c].at # "idle",
         \A o \in Operation : /\ o.at = at /\ o.kind = op[c].kind /\ o.path = op[c].path
                              /\ o.expect = op[c].expect /\ o.overtaken = op[c].overtaken
                              => Stands(o)' /\ Opened(o)'
  PROVE  WritesInv'
<1>1. op[c] \in Operation BY DEF ServiceInv, WritesInv
<1>2. PICK q \in Operation : q = op[c] BY <1>1
<1> DEFINE o == [q EXCEPT !.at = at]
<1>3. o \in Operation BY DEF Operation
<1>4. /\ o.at = at /\ o.kind = q.kind /\ o.path = q.path /\ o.to = q.to /\ o.new = q.new
      /\ o.expect = q.expect /\ o.overtaken = q.overtaken
  BY DEF Operation
<1>5. op' = [op EXCEPT ![c] = o] BY <1>2 DEF To
<1> HIDE DEF o
<1>6. Named(o) BY <1>2, <1>4 DEF ServiceInv, WritesInv, Named
<1>7. Stands(o)' /\ Opened(o)' BY <1>2, <1>3, <1>4
<1> QED BY <1>3, <1>5, <1>6, <1>7, Alone, OneCalls

LEMMA EnterKeeps ==
  ASSUME ServiceInv, NEW c \in Callers, Enter(c) PROVE ServiceInv' /\ Evolves
<1>1. UNCHANGED <<files, stamp, folder, held>> /\ op[c].at = "queued" /\ lock = NoCaller
  BY DEF Enter, fileVars
<1>2. FilesInv' /\ Evolves BY <1>1, FilesKept DEF ServiceInv, FilesInv, FileTypes
<1>3. CASE Leave(c) BY <1>1, <1>2, <1>3, Leaves DEF ServiceInv
<1>4. CASE To(c, "entered") /\ lock' = c
  <2>1. \A o \in Operation : o.at = "entered" => Stands(o)' /\ Opened(o)'
    BY DEF Stands, Opened
  <2>2. WritesInv' BY <1>1, <1>4, <2>1, Goes
  <2> QED BY <1>2, <2>2 DEF ServiceInv
<1> QED BY <1>3, <1>4 DEF Enter

LEMMA CheckKeeps ==
  ASSUME ServiceInv, NEW c \in Callers, Check(c) PROVE ServiceInv' /\ Evolves
<1>1. UNCHANGED <<files, stamp, folder, held>> /\ op[c].at = "entered"
  BY DEF Check, fileVars
<1>2. FilesInv' /\ Evolves BY <1>1, FilesKept DEF ServiceInv, FilesInv, FileTypes
<1>3. CASE Leave(c) BY <1>1, <1>2, <1>3, Leaves DEF ServiceInv
<1>4. CASE Expected(op[c]) /\ To(c, "checked") /\ lock' = lock
  <2>1. lock = c BY <1>1 DEF ServiceInv, WritesInv, Admitted
  <2>2. ASSUME NEW o \in Operation, o.at = "checked", o.kind = op[c].kind,
               o.path = op[c].path, o.expect = op[c].expect
        PROVE  Stands(o)' /\ Opened(o)'
    BY <1>1, <1>4, <2>2 DEF Expected, Stands, Opened
  <2>3. WritesInv' BY <1>1, <1>4, <2>1, <2>2, Goes
  <2> QED BY <1>2, <2>3 DEF ServiceInv
<1> QED BY <1>3, <1>4 DEF Check

LEMMA BusyKeeps ==
  ASSUME ServiceInv, NEW c \in Callers, Busy(c) PROVE ServiceInv' /\ Evolves
<1>1. UNCHANGED <<files, stamp, folder, held>> /\ op[c].at = "checked" /\ Leave(c)
  BY DEF Busy, fileVars
<1>2. FilesInv' /\ Evolves BY <1>1, FilesKept DEF ServiceInv, FilesInv, FileTypes
<1> QED BY <1>1, <1>2, Leaves DEF ServiceInv

LEMMA CreateKeeps ==
  ASSUME ServiceInv, NEW c \in Callers, Create(c) PROVE ServiceInv' /\ Evolves
<1>1. op[c].at = "checked" /\ op[c].kind = "create" /\ op[c].path \in Paths
  BY DEF Create, ServiceInv, WritesInv, Operation
<1>2. CASE Leave(c) /\ UNCHANGED fileVars
  <2>1. FilesInv' /\ Evolves
    BY <1>2, FilesKept DEF ServiceInv, FilesInv, FileTypes, fileVars
  <2> QED BY <1>1, <1>2, <2>1, Leaves DEF ServiceInv
<1>3. CASE To(c, "writing") /\ Change(op[c].path, Created(Partial)) /\ UNCHANGED <<held, lock>>
  <2> DEFINE f == Created(Partial)
  <2>1. stamp' = stamp + 1 BY <1>3 DEF Change
  <2>2. /\ f \in FileRecord' /\ f.change = stamp + 1 /\ f.data = Partial /\ f.id # 0
        /\ f.data # "none" /\ f.id = stamp + 1
    BY <2>1, CreatedIs DEF ServiceInv
  <2> HIDE DEF f
  <2>3. Change(op[c].path, f) /\ held' \subseteq Paths
    BY <1>3 DEF f, ServiceInv, FilesInv, FileTypes
  <2>4. FilesInv' /\ Evolves BY <1>1, <2>2, <2>3, OneChanges DEF ServiceInv
  <2>5. lock = c BY <1>1 DEF ServiceInv, WritesInv, Admitted
  <2>6. files'[op[c].path] = f BY <1>1, <2>3 DEF Change, ServiceInv, FilesInv, FileTypes
  <2>7. files'[op[c].path] # NoFile /\ files'[op[c].path].data = Partial
    BY <2>2, <2>6 DEF NoFile
  <2>8. ASSUME NEW o \in Operation, o.at = "writing", o.kind = op[c].kind, o.path = op[c].path
        PROVE  Stands(o)' /\ Opened(o)'
    BY <1>1, <2>7, <2>8 DEF Stands, Opened, Exists
  <2>9. WritesInv' BY <1>1, <1>3, <2>5, <2>8, Goes
  <2> QED BY <2>4, <2>9 DEF ServiceInv
<1> QED BY <1>2, <1>3 DEF Create

LEMMA OpenKeeps ==
  ASSUME ServiceInv, NEW c \in Callers, OpenToWrite(c) PROVE ServiceInv' /\ Evolves
<1>1. /\ op[c].at = "checked" /\ op[c].kind = "rewrite" /\ op[c].path \in Paths
      /\ UNCHANGED <<files, stamp, folder>>
  BY DEF OpenToWrite, ServiceInv, WritesInv, Operation
<1>2. held' \subseteq Paths BY <1>1 DEF OpenToWrite, ServiceInv, FilesInv, FileTypes
<1>3. FilesInv' /\ Evolves BY <1>1, <1>2, FilesKept DEF ServiceInv
<1>4. CASE Leave(c) BY <1>1, <1>3, <1>4, Leaves DEF ServiceInv
<1>5. CASE /\ files[op[c].path].data = op[c].expect /\ To(c, "writing")
           /\ held' = held \cup {op[c].path} /\ UNCHANGED lock
  <2>1. lock = c BY <1>1 DEF ServiceInv, WritesInv, Admitted
  <2>2. files[op[c].path].data # "none"
    BY <1>1, <1>5, DistinctContents DEF ServiceInv, WritesInv, Named
  <2>3. Exists(op[c].path) BY <2>2 DEF Exists, NoFile
  <2>4. ASSUME NEW o \in Operation, o.at = "writing", o.kind = op[c].kind,
               o.path = op[c].path, o.expect = op[c].expect
        PROVE  Stands(o)' /\ Opened(o)'
    BY <1>1, <1>5, <2>3, <2>4 DEF Stands, Opened, Exists
  <2>5. WritesInv' BY <1>1, <1>5, <2>1, <2>4, Goes
  <2> QED BY <1>3, <2>5 DEF ServiceInv
<1> QED BY <1>4, <1>5 DEF OpenToWrite

LEMMA FinishKeeps ==
  ASSUME ServiceInv, NEW c \in Callers, FinishWrite(c) PROVE ServiceInv' /\ Evolves
<1>1. op[c].at = "writing" /\ Leave(c) /\ held' \subseteq Paths
  BY DEF FinishWrite, ServiceInv, FilesInv, FileTypes
<1>2. PICK p \in Paths : p = op[c].path BY DEF ServiceInv, WritesInv, Operation
<1>3. /\ Exists(p) /\ op[c].kind \in {"create", "rewrite"} /\ op[c].new \in Contents
      /\ op[c].kind = "rewrite" => op[c].expect \in Contents
  BY <1>1, <1>2 DEF ServiceInv, WritesInv, Opened, Named
<1>4. WritesInv' BY <1>1, Leaves
<1>5. ASSUME NEW data \in Contents, Change(p, Written(files[p], data, stamp + 1))
      PROVE  FilesInv' /\ Evolves
  <2> DEFINE f == Written(files[p], data, stamp + 1)
  <2>1. stamp' = stamp + 1 BY <1>5 DEF Change
  <2>2. /\ f \in FileRecord' /\ f.change = stamp + 1 /\ f.id # 0
        /\ f.data # "none" /\ Rewritten(files[p], f, stamp + 1)
    <3>1. stamp + 1 \in 1 .. stamp + 1 BY DEF ServiceInv, FilesInv, FileTypes
    <3> QED BY <1>3, <2>1, <3>1, WrittenIs DEF ServiceInv
  <2> HIDE DEF f
  <2>3. Change(p, f) BY <1>5 DEF f
  <2> QED BY <1>1, <2>2, <2>3, OneChanges DEF ServiceInv
<1>6. CASE Change(p, Written(files[p], op[c].new, stamp + 1)) BY <1>3, <1>4, <1>5, <1>6 DEF ServiceInv
<1>7. CASE Change(p, IF op[c].kind = "create" THEN NoFile ELSE Written(files[p], op[c].expect, stamp + 1))
  <2>1. CASE op[c].kind = "create"
    <3>1. Change(p, NoFile) BY <1>7, <2>1
    <3> QED BY <1>1, <1>4, <3>1, OneChanges DEF ServiceInv
  <2>2. CASE op[c].kind = "rewrite"
    <3>1. Change(p, Written(files[p], op[c].expect, stamp + 1)) BY <1>7, <2>2
    <3> QED BY <1>3, <1>4, <1>5, <2>2, <3>1 DEF ServiceInv
  <2> QED BY <1>3, <2>1, <2>2
<1> QED BY <1>2, <1>6, <1>7 DEF FinishWrite

LEMMA DeleteKeeps ==
  ASSUME ServiceInv, NEW c \in Callers, Delete(c) PROVE ServiceInv' /\ Evolves
<1>1. op[c].at = "checked" /\ Leave(c) /\ op[c].path \in Paths
  BY DEF Delete, ServiceInv, WritesInv, Operation
<1>2. WritesInv' BY <1>1, Leaves
<1>3. CASE Change(op[c].path, NoFile) /\ UNCHANGED held
  <2>1. held' \subseteq Paths BY <1>3 DEF ServiceInv, FilesInv, FileTypes
  <2> QED BY <1>1, <1>2, <1>3, <2>1, OneChanges DEF ServiceInv
<1>4. CASE UNCHANGED fileVars
  BY <1>2, <1>4, FilesKept DEF ServiceInv, FilesInv, FileTypes, fileVars
<1> QED BY <1>3, <1>4 DEF Delete

LEMMA MoveKeeps ==
  ASSUME ServiceInv, NEW c \in Callers, Move(c) PROVE ServiceInv' /\ Evolves
<1>1. op[c].at = "checked" /\ op[c].kind = "move" /\ Leave(c) /\ UNCHANGED held
  BY DEF Move
<1>2. WritesInv' BY <1>1, Leaves
<1>3. CASE UNCHANGED <<files, stamp, folder>>
  BY <1>1, <1>2, <1>3, FilesKept DEF ServiceInv, FilesInv, FileTypes
<1>4. CASE ~UNCHANGED <<files, stamp, folder>>
  <2>1. PICK p \in Paths, q \in Paths : p = op[c].path /\ q = op[c].to /\ p # q
    BY <1>1 DEF ServiceInv, WritesInv, Operation, Named
  <2> DEFINE g == [files[p] EXCEPT !.change = stamp + 1]
  <2>2. /\ Exists(p) /\ ~Exists(q) /\ stamp' = stamp + 1
        /\ folder' = [folder EXCEPT ![FolderOf(p)] = stamp + 1, ![FolderOf(q)] = stamp + 1]
        /\ files' = [files EXCEPT ![p] = NoFile, ![q] = g]
    BY <1>4, <2>1 DEF Move
  <2>3. /\ stamp \in Nat /\ folder \in [Folders -> 0 .. stamp] /\ files \in [Paths -> FileRecord]
        /\ held \subseteq Paths /\ FolderOf(p) \in Folders /\ FolderOf(q) \in Folders
    BY FolderAssumption DEF ServiceInv, FilesInv, FileTypes
  <2>4. PICK f \in FileRecord : f = files[p] BY <2>3
  <2>5. NoFile \in FileRecord' /\ NoFile.id = 0 BY <2>2, <2>3 DEF NoFile, FileRecord
  <2>6. \A h \in FileRecord : h \in FileRecord' BY <2>2, <2>3 DEF FileRecord
  <2>7. g \in FileRecord' /\ g.id = f.id /\ g.change = stamp + 1 /\ g.data = f.data
    <3>1. f \in FileRecord' /\ stamp + 1 \in 0 .. stamp' BY <2>2, <2>3, <2>4, <2>6
    <3> QED BY <3>1, <2>4 DEF FileRecord
  <2>8. f.id # 0 /\ f.data # "none" BY <2>2, <2>4 DEF ServiceInv, FilesInv, Real
  <2> HIDE DEF g
  <2>9. /\ files'[p] = NoFile /\ files'[q] = g
        /\ \A r \in Paths : r # p /\ r # q => files'[r] = files[r]
    BY <2>1, <2>2, <2>3
  <2>10. FileTypes'
    <3>1. folder' \in [Folders -> 0 .. stamp'] BY <2>2, <2>3
    <3> QED BY <1>1, <2>2, <2>3, <2>5, <2>6, <2>7, <3>1 DEF FileTypes
  <2>11. Real'
    <3> SUFFICES ASSUME NEW r \in Paths, files'[r] # NoFile
                 PROVE  files'[r].id # 0 /\ files'[r].change # 0 /\ files'[r].data # "none"
      BY DEF Real, Exists
    <3>1. CASE r \in {p, q} BY <3>1, <2>3, <2>7, <2>8, <2>9
    <3>2. CASE r \notin {p, q} BY <3>2, <2>9 DEF ServiceInv, FilesInv, Real, Exists
    <3> QED BY <3>1, <3>2
  <2>12. Separate'
    <3> SUFFICES ASSUME NEW r \in Paths, NEW s \in Paths, Exists(r)', files'[r].id = files'[s].id
                 PROVE  r = s
      BY DEF Separate
    <3>1. files'[r].id # 0 BY <2>11 DEF Real
    <3>2. r # p /\ s # p BY <3>1, <2>5, <2>9
    <3>3. ASSUME NEW t \in Paths, t # p
          PROVE  files'[t].id = IF t = q THEN files[p].id ELSE files[t].id
      BY <3>3, <2>4, <2>7, <2>9
    <3>4. Separate /\ \A t \in Paths : Exists(t) <=> files[t].id # 0
      BY FilesAre DEF ServiceInv, FilesInv
    <3> DEFINE m(t) == IF t = q THEN p ELSE t
    <3>5. \A t \in Paths : t # p => m(t) \in Paths /\ files'[t].id = files[m(t)].id
      BY <3>3
    <3>6. files[m(r)].id # 0 /\ files[m(r)].id = files[m(s)].id BY <3>1, <3>2, <3>5
    <3>7. m(r) = m(s) BY <3>2, <3>4, <3>5, <3>6 DEF Separate
    <3> QED BY <3>2, <3>7
  <2>13. Evolves
    <3>1. \A r \in Paths : files'[r] \in {files[r], NoFile} \/ files'[r].change = stamp'
      BY <2>2, <2>7, <2>9
    <3>2. ASSUME NEW r \in Paths
          PROVE  \/ files'[r].id \in {0, stamp'}
                 \/ \E t \in Paths : Onward(files[t], files'[r], stamp')
      <4> DEFINE t == IF r = q THEN p ELSE r
      <4>1. g.mtime = f.mtime /\ g.back = f.back BY <2>4 DEF g, FileRecord
      <4>2. r = p \/ /\ t \in Paths /\ files'[r].id = files[t].id
                     /\ files'[r].mtime = files[t].mtime /\ files'[r].back = files[t].back
        BY <2>4, <2>7, <2>9, <4>1
      <4>3. r = p => files'[r].id = 0 BY <2>5, <2>9
      <4>4. t \in Paths => files[t].mtime \in Int /\ files[t].back \in Int BY FilesAre DEF ServiceInv
      <4>5. r = p \/ Onward(files[t], files'[r], stamp') BY <4>2, <4>4 DEF Onward
      <4> QED BY <4>2, <4>3, <4>5
    <3>3. \A d \in Folders : folder'[d] \in {folder[d], stamp'} BY <2>2, <2>3
    <3>4. \A r \in Paths : folder'[FolderOf(r)] = stamp' \/ files'[r] = files[r]
      BY <2>2, <2>3, <2>9
    <3> QED BY <2>2, <3>1, <3>2, <3>3, <3>4 DEF Evolves
  <2> QED BY <1>2, <2>10, <2>11, <2>12, <2>13 DEF ServiceInv, FilesInv
<1> QED BY <1>3, <1>4

(* Another program's change overtakes the calls it touches; a file that a  *)
(* call has open is not changed, one it has created stays.                 *)
LEMMA OtherKeeps ==
  ASSUME ServiceInv, OtherWrites PROVE ServiceInv' /\ Evolves
<1>1. PICK p \in Paths :
        /\ OtherProgram(p)
        /\ p \in InCreation => files'[p].id = files[p].id
        /\ op' = [c \in Callers |->
             IF op[c].at \in {"checked", "writing"} /\ p \in {op[c].path, op[c].to}
             THEN [op[c] EXCEPT !.overtaken = TRUE] ELSE op[c]]
  BY DEF OtherWrites
<1>2. /\ FilesInv' /\ Evolves /\ p \notin held /\ held' = held /\ lock' = lock
      /\ \A q \in Paths : q # p => files'[q] = files[q]
  BY <1>1, OtherChanges DEF ServiceInv, OtherWrites
<1>3. ASSUME NEW c \in Callers
      PROVE  op'[c] \in Operation /\ (op'[c].at # "idle" => op[c].at # "idle")
             /\ op'[c].at = op[c].at /\ (Named(op[c]) /\ Stands(op[c]) /\ Opened(op[c]))'
  <2>1. PICK o \in Operation : o = op[c] BY DEF ServiceInv, WritesInv
  <2>2. PICK n \in Operation : n = op'[c] /\
          (\/ n = o /\ (o.at \notin {"checked", "writing"} \/ p \notin {o.path, o.to})
           \/ /\ n.at = o.at /\ n.kind = o.kind /\ n.path = o.path /\ n.to = o.to
              /\ n.expect = o.expect /\ n.new = o.new /\ n.overtaken = TRUE)
    <3> DEFINE x == [o EXCEPT !.overtaken = TRUE]
    <3>1. /\ x \in Operation /\ x.at = o.at /\ x.kind = o.kind /\ x.path = o.path /\ x.to = o.to
          /\ x.expect = o.expect /\ x.new = o.new /\ x.overtaken = TRUE
      BY DEF Operation
    <3>2. op'[c] = IF o.at \in {"checked", "writing"} /\ p \in {o.path, o.to} THEN x ELSE o
      BY <1>1, <2>1
    <3> HIDE DEF x
    <3> QED BY <3>1, <3>2
  <2>3. Named(o) /\ Stands(o) /\ Opened(o) BY <2>1 DEF ServiceInv, WritesInv
  <2>4. n.at = o.at /\ Named(n) BY <2>2, <2>3 DEF Named
  <2>5. o.path \in Paths /\ o.path # p => files'[o.path] = files[o.path]
    BY <1>2
  <2>6. Stands(n)' BY <2>2, <2>3, <2>5, <2>4 DEF Stands, Operation
  <2>7. Opened(n)'
    <3> SUFFICES ASSUME n.at = "writing"
                 PROVE  /\ n.kind \in {"create", "rewrite"} /\ files'[n.path] # NoFile
                        /\ n.kind = "rewrite" => n.path \in held' /\ files'[n.path].data = n.expect
                        /\ n.kind = "create" /\ ~n.overtaken => files'[n.path].data = Partial
      BY DEF Opened, Exists
    <3>1. o.path \in Paths /\ Exists(o.path) /\ n.path = o.path /\ n.kind = o.kind /\ n.expect = o.expect
      BY <2>2, <2>3 DEF Opened, Operation
    <3>2. CASE o.path # p
      BY <2>2, <2>3, <2>5, <3>1, <3>2, <1>2 DEF Opened, Operation, Exists
    <3>3. CASE o.path = p
      <4>1. o.kind = "create" BY <1>2, <2>2, <2>3, <3>3 DEF Opened
      <4>2. p \in InCreation BY <2>1, <2>4, <3>3 DEF InCreation
      <4>3. files'[p].id # 0 BY <1>1, <4>2, <3>1, <3>3, FilesAre DEF ServiceInv
      <4>4. files'[p] # NoFile BY <4>3 DEF NoFile
      <4>5. n.overtaken = TRUE BY <2>2, <2>4, <3>3
      <4> QED BY <3>1, <3>3, <4>1, <4>4, <4>5
    <3> QED BY <3>2, <3>3
  <2> QED BY <2>1, <2>2, <2>4, <2>6, <2>7 DEF Named, Stands, Opened
<1>4. op' \in [Callers -> Operation] BY <1>1, <1>3
<1>5. Operation' = Operation BY DEF Operation
<1>6. Admitted' BY <1>2, <1>3 DEF ServiceInv, WritesInv, Admitted
<1> QED BY <1>2, <1>3, <1>4, <1>5, <1>6 DEF ServiceInv, WritesInv

(* A step of a call that reads, and time, leave all of this alone.         *)
LEMMA ReadersApart ==
  ASSUME \/ Tick
         \/ \E r \in Readers : Begin(r) \/ BeginPage(r) \/ ReadStep(r)
  PROVE  UNCHANGED fileVars
BY DEF Tick, Begin, BeginPage, ReadStep, ListFolder, Scan, Digest, CloseHandle, CheckFolder, CheckRow,
       Compare, Put, Get, Page

LEMMA WriteStepKeeps ==
  ASSUME ServiceInv, NEW c \in Callers, WriteStep(c) PROVE ServiceInv' /\ Evolves
BY EnterKeeps, CheckKeeps, BusyKeeps, CreateKeeps, OpenKeeps, FinishKeeps, MoveKeeps, DeleteKeeps
DEF WriteStep

(* The invariant holds at first and is kept; every step is one of those    *)
(* Evolves describes.                                                      *)
LEMMA ServiceStep ==
  ASSUME ServiceInv, [ServiceNext]_fileServiceVars PROVE ServiceInv' /\ Evolves
<1>1. ASSUME UNCHANGED <<fileVars, op, lock>> PROVE ServiceInv' /\ Evolves
  <2>1. FilesInv' /\ Evolves
    BY <1>1, FilesKept DEF ServiceInv, FilesInv, FileTypes, fileVars
  <2>2. WritesInv' BY <1>1, WritesKept DEF fileVars
  <2> QED BY <2>1, <2>2 DEF ServiceInv
<1>2. ASSUME NEW c \in Callers, CallWrite(c) PROVE ServiceInv' /\ Evolves
  <2>1. UNCHANGED <<files, stamp, folder>> BY <1>2 DEF CallWrite, fileVars
  <2> QED BY <1>2, <2>1, CallWriteKeeps DEF Evolves
<1>3. ASSUME NEW r \in Readers, Begin(r) \/ BeginPage(r), UNCHANGED writeVars
      PROVE  ServiceInv' /\ Evolves
  <2>1. UNCHANGED fileVars BY <1>3, ReadersApart
  <2> QED BY <1>1, <1>3, <2>1 DEF writeVars
<1>4. CASE Revoke
  <2>1. UNCHANGED <<fileVars, op, lock>> BY <1>4 DEF Revoke
  <2> QED BY <1>1, <2>1
<1>5. CASE OtherWrites BY <1>5, OtherKeeps
<1>6. ASSUME NEW c \in Callers, WriteStep(c) PROVE ServiceInv' /\ Evolves
  BY <1>6, WriteStepKeeps
<1>7. ASSUME Tick \/ \E r \in Readers : ReadStep(r), UNCHANGED writeVars
      PROVE  ServiceInv' /\ Evolves
  <2>1. UNCHANGED fileVars BY <1>7, ReadersApart
  <2> QED BY <1>1, <1>7, <2>1 DEF writeVars
<1>8. CASE UNCHANGED fileServiceVars
  BY <1>1, <1>8 DEF fileServiceVars, writeVars
<1> QED BY <1>2, <1>3, <1>4, <1>5, <1>6, <1>7, <1>8 DEF ServiceNext

LEMMA ServiceStart == ServiceInit => ServiceInv
<1> SUFFICES ASSUME ServiceInit PROVE ServiceInv OBVIOUS
<1>1. /\ stamp \in MaxPath .. MaxStamp /\ folder = [d \in Folders |-> 1] /\ held = {}
      /\ op = [c \in Callers |-> Idle]
  BY DEF ServiceInit, FilesInit, WritesInit
<1>2. stamp \in Nat /\ 1 \in 0 .. stamp /\ \A p \in Paths : p # 0 /\ p \in 0 .. stamp
  BY <1>1, FileBounds DEF Paths
<1>3. PICK data \in Contents, present \in SUBSET Paths :
        files = [p \in Paths |-> IF p \in present
                   THEN [id |-> p, mtime |-> p, change |-> p, back |-> 0, data |-> data]
                   ELSE NoFile]
  BY DEF ServiceInit, FilesInit
<1>4. ASSUME NEW p \in Paths
      PROVE  /\ files[p] \in FileRecord
             /\ p \in present => files[p].id = p /\ files[p].change = p /\ files[p].data = data
             /\ p \notin present => files[p] = NoFile /\ files[p].id = 0
  <2>1. CASE p \in present BY <1>2, <1>3, <2>1 DEF FileRecord
  <2>2. CASE p \notin present BY <1>2, <1>3, <2>2 DEF FileRecord, NoFile
  <2> QED BY <2>1, <2>2
<1>5. FileTypes BY <1>1, <1>2, <1>3, <1>4 DEF FileTypes
<1>6. Real /\ Separate BY <1>2, <1>4, DistinctContents DEF Real, Separate, Exists
<1>7. Idle \in Operation /\ Idle.at = "idle"
  BY FileBounds DEF Idle, Operation, WriteKinds, Paths
<1>8. op \in [Callers -> Operation] /\ \A c \in Callers : op[c].at = "idle"
  BY <1>1, <1>7
<1>9. WritesInv BY <1>8 DEF WritesInv, Admitted, Named, Stands, Opened
<1> QED BY <1>5, <1>6, <1>9 DEF ServiceInv, FilesInv

(* The inductive invariant of the files and of the calls that write: a     *)
(* file has its identity for itself, one call is past the lock, and what   *)
(* it found still holds unless another program came between                *)
(* (control_files.py, guarded and commit).                                 *)
THEOREM ServiceInductive == ServiceSpec => []ServiceInv
<1>1. ServiceInv /\ [ServiceNext]_fileServiceVars => ServiceInv' BY ServiceStep
<1> QED BY ServiceStart, <1>1, PTL DEF ServiceSpec

(* The records of the files and of the calls have their types, and the     *)
(* bounds of the model are kept.                                           *)
THEOREM ServiceTypes == ServiceSpec => []TypeOK
<1> DEFINE Bounded == /\ stamp \in 0 .. MaxStamp /\ calls \in 0 .. MaxCalls
                      /\ faults \in 0 .. MaxFaults /\ clock \in 0 .. MaxClock
                      /\ lock \in Callers \cup {NoCaller} /\ revoked \in BOOLEAN
<1> DEFINE Numbers == /\ MaxStamp \in Nat /\ MaxCalls \in Nat /\ MaxFaults \in Nat
                      /\ MaxClock \in Nat /\ MaxPath \in 1 .. MaxStamp
<1>0. Numbers BY FileBounds, WriteAssumption, CacheNumbers
<1>1. ServiceInit => Bounded
  <2> SUFFICES ASSUME ServiceInit PROVE Bounded OBVIOUS
  <2>1. /\ stamp \in MaxPath .. MaxStamp /\ calls \in 0 .. MaxCalls
        /\ faults = 0 /\ clock = 0 /\ lock = NoCaller /\ revoked = FALSE
    BY DEF ServiceInit, FilesInit, WritesInit, QueriesInit
  <2>2. /\ stamp \in 0 .. MaxStamp /\ calls \in 0 .. MaxCalls
        /\ faults \in 0 .. MaxFaults /\ clock \in 0 .. MaxClock
    BY <1>0, <2>1
  <2>3. revoked \in BOOLEAN BY <2>1, Zenon
  <2> QED BY <2>1, <2>2, <2>3
<1>2. Bounded /\ ServiceInv /\ [ServiceNext]_fileServiceVars => Bounded'
  <2> SUFFICES ASSUME Bounded, ServiceInv, [ServiceNext]_fileServiceVars PROVE Bounded'
    OBVIOUS
  <2>0. \A n \in Nat : \A m \in 0 .. n : m < n => m + 1 \in 0 .. n OBVIOUS
  <2>1. ASSUME NextCall, UNCHANGED <<stamp, faults, clock, lock, revoked>> PROVE Bounded'
    BY <2>1, <2>0, <1>0 DEF NextCall
  <2>2. ASSUME NEW c \in Callers, CallWrite(c), UNCHANGED queryVars PROVE Bounded'
    BY <2>1, <2>2 DEF CallWrite, fileVars, queryVars
  <2>3. ASSUME NEW r \in Readers, Begin(r) \/ BeginPage(r), UNCHANGED writeVars PROVE Bounded'
    BY <2>1, <2>3 DEF Begin, BeginPage, fileVars, writeVars
  <2>4. ASSUME NEW p, NEW f, Change(p, f) PROVE stamp' \in 0 .. MaxStamp
    BY <2>4, <2>0, <1>0 DEF Change
  <2>8. ASSUME OtherWrites, UNCHANGED <<calls, queryVars>> PROVE Bounded'
    <3>1. PICK p \in Paths : OtherProgram(p) BY <2>8 DEF OtherWrites
    <3>2. stamp' \in 0 .. MaxStamp BY <2>4, <3>1 DEF OtherProgram
    <3> QED BY <2>8, <3>2 DEF OtherWrites, queryVars
  <2>9. ASSUME Revoke, UNCHANGED <<calls, queryVars>> PROVE Bounded'
    BY <2>9 DEF Revoke, fileVars, queryVars
  <2>10. ASSUME NEW c \in Callers, WriteStep(c), UNCHANGED <<calls, queryVars>> PROVE Bounded'
    <3>1. stamp' \in 0 .. MaxStamp
      <4>1. ASSUME Move(c) PROVE stamp' \in 0 .. MaxStamp
        BY <4>1, <2>0, <1>0 DEF Move
      <4>2. CASE Enter(c) \/ Check(c) \/ Busy(c) \/ OpenToWrite(c)
        BY <4>2 DEF Enter, Check, Busy, OpenToWrite, fileVars
      <4>3. CASE Create(c) BY <4>3, <2>4 DEF Create, fileVars
      <4>4. CASE FinishWrite(c) BY <4>4, <2>4 DEF FinishWrite
      <4>5. CASE Delete(c) BY <4>5, <2>4 DEF Delete, fileVars
      <4> QED BY <2>10, <4>1, <4>2, <4>3, <4>4, <4>5 DEF WriteStep
    <3>2. lock' \in Callers \cup {NoCaller} /\ revoked' = revoked
      BY <2>10 DEF WriteStep, Enter, Check, Busy, Create, OpenToWrite, FinishWrite, Move, Delete, Leave
    <3>3. faults' \in 0 .. MaxFaults
      <4>1. CASE FinishWrite(c) BY <4>1, <2>0, <1>0 DEF FinishWrite
      <4>2. CASE ~FinishWrite(c)
        BY <2>10, <4>2 DEF WriteStep, Enter, Check, Busy, Create, OpenToWrite, Move, Delete
      <4> QED BY <4>1, <4>2
    <3> QED BY <2>10, <3>1, <3>2, <3>3 DEF queryVars
  <2>5. ASSUME Tick, UNCHANGED <<calls, writeVars>> PROVE Bounded'
    BY <2>5, <2>0, <1>0 DEF Tick, fileVars, writeVars
  <2>6. ASSUME NEW r \in Readers, ReadStep(r), UNCHANGED <<calls, writeVars>> PROVE Bounded'
    <3>1. UNCHANGED <<stamp, clock>>
      BY <2>6 DEF ReadStep, ListFolder, Scan, Digest, CloseHandle, CheckFolder, CheckRow,
                  Compare, Put, Get, Page, fileVars
    <3> QED BY <2>6, <3>1 DEF writeVars
  <2>7. CASE UNCHANGED fileServiceVars
    BY <2>7 DEF fileServiceVars, fileVars, writeVars, queryVars
  <2> QED BY <2>2, <2>3, <2>5, <2>6, <2>7, <2>8, <2>9, <2>10 DEF ServiceNext
<1>3. Bounded /\ ServiceInv => TypeOK
  <2> SUFFICES ASSUME Bounded, ServiceInv PROVE TypeOK OBVIOUS
  <2>1. \A n \in 0 .. stamp : n \in 0 .. MaxStamp BY FileBounds
  <2>2. FilesOK
    BY <2>1 DEF ServiceInv, FilesInv, FileTypes, FileRecord, FilesOK
  <2> QED BY <2>2 DEF ServiceInv, WritesInv, Operation, WritesOK, TypeOK
<1> QED BY <1>1, <1>2, <1>3, ServiceInductive, PTL DEF ServiceSpec

(* A call replaces or removes only what its caller has seen: a rewrite and *)
(* its roll-back in every case, the others unless another program changed  *)
(* the file after the check (control_files.py, commit, move and delete).   *)
THEOREM ReplacesSeen == ServiceSpec => ReplacesWhatWasSeen
<1> DEFINE Seen(c, p) ==
      op[c].at \in {"checked", "writing"} /\ op'[c].at # op[c].at /\ Exists(p)
        /\ files'[p].data # files[p].data
      => \/ files[p].data \in {op[c].expect, Partial}
         \/ op[c].kind # "rewrite" /\ op[c].overtaken
<1>1. ServiceInv /\ [ServiceNext]_fileServiceVars
        => [\A c \in Callers, p \in Paths : Seen(c, p)]_<<files, op>>
  <2> SUFFICES ASSUME ServiceInv, [ServiceNext]_fileServiceVars,
                      NEW c \in Callers, NEW p \in Paths,
                      op[c].at \in {"checked", "writing"}, op'[c].at # op[c].at, Exists(p),
                      files'[p].data # files[p].data
               PROVE  \/ files[p].data \in {op[c].expect, Partial}
                      \/ op[c].kind # "rewrite" /\ op[c].overtaken
    BY DEF ServiceNext
  <2>1. op \in [Callers -> Operation] BY DEF ServiceInv, WritesInv
  <2>2. \A d \in Callers : op[d].at \in {"entered", "checked", "writing"} => d = c
    BY Alone
  <2>3. ASSUME UNCHANGED fileVars PROVE FALSE BY <2>3 DEF fileVars
  <2>4. ~UNCHANGED fileServiceVars BY <2>3 DEF fileServiceVars
  <2>5. ~(\E d \in Callers : CallWrite(d)) BY <2>3 DEF CallWrite
  <2>6. ~Revoke BY <2>3 DEF Revoke
  <2>7. ~OtherWrites
    <3> SUFFICES ASSUME OtherWrites PROVE FALSE OBVIOUS
    <3>1. PICK q \in Paths :
            op' = [d \in Callers |->
             IF op[d].at \in {"checked", "writing"} /\ q \in {op[d].path, op[d].to}
             THEN [op[d] EXCEPT !.overtaken = TRUE] ELSE op[d]]
      BY DEF OtherWrites
    <3>2. PICK o \in Operation : o = op[c] BY <2>1
    <3>3. [o EXCEPT !.overtaken = TRUE].at = o.at BY DEF Operation
    <3>4. op'[c].at = op[c].at BY <3>1, <3>2, <3>3
    <3> QED BY <3>4
  <2>8. PICK d \in Callers : WriteStep(d)
    <3>1. ~(Tick \/ \E r \in Readers : Begin(r) \/ BeginPage(r) \/ ReadStep(r))
      BY <2>3, ReadersApart
    <3> QED BY <2>4, <2>5, <2>6, <2>7, <3>1 DEF ServiceNext
  <2>9. d = c
    <3>1. ~Enter(d) /\ ~Check(d) /\ ~Busy(d) BY <2>3 DEF Enter, Check, Busy
    <3> QED BY <2>2, <2>8, <3>1 DEF WriteStep, Create, OpenToWrite, FinishWrite, Move, Delete
  <2>10. PICK q \in Paths : q = op[c].path BY <2>1 DEF Operation
  <2>11. files \in [Paths -> FileRecord] BY DEF ServiceInv, FilesInv, FileTypes
  <2>12. Stands(op[c]) /\ Opened(op[c]) /\ Named(op[c]) /\ op[c].overtaken \in BOOLEAN
    BY <2>1 DEF ServiceInv, WritesInv, Operation
  <2>13. ~Enter(c) /\ ~Check(c) /\ ~Busy(c) /\ ~OpenToWrite(c)
    BY <2>3 DEF Enter, Check, Busy, OpenToWrite, fileVars
  <2>14. ASSUME Create(c) PROVE FALSE
    <3>1. ~Exists(q) /\ files' = [files EXCEPT ![q] = Created(Partial)]
      BY <2>3, <2>10, <2>14 DEF Create, Change
    <3> QED BY <2>11, <3>1
  <2>15. CASE FinishWrite(c)
    <3>1. p = q
      BY <2>10, <2>11, <2>15 DEF FinishWrite, Change
    <3> QED BY <2>10, <2>12, <2>15, <3>1 DEF FinishWrite, Opened
  <2>16. CASE Move(c)
    <3>1. /\ op[c].to \in Paths /\ ~Exists(op[c].to) /\ op[c].kind = "move" /\ op[c].at = "checked"
          /\ files' = [files EXCEPT ![q] = NoFile, ![op[c].to] = [files[q] EXCEPT !.change = stamp + 1]]
      BY <2>1, <2>10, <2>16 DEF Move, Operation
    <3>2. p = q BY <2>11, <3>1
    <3> QED BY <2>10, <2>12, <3>1, <3>2 DEF Stands
  <2>17. CASE Delete(c)
    <3>1. p = q /\ op[c].kind = "delete" /\ op[c].at = "checked"
      BY <2>3, <2>10, <2>11, <2>17 DEF Delete, Change
    <3> QED BY <2>10, <2>12, <3>1 DEF Stands
  <2> QED BY <2>8, <2>9, <2>13, <2>14, <2>15, <2>16, <2>17 DEF WriteStep
<1> QED BY <1>1, ServiceInductive, PTL DEF ServiceSpec, ReplacesWhatWasSeen

-----------------------------------------------------------------------------
(* Sequences and their elements.                                           *)

(* What holds of zero, and with a number of its successor, holds of all.   *)
LEMMA NaturalsByInduction ==
  ASSUME NEW T, 0 \in T, \A n \in Nat : n \in T => n + 1 \in T
  PROVE  Nat \subseteq T
<1> DEFINE Less == {pair \in Nat \X Nat : pair[1] < pair[2]}
           Rest == Nat \ T
<1>1. IsWellFoundedOn(Less, Nat)
  BY NatLessThanWellFounded DEF OpToRel
<1>2. \A m, n \in Nat : m < n => <<m, n>> \in Less
  OBVIOUS
<1> HIDE DEF Less
<1> SUFFICES ASSUME Rest # {} PROVE FALSE
  OBVIOUS
<1>3. Rest \subseteq Nat
  OBVIOUS
<1> HIDE DEF Rest
<1>4. PICK n \in Rest : \A m \in Rest : ~ (<<m, n>> \in Less)
  BY <1>1, <1>3, WFMin
<1>5. n \in Nat /\ n # 0 /\ n - 1 \in Nat
  BY <1>3 DEF Rest
<1>6. n - 1 \in Rest /\ n - 1 < n
  BY <1>5 DEF Rest
<1> QED BY <1>2, <1>3, <1>4, <1>5, <1>6

(* The greatest element of a set of integers, when it is known to be one. *)
LEMMA Greatest ==
  ASSUME NEW s \in SUBSET Int, NEW m \in s, \A i \in s : i <= m
  PROVE  Max(s) = m
<1>1. \E n \in s : \A i \in s : n >= i
  OBVIOUS
<1>2. Max(s) \in s /\ \A i \in s : Max(s) >= i
  BY <1>1 DEF Max
<1>3. Max(s) \in Int /\ Max(s) >= m /\ m >= Max(s)
  BY <1>2
<1> QED BY <1>3


(* A sequence with one more element.  *)
LEMMA Appended ==
  ASSUME NEW S, NEW s \in Seq(S), NEW x \in S
  PROVE  ToSet(Append(s, x)) = ToSet(s) \cup {x}
<1> DEFINE t == Append(s, x)
<1>1. DOMAIN s = 1 .. Len(s) /\ DOMAIN t = 1 .. Len(s) + 1 /\ Len(s) \in Nat OBVIOUS
<1>2. (\A i \in 1 .. Len(s) : t[i] = s[i]) /\ t[Len(s)+1] = x OBVIOUS
<1> HIDE DEF t
<1>3. ToSet(t) \subseteq ToSet(s) \cup {x} BY <1>1, <1>2 DEF ToSet
<1>4. ToSet(s) \cup {x} \subseteq ToSet(t) BY <1>1, <1>2 DEF ToSet
<1> QED BY <1>3, <1>4 DEF t

(* The first two of three numbers. *)
LEMMA FirstTwo ==
  ASSUME NEW s \in Nat \X Nat \X Nat PROVE SubSeq(s, 1, 2) = <<s[1], s[2]>>
<1>1. s[1] \in Nat /\ s[2] \in Nat OBVIOUS
<1> DEFINE u == SubSeq(s, 1, 2)
           v == <<s[1], s[2]>>
<1>2. \A i \in 1..2 : s[i] \in Nat BY <1>1
<1>3. u \in Seq(Nat) /\ Len(u) = 2 /\ \A i \in 1 .. 2 : u[i] = s[i]
  <2>1. /\ u \in Seq(Nat)
        /\ Len(u) = IF 1 <= 2 THEN 2-1+1 ELSE 0
        /\ \A i \in 1 .. 2-1+1 : u[i] = s[1+i-1]
    BY <1>2, SubSeqProperties
  <2> QED BY <2>1
<1>4. v \in Seq(Nat) /\ Len(v) = 2 /\ v[1] = s[1] /\ v[2] = s[2] BY <1>1
<1> HIDE DEF u, v
<1>5. \A i \in 1 .. Len(u) : u[i] = v[i] BY <1>3, <1>4
<1>6. u = v BY <1>3, <1>4, <1>5, SeqEqual
<1> QED BY <1>6 DEF u, v

(* Kept goes through a sequence from left to right.                        *)
Stages(items, wanted, k) ==
  /\ k[0] = <<>> /\ Kept(items, wanted) = k[Len(items)]
  /\ \A n \in 0 .. Len(items) - 1 :
       k[n + 1] = IF items[n + 1] \in wanted THEN Append(k[n], items[n + 1]) ELSE k[n]
LEMMA KeptStages ==
  ASSUME NEW S, NEW items \in Seq(S), NEW wanted PROVE \E k : Stages(items, wanted, k)
<1> DEFINE Add(kept, e) == IF e \in wanted THEN Append(kept, e) ELSE kept
           Unfold(g, s) == IF s = {} THEN <<>> ELSE Add(g[s \ {Max(s)}], items[Max(s)])
           iter == CHOOSE g : g = [s \in SUBSET (DOMAIN items) |-> Unfold(g, s)]
           count == Len(items)
<1>0. DOMAIN items = 1 .. count /\ count \in Nat
  OBVIOUS
<1>1. Kept(items, wanted) = iter[DOMAIN items]
  BY DEF Kept, FoldLeft, MapThenFoldSet
<1> HIDE DEF count, Add
<1>2. \A s \in SUBSET (1 .. count) : iter[s] = Unfold(iter, s)
  <2> DEFINE Solves(n) == \E g : g = [s \in SUBSET (1 .. n) |-> Unfold(g, s)]
             T == {n \in Nat : Solves(n)}
  <2>1. 0 \in T
    <3> DEFINE g == [s \in SUBSET (1 .. 0) |-> <<>>]
    <3>1. g = [s \in SUBSET (1 .. 0) |-> Unfold(g, s)]
      OBVIOUS
    <3> QED BY <3>1
  <2>2. ASSUME NEW n \in Nat, n \in T PROVE n + 1 \in T
    <3>1. PICK g : g = [s \in SUBSET (1 .. n) |-> Unfold(g, s)]
      BY <2>2
    <3> DEFINE D == SUBSET (1 .. n + 1)
               h == [s \in D |-> IF n + 1 \in s THEN Add(g[s \ {n + 1}], items[n + 1]) ELSE g[s]]
    <3>2. ASSUME NEW s \in D PROVE h[s] = Unfold(h, s)
      <4>1. CASE n + 1 \in s
        <5>1. Max(s) = n + 1
          BY <4>1, Greatest
        <5>2. h[s \ {n + 1}] = g[s \ {n + 1}]
          BY <4>1
        <5> QED BY <4>1, <5>1, <5>2
      <4>2. CASE n + 1 \notin s
        <5>1. s \in SUBSET (1 .. n) /\ h[s] = g[s]
          BY <4>2
        <5>2. s \ {Max(s)} \in D /\ n + 1 \notin s \ {Max(s)}
          BY <4>2
        <5>3. h[s \ {Max(s)}] = g[s \ {Max(s)}]
          BY <5>2
        <5> HIDE DEF h
        <5> QED BY <3>1, <5>1, <5>3
      <4> QED BY <4>1, <4>2
    <3>3. h = [s \in D |-> h[s]]
      OBVIOUS
    <3> HIDE DEF h, Unfold, D
    <3>4. h = [s \in D |-> Unfold(h, s)]
      BY <3>2, <3>3
    <3> QED BY <3>4 DEF D
  <2> HIDE DEF T
  <2>3. Nat \subseteq T
    BY <2>1, <2>2, NaturalsByInduction
  <2> HIDE DEF Unfold
  <2>5. \E g : g = [s \in SUBSET (1 .. count) |-> Unfold(g, s)]
    BY <1>0, <2>3 DEF T
  <2>6. iter = [s \in SUBSET (1 .. count) |-> Unfold(iter, s)]
    BY <2>5, <1>0
  <2> QED BY <2>6
<1> HIDE DEF iter
<1> DEFINE k == [n \in 0 .. count |-> iter[1 .. n]]
<1>3. k[0] = <<>>
  <2>1. iter[{}] = <<>> BY <1>2
  <2>2. 1 .. 0 = {} OBVIOUS
  <2> QED BY <1>0, <2>1, <2>2
<1>4. ASSUME NEW n \in 0 .. count - 1 PROVE k[n + 1] = Add(k[n], items[n + 1])
  <2> DEFINE s == 1 .. n + 1
  <2>1. s \in SUBSET Int /\ n + 1 \in s /\ \A i \in s : i <= n + 1
    OBVIOUS
  <2>2. s \in SUBSET (1 .. count) /\ s \ {n + 1} = 1 .. n
    BY <1>0
  <2> HIDE DEF s
  <2>3. Max(s) = n + 1
    BY <2>1, Greatest
  <2>4. iter[s] = Add(iter[1 .. n], items[n + 1])
    BY <1>2, <2>1, <2>2, <2>3
  <2>5. k[n + 1] = iter[s] /\ k[n] = iter[1 .. n] BY <1>0 DEF s
  <2> QED BY <2>4, <2>5
<1>5. Kept(items, wanted) = k[count] BY <1>0, <1>1
<1> HIDE DEF k
<1>6. Stages(items, wanted, k) BY <1>3, <1>4, <1>5 DEF Stages, Add, count
<1> QED BY <1>6

(* They are sequences of those elements of the given one that are wanted.  *)
LEMMA KeptIs ==
  ASSUME NEW S, NEW items \in Seq(S), NEW wanted
  PROVE  /\ Kept(items, wanted) \in Seq(S)
         /\ ToSet(Kept(items, wanted)) = ToSet(items) \cap wanted
<1>1. PICK k : Stages(items, wanted, k) BY KeptStages
<1> DEFINE count == Len(items)
           T == {n \in Nat : n <= count => /\ k[n] \in Seq(S)
                                           /\ ToSet(k[n]) = {items[i] : i \in 1 .. n} \cap wanted}
<1>2. count \in Nat /\ ToSet(items) = {items[i] : i \in 1 .. count} BY DEF ToSet
<1>3. 0 \in T
  <2>1. k[0] = <<>> BY <1>1 DEF Stages
  <2>2. ToSet(<<>>) = {} BY DEF ToSet
  <2>3. {items[i] : i \in 1 .. 0} = {} OBVIOUS
  <2>4. <<>> \in Seq(S) OBVIOUS
  <2> QED BY <2>1, <2>2, <2>3, <2>4
<1>4. ASSUME NEW n \in Nat, n \in T PROVE n + 1 \in T
  <2> SUFFICES ASSUME n + 1 <= count
               PROVE  /\ k[n + 1] \in Seq(S)
                      /\ ToSet(k[n + 1]) = {items[i] : i \in 1 .. n + 1} \cap wanted
    OBVIOUS
  <2> DEFINE e == items[n + 1]
  <2>1. n \in 0 .. count - 1 /\ e \in S BY <1>2
  <2>2. k[n] \in Seq(S) /\ ToSet(k[n]) = {items[i] : i \in 1 .. n} \cap wanted
    BY <1>2, <1>4
  <2>3. {items[i] : i \in 1 .. n + 1} = {items[i] : i \in 1 .. n} \cup {e} OBVIOUS
  <2>4. k[n + 1] = IF e \in wanted THEN Append(k[n], e) ELSE k[n]
    BY <1>1, <2>1 DEF Stages
  <2> HIDE DEF e, count
  <2>5. CASE e \in wanted
    <3>1. ToSet(Append(k[n], e)) = ToSet(k[n]) \cup {e} BY <2>1, <2>2, Appended
    <3>2. k[n + 1] = Append(k[n], e) /\ Append(k[n], e) \in Seq(S) BY <2>1, <2>2, <2>4, <2>5
    <3> QED BY <2>2, <2>3, <2>5, <3>1, <3>2
  <2>6. CASE e \notin wanted BY <2>2, <2>3, <2>4, <2>6
  <2> QED BY <2>5, <2>6
<1> HIDE DEF T
<1>5. Nat \subseteq T BY <1>3, <1>4, NaturalsByInduction
<1>6. count \in T BY <1>2, <1>5
<1> QED BY <1>1, <1>2, <1>6 DEF T, Stages

(* The least of some numbers, of some paths and of some folders.           *)
LEMMA LeastIs ==
  ASSUME NEW S \in SUBSET Nat, S # {}
  PROVE  Min(S) \in S /\ \A o \in S : Min(S) <= o
<1> DEFINE T == {n \in Nat : \A p \in S : p >= n}
<1>1. \E p \in S : \A o \in S : p <= o
  <2> SUFFICES ASSUME \A p \in S : \E o \in S : o < p PROVE FALSE
    OBVIOUS
  <2>1. 0 \in T OBVIOUS
  <2>2. \A n \in Nat : n \in T => n + 1 \in T OBVIOUS
  <2> HIDE DEF T
  <2>3. Nat \subseteq T BY <2>1, <2>2, NaturalsByInduction
  <2>4. PICK p \in S : TRUE OBVIOUS
  <2>5. p \in Nat /\ p + 1 \in T BY <2>3
  <2> QED BY <2>4, <2>5 DEF T
<1> QED BY <1>1 DEF Min

LEMMA FirstIs ==
  ASSUME NEW names \in SUBSET Paths, names # {}
  PROVE  Min(names) \in names /\ \A o \in names : Min(names) <= o
<1>1. names \in SUBSET Nat BY DEF Paths
<1> QED BY <1>1, LeastIs

LEMMA FirstFolderIs ==
  ASSUME NEW left \in SUBSET Folders, left # {} PROVE Min(left) \in left
<1>1. left \in SUBSET Nat BY DEF Folders
<1> QED BY <1>1, LeastIs

-----------------------------------------------------------------------------
(* The calls that read.                                                    *)

PathsOf(rows) == {row.path : row \in ToSet(rows)}

Data == Contents \cup {"none", Partial}
Sigs == Nat \X Nat \X Nat
Owners == {OwnerOf(r) : r \in Readers}
Kinds == {"list", "query", "status"}
Row == [path : Paths, sig : Sigs, sha : Data]
Pictures == [Paths -> [id : Nat, mtime : Nat, change : Nat, back : Nat, data : Data]]
Places == {"idle", "scan", "open", "read", "folders", "rows", "get", "page"}
Reading == [at : Places, kind : Kinds, key : Nat, left : SUBSET Folders, names : SUBSET Paths,
            rows : Seq(Row), sig : Sigs \cup {<<>>}, sha : Data, folder : [Folders -> Nat],
            offset : Nat, got : Seq(Row), since : Int, base : Seq(Row),
            moment : Pictures \cup {<<>>}, back : SUBSET Paths]
Entry == [key : Nat, owner : Owners, kind : Kinds, rows : Seq(Row), created : Int, access : Int]
Cursor == [key : Nat, owner : Owners, kind : Kinds, offset : Nat, got : Seq(Row)]
QueryTypes ==
  /\ call \in [Readers -> Reading]
  /\ cache \in Seq(Entry) /\ baselines \in Seq(Entry) /\ cursors \in SUBSET Cursor
  /\ clock \in Nat /\ calls \in Nat

(* A digest is true while the file shows what it showed.                   *)
Sound(row) ==
  /\ row.sig[3] \in 1 .. stamp
  /\ \A p \in Paths : row.path = p /\ row.sig = HandleSignature(files[p]) => row.sha = files[p].data
SoundRows(rows) == \A row \in ToSet(rows) : Sound(row)
Seen(c) == [path |-> Min(c.names), sig |-> c.sig, sha |-> c.sha]
Collects(c) == c.kind = "status" /\ c.at \in {"scan", "open", "read", "folders", "rows"}
SoundCall(c) ==
  /\ Collects(c) => SoundRows(c.rows) /\ SoundRows(c.base)
  /\ c.at \in {"open", "read"} =>
       /\ c.kind = "status" /\ c.names # {} /\ c.sig \in Sigs /\ c.sig[3] \in 1 .. stamp
  /\ c.at \in {"folders", "rows"} => c.kind = "status"
  /\ c.at = "read" => Sound(Seen(c))
HashInv ==
  /\ \A r \in Readers : SoundCall(call[r])
  /\ \A e \in ToSet(baselines) : SoundRows(e.rows)

(* A file that has shown a signature has kept it, or has a later time now, *)
(* or its time has been set back since.                                    *)
Grown(sig, f) ==
  /\ sig[1] = f.id /\ sig[3] <= f.change
  /\ sig = HandleSignature(f) \/ sig[2] < f.mtime \/ f.back > sig[3]
RowsGrew(rows, p, f) == \A row \in ToSet(rows) : row.path = p => Grown(row.sig, f)

(* While a folder is as the inventory found it, its files are the names    *)
(* and the rows, and have grown from what was seen of them.                *)
Undisturbed(c, p) == folder[FolderOf(p)] = c.folder[FolderOf(p)]
Collecting(c) ==
  c.kind = "status" /\ c.at \in {"scan", "open", "read"} =>
    /\ \A d \in Folders : c.folder[d] <= stamp
    /\ \A p \in c.names \cup PathsOf(c.rows) : FolderOf(p) \notin c.left
    /\ \A p \in Paths : FolderOf(p) \notin c.left /\ Undisturbed(c, p) =>
         /\ Exists(p) <=> p \in c.names \cup PathsOf(c.rows)
         /\ RowsGrew(c.rows, p, files[p])
         /\ c.at # "scan" /\ p = Min(c.names) => Grown(c.sig, files[p])

(* The rows of a folder, once it is found undisturbed, fit the files as    *)
(* they were when the first folder was looked at again.                    *)
Fits(c, p) ==
  /\ c.moment[p] # NoFile <=> p \in PathsOf(c.rows)
  /\ RowsGrew(c.rows, p, c.moment[p])
  /\ \A row \in ToSet(c.rows) :
       row.path = p /\ row.sig = HandleSignature(c.moment[p]) => row.sha = c.moment[p].data
Pictured(c) ==
  c.at \in {"folders", "rows"} =>
    /\ c.at = "rows" => c.left = {}
    /\ \A d \in Folders : c.folder[d] <= stamp
    /\ \A p \in Paths : FolderOf(p) \notin c.left \/ Undisturbed(c, p) => Fits(c, p)
(* What has become of the files of that moment.                            *)
Aged(c) ==
  c.at \in {"folders", "rows"} =>
    /\ c.moment \in Pictures
    /\ \A p \in Paths : /\ c.moment[p] # NoFile => c.moment[p].id # 0
                        /\ c.moment[p].id <= stamp /\ c.moment[p].change <= stamp
    /\ \A p, q \in Paths : Exists(p) /\ c.moment[q].id = files[p].id =>
         /\ c.moment[q].back <= files[p].back
         /\ c.moment[q].mtime <= files[p].mtime \/ c.moment[q].change < files[p].back
(* A row that was checked is of that moment, or names a file set back.     *)
Confirmed(c) ==
  c.at = "rows" => \A row \in ToSet(c.rows) :
    row.path \notin c.names \cup c.back => row.sig = HandleSignature(c.moment[row.path])
MomentCall(c) == Collecting(c) /\ Pictured(c) /\ Aged(c) /\ Confirmed(c)
MomentInv == \A r \in Readers : MomentCall(call[r])

(* Entries of one key have one owner, one kind and the same rows; whoever  *)
(* carries the key carries a part of them.                                 *)
Begins(got, offset, rows) == offset <= Len(rows) /\ got = SubSeq(rows, 1, offset)
OneSnapshot ==
  /\ \A e, f \in ToSet(cache) : e.key = f.key => e.owner = f.owner /\ e.rows = f.rows
  /\ \A e \in ToSet(cache) : e.key <= calls
  /\ \A c \in cursors : c.key <= calls
  /\ \A c \in cursors, e \in ToSet(cache) :
       e.key = c.key => e.owner = c.owner /\ Begins(c.got, c.offset, e.rows)
(* The key of a call that collects, or awaits what it stored, is its own.  *)
Owning(c) == \/ c.at = "scan" /\ c.kind # "status"
             \/ c.at = "get" /\ clock - c.since < IdleTime
Fresh(r) ==
  Owning(call[r]) =>
    /\ call[r].at = "scan" => \A e \in ToSet(cache) : e.key # call[r].key
    /\ \A c \in cursors : c.key # call[r].key
    /\ \A s \in Readers : s # r /\ call[s].at # "idle" => call[s].key # call[r].key
Paging(r) ==
  LET c == call[r]
  IN /\ c.key <= calls
     /\ c.at = "scan" /\ c.kind # "status" => c.got = <<>> /\ c.offset = 0
     /\ c.at = "get" => \A e \in ToSet(cache) :
          e.key = c.key => e.owner = OwnerOf(r) /\ Begins(c.got, c.offset, e.rows)
     /\ c.at = "page" => /\ Begins(c.got, c.offset, c.rows)
                         /\ \A e \in ToSet(cache) :
                              e.key = c.key => e.owner = OwnerOf(r) /\ e.rows = c.rows
PageInv == OneSnapshot /\ \A r \in Readers : Fresh(r) /\ Paging(r)

-----------------------------------------------------------------------------
(* What the calls that read do.                                            *)

LEMMA PathsAre ==
  ASSUME NEW rows \in Seq(Row)
  PROVE  ToSet(rows) \subseteq Row /\ PathsOf(rows) \subseteq Paths
<1>1. ToSet(rows) \subseteq Row BY DEF ToSet
<1>2. \A row \in Row : row.path \in Paths BY DEF Row
<1> QED BY <1>1, <1>2 DEF PathsOf

LEMMA HandleIs ==
  ASSUME FilesInv, NEW p \in Paths
  PROVE  LET s == HandleSignature(files[p])
         IN /\ s \in Sigs /\ s[1] = files[p].id /\ s[2] = files[p].mtime /\ s[3] = files[p].change
            /\ files[p].data \in Data /\ files[p].id \in Nat /\ files[p].mtime \in Nat
            /\ files[p].change \in 0 .. stamp /\ files[p].back \in 0 .. stamp
<1>1. files[p] \in FileRecord BY FilesAre
<1>2. stamp \in Nat BY DEF FilesInv, FileTypes
<1>3. /\ files[p].id \in Nat /\ files[p].mtime \in Nat /\ files[p].change \in 0 .. stamp
      /\ files[p].back \in 0 .. stamp
      /\ files[p].data \in Data
  BY <1>1, <1>2 DEF FileRecord, Data
<1> QED BY <1>2, <1>3 DEF HandleSignature, Sigs

LEMMA FilesPicture == FilesInv => files \in Pictures
<1> SUFFICES ASSUME FilesInv PROVE files \in Pictures OBVIOUS
<1>1. stamp \in Nat /\ files \in [Paths -> FileRecord] BY DEF FilesInv, FileTypes
<1>2. FileRecord \subseteq [id : Nat, mtime : Nat, change : Nat, back : Nat, data : Data]
  BY <1>1 DEF FileRecord, Data
<1> QED BY <1>1, <1>2 DEF Pictures

LEMMA NothingIs == Nothing \in Reading /\ Nothing.at = "idle"
<1>1. <<>> \in Seq(Row) /\ [d \in Folders |-> 0] \in [Folders -> Nat] OBVIOUS
<1> QED BY <1>1 DEF Nothing, Reading, Places, Kinds, Data

LEMMA EntryIs ==
  ASSUME QueryTypes, NEW r \in Readers
  PROVE  /\ EntryOf(r) \in Entry /\ EntryOf(r).rows = call[r].rows /\ EntryOf(r).key = call[r].key
         /\ EntryOf(r).owner = OwnerOf(r) /\ EntryOf(r).kind = call[r].kind
         /\ EntryOf(r).created = clock /\ EntryOf(r).access = clock
<1>1. call[r] \in Reading /\ clock \in Int BY DEF QueryTypes
<1>2. /\ call[r].key \in Nat /\ call[r].kind \in Kinds /\ call[r].rows \in Seq(Row)
      /\ OwnerOf(r) \in Owners
  BY <1>1 DEF Reading, Owners
<1> QED BY <1>1, <1>2 DEF EntryOf, Entry

(* What makes room for a new entry leaves old ones.                        *)
LEMMA RoomIs ==
  ASSUME NEW items \in Seq(Entry), NEW owner
  PROVE  /\ WithinAll(WithinOwn(items, owner)) \in Seq(Entry)
         /\ ToSet(WithinAll(WithinOwn(items, owner))) \subseteq ToSet(items)
<1> DEFINE own == WithinOwn(items, owner)
<1>1. own \in Seq(Entry) /\ ToSet(own) \subseteq ToSet(items) BY KeptIs DEF WithinOwn
<1> HIDE DEF own
<1>2. WithinAll(own) \in Seq(Entry) /\ ToSet(WithinAll(own)) \subseteq ToSet(own)
  <2>1. CASE Len(own) < MaxEntries BY <1>1, <2>1 DEF WithinAll
  <2>2. CASE ~(Len(own) < MaxEntries)
    <3>1. own # <<>> BY <1>1, <2>2, CacheNumbers
    <3>2. Tail(own) \in Seq(Entry) /\ ToSet(Tail(own)) \subseteq ToSet(own)
      BY <1>1, <3>1 DEF ToSet
    <3> QED BY <2>2, <3>2 DEF WithinAll
  <2> QED BY <2>1, <2>2
<1> QED BY <1>1, <1>2 DEF own

LEMMA StoredIs ==
  ASSUME NEW items \in Seq(Entry), NEW entry \in Entry
  PROVE  /\ Stored(items, entry) \in Seq(Entry)
         /\ ToSet(Stored(items, entry)) \subseteq ToSet(items) \cup {entry}
<1> DEFINE room == WithinAll(WithinOwn(items, entry.owner))
<1>1. room \in Seq(Entry) /\ ToSet(room) \subseteq ToSet(items) BY RoomIs
<1>2. Stored(items, entry) = Append(room, entry) BY DEF Stored
<1> HIDE DEF room
<1>3. ToSet(Append(room, entry)) = ToSet(room) \cup {entry} BY <1>1, Appended
<1> QED BY <1>1, <1>2, <1>3

LEMMA YoungIs ==
  ASSUME NEW items \in Seq(Entry)
  PROVE  Young(items) \in Seq(Entry) /\ ToSet(Young(items)) \subseteq ToSet(items)
BY KeptIs DEF Young

LEMMA UnexpiredIs ==
  ASSUME NEW items \in Seq(Entry)
  PROVE  Unexpired(items) \in Seq(Entry) /\ ToSet(Unexpired(items)) \subseteq ToSet(items)
BY YoungIs, KeptIs DEF Unexpired

(* A call that is not in the middle of an inventory.                       *)
Apart(n) == n.at \in {"idle", "get", "page"} \/ (n.at = "scan" /\ n.kind # "status")

(* The steps of an inventory.                                              *)
Starts(n) ==
  /\ n.at = "scan" /\ n.kind = "status" /\ n.left = Folders /\ n.names = {} /\ n.rows = <<>>
  /\ \A d \in Folders : n.folder[d] = 0
  /\ n.base = <<>> \/ \E e \in ToSet(baselines) : n.base = e.rows
Carries(n, c) == c.kind = "status" /\ n.kind = "status" /\ n.base = c.base
Looked(n, c) == n.left = c.left /\ n.folder = c.folder
Lists(c, n) ==
  LET d == Min(c.left)
  IN /\ c.at = "scan" /\ n.at = "scan" /\ c.names = {} /\ c.left # {} /\ Carries(n, c)
     /\ n.left = c.left \ {d} /\ n.folder = [c.folder EXCEPT ![d] = folder[d]]
     /\ n.names = Names(d) /\ n.rows = c.rows
Opens(c, n) ==
  /\ c.at = "scan" /\ c.names # {} /\ Exists(Min(c.names)) /\ n.at = "open" /\ Carries(n, c)
  /\ n.sig = HandleSignature(files[Min(c.names)]) /\ n.names = c.names /\ n.rows = c.rows
  /\ Looked(n, c)
Hashes(c, n) ==
  /\ c.at = "open" /\ n.at = "read" /\ Carries(n, c) /\ Looked(n, c)
  /\ n.names = c.names /\ n.rows = c.rows /\ n.sig = c.sig
  /\ \/ n.sha = files[Min(c.names)].data
     \/ \E row \in ToSet(c.base) : row.path = Min(c.names) /\ row.sig = c.sig /\ n.sha = row.sha
Closes(c, n) ==
  /\ c.at = "read" /\ n.at = "scan" /\ Carries(n, c) /\ Looked(n, c)
  /\ n.names = c.names \ {Min(c.names)} /\ n.rows = Append(c.rows, Seen(c))
Checks(c, n) ==
  LET d == Min(Unchecked(c))
  IN /\ Inventoried(c) /\ folder[d] = c.folder[d] /\ Carries(n, c) /\ n.folder = c.folder
     /\ n.left = Unchecked(c) \ {d} /\ n.rows = c.rows
     /\ n.at = IF n.left = {} THEN "rows" ELSE "folders"
     /\ n.names = IF n.left = {} THEN PathsOf(c.rows) ELSE {}
     /\ n.moment = IF c.at = "scan" THEN files ELSE c.moment
Confirms(c, n) ==
  LET p == Min(c.names)
      mine == {row \in ToSet(c.rows) : row.path = p}
  IN /\ c.at = "rows" /\ n.at = "rows" /\ c.names # {} /\ Carries(n, c) /\ Looked(n, c)
     /\ n.moment = c.moment /\ n.rows = c.rows /\ n.names = c.names \ {p}
     /\ \A row \in mine : Shows(row)
     /\ n.back = IF \E row \in mine : files[p].back > row.sig[3] THEN c.back \cup {p} ELSE c.back
Does(c, n) == \/ Apart(n) \/ Starts(n) \/ Lists(c, n) \/ Opens(c, n) \/ Hashes(c, n)
              \/ Closes(c, n) \/ Checks(c, n) \/ Confirms(c, n)
ReaderDoes(r) == \E n \in Reading : call' = [call EXCEPT ![r] = n] /\ Does(call[r], n)

LEMMA FailDoes == ASSUME NEW r \in Readers, Fail(r) PROVE ReaderDoes(r)
<1>1. call' = [call EXCEPT ![r] = Nothing] BY DEF Fail, Now
<1> QED BY <1>1, NothingIs DEF ReaderDoes, Does, Apart

LEMMA BeginDoes ==
  ASSUME ServiceInv, QueryTypes, NEW r \in Readers, Begin(r) PROVE ReaderDoes(r)
<1>1. PICK kind \in {"list", "query", "status"},
           base \in {<<>>} \cup {e.rows : e \in ToSet(Owned(Young(baselines), OwnerOf(r)))} :
        Now(r, [Nothing EXCEPT !.at = "scan", !.kind = kind, !.key = calls + 1,
                  !.left = Folders, !.base = base])
  BY DEF Begin
<1> DEFINE n == [Nothing EXCEPT !.at = "scan", !.kind = kind, !.key = calls + 1,
                   !.left = Folders, !.base = base]
<1>2. baselines \in Seq(Entry) /\ calls \in Nat BY DEF QueryTypes
<1>3. base = <<>> \/ \E e \in ToSet(baselines) : base = e.rows
  <2>1. ToSet(Owned(Young(baselines), OwnerOf(r))) \subseteq ToSet(baselines)
    BY <1>2, YoungIs, KeptIs DEF Owned
  <2> QED BY <2>1
<1>4. base \in Seq(Row)
  <2>1. ToSet(baselines) \subseteq Entry BY <1>2 DEF ToSet
  <2>2. <<>> \in Seq(Row) OBVIOUS
  <2> QED BY <1>3, <2>1, <2>2 DEF Entry
<1>5. n \in Reading
  <2>1. kind \in Kinds /\ calls + 1 \in Nat /\ "scan" \in Places /\ Folders \in SUBSET Folders
    BY <1>2 DEF Kinds, Places
  <2>2. PICK z \in Reading : z = Nothing BY NothingIs
  <2> DEFINE m == [z EXCEPT !.at = "scan", !.kind = kind, !.key = calls + 1,
                     !.left = Folders, !.base = base]
  <2>3. m \in Reading BY <1>2, <1>4, <2>1 DEF Reading
  <2> QED BY <2>2, <2>3
<1>6. /\ n.at = "scan" /\ n.kind = kind /\ n.left = Folders /\ n.names = {} /\ n.rows = <<>>
      /\ n.base = base /\ \A d \in Folders : n.folder[d] = 0
  BY DEF Nothing
<1>7. call' = [call EXCEPT ![r] = n] BY <1>1 DEF Now
<1> HIDE DEF n
<1>8. Apart(n) \/ Starts(n) BY <1>3, <1>6 DEF Apart, Starts
<1> QED BY <1>5, <1>7, <1>8 DEF ReaderDoes, Does

LEMMA BeginPageDoes ==
  ASSUME ServiceInv, QueryTypes, NEW r \in Readers, BeginPage(r) PROVE ReaderDoes(r)
<1>1. PICK c \in cursors :
        Now(r, [Nothing EXCEPT !.at = "get", !.kind = c.kind, !.key = c.key, !.offset = c.offset,
                  !.got = c.got, !.since = -IdleTime])
  BY DEF BeginPage
<1> DEFINE n == [Nothing EXCEPT !.at = "get", !.kind = c.kind, !.key = c.key, !.offset = c.offset,
                   !.got = c.got, !.since = -IdleTime]
<1>2. c.kind \in Kinds /\ c.key \in Nat /\ c.offset \in Nat /\ c.got \in Seq(Row) /\ -IdleTime \in Int
  BY CacheNumbers DEF QueryTypes, Cursor
<1>3. n \in Reading BY NothingIs, <1>2 DEF Reading, Places
<1>4. n.at = "get" BY DEF Nothing
<1>5. call' = [call EXCEPT ![r] = n] BY <1>1 DEF Now
<1> HIDE DEF n
<1> QED BY <1>3, <1>4, <1>5 DEF ReaderDoes, Does, Apart

LEMMA ListDoes ==
  ASSUME ServiceInv, QueryTypes, NEW r \in Readers, ListFolder(r) PROVE ReaderDoes(r)
<1>1. PICK c \in Reading : c = call[r] BY DEF QueryTypes
<1> DEFINE d == Min(c.left)
           n == [c EXCEPT !.left = @ \ {d}, !.names = Names(d), !.folder[d] = folder[d]]
<1>2. /\ c.at = "scan" /\ c.names = {} /\ c.left # {} /\ call' = [call EXCEPT ![r] = n]
  BY <1>1 DEF ListFolder, Now
<1>3. d \in Folders BY <1>2, FirstFolderIs DEF Reading
<1>4. folder[d] \in Nat /\ Names(d) \in SUBSET Paths
  BY <1>3 DEF ServiceInv, FilesInv, FileTypes, Names
<1> HIDE DEF d
<1>5. /\ n \in Reading /\ n.at = "scan" /\ n.kind = c.kind /\ n.base = c.base
      /\ n.left = c.left \ {d} /\ n.folder = [c.folder EXCEPT ![d] = folder[d]]
      /\ n.names = Names(d) /\ n.rows = c.rows
  BY <1>2, <1>3, <1>4 DEF Reading
<1> HIDE DEF n
<1>6. CASE c.kind = "status"
  <2>1. Lists(c, n) BY <1>2, <1>5, <1>6 DEF Lists, Carries, d
  <2> QED BY <1>1, <1>2, <1>5, <2>1 DEF ReaderDoes, Does
<1>7. CASE c.kind # "status" BY <1>2, <1>5, <1>7 DEF ReaderDoes, Does, Apart
<1> QED BY <1>6, <1>7

LEMMA ScanDoes ==
  ASSUME ServiceInv, QueryTypes, NEW r \in Readers, Scan(r) PROVE ReaderDoes(r)
<1>1. PICK c \in Reading : c = call[r] BY DEF QueryTypes
<1> DEFINE p == Min(c.names)
           row == [path |-> p, sig |-> HandleSignature(files[p]), sha |-> "none"]
           skip == [c EXCEPT !.names = @ \ {p}]
           open == [c EXCEPT !.at = "open", !.sig = HandleSignature(files[p])]
           list == [skip EXCEPT !.rows = Append(@, row)]
<1>2. c.at = "scan" /\ c.names # {} /\ p \in Paths
  BY <1>1, FirstIs DEF Scan, Reading
<1>3. row.sig \in Sigs /\ row \in Row
  BY <1>2, HandleIs DEF ServiceInv, Row, Data
<1>4. /\ skip \in Reading /\ skip.at = c.at /\ skip.kind = c.kind
      /\ open \in Reading /\ open.at = "open" /\ open.kind = c.kind /\ open.base = c.base
      /\ open.folder = c.folder /\ open.left = c.left /\ open.sig = HandleSignature(files[p])
      /\ open.names = c.names /\ open.rows = c.rows
  BY <1>3 DEF Reading, Places
<1> HIDE DEF skip, row
<1>5. list \in Reading /\ list.at = c.at /\ list.kind = c.kind
  <2>1. Append(skip.rows, row) \in Seq(Row) BY <1>3, <1>4 DEF Reading
  <2> QED BY <1>4, <2>1 DEF Reading
<1>6. \/ Fail(r)
      \/ c.kind = "list" /\ call' = [call EXCEPT ![r] = skip]
      \/ c.kind = "status" /\ Exists(p) /\ call' = [call EXCEPT ![r] = open]
      \/ c.kind # "status" /\ call' = [call EXCEPT ![r] = list]
  BY <1>1 DEF Scan, Now, skip, row
<1> HIDE DEF open, list
<1>7. CASE Fail(r) BY <1>7, FailDoes
<1>8. CASE c.kind = "list" /\ call' = [call EXCEPT ![r] = skip]
  BY <1>2, <1>4, <1>8 DEF ReaderDoes, Does, Apart
<1>9. CASE c.kind = "status" /\ Exists(p) /\ call' = [call EXCEPT ![r] = open]
  <2>1. Opens(c, open) BY <1>2, <1>4, <1>9 DEF Opens, Carries, Looked
  <2> QED BY <1>1, <1>4, <1>9, <2>1 DEF ReaderDoes, Does
<1>10. CASE c.kind # "status" /\ call' = [call EXCEPT ![r] = list]
  BY <1>2, <1>5, <1>10 DEF ReaderDoes, Does, Apart
<1> QED BY <1>6, <1>7, <1>8, <1>9, <1>10

LEMMA DigestDoes ==
  ASSUME ServiceInv, QueryTypes, HashInv, NEW r \in Readers, Digest(r) PROVE ReaderDoes(r)
<1>1. PICK c \in Reading : c = call[r] BY DEF QueryTypes
<1> DEFINE p == Min(c.names)
           sha == IF Known(c, p) = {} THEN files[p].data ELSE (CHOOSE row \in Known(c, p) : TRUE).sha
           n == [c EXCEPT !.at = "read", !.sha = sha]
<1>2. c.at = "open" /\ call' = [call EXCEPT ![r] = n] BY <1>1 DEF Digest, Now
<1>3. c.kind = "status" /\ c.names # {} BY <1>1, <1>2 DEF HashInv, SoundCall
<1>4. p \in Paths BY <1>3, FirstIs DEF Reading
<1>5. /\ sha \in Data
      /\ \/ sha = files[p].data
         \/ \E row \in ToSet(c.base) : row.path = p /\ row.sig = c.sig /\ sha = row.sha
  <2>1. CASE Known(c, p) = {} BY <1>4, <2>1, HandleIs DEF ServiceInv
  <2>2. CASE Known(c, p) # {}
    <3>1. PICK row \in Known(c, p) : sha = row.sha BY <2>2
    <3>2. row \in ToSet(c.base) /\ row.path = p /\ row.sig = c.sig BY <3>1 DEF Known
    <3>3. ToSet(c.base) \subseteq Row BY DEF ToSet, Reading
    <3> QED BY <3>1, <3>2, <3>3 DEF Row
  <2> QED BY <2>1, <2>2
<1> HIDE DEF sha
<1>6. /\ n \in Reading /\ n.at = "read" /\ n.kind = c.kind /\ n.base = c.base /\ n.folder = c.folder
      /\ n.left = c.left /\ n.names = c.names /\ n.rows = c.rows /\ n.sig = c.sig /\ n.sha = sha
  BY <1>5 DEF Reading, Places
<1> HIDE DEF n
<1>7. Hashes(c, n) BY <1>2, <1>3, <1>5, <1>6 DEF Hashes, Carries, Looked
<1> QED BY <1>1, <1>2, <1>6, <1>7 DEF ReaderDoes, Does

LEMMA CloseDoes ==
  ASSUME ServiceInv, QueryTypes, HashInv, NEW r \in Readers, CloseHandle(r) PROVE ReaderDoes(r)
<1>1. PICK c \in Reading : c = call[r] BY DEF QueryTypes
<1> DEFINE p == Min(c.names)
           n == [c EXCEPT !.at = "scan", !.names = @ \ {p}, !.sig = <<>>, !.sha = "none",
                   !.rows = Append(@, [path |-> p, sig |-> c.sig, sha |-> c.sha])]
<1>2. c.at = "read" /\ (Fail(r) \/ call' = [call EXCEPT ![r] = n]) BY <1>1 DEF CloseHandle, Now
<1>3. c.kind = "status" /\ c.names # {} /\ c.sig \in Sigs BY <1>1, <1>2 DEF HashInv, SoundCall
<1>4. Seen(c) \in Row BY <1>3, FirstIs DEF Reading, Seen, Row
<1>5. /\ n \in Reading /\ n.at = "scan" /\ n.kind = c.kind /\ n.base = c.base /\ n.folder = c.folder
      /\ n.left = c.left /\ n.names = c.names \ {p} /\ n.rows = Append(c.rows, Seen(c))
  <2>1. /\ Append(c.rows, Seen(c)) \in Seq(Row) /\ "none" \in Data
        /\ c.names \ {p} \in SUBSET Paths
    BY <1>4 DEF Reading, Data
  <2>2. n = [c EXCEPT !.at = "scan", !.names = c.names \ {p}, !.sig = <<>>, !.sha = "none",
               !.rows = Append(c.rows, Seen(c))]
    BY DEF Seen
  <2> HIDE DEF n, p
  <2> QED BY <2>1, <2>2 DEF Reading, Places
<1> HIDE DEF n
<1>6. Closes(c, n) BY <1>2, <1>3, <1>5 DEF Closes, Carries, Looked
<1> QED BY <1>1, <1>2, <1>5, <1>6, FailDoes DEF ReaderDoes, Does

LEMMA CheckFolderDoes ==
  ASSUME ServiceInv, QueryTypes, NEW r \in Readers, CheckFolder(r) PROVE ReaderDoes(r)
<1>1. PICK c \in Reading : c = call[r] BY DEF QueryTypes
<1> DEFINE d == Min(Unchecked(c))
           left == Unchecked(c) \ {d}
           n == [c EXCEPT !.at = IF left = {} THEN "rows" ELSE "folders", !.left = left,
                   !.moment = IF c.at = "scan" THEN files ELSE @,
                   !.names = IF left = {} THEN PathsOf(c.rows) ELSE {}]
<1>2. /\ Inventoried(c)
      /\ Fail(r) \/ (folder[d] = c.folder[d] /\ call' = [call EXCEPT ![r] = n])
  BY <1>1 DEF CheckFolder, FolderDone, Now, PathsOf
<1>3. /\ files \in Pictures /\ left \in SUBSET Folders /\ PathsOf(c.rows) \in SUBSET Paths
      /\ {} \in SUBSET Paths
  BY FilesPicture, PathsAre DEF ServiceInv, Unchecked, Reading
<1> HIDE DEF left, d
<1>4. /\ n \in Reading /\ n.kind = c.kind /\ n.base = c.base /\ n.folder = c.folder
      /\ n.left = left /\ n.rows = c.rows
      /\ n.at = IF left = {} THEN "rows" ELSE "folders"
      /\ n.names = IF left = {} THEN PathsOf(c.rows) ELSE {}
      /\ n.moment = IF c.at = "scan" THEN files ELSE c.moment
  BY <1>3 DEF Reading, Places
<1> HIDE DEF n
<1>5. folder[d] = c.folder[d] => Checks(c, n)
  BY <1>2, <1>4 DEF Checks, Carries, Inventoried, left, d
<1> QED BY <1>1, <1>2, <1>4, <1>5, FailDoes DEF ReaderDoes, Does

LEMMA CheckRowDoes ==
  ASSUME ServiceInv, QueryTypes, HashInv, NEW r \in Readers, CheckRow(r) PROVE ReaderDoes(r)
<1>1. PICK c \in Reading : c = call[r] BY DEF QueryTypes
<1> DEFINE p == Min(c.names)
           mine == {row \in ToSet(c.rows) : row.path = p}
           back == IF \E row \in mine : files[p].back > row.sig[3] THEN c.back \cup {p} ELSE c.back
           n == [c EXCEPT !.names = @ \ {p}, !.back = back]
<1>2. /\ c.at = "rows" /\ c.names # {}
      /\ Fail(r) \/ ((\A row \in mine : Shows(row)) /\ call' = [call EXCEPT ![r] = n])
  BY <1>1 DEF CheckRow, Now
<1>3. c.kind = "status" BY <1>1, <1>2 DEF HashInv, SoundCall
<1>4. p \in Paths BY <1>2, FirstIs DEF Reading
<1>5. back \in SUBSET Paths BY <1>4 DEF Reading
<1> HIDE DEF back, mine, p
<1>6. /\ n \in Reading /\ n.at = "rows" /\ n.kind = c.kind /\ n.base = c.base /\ n.folder = c.folder
      /\ n.left = c.left /\ n.moment = c.moment /\ n.rows = c.rows /\ n.names = c.names \ {p}
      /\ n.back = back
  BY <1>2, <1>5 DEF Reading
<1> HIDE DEF n
<1>7. (\A row \in mine : Shows(row)) => Confirms(c, n)
  BY <1>2, <1>3, <1>6 DEF Confirms, Carries, Looked, back, mine, p
<1> QED BY <1>1, <1>2, <1>6, <1>7, FailDoes DEF ReaderDoes, Does

LEMMA PagesDo ==
  ASSUME ServiceInv, QueryTypes, NEW r \in Readers, Compare(r) \/ Put(r) \/ Get(r) \/ Page(r)
  PROVE  ReaderDoes(r)
<1>1. PICK c \in Reading : c = call[r] BY DEF QueryTypes
<1>2. CASE Compare(r) \/ Page(r)
  <2>1. Fail(r) BY <1>2 DEF Compare, Page, Fail
  <2> QED BY <2>1, FailDoes
<1>3. CASE Put(r)
  <2> DEFINE n == [c EXCEPT !.at = "get", !.rows = <<>>, !.since = clock]
  <2>1. call' = [call EXCEPT ![r] = n] BY <1>1, <1>3 DEF Put, Now
  <2>2. <<>> \in Seq(Row) /\ clock \in Int BY DEF QueryTypes
  <2>3. n \in Reading /\ n.at = "get" BY <2>2 DEF Reading, Places
  <2> HIDE DEF n
  <2> QED BY <2>1, <2>3 DEF ReaderDoes, Does, Apart
<1>4. CASE Get(r)
  <2>1. CASE Fail(r) BY <2>1, FailDoes
  <2>2. CASE ~Fail(r)
    <3> DEFINE e == CHOOSE f \in Found(r) : TRUE
               n == [c EXCEPT !.at = "page", !.rows = e.rows]
    <3>1. Found(r) # {} /\ call' = [call EXCEPT ![r] = n]
      BY <1>1, <1>4, <2>2 DEF Get, Now
    <3>2. e \in ToSet(Unexpired(cache)) BY <3>1 DEF Found
    <3>3. ToSet(Unexpired(cache)) \subseteq Entry
      <4>1. Unexpired(cache) \in Seq(Entry) BY UnexpiredIs DEF QueryTypes
      <4> QED BY <4>1 DEF ToSet
    <3>4. e.rows \in Seq(Row) BY <3>2, <3>3 DEF Entry
    <3> HIDE DEF e
    <3>5. n \in Reading /\ n.at = "page" BY <3>4 DEF Reading, Places
    <3> HIDE DEF n
    <3> QED BY <3>1, <3>5 DEF ReaderDoes, Does, Apart
  <2> QED BY <2>1, <2>2
<1> QED BY <1>2, <1>3, <1>4

LEMMA ReadersDo ==
  ASSUME ServiceInv, QueryTypes, HashInv, NEW r \in Readers, Begin(r) \/ BeginPage(r) \/ ReadStep(r)
  PROVE  ReaderDoes(r)
BY BeginDoes, BeginPageDoes, ListDoes, ScanDoes, DigestDoes, CloseDoes, CheckFolderDoes, CheckRowDoes,
   PagesDo
DEF ReadStep

-----------------------------------------------------------------------------
(* The types of the calls, the tables and the cursors.                     *)

LEMMA PageOfIs ==
  ASSUME NEW c \in Reading
  PROVE  /\ PageOf(c) \in Seq(Row) /\ NextOffset(c) \in Nat /\ c.got \o PageOf(c) \in Seq(Row)
         /\ \E m \in Int : /\ m <= Len(c.rows) /\ PageOf(c) = SubSeq(c.rows, c.offset + 1, m)
                           /\ c.offset <= Len(c.rows) => m >= c.offset
                           /\ Len(PageOf(c)) = IF c.offset + 1 <= m THEN m - c.offset ELSE 0
<1> DEFINE m == IF c.offset + Limit < Len(c.rows) THEN c.offset + Limit ELSE Len(c.rows)
           page == SubSeq(c.rows, c.offset + 1, m)
<1>1. c.rows \in Seq(Row) /\ c.offset \in Nat /\ c.got \in Seq(Row) BY DEF Reading
<1>2. m \in Int /\ m <= Len(c.rows) /\ (c.offset <= Len(c.rows) => m >= c.offset)
  BY <1>1, CacheNumbers
<1> HIDE DEF m
<1>3. \A i \in c.offset + 1 .. m : c.rows[i] \in Row BY <1>1, <1>2
<1>4. /\ page \in Seq(Row)
      /\ Len(page) = IF c.offset + 1 <= m THEN m - (c.offset + 1) + 1 ELSE 0
  BY <1>1, <1>2, <1>3, SubSeqProperties
<1>5. PageOf(c) = page BY DEF PageOf, m
<1> HIDE DEF page
<1>6. c.got \o page \in Seq(Row) /\ c.offset + Len(page) \in Nat BY <1>1, <1>4
<1>7. Len(page) = IF c.offset + 1 <= m THEN m - c.offset ELSE 0 BY <1>1, <1>2, <1>4
<1> QED BY <1>2, <1>4, <1>5, <1>6, <1>7 DEF NextOffset, page

LEMMA PutTypes ==
  ASSUME QueryTypes, NEW r \in Readers, Put(r)
  PROVE  /\ cache' \in Seq(Entry)
         /\ ToSet(cache') \subseteq ToSet(cache) \cup {EntryOf(r)}
<1>1. cache \in Seq(Entry) BY DEF QueryTypes
<1>2. EntryOf(r) \in Entry BY EntryIs
<1>3. cache' = Stored(Unexpired(cache), EntryOf(r)) BY DEF Put
<1> QED BY <1>1, <1>2, <1>3, UnexpiredIs, StoredIs

(* What Get leaves are entries of before, one of them used now.            *)
LEMMA GetTypes ==
  ASSUME QueryTypes, NEW r \in Readers, Get(r)
  PROVE  /\ cache' \in Seq(Entry)
         /\ \A e \in ToSet(cache') : \E f \in ToSet(cache) :
              e.key = f.key /\ e.owner = f.owner /\ e.rows = f.rows /\ e.kind = f.kind
              /\ e.created = f.created
<1>1. cache \in Seq(Entry) /\ clock \in Int BY DEF QueryTypes
<1>2. Unexpired(cache) \in Seq(Entry) /\ ToSet(Unexpired(cache)) \subseteq ToSet(cache)
  BY <1>1, UnexpiredIs
<1>3. CASE cache' = Unexpired(cache) BY <1>2, <1>3
<1>4. CASE Found(r) # {} /\ cache' # Unexpired(cache)
  <2> DEFINE e == CHOOSE f \in Found(r) : TRUE
             rest == Kept(Unexpired(cache), ToSet(cache) \ {e})
  <2>1. cache' = Append(rest, [e EXCEPT !.access = clock]) BY <1>4 DEF Get
  <2>2. e \in ToSet(Unexpired(cache)) BY <1>4 DEF Found
  <2>3. rest \in Seq(Entry) /\ ToSet(rest) \subseteq ToSet(cache) BY <1>2, KeptIs
  <2> HIDE DEF e, rest
  <2>8. ToSet(cache) \subseteq Entry BY <1>1 DEF ToSet
  <2>4. PICK g \in Entry : g = e /\ g \in ToSet(cache) BY <1>2, <2>2, <2>8
  <2> DEFINE new == [g EXCEPT !.access = clock]
  <2>5. /\ new \in Entry /\ new.key = g.key /\ new.owner = g.owner /\ new.rows = g.rows
        /\ new.kind = g.kind /\ new.created = g.created
    BY <1>1 DEF Entry
  <2>6. cache' = Append(rest, new) BY <2>1, <2>4
  <2> HIDE DEF new
  <2>7. ToSet(cache') = ToSet(rest) \cup {new} BY <2>3, <2>5, <2>6, Appended
  <2> QED BY <2>3, <2>4, <2>5, <2>6, <2>7
<1> QED BY <1>3, <1>4 DEF Get

LEMMA CompareTypes ==
  ASSUME QueryTypes, NEW r \in Readers, Compare(r)
  PROVE  /\ baselines' \in Seq(Entry) /\ call[r].at = "rows"
         /\ ToSet(baselines') \subseteq ToSet(baselines) \cup {EntryOf(r)}
<1>1. baselines \in Seq(Entry) BY DEF QueryTypes
<1>2. EntryOf(r) \in Entry BY EntryIs
<1>3. baselines' = baselines \/ baselines' = Stored(Young(baselines), EntryOf(r)) BY DEF Compare
<1>4. Young(baselines) \in Seq(Entry) /\ ToSet(Young(baselines)) \subseteq ToSet(baselines)
  BY <1>1, YoungIs
<1> QED BY <1>1, <1>2, <1>3, <1>4, StoredIs DEF Compare

LEMMA PageTypes ==
  ASSUME QueryTypes, NEW r \in Readers, Page(r) PROVE cursors' \in SUBSET Cursor
<1>1. PICK c \in Reading : c = call[r] BY DEF QueryTypes
<1> DEFINE new == [key |-> c.key, owner |-> OwnerOf(r), kind |-> c.kind,
                   offset |-> NextOffset(c), got |-> c.got \o PageOf(c)]
<1>2. new \in Cursor BY PageOfIs DEF Cursor, Reading, Owners
<1>3. cursors' \in {cursors, cursors \cup {new}} BY <1>1 DEF Page
<1> QED BY <1>2, <1>3 DEF QueryTypes

(* The tables change in these four steps only.                             *)
LEMMA TablesApart ==
  ASSUME [ServiceNext]_fileServiceVars
  PROVE  /\ cache' = cache \/ \E r \in Readers : Put(r) \/ Get(r)
         /\ baselines' = baselines \/ \E r \in Readers : Compare(r)
         /\ cursors' = cursors \/ \E r \in Readers : Page(r)
<1>1. ASSUME UNCHANGED queryVars PROVE UNCHANGED <<cache, baselines, cursors>>
  BY <1>1 DEF queryVars
<1>2. ASSUME NEW r \in Readers, Begin(r) \/ BeginPage(r) PROVE UNCHANGED <<cache, baselines, cursors>>
  BY <1>2 DEF Begin, BeginPage
<1>3. ASSUME Tick PROVE UNCHANGED <<cache, baselines, cursors>> BY <1>3 DEF Tick
<1>4. ASSUME NEW r \in Readers, ReadStep(r)
      PROVE  /\ cache' = cache \/ Put(r) \/ Get(r)
             /\ baselines' = baselines \/ Compare(r)
             /\ cursors' = cursors \/ Page(r)
  <2>1. CASE \/ ListFolder(r) \/ Scan(r) \/ Digest(r) \/ CloseHandle(r)
             \/ CheckFolder(r) \/ CheckRow(r)
    BY <2>1 DEF ListFolder, Scan, Digest, CloseHandle, CheckFolder, CheckRow
  <2>2. CASE Compare(r) \/ Put(r) \/ Get(r) \/ Page(r)
    BY <2>2 DEF Compare, Put, Get, Page
  <2> QED BY <1>4, <2>1, <2>2 DEF ReadStep
<1>5. CASE UNCHANGED fileServiceVars BY <1>1, <1>5 DEF fileServiceVars
<1> QED BY <1>1, <1>2, <1>3, <1>4, <1>5 DEF ServiceNext

(* So do the calls: a reader steps, or none does.                          *)
LEMMA CallsApart ==
  ASSUME ServiceInv, QueryTypes, HashInv, [ServiceNext]_fileServiceVars
  PROVE  \/ call' = call
         \/ \E r \in Readers : ReaderDoes(r) /\ UNCHANGED fileVars
<1>1. ASSUME UNCHANGED queryVars \/ Tick PROVE call' = call
  BY <1>1 DEF queryVars, Tick
<1>2. ASSUME NEW r \in Readers, Begin(r) \/ BeginPage(r) \/ ReadStep(r)
      PROVE  ReaderDoes(r) /\ UNCHANGED fileVars
  BY <1>2, ReadersDo, ReadersApart
<1>3. CASE UNCHANGED fileServiceVars BY <1>1, <1>3 DEF fileServiceVars
<1> QED BY <1>1, <1>2, <1>3 DEF ServiceNext

LEMMA TypesStep ==
  ASSUME ServiceInv, QueryTypes, HashInv, [ServiceNext]_fileServiceVars PROVE QueryTypes'
<1>1. call' \in [Readers -> Reading]
  <2>1. CASE call' = call BY <2>1 DEF QueryTypes
  <2>2. CASE \E r \in Readers : ReaderDoes(r) BY <2>2 DEF QueryTypes, ReaderDoes
  <2> QED BY <2>1, <2>2, CallsApart
<1>2. cache' \in Seq(Entry) BY TablesApart, PutTypes, GetTypes DEF QueryTypes
<1>3. baselines' \in Seq(Entry) BY TablesApart, CompareTypes DEF QueryTypes
<1>4. cursors' \in SUBSET Cursor BY TablesApart, PageTypes DEF QueryTypes
<1>5. clock' \in Nat
  <2>1. ASSUME UNCHANGED queryVars PROVE clock' = clock BY <2>1 DEF queryVars
  <2>2. ASSUME NEW r \in Readers, Begin(r) \/ BeginPage(r) \/ ReadStep(r) PROVE clock' = clock
    BY <2>2 DEF Begin, BeginPage, ReadStep, ListFolder, Scan, Digest, CloseHandle, CheckFolder,
                CheckRow, Compare, Put, Get, Page
  <2>3. CASE UNCHANGED fileServiceVars BY <2>1, <2>3 DEF fileServiceVars, QueryTypes
  <2>4. CASE Tick BY <2>4 DEF Tick, QueryTypes
  <2> QED BY <2>1, <2>2, <2>3, <2>4 DEF ServiceNext, QueryTypes
<1>6. calls' \in Nat
  <2>1. ASSUME NextCall PROVE calls' \in Nat BY <2>1 DEF NextCall, QueryTypes
  <2>2. ASSUME NEW c \in Callers, CallWrite(c) PROVE calls' \in Nat BY <2>1, <2>2 DEF CallWrite
  <2>3. ASSUME NEW r \in Readers, Begin(r) \/ BeginPage(r) PROVE calls' \in Nat
    BY <2>1, <2>3 DEF Begin, BeginPage
  <2>4. CASE UNCHANGED calls BY <2>4 DEF QueryTypes
  <2> QED BY <2>2, <2>3, <2>4 DEF ServiceNext, fileServiceVars
<1> QED BY <1>1, <1>2, <1>3, <1>4, <1>5, <1>6 DEF QueryTypes

-----------------------------------------------------------------------------
(* The digests.                                                            *)

(* A digest stays sound: a file that changes bears a later number.         *)
LEMMA SoundStays ==
  ASSUME ServiceInv, Evolves, NEW row \in Row, Sound(row) PROVE Sound(row)'
<1>1. stamp \in Nat /\ row.sig[3] \in 1 .. stamp BY DEF ServiceInv, FilesInv, FileTypes, Sound
<1>2. CASE UNCHANGED <<files, stamp, folder>> BY <1>2 DEF Sound
<1>3. CASE stamp' = stamp + 1 /\ \A p \in Paths : files'[p] \in {files[p], NoFile} \/ files'[p].change = stamp'
  <2>1. row.sig[3] \in 1 .. stamp' BY <1>1, <1>3
  <2>2. ASSUME NEW p \in Paths, row.path = p, row.sig = HandleSignature(files'[p])
        PROVE  row.sha = files'[p].data
    <3>1. row.sig[3] = files'[p].change BY <2>2 DEF HandleSignature
    <3>2. files'[p].change # 0 /\ files'[p].change # stamp' BY <1>1, <1>3, <3>1
    <3>3. files'[p] = files[p] BY <1>3, <3>2 DEF NoFile
    <3> QED BY <2>2, <3>3 DEF Sound
  <2> QED BY <2>1, <2>2 DEF Sound, HandleSignature
<1> QED BY <1>2, <1>3 DEF Evolves

LEMMA SoundRowsStay ==
  ASSUME ServiceInv, Evolves, NEW rows \in Seq(Row), SoundRows(rows) PROVE SoundRows(rows)'
<1>1. ToSet(rows) \subseteq Row BY DEF ToSet
<1> QED BY <1>1, SoundStays DEF SoundRows

LEMMA SoundCallStays ==
  ASSUME ServiceInv, Evolves, NEW c \in Reading, SoundCall(c) PROVE SoundCall(c)'
<1>1. c.rows \in Seq(Row) /\ c.base \in Seq(Row) BY DEF Reading
<1>2. Collects(c) => SoundRows(c.rows)' /\ SoundRows(c.base)' BY <1>1, SoundRowsStay DEF SoundCall
<1>3. c.at \in {"open", "read"} => c.sig[3] \in 1 .. stamp'
  <2>1. stamp \in Nat /\ stamp' \in {stamp, stamp + 1} BY DEF Evolves, ServiceInv, FilesInv, FileTypes
  <2> QED BY <2>1 DEF SoundCall
<1>4. c.at = "read" => Sound(Seen(c))'
  <2>1. ASSUME c.at = "read" PROVE Seen(c) \in Row
    BY <2>1, FirstIs DEF SoundCall, Seen, Row, Reading
  <2> QED BY <2>1, SoundStays DEF SoundCall
<1> QED BY <1>2, <1>3, <1>4 DEF SoundCall, Collects, Seen

LEMMA HashStep ==
  ASSUME ServiceInv, QueryTypes, HashInv, [ServiceNext]_fileServiceVars PROVE HashInv'
<1>1. ServiceInv' /\ Evolves BY ServiceStep
<1>2. \A r \in Readers : SoundCall(call[r])' 
  <2>1. CASE call' = call
    <3>1. ASSUME NEW r \in Readers PROVE SoundCall(call[r])'
      <4>1. PICK c \in Reading : c = call[r] BY DEF QueryTypes
      <4>2. SoundCall(c)' BY <1>1, <4>1, SoundCallStays DEF HashInv
      <4> QED BY <2>1, <4>1, <4>2 DEF SoundCall, Collects, Seen
    <3> QED BY <3>1
  <2>2. ASSUME NEW r \in Readers, ReaderDoes(r), UNCHANGED fileVars
        PROVE  \A s \in Readers : SoundCall(call[s])'
    <3>1. PICK n \in Reading : call' = [call EXCEPT ![r] = n] /\ Does(call[r], n)
      BY <2>2 DEF ReaderDoes
    <3>2. PICK c \in Reading : c = call[r] BY DEF QueryTypes
    <3>3. SoundCall(c) BY <3>2 DEF HashInv
    <3>4. SoundCall(n)
      <4>1. CASE Apart(n) BY <4>1 DEF Apart, SoundCall, Collects
      <4>2. CASE Starts(n)
        <5>1. SoundRows(<<>>) BY DEF SoundRows, ToSet
        <5>2. SoundRows(n.base) BY <4>2, <5>1 DEF Starts, HashInv
        <5> QED BY <4>2, <5>1, <5>2 DEF Starts, SoundCall
      <4>3. CASE Opens(c, n)
        <5>1. Min(c.names) \in Paths BY <4>3, FirstIs DEF Opens, Reading
        <5>2. files[Min(c.names)].change # 0 BY <4>3, <5>1 DEF Opens, ServiceInv, FilesInv, Real
        <5>3. n.sig \in Sigs /\ n.sig[3] \in 1 .. stamp
          BY <4>3, <5>1, <5>2, HandleIs DEF Opens, ServiceInv
        <5> QED BY <3>3, <4>3, <5>3 DEF Opens, Carries, SoundCall, Collects
      <4>4. CASE Hashes(c, n)
        <5>1. Sound(Seen(n))
          <6>1. Seen(n) = [path |-> Min(c.names), sig |-> c.sig, sha |-> n.sha]
            BY <4>4 DEF Hashes, Seen
          <6>2. c.sig[3] \in 1 .. stamp BY <3>3, <4>4 DEF Hashes, SoundCall
          <6>3. CASE n.sha = files[Min(c.names)].data BY <6>1, <6>2, <6>3 DEF Sound
          <6>4. CASE \E row \in ToSet(c.base) : row.path = Min(c.names) /\ row.sig = c.sig /\ n.sha = row.sha
            <7>1. PICK row \in ToSet(c.base) : row.path = Min(c.names) /\ row.sig = c.sig /\ n.sha = row.sha
              BY <6>4
            <7>2. Sound(row) BY <3>3, <4>4, <7>1 DEF Hashes, Carries, SoundCall, Collects, SoundRows
            <7> QED BY <6>1, <7>1, <7>2 DEF Sound
          <6> QED BY <4>4, <6>3, <6>4 DEF Hashes
        <5> QED BY <3>3, <4>4, <5>1 DEF Hashes, Carries, SoundCall, Collects
      <4>5. CASE Closes(c, n)
        <5>1. SoundRows(c.rows) /\ Sound(Seen(c)) BY <3>3, <4>5 DEF Closes, Carries, SoundCall, Collects
        <5>2. Seen(c) \in Row BY <3>3, <4>5, FirstIs DEF Closes, SoundCall, Seen, Row, Reading
        <5>3. ToSet(n.rows) = ToSet(c.rows) \cup {Seen(c)} BY <4>5, <5>2, Appended DEF Closes, Reading
        <5>4. SoundRows(n.rows) BY <5>1, <5>3 DEF SoundRows
        <5> QED BY <3>3, <4>5, <5>4 DEF Closes, Carries, SoundCall, Collects
      <4>6. CASE Checks(c, n) BY <3>3, <4>6 DEF Checks, Inventoried, Carries, SoundCall, Collects
      <4>7. CASE Confirms(c, n) BY <3>3, <4>7 DEF Confirms, Carries, SoundCall, Collects
      <4>8. CASE Lists(c, n) BY <3>3, <4>8 DEF Lists, Carries, SoundCall, Collects
      <4> QED BY <3>1, <3>2, <4>1, <4>2, <4>3, <4>4, <4>5, <4>6, <4>7, <4>8 DEF Does
    <3>5. ASSUME NEW s \in Readers PROVE SoundCall(call[s])'
      <4>1. PICK d \in Reading : d = call'[s] /\ SoundCall(d)
        BY <3>1, <3>4 DEF QueryTypes, HashInv
      <4>2. SoundCall(d)' BY <1>1, <4>1, SoundCallStays
      <4> QED BY <4>1, <4>2 DEF SoundCall, Collects, Seen
    <3> QED BY <3>5
  <2> QED BY <2>1, <2>2, CallsApart
<1>3. \A e \in ToSet(baselines') : SoundRows(e.rows)'
  <2>1. ASSUME NEW e \in ToSet(baselines'), SoundRows(e.rows) PROVE SoundRows(e.rows)'
    <3>1. e \in Entry BY TypesStep DEF QueryTypes, ToSet
    <3> QED BY <1>1, <2>1, <3>1, SoundRowsStay DEF Entry
  <2>2. CASE baselines' = baselines BY <2>1, <2>2 DEF HashInv
  <2>3. ASSUME NEW r \in Readers, Compare(r)
        PROVE  \A e \in ToSet(baselines') : SoundRows(e.rows)
    <3>1. SoundRows(EntryOf(r).rows)
      BY <2>3, CompareTypes, EntryIs DEF HashInv, SoundCall, Collects
    <3> QED BY <2>3, <3>1, CompareTypes DEF HashInv
  <2> QED BY <2>1, <2>2, <2>3, TablesApart
<1> QED BY <1>2, <1>3 DEF HashInv

-----------------------------------------------------------------------------
(* The inventory.                                                          *)

(* What a file has grown from once, it has grown from for good.            *)
LEMMA GrownStays ==
  ASSUME NEW now \in Nat, NEW sig \in Sigs, NEW f, NEW g, Grown(sig, f), Rewritten(f, g, now + 1),
         f.change \in 0 .. now, f.mtime \in Nat, g.mtime \in Nat, f.back \in Nat, g.back \in Nat
  PROVE  Grown(sig, g)
<1>1. sig[1] \in Nat /\ sig[2] \in Nat /\ sig[3] \in Nat BY DEF Sigs
<1>2. /\ sig[1] = f.id /\ sig[3] <= f.change
      /\ sig = HandleSignature(f) \/ sig[2] < f.mtime \/ f.back > sig[3]
  BY DEF Grown
<1>3. /\ g.id = f.id /\ g.change = now + 1 /\ g.back >= f.back
      /\ g.mtime > f.mtime \/ g.back = now + 1
  BY DEF Rewritten
<1>4. sig = HandleSignature(f) => sig[2] = f.mtime BY DEF HandleSignature
<1>5. sig[2] < g.mtime \/ g.back > sig[3] BY <1>1, <1>2, <1>3, <1>4
<1>6. sig[3] <= g.change BY <1>1, <1>2, <1>3
<1> QED BY <1>2, <1>3, <1>5, <1>6 DEF Grown

(* A folder that is still as a call found it was so before the step: its   *)
(* names have their files, or files rewritten.                             *)
LEMMA FoundStays ==
  ASSUME ServiceInv, ServiceInv', Evolves, NEW c \in Reading, NEW p \in Paths,
         \A d \in Folders : c.folder[d] <= stamp
  PROVE  /\ \A d \in Folders : c.folder[d] <= stamp'
         /\ Undisturbed(c, p)' =>
              /\ Undisturbed(c, p)
              /\ Exists(p)' <=> Exists(p)
              /\ \A sig \in Sigs : Grown(sig, files[p]) => Grown(sig, files'[p])
<1>1. /\ stamp \in Nat /\ stamp' \in Nat /\ FolderOf(p) \in Folders
      /\ folder[FolderOf(p)] \in Nat /\ \A d \in Folders : c.folder[d] \in Nat
  BY FolderAssumption DEF ServiceInv, FilesInv, FileTypes, Reading
<1>2. CASE UNCHANGED <<files, stamp, folder>> BY <1>2 DEF Undisturbed, Exists
<1>3. CASE /\ stamp' = stamp + 1
           /\ \A d \in Folders : folder'[d] \in {folder[d], stamp'}
           /\ \/ folder'[FolderOf(p)] = stamp'
              \/ files'[p] = files[p]
              \/ Rewritten(files[p], files'[p], stamp')
  <2>1. \A d \in Folders : c.folder[d] <= stamp' /\ c.folder[d] # stamp' BY <1>1, <1>3
  <2>2. ASSUME Undisturbed(c, p)'
        PROVE  /\ Undisturbed(c, p)
               /\ files'[p] = files[p] \/ Rewritten(files[p], files'[p], stamp + 1)
    BY <1>1, <1>3, <2>1, <2>2 DEF Undisturbed
  <2>3. CASE files'[p] = files[p] BY <2>1, <2>2, <2>3 DEF Exists
  <2>4. CASE Rewritten(files[p], files'[p], stamp + 1)
    <3>1. /\ files[p].change \in 0 .. stamp /\ files[p].mtime \in Nat /\ files[p].back \in Nat
          /\ Exists(p) <=> files[p].id # 0
      BY <1>1, FilesAre DEF ServiceInv
    <3>2. files'[p].mtime \in Nat /\ files'[p].back \in Nat
      BY <1>1 DEF ServiceInv, FilesInv, FileTypes, FileRecord
    <3>3. Exists(p)' <=> files'[p].id # 0
      <4>1. NoFile.id = 0 BY DEF NoFile
      <4> QED BY <4>1 DEF ServiceInv, FilesInv, Real, Exists
    <3>4. Exists(p)' <=> Exists(p) BY <2>4, <3>1, <3>3 DEF Rewritten
    <3>5. \A sig \in Sigs : Grown(sig, files[p]) => Grown(sig, files'[p])
      BY <1>1, <2>4, <3>1, <3>2, GrownStays
    <3> QED BY <2>1, <2>2, <3>4, <3>5
  <2> QED BY <2>1, <2>2, <2>3, <2>4
<1> QED BY <1>2, <1>3 DEF Evolves

LEMMA CollectingStays ==
  ASSUME ServiceInv, ServiceInv', Evolves, NEW c \in Reading, SoundCall(c), Collecting(c)
  PROVE  Collecting(c)'
<1> SUFFICES ASSUME c.kind = "status", c.at \in {"scan", "open", "read"}
             PROVE  Collecting(c)'
  BY DEF Collecting
<1>1. /\ \A d \in Folders : c.folder[d] <= stamp
      /\ \A p \in c.names \cup PathsOf(c.rows) : FolderOf(p) \notin c.left
  BY DEF Collecting
<1>2. Paths # {} BY FileBounds DEF Paths
<1>3. \A d \in Folders : c.folder[d] <= stamp' BY <1>1, <1>2, FoundStays
<1>4. ASSUME NEW p \in Paths, FolderOf(p) \notin c.left, Undisturbed(c, p)'
      PROVE  /\ Exists(p)' <=> p \in c.names \cup PathsOf(c.rows)
             /\ RowsGrew(c.rows, p, files'[p])
             /\ c.at # "scan" /\ p = Min(c.names) => Grown(c.sig, files'[p])
  <2>1. /\ Undisturbed(c, p)
        /\ Exists(p)' <=> Exists(p)
        /\ \A sig \in Sigs : Grown(sig, files[p]) => Grown(sig, files'[p])
    BY <1>1, <1>4, FoundStays
  <2>2. /\ Exists(p) <=> p \in c.names \cup PathsOf(c.rows)
        /\ RowsGrew(c.rows, p, files[p])
        /\ c.at # "scan" /\ p = Min(c.names) => Grown(c.sig, files[p])
    BY <1>4, <2>1 DEF Collecting
  <2>3. \A row \in ToSet(c.rows) : row.sig \in Sigs BY PathsAre DEF Reading, Row
  <2>4. c.at # "scan" => c.sig \in Sigs BY DEF SoundCall
  <2> QED BY <2>1, <2>2, <2>3, <2>4 DEF RowsGrew
<1> QED BY <1>1, <1>3, <1>4 DEF Collecting, PathsOf, RowsGrew, Grown, HandleSignature

LEMMA PicturedStays ==
  ASSUME ServiceInv, ServiceInv', Evolves, NEW c \in Reading, Pictured(c) PROVE Pictured(c)'
<1> SUFFICES ASSUME c.at \in {"folders", "rows"} PROVE Pictured(c)' BY DEF Pictured
<1>1. \A d \in Folders : c.folder[d] <= stamp BY DEF Pictured
<1>2. Paths # {} BY FileBounds DEF Paths
<1>3. \A d \in Folders : c.folder[d] <= stamp' BY <1>1, <1>2, FoundStays
<1>4. ASSUME NEW p \in Paths, FolderOf(p) \notin c.left \/ Undisturbed(c, p)' PROVE Fits(c, p)
  BY <1>1, <1>4, FoundStays DEF Pictured
<1> QED BY <1>3, <1>4 DEF Pictured, Fits, PathsOf, RowsGrew, Grown, HandleSignature

LEMMA AgedStays ==
  ASSUME ServiceInv, ServiceInv', Evolves, NEW c \in Reading, Aged(c) PROVE Aged(c)'
<1> SUFFICES ASSUME c.at \in {"folders", "rows"} PROVE Aged(c)' BY DEF Aged
<1>1. CASE UNCHANGED <<files, stamp, folder>> BY <1>1 DEF Aged, Exists
<1>2. CASE /\ stamp' = stamp + 1
           /\ \A p \in Paths : \/ files'[p].id \in {0, stamp'}
                               \/ \E q \in Paths : Onward(files[q], files'[p], stamp')
  <2>1. stamp \in Nat BY DEF ServiceInv, FilesInv, FileTypes
  <2>2. ASSUME NEW q \in Paths
        PROVE  /\ c.moment[q].id \in Nat /\ c.moment[q].mtime \in Nat /\ c.moment[q].change \in Nat
               /\ c.moment[q].back \in Nat /\ c.moment[q].id <= stamp /\ c.moment[q].change <= stamp
    BY DEF Aged, Pictures
  <2>3. ASSUME NEW p \in Paths, NEW q \in Paths, Exists(p)', c.moment[q].id = files'[p].id
        PROVE  /\ c.moment[q].back <= files'[p].back
               /\ c.moment[q].mtime <= files'[p].mtime \/ c.moment[q].change < files'[p].back
    <3>1. files'[p].id # 0 BY <2>3 DEF ServiceInv, FilesInv, Real
    <3>2. files'[p].id # stamp' BY <1>2, <2>1, <2>2, <2>3
    <3>3. PICK r \in Paths : Onward(files[r], files'[p], stamp') BY <1>2, <3>1, <3>2
    <3>4. Exists(r) BY <3>1, <3>3, FilesAre DEF ServiceInv, Onward
    <3>5. /\ c.moment[q].back <= files[r].back
          /\ c.moment[q].mtime <= files[r].mtime \/ c.moment[q].change < files[r].back
      BY <2>3, <3>3, <3>4 DEF Aged, Onward
    <3>6. files[r].mtime \in Nat /\ files[r].back \in Nat BY <2>1, HandleIs DEF ServiceInv
    <3>7. files'[p].mtime \in Nat /\ files'[p].back \in Nat
      BY <1>2, <2>1 DEF ServiceInv, FilesInv, FileTypes, FileRecord
    <3> QED BY <1>2, <2>1, <2>2, <3>3, <3>5, <3>6, <3>7 DEF Onward
  <2>4. \A q \in Paths : c.moment[q].id <= stamp' /\ c.moment[q].change <= stamp'
    BY <1>2, <2>1, <2>2
  <2> QED BY <2>3, <2>4 DEF Aged, Exists
<1> QED BY <1>1, <1>2 DEF Evolves

LEMMA MomentStays ==
  ASSUME ServiceInv, ServiceInv', Evolves, NEW c \in Reading, SoundCall(c), MomentCall(c)
  PROVE  MomentCall(c)'
<1>1. Confirmed(c)' BY DEF MomentCall, Confirmed, HandleSignature
<1> QED BY <1>1, CollectingStays, PicturedStays, AgedStays DEF MomentCall

(* The names of one folder more.                                           *)
LEMMA ListedCollects ==
  ASSUME ServiceInv, NEW c \in Reading, NEW n \in Reading, Collecting(c), Lists(c, n)
  PROVE  Collecting(n)
<1> DEFINE d == Min(c.left)
<1>1. /\ c.at = "scan" /\ n.at = "scan" /\ c.kind = "status" /\ c.names = {} /\ c.left # {}
      /\ n.left = c.left \ {d} /\ n.folder = [c.folder EXCEPT ![d] = folder[d]]
      /\ n.names = Names(d) /\ n.rows = c.rows
  BY DEF Lists, Carries
<1>2. d \in c.left /\ d \in Folders BY <1>1, FirstFolderIs DEF Reading
<1> HIDE DEF d
<1>3. /\ n.folder[d] = folder[d] /\ folder[d] <= stamp
      /\ \A e \in Folders : e # d => n.folder[e] = c.folder[e]
  BY <1>1, <1>2 DEF ServiceInv, FilesInv, FileTypes, Reading
<1>4. \A e \in Folders : n.folder[e] <= stamp BY <1>1, <1>3 DEF Collecting
<1>5. \A p \in PathsOf(c.rows) : FolderOf(p) \notin c.left BY <1>1 DEF Collecting
<1>6. \A p \in n.names \cup PathsOf(n.rows) : FolderOf(p) \notin n.left
  BY <1>1, <1>5 DEF Names
<1>7. ASSUME NEW p \in Paths, FolderOf(p) \notin n.left, Undisturbed(n, p)
      PROVE  /\ Exists(p) <=> p \in n.names \cup PathsOf(n.rows)
             /\ RowsGrew(n.rows, p, files[p])
  <2>1. CASE FolderOf(p) = d
    <3>1. p \notin PathsOf(c.rows) BY <1>2, <1>5, <2>1
    <3>2. p \in n.names <=> Exists(p) BY <1>1, <2>1 DEF Names
    <3> QED BY <1>1, <3>1, <3>2 DEF RowsGrew, PathsOf
  <2>2. CASE FolderOf(p) # d
    <3>1. FolderOf(p) \in Folders BY FolderAssumption
    <3>2. FolderOf(p) \notin c.left /\ Undisturbed(c, p)
      BY <1>1, <1>3, <1>7, <2>2, <3>1 DEF Undisturbed
    <3>3. p \notin n.names BY <1>1, <2>2 DEF Names
    <3> QED BY <1>1, <3>2, <3>3 DEF Collecting
  <2> QED BY <2>1, <2>2
<1> QED BY <1>1, <1>4, <1>6, <1>7 DEF Collecting

(* A row more, for the first of the names that were left.                  *)
LEMMA ClosedCollects ==
  ASSUME ServiceInv, NEW c \in Reading, NEW n \in Reading, SoundCall(c), Collecting(c), Closes(c, n)
  PROVE  Collecting(n)
<1> DEFINE p == Min(c.names)
<1>1. /\ c.at = "read" /\ n.at = "scan" /\ n.kind = "status" /\ c.kind = "status"
      /\ n.folder = c.folder /\ n.left = c.left
      /\ n.names = c.names \ {p} /\ n.rows = Append(c.rows, Seen(c))
  BY DEF Closes, Carries, Looked
<1>2. p \in c.names /\ p \in Paths /\ Seen(c) \in Row
  BY <1>1, FirstIs DEF SoundCall, Seen, Row, Reading
<1>3. ToSet(n.rows) = ToSet(c.rows) \cup {Seen(c)} BY <1>1, <1>2, Appended DEF Reading
<1>4. /\ Seen(c).path = p /\ Seen(c).sig = c.sig BY DEF Seen
<1>5. PathsOf(n.rows) = PathsOf(c.rows) \cup {p} BY <1>3, <1>4 DEF PathsOf
<1>6. n.names \cup PathsOf(n.rows) = c.names \cup PathsOf(c.rows) BY <1>1, <1>2, <1>5
<1>7. ASSUME NEW q \in Paths, FolderOf(q) \notin n.left, Undisturbed(n, q)
      PROVE  /\ Exists(q) <=> q \in n.names \cup PathsOf(n.rows)
             /\ RowsGrew(n.rows, q, files[q])
  <2>1. /\ Exists(q) <=> q \in c.names \cup PathsOf(c.rows)
        /\ RowsGrew(c.rows, q, files[q])
        /\ q = p => Grown(c.sig, files[q])
    BY <1>1, <1>7 DEF Collecting, Undisturbed
  <2> QED BY <1>3, <1>4, <1>6, <2>1 DEF RowsGrew
<1> HIDE DEF p
<1>8. /\ \A d \in Folders : n.folder[d] <= stamp
      /\ \A q \in n.names \cup PathsOf(n.rows) : FolderOf(q) \notin n.left
  BY <1>1, <1>6 DEF Collecting
<1> QED BY <1>1, <1>7, <1>8 DEF Collecting

(* The inventory is complete: the files of this moment are the picture of  *)
(* every folder that has not been disturbed.                               *)
LEMMA MomentBegins ==
  ASSUME ServiceInv, NEW c \in Reading, NEW n \in Reading, SoundCall(c), Collecting(c),
         Checks(c, n), c.at = "scan"
  PROVE  Pictured(n) /\ Aged(n)
<1> DEFINE d == Min(Unchecked(c))
<1>1. /\ c.kind = "status" /\ c.names = {} /\ c.left = {} /\ Unchecked(c) = Folders
      /\ folder[d] = c.folder[d] /\ n.folder = c.folder /\ n.left = Folders \ {d}
      /\ n.rows = c.rows /\ n.moment = files /\ n.at = IF n.left = {} THEN "rows" ELSE "folders"
  BY DEF Checks, Inventoried, Unchecked
<1> HIDE DEF d
<1>2. files \in Pictures /\ stamp \in Nat BY FilesPicture DEF ServiceInv, FilesInv, FileTypes
<1>3. SoundRows(c.rows) BY <1>1 DEF SoundCall, Collects
<1>4. ASSUME NEW p \in Paths, FolderOf(p) \notin n.left \/ Undisturbed(n, p) PROVE Fits(n, p)
  <2>1. FolderOf(p) \in Folders BY FolderAssumption
  <2>2. Undisturbed(c, p) /\ FolderOf(p) \notin c.left BY <1>1, <1>4, <2>1 DEF Undisturbed
  <2>3. /\ Exists(p) <=> p \in PathsOf(c.rows)
        /\ RowsGrew(c.rows, p, files[p])
    BY <1>1, <2>2 DEF Collecting
  <2>4. \A row \in ToSet(c.rows) :
          row.path = p /\ row.sig = HandleSignature(files[p]) => row.sha = files[p].data
    BY <1>3 DEF SoundRows, Sound
  <2> QED BY <1>1, <2>3, <2>4 DEF Fits, Exists
<1>5. Pictured(n) BY <1>1, <1>4 DEF Pictured, Collecting
<1>6. ASSUME NEW p \in Paths
      PROVE  /\ files[p] # NoFile => files[p].id # 0
             /\ files[p].id <= stamp /\ files[p].change <= stamp
             /\ files[p].back <= files[p].back /\ files[p].mtime <= files[p].mtime
  BY <1>2, FilesAre DEF ServiceInv, Exists
<1>7. \A p, q \in Paths : Exists(p) /\ files[q].id = files[p].id => p = q
  BY DEF ServiceInv, FilesInv, Separate
<1>8. Aged(n) BY <1>1, <1>2, <1>6, <1>7 DEF Aged
<1> QED BY <1>5, <1>8

(* One folder more is found undisturbed.                                   *)
LEMMA MomentGoesOn ==
  ASSUME ServiceInv, NEW c \in Reading, NEW n \in Reading, Pictured(c), Aged(c),
         Checks(c, n), c.at = "folders"
  PROVE  Pictured(n) /\ Aged(n)
<1> DEFINE d == Min(Unchecked(c))
<1>1. /\ Unchecked(c) = c.left /\ folder[d] = c.folder[d] /\ n.folder = c.folder
      /\ n.left = c.left \ {d} /\ n.rows = c.rows /\ n.moment = c.moment
      /\ n.at = IF n.left = {} THEN "rows" ELSE "folders"
  BY DEF Checks, Unchecked
<1> HIDE DEF d
<1>2. ASSUME NEW p \in Paths, FolderOf(p) \notin n.left \/ Undisturbed(n, p) PROVE Fits(n, p)
  <2>1. FolderOf(p) \notin c.left \/ Undisturbed(c, p) BY <1>1, <1>2 DEF Undisturbed
  <2>2. Fits(c, p) BY <2>1 DEF Pictured
  <2> QED BY <1>1, <2>2 DEF Fits
<1>3. Pictured(n) BY <1>1, <1>2 DEF Pictured
<1>4. Aged(n) BY <1>1 DEF Aged
<1> QED BY <1>3, <1>4

(* A file shows what its row says: so it did at the moment, unless its     *)
(* modification time has been set back.                                    *)
LEMMA ConfirmedIs ==
  ASSUME ServiceInv, NEW c \in Reading, NEW n \in Reading, Pictured(c), Aged(c), Confirmed(c),
         Confirms(c, n)
  PROVE  Confirmed(n)
<1> DEFINE p == Min(c.names)
           mine == {row \in ToSet(c.rows) : row.path = p}
<1>1. /\ c.at = "rows" /\ n.at = "rows" /\ c.names # {} /\ n.moment = c.moment /\ n.rows = c.rows
      /\ n.names = c.names \ {p} /\ \A row \in mine : Shows(row)
      /\ n.back = IF \E row \in mine : files[p].back > row.sig[3] THEN c.back \cup {p} ELSE c.back
  BY DEF Confirms
<1>2. p \in Paths BY <1>1, FirstIs DEF Reading
<1> HIDE DEF p
<1>3. ASSUME NEW row \in ToSet(c.rows), row.path = p, p \notin n.back
      PROVE  row.sig = HandleSignature(c.moment[p])
  <2>1. row \in Row BY PathsAre DEF Reading
  <2>2. row.sig \in Nat \X Nat \X Nat BY <2>1 DEF Row, Sigs
  <2>3. row.sig[1] \in Nat /\ row.sig[2] \in Nat /\ row.sig[3] \in Nat BY <2>2
  <2>4. row \in mine BY <1>3
  <2>5. Signature(files[p]) = <<row.sig[1], row.sig[2]>>
    BY <1>1, <1>3, <2>2, <2>4, FirstTwo DEF Shows
  <2>6. files[p].id = row.sig[1] /\ files[p].mtime = row.sig[2] BY <2>5 DEF Signature
  <2>7. ~(files[p].back > row.sig[3]) BY <1>1, <1>3, <2>4
  <2>8. files[p].back \in Nat BY <1>2, FilesAre DEF ServiceInv
  <2>9. c.left = {} /\ Fits(c, p) BY <1>1, <1>2 DEF Pictured
  <2>10. p \in PathsOf(c.rows) /\ Grown(row.sig, c.moment[p])
    BY <1>3, <2>9 DEF PathsOf, Fits, RowsGrew
  <2>11. c.moment[p].id # 0 BY <1>1, <1>2, <2>9, <2>10 DEF Aged, Fits
  <2>12. Exists(p) /\ c.moment[p].id = files[p].id
    BY <1>2, <2>6, <2>10, <2>11, FilesAre DEF ServiceInv, Grown
  <2>13. /\ c.moment[p].back <= files[p].back
         /\ c.moment[p].mtime <= files[p].mtime \/ c.moment[p].change < files[p].back
    BY <1>1, <1>2, <2>12 DEF Aged
  <2>14. c.moment[p].mtime \in Nat /\ c.moment[p].change \in Nat /\ c.moment[p].back \in Nat
    BY <1>1, <1>2 DEF Aged, Pictures
  <2>15. ~(row.sig[2] < c.moment[p].mtime) /\ ~(c.moment[p].back > row.sig[3])
    BY <2>3, <2>6, <2>7, <2>8, <2>10, <2>13, <2>14 DEF Grown
  <2> QED BY <2>10, <2>15 DEF Grown
<1>4. ASSUME NEW row \in ToSet(n.rows), row.path \notin n.names \cup n.back
      PROVE  row.sig = HandleSignature(n.moment[row.path])
  <2>1. CASE row.path = p BY <1>1, <1>3, <1>4, <2>1
  <2>2. CASE row.path # p BY <1>1, <1>4, <2>2 DEF Confirmed
  <2> QED BY <2>1, <2>2
<1> QED BY <1>4 DEF Confirmed

LEMMA MomentStep ==
  ASSUME ServiceInv, QueryTypes, HashInv, MomentInv, [ServiceNext]_fileServiceVars PROVE MomentInv'
<1>1. ServiceInv' /\ Evolves BY ServiceStep
<1>2. ASSUME NEW s \in Readers, NEW d \in Reading, d = call'[s], SoundCall(d), MomentCall(d)
      PROVE  MomentCall(call[s])'
  <2>1. MomentCall(d)' BY <1>1, <1>2, MomentStays
  <2> QED BY <1>2, <2>1
      DEF MomentCall, Collecting, Pictured, Aged, Confirmed, PathsOf, RowsGrew, Grown, Fits,
          Undisturbed, HandleSignature
<1>3. CASE call' = call
  <2>1. ASSUME NEW s \in Readers PROVE MomentCall(call[s])'
    <3>1. PICK d \in Reading : d = call[s] BY DEF QueryTypes
    <3> QED BY <1>2, <1>3, <3>1 DEF HashInv, MomentInv
  <2> QED BY <2>1 DEF MomentInv
<1>4. ASSUME NEW r \in Readers, ReaderDoes(r), UNCHANGED fileVars PROVE MomentInv'
  <2>1. PICK n \in Reading : call' = [call EXCEPT ![r] = n] /\ Does(call[r], n)
    BY <1>4 DEF ReaderDoes
  <2>2. PICK c \in Reading : c = call[r] BY DEF QueryTypes
  <2>3. SoundCall(c) /\ Collecting(c) /\ Pictured(c) /\ Aged(c) /\ Confirmed(c)
    BY <2>2 DEF HashInv, MomentInv, MomentCall
  <2>4. SoundCall(n)
    <3>1. SoundCall(call[r])' BY HashStep DEF HashInv
    <3>2. call'[r] = n BY <2>1 DEF QueryTypes
    <3>3. UNCHANGED <<files, stamp>> BY <1>4 DEF fileVars
    <3> QED BY <3>1, <3>2, <3>3 DEF SoundCall, SoundRows, Sound, Collects, Seen
  <2>5. MomentCall(n)
    <3>1. CASE Apart(n) BY <3>1 DEF Apart, MomentCall, Collecting, Pictured, Aged, Confirmed
    <3>2. CASE Starts(n)
      <4>1. ToSet(<<>>) = {} BY DEF ToSet
      <4>2. PathsOf(<<>>) = {} BY <4>1 DEF PathsOf
      <4>3. stamp \in Nat BY DEF ServiceInv, FilesInv, FileTypes
      <4>4. \A d \in Folders : n.folder[d] <= stamp BY <3>2, <4>3 DEF Starts
      <4>5. Collecting(n) BY <3>2, <4>2, <4>4, FolderAssumption DEF Starts, Collecting
      <4> QED BY <3>2, <4>5 DEF Starts, MomentCall, Pictured, Aged, Confirmed
    <3>3. CASE Lists(c, n)
      <4>1. Collecting(n) BY <2>3, <3>3, ListedCollects
      <4> QED BY <3>3, <4>1 DEF Lists, MomentCall, Pictured, Aged, Confirmed
    <3>4. CASE Opens(c, n)
      <4>1. Min(c.names) \in Paths BY <3>4, FirstIs DEF Opens, Reading
      <4>2. /\ n.sig[1] = files[Min(c.names)].id /\ n.sig[3] = files[Min(c.names)].change
            /\ files[Min(c.names)].change \in 0 .. stamp
            /\ n.sig = HandleSignature(files[Min(c.names)])
        BY <3>4, <4>1, HandleIs DEF Opens, ServiceInv
      <4>3. Grown(n.sig, files[Min(c.names)]) BY <4>2 DEF Grown
      <4>4. Collecting(n)
        BY <2>3, <3>4, <4>3 DEF Opens, Carries, Looked, Collecting, Undisturbed
      <4> QED BY <3>4, <4>4 DEF Opens, MomentCall, Pictured, Aged, Confirmed
    <3>5. CASE Hashes(c, n)
      <4>1. Collecting(n)
        BY <2>3, <3>5 DEF Hashes, Carries, Looked, Collecting, Undisturbed
      <4> QED BY <3>5, <4>1 DEF Hashes, MomentCall, Pictured, Aged, Confirmed
    <3>6. CASE Closes(c, n)
      <4>1. Collecting(n) BY <2>3, <3>6, ClosedCollects
      <4> QED BY <3>6, <4>1 DEF Closes, MomentCall, Pictured, Aged, Confirmed
    <3>7. CASE Checks(c, n)
      <4>1. Pictured(n) /\ Aged(n)
        BY <2>3, <3>7, MomentBegins, MomentGoesOn DEF Checks, Inventoried
      <4>2. n.at \in {"folders", "rows"} /\ (n.at = "rows" => n.names = PathsOf(n.rows))
        BY <3>7 DEF Checks
      <4>3. Confirmed(n) BY <4>2 DEF Confirmed, PathsOf
      <4> QED BY <4>1, <4>2, <4>3 DEF MomentCall, Collecting
    <3>8. CASE Confirms(c, n)
      <4>1. Confirmed(n) BY <2>3, <3>8, ConfirmedIs
      <4>2. /\ c.at = "rows" /\ n.at = "rows" /\ n.left = c.left /\ n.folder = c.folder
            /\ n.moment = c.moment /\ n.rows = c.rows
        BY <3>8 DEF Confirms, Looked
      <4>3. Pictured(n) BY <2>3, <4>2 DEF Pictured, Fits, Undisturbed
      <4>4. Aged(n) BY <2>3, <4>2 DEF Aged
      <4> QED BY <4>1, <4>2, <4>3, <4>4 DEF MomentCall, Collecting
    <3> QED BY <2>1, <2>2, <3>1, <3>2, <3>3, <3>4, <3>5, <3>6, <3>7, <3>8 DEF Does
  <2>6. ASSUME NEW s \in Readers PROVE MomentCall(call[s])'
    <3>1. PICK d \in Reading : d = call'[s] /\ SoundCall(d) /\ MomentCall(d)
      BY <2>1, <2>4, <2>5 DEF QueryTypes, HashInv, MomentInv
    <3> QED BY <1>2, <3>1
  <2> QED BY <2>6 DEF MomentInv
<1> QED BY <1>3, <1>4, CallsApart

LEMMA QueriesStart == ServiceInit => QueryTypes /\ HashInv /\ MomentInv
<1> SUFFICES ASSUME ServiceInit PROVE QueryTypes /\ HashInv /\ MomentInv OBVIOUS
<1>1. /\ call = [r \in Readers |-> Nothing] /\ cache = <<>> /\ baselines = <<>>
      /\ cursors = {} /\ clock = 0 /\ calls \in 0 .. MaxCalls
  BY DEF ServiceInit, QueriesInit, FilesInit
<1>2. calls \in Nat BY <1>1, FileBounds
<1>3. QueryTypes BY <1>1, <1>2, NothingIs DEF QueryTypes
<1>4. \A r \in Readers : call[r].at = "idle" BY <1>1, NothingIs
<1>5. HashInv BY <1>1, <1>4 DEF HashInv, SoundCall, Collects, ToSet
<1>6. MomentInv BY <1>4 DEF MomentInv, MomentCall, Collecting, Pictured, Aged, Confirmed
<1> QED BY <1>3, <1>5, <1>6

(* The inductive invariant of the inventories: their digests are sound,    *)
(* and their rows fit the files of one moment (incremental_state.py).      *)
InventoryInv == ServiceInv /\ QueryTypes /\ HashInv /\ MomentInv
(* No call that reads or writes, and no other program, breaks the          *)
(* invariant of the inventories.                                           *)
THEOREM InventoryInductive == ServiceSpec => []InventoryInv
<1>1. ServiceInit => InventoryInv BY ServiceStart, QueriesStart DEF InventoryInv
<1>2. InventoryInv /\ [ServiceNext]_fileServiceVars => InventoryInv'
  BY ServiceStep, TypesStep, HashStep, MomentStep DEF InventoryInv
<1> QED BY <1>1, <1>2, PTL DEF ServiceSpec

(* A digest that a later status may reuse is the digest of the file while  *)
(* the file shows the same identity, time and change time (hash_record).   *)
THEOREM HashesTrue == ServiceSpec => []HashesAreTrue
<1>1. InventoryInv => HashesAreTrue
  BY DEF InventoryInv, HashInv, SoundRows, Sound, HashesAreTrue
<1> QED BY <1>1, InventoryInductive, PTL

(* An inventory that is stored has the paths, the files, the times and the *)
(* digests of one moment, although folders and files were read and checked *)
(* one by one without a lock; only a file whose modification time was set  *)
(* back meanwhile may have an older digest (inventory).                    *)
THEOREM InventoryFits == ServiceSpec => []InventoryFitsAMoment
<1>1. InventoryInv => InventoryFitsAMoment
  <2> SUFFICES ASSUME InventoryInv, NEW r \in Readers, call[r].at = "rows", call[r].names = {},
                      NEW p \in Paths
               PROVE  LET mine == {row \in ToSet(call[r].rows) : row.path = p}
                      IN /\ mine = {} <=> call[r].moment[p] = NoFile
                         /\ \A row \in mine :
                              /\ row.sig[1] = call[r].moment[p].id
                              /\ p \notin call[r].back =>
                                   /\ row.sig = HandleSignature(call[r].moment[p])
                                   /\ row.sha = call[r].moment[p].data
    BY DEF InventoryFitsAMoment
  <2>1. PICK c \in Reading : c = call[r] BY DEF InventoryInv, QueryTypes
  <2>2. Pictured(c) /\ Confirmed(c) BY <2>1 DEF InventoryInv, MomentInv, MomentCall
  <2>3. Fits(c, p) BY <2>1, <2>2 DEF Pictured
  <2>4. {row \in ToSet(c.rows) : row.path = p} = {} <=> c.moment[p] = NoFile
    BY <2>3 DEF Fits, PathsOf
  <2>5. ASSUME NEW row \in ToSet(c.rows), row.path = p
        PROVE  /\ row.sig[1] = c.moment[p].id
               /\ p \notin c.back => /\ row.sig = HandleSignature(c.moment[p])
                                    /\ row.sha = c.moment[p].data
    <3>1. row.sig[1] = c.moment[p].id BY <2>3, <2>5 DEF Fits, RowsGrew, Grown
    <3>2. p \notin c.back => row.sig = HandleSignature(c.moment[p])
      BY <2>1, <2>2, <2>5 DEF Confirmed
    <3> QED BY <2>3, <2>5, <3>1, <3>2 DEF Fits
  <2> QED BY <2>1, <2>4, <2>5
<1> QED BY <1>1, InventoryInductive, PTL

-----------------------------------------------------------------------------
(* The snapshots and the cursors.                                          *)

(* No table bears a key, owner or rows that it did not bear before.        *)
Inherits == \A e \in ToSet(cache') : \E f \in ToSet(cache) :
              e.key = f.key /\ e.owner = f.owner /\ e.rows = f.rows

(* A call goes on without a snapshot.                                      *)
Quiet(c, n) ==
  \/ n = Nothing
  \/ /\ n.key = c.key /\ n.at \in {"scan", "open", "read", "folders", "rows"} /\ c.at # "idle"
     /\ n.at = "scan" /\ n.kind # "status" =>
          c.at = "scan" /\ c.kind # "status" /\ n.got = c.got /\ n.offset = c.offset

LEMMA QuietDoes ==
  ASSUME QueryTypes, HashInv, NEW r \in Readers,
         \/ ListFolder(r) \/ Scan(r) \/ Digest(r) \/ CloseHandle(r)
         \/ CheckFolder(r) \/ CheckRow(r) \/ Compare(r)
  PROVE  \E n : call' = [call EXCEPT ![r] = n] /\ Quiet(call[r], n)
<1>1. PICK c \in Reading : c = call[r] BY DEF QueryTypes
<1>2. ASSUME NEW n, Now(r, n), Quiet(c, n)
      PROVE  \E m : call' = [call EXCEPT ![r] = m] /\ Quiet(call[r], m)
  BY <1>1, <1>2 DEF Now
<1>3. CASE Fail(r) BY <1>2, <1>3 DEF Fail, Quiet
<1>4. CASE Scan(r)
  <2> DEFINE p == Min(c.names)
             row == [path |-> p, sig |-> HandleSignature(files[p]), sha |-> "none"]
             skip == [c EXCEPT !.names = @ \ {p}]
             open == [c EXCEPT !.at = "open", !.sig = row.sig]
             list == [skip EXCEPT !.rows = Append(@, row)]
  <2>1. c.at = "scan" /\ \/ Fail(r)
                         \/ c.kind = "list" /\ Now(r, skip)
                         \/ c.kind = "status" /\ Now(r, open)
                         \/ c.kind # "status" /\ Now(r, list)
    BY <1>1, <1>4 DEF Scan
  <2>2. c.kind = "list" => Quiet(c, skip) BY <2>1 DEF Quiet, Reading
  <2>3. c.kind = "status" => Quiet(c, open) BY <2>1 DEF Quiet, Reading
  <2>4. c.kind # "status" => Quiet(c, list) BY <2>1 DEF Quiet, Reading
  <2> QED BY <1>2, <1>3, <2>1, <2>2, <2>3, <2>4
<1>5. CASE Digest(r)
  <2> DEFINE p == Min(c.names)
             sha == IF Known(c, p) = {} THEN files[p].data ELSE (CHOOSE row \in Known(c, p) : TRUE).sha
             n == [c EXCEPT !.at = "read", !.sha = sha]
  <2>1. c.at = "open" /\ Now(r, n) BY <1>1, <1>5 DEF Digest
  <2> HIDE DEF sha
  <2>2. Quiet(c, n) BY <2>1 DEF Quiet, Reading
  <2> QED BY <1>2, <2>1, <2>2
<1>6. CASE CloseHandle(r)
  <2> DEFINE p == Min(c.names)
             n == [c EXCEPT !.at = "scan", !.names = @ \ {p}, !.sig = <<>>, !.sha = "none",
                     !.rows = Append(@, [path |-> p, sig |-> c.sig, sha |-> c.sha])]
  <2>1. c.at = "read" /\ (Fail(r) \/ Now(r, n)) BY <1>1, <1>6 DEF CloseHandle
  <2>2. c.kind = "status" BY <1>1, <2>1 DEF HashInv, SoundCall
  <2>3. Quiet(c, n) BY <2>1, <2>2 DEF Quiet, Reading
  <2> QED BY <1>2, <1>3, <2>1, <2>3
<1>7. CASE CheckFolder(r)
  <2> DEFINE left == Unchecked(c) \ {Min(Unchecked(c))}
             n == [c EXCEPT !.at = IF left = {} THEN "rows" ELSE "folders", !.left = left,
                     !.moment = IF c.at = "scan" THEN files ELSE @,
                     !.names = IF left = {} THEN {row.path : row \in ToSet(c.rows)} ELSE {}]
  <2>1. c.at \in {"scan", "folders"} /\ (Fail(r) \/ Now(r, n))
    BY <1>1, <1>7 DEF CheckFolder, FolderDone, Inventoried
  <2> HIDE DEF left
  <2>2. Quiet(c, n) BY <2>1 DEF Quiet, Reading
  <2> QED BY <1>2, <1>3, <2>1, <2>2
<1>8. CASE CheckRow(r)
  <2> DEFINE p == Min(c.names)
             back == IF \E row \in {q \in ToSet(c.rows) : q.path = p} : files[p].back > row.sig[3]
                     THEN c.back \cup {p} ELSE c.back
             n == [c EXCEPT !.names = @ \ {p}, !.back = back]
  <2>1. c.at = "rows" /\ (Fail(r) \/ Now(r, n)) BY <1>1, <1>8 DEF CheckRow
  <2> HIDE DEF back
  <2>2. Quiet(c, n) BY <2>1 DEF Quiet, Reading
  <2> QED BY <1>2, <1>3, <2>1, <2>2
<1>9. CASE Compare(r) BY <1>3, <1>9 DEF Compare, Fail
<1>10. CASE ListFolder(r)
  <2> DEFINE d == Min(c.left)
             n == [c EXCEPT !.left = @ \ {d}, !.names = Names(d), !.folder[d] = folder[d]]
  <2>1. c.at = "scan" /\ Now(r, n) BY <1>1, <1>10 DEF ListFolder
  <2>2. Quiet(c, n) BY <2>1 DEF Quiet, Reading
  <2> QED BY <1>2, <2>1, <2>2
<1> QED BY <1>4, <1>5, <1>6, <1>7, <1>8, <1>9, <1>10

(* The others when one call goes on and the tables only inherit.           *)
LEMMA OthersPage ==
  ASSUME QueryTypes, QueryTypes', PageInv, NEW r \in Readers, NEW n,
         call' = [call EXCEPT ![r] = n], Inherits, cursors' = cursors, calls' = calls, clock' = clock,
         n.at # "idle" => n.key = call[r].key /\ call[r].at # "idle"
  PROVE  /\ OneSnapshot'
         /\ \A s \in Readers : s # r => Fresh(s)' /\ Paging(s)'
<1>1. OneSnapshot' BY DEF OneSnapshot, Inherits, PageInv
<1>2. ASSUME NEW s \in Readers, s # r PROVE Fresh(s)' /\ Paging(s)'
  <2>1. PICK d \in Reading : d = call[s] /\ d = call'[s] BY <1>2 DEF QueryTypes
  <2>2. Fresh(s) /\ Paging(s) BY DEF PageInv
  <2>3. ASSUME NEW t \in Readers, t # s, call[t].at # "idle" => call[t].key # d.key, call'[t].at # "idle"
        PROVE  call'[t].key # d.key
    <3>1. CASE t = r
      <4>1. call'[t] = n BY <3>1 DEF QueryTypes
      <4> QED BY <2>3, <3>1, <4>1
    <3>2. CASE t # r
      <4>1. call'[t] = call[t] BY <3>2 DEF QueryTypes
      <4> QED BY <2>3, <4>1
    <3> QED BY <3>1, <3>2
  <2>4. Fresh(s)' BY <2>1, <2>2, <2>3 DEF Fresh, Owning, Inherits
  <2>5. Paging(s)' BY <2>1, <2>2 DEF Paging, Inherits
  <2> QED BY <2>4, <2>5
<1> QED BY <1>1, <1>2

LEMMA QuietPages ==
  ASSUME QueryTypes, QueryTypes', PageInv, NEW r \in Readers, NEW n,
         call' = [call EXCEPT ![r] = n], Inherits, cursors' = cursors, calls' = calls, clock' = clock,
         Quiet(call[r], n)
  PROVE  PageInv'
<1>1. PICK c \in Reading : c = call[r] BY DEF QueryTypes
<1>2. n \in Reading /\ n = call'[r] BY DEF QueryTypes
<1>3. n.at # "idle" => n.key = c.key /\ c.at # "idle" BY <1>1, NothingIs DEF Quiet
<1>4. /\ OneSnapshot'
      /\ \A s \in Readers : s # r => Fresh(s)' /\ Paging(s)'
  BY <1>1, <1>3, OthersPage
<1>5. Fresh(r) /\ Paging(r) BY DEF PageInv
<1>6. calls \in Nat /\ Nothing.key = 0 BY DEF QueryTypes, Nothing
<1>7. Owning(n)' => n.at = "scan" /\ n.kind # "status" /\ n.key = c.key /\ c.at = "scan" /\ Owning(c)
  BY <1>1, NothingIs DEF Quiet, Owning
<1>8. \A s \in Readers : s # r => call'[s] = call[s] BY DEF QueryTypes
<1>9. Fresh(r)' BY <1>1, <1>2, <1>5, <1>7, <1>8 DEF Fresh, Inherits
<1>10. /\ n.key <= calls
       /\ n.at = "scan" /\ n.kind # "status" => n.got = <<>> /\ n.offset = 0
       /\ n.at # "get" /\ n.at # "page"
  BY <1>1, <1>5, <1>6, NothingIs DEF Quiet, Paging
<1>11. Paging(r)' BY <1>2, <1>10 DEF Paging
<1> QED BY <1>4, <1>9, <1>11 DEF PageInv

(* No key is greater than the number of calls.                             *)
LEMMA KeysCount ==
  ASSUME QueryTypes, PageInv
  PROVE  /\ \A e \in ToSet(cache) : e.key \in Nat /\ e.key <= calls
         /\ \A c \in cursors : c.key \in Nat /\ c.key <= calls
         /\ \A s \in Readers : call[s].key \in Nat /\ call[s].key <= calls
<1>1. ToSet(cache) \subseteq Entry BY DEF QueryTypes, ToSet
<1>2. cursors \subseteq Cursor BY DEF QueryTypes
<1>3. \A s \in Readers : call[s] \in Reading BY DEF QueryTypes
<1>4. /\ \A e \in Entry : e.key \in Nat
      /\ \A c \in Cursor : c.key \in Nat
      /\ \A c \in Reading : c.key \in Nat
  BY DEF Entry, Cursor, Reading
<1>5. \A s \in Readers : call[s].key <= calls BY DEF PageInv, Paging
<1> QED BY <1>1, <1>2, <1>3, <1>4, <1>5 DEF PageInv, OneSnapshot

(* A new call bears a new key.                                             *)
LEMMA BeginPages ==
  ASSUME QueryTypes, QueryTypes', PageInv, NEW r \in Readers, Begin(r) PROVE PageInv'
<1>1. PICK kind, base :
        Now(r, [Nothing EXCEPT !.at = "scan", !.kind = kind, !.key = calls + 1,
                  !.left = Folders, !.base = base])
  BY DEF Begin
<1> DEFINE n == [Nothing EXCEPT !.at = "scan", !.kind = kind, !.key = calls + 1,
                   !.left = Folders, !.base = base]
<1>2. /\ n.at = "scan" /\ n.key = calls + 1 /\ n.got = <<>> /\ n.offset = 0 BY DEF Nothing
<1>3. /\ call' = [call EXCEPT ![r] = n] /\ cache' = cache /\ cursors' = cursors /\ clock' = clock
      /\ calls' = calls + 1
  BY <1>1 DEF Begin, Now, NextCall
<1> HIDE DEF n
<1>4. n = call'[r] /\ calls \in Nat BY <1>3 DEF QueryTypes
<1>5. \A s \in Readers : s # r => call'[s] = call[s] BY <1>3 DEF QueryTypes
<1>6. /\ \A e \in ToSet(cache) : e.key \in Nat /\ e.key <= calls
      /\ \A c \in cursors : c.key \in Nat /\ c.key <= calls
      /\ \A s \in Readers : call[s].key \in Nat /\ call[s].key <= calls
  BY KeysCount
<1>7. OneSnapshot'
  <2>1. \A e \in ToSet(cache) : e.key <= calls + 1 BY <1>4, <1>6
  <2>2. \A c \in cursors : c.key <= calls + 1 BY <1>4, <1>6
  <2> QED BY <1>3, <2>1, <2>2 DEF OneSnapshot, PageInv
<1>8. /\ \A e \in ToSet(cache) : e.key # n.key
      /\ \A c \in cursors : c.key # n.key
      /\ \A s \in Readers : call[s].key # n.key
  BY <1>2, <1>4, <1>6
<1>9. Fresh(r)' BY <1>3, <1>4, <1>5, <1>8 DEF Fresh
<1>10. n.key <= calls' BY <1>2, <1>3, <1>4
<1>11. Paging(r)' BY <1>2, <1>4, <1>10 DEF Paging
<1>12. ASSUME NEW s \in Readers, s # r PROVE Fresh(s)' /\ Paging(s)'
  <2>1. Fresh(s) /\ Paging(s) /\ call'[s] = call[s] BY <1>5, <1>12 DEF PageInv
  <2>2. call[s].key <= calls' BY <1>3, <1>4, <1>6
  <2>3. call'[r].key # call[s].key BY <1>4, <1>8
  <2>4. Fresh(s)' BY <1>3, <1>5, <2>1, <2>3 DEF Fresh, Owning
  <2>5. Paging(s)' BY <1>3, <2>1, <2>2 DEF Paging
  <2> QED BY <2>4, <2>5
<1> QED BY <1>7, <1>9, <1>11, <1>12 DEF PageInv

(* A further page bears the key of its cursor, which no owner bears.       *)
LEMMA BeginPagePages ==
  ASSUME QueryTypes, QueryTypes', PageInv, NEW r \in Readers, BeginPage(r) PROVE PageInv'
<1>1. PICK c \in cursors :
        /\ c.owner = OwnerOf(r)
        /\ Now(r, [Nothing EXCEPT !.at = "get", !.kind = c.kind, !.key = c.key, !.offset = c.offset,
                     !.got = c.got, !.since = -IdleTime])
  BY DEF BeginPage
<1> DEFINE n == [Nothing EXCEPT !.at = "get", !.kind = c.kind, !.key = c.key, !.offset = c.offset,
                   !.got = c.got, !.since = -IdleTime]
<1>2. n.at = "get" /\ n.key = c.key /\ n.offset = c.offset /\ n.got = c.got /\ n.since = -IdleTime
  BY DEF Nothing
<1>3. /\ call' = [call EXCEPT ![r] = n] /\ cache' = cache /\ cursors' = cursors /\ clock' = clock
      /\ calls' = calls + 1
  BY <1>1 DEF BeginPage, Now, NextCall
<1> HIDE DEF n
<1>4. n = call'[r] /\ calls \in Nat /\ clock \in Nat BY <1>3 DEF QueryTypes
<1>5. \A s \in Readers : s # r => call'[s] = call[s] BY <1>3 DEF QueryTypes
<1>6. /\ \A e \in ToSet(cache) : e.key \in Nat /\ e.key <= calls
      /\ \A d \in cursors : d.key \in Nat /\ d.key <= calls
      /\ \A s \in Readers : call[s].key \in Nat /\ call[s].key <= calls
  BY KeysCount
<1>7. OneSnapshot'
  <2>1. \A e \in ToSet(cache) : e.key <= calls + 1 BY <1>4, <1>6
  <2>2. \A d \in cursors : d.key <= calls + 1 BY <1>4, <1>6
  <2> QED BY <1>3, <2>1, <2>2 DEF OneSnapshot, PageInv
<1>8. ~ (clock - n.since < IdleTime)
  <2>1. IdleTime \in Nat BY CacheNumbers
  <2> QED BY <1>2, <1>4, <2>1
<1>9. Fresh(r)' BY <1>2, <1>3, <1>4, <1>8 DEF Fresh, Owning
<1>10. n.key <= calls' BY <1>2, <1>3, <1>4, <1>6
<1>11. \A e \in ToSet(cache) : e.key = n.key => e.owner = OwnerOf(r) /\ Begins(n.got, n.offset, e.rows)
  BY <1>1, <1>2 DEF PageInv, OneSnapshot
<1>12. Paging(r)' BY <1>2, <1>3, <1>4, <1>10, <1>11 DEF Paging
<1>13. ASSUME NEW s \in Readers, s # r PROVE Fresh(s)' /\ Paging(s)'
  <2>1. Fresh(s) /\ Paging(s) /\ call'[s] = call[s] BY <1>5, <1>13 DEF PageInv
  <2>2. call[s].key <= calls' BY <1>3, <1>4, <1>6
  <2>3. Owning(call[s]) => n.key # call[s].key BY <1>2, <2>1 DEF Fresh
  <2>4. Fresh(s)' BY <1>3, <1>4, <1>5, <2>1, <2>3 DEF Fresh, Owning
  <2>5. Paging(s)' BY <1>3, <2>1, <2>2 DEF Paging
  <2> QED BY <2>4, <2>5
<1> QED BY <1>7, <1>9, <1>12, <1>13 DEF PageInv

LEMMA NothingBegins ==
  ASSUME NEW rows \in Seq(Row) PROVE Begins(<<>>, 0, rows)
<1>1. \A i \in 1 .. 0 : rows[i] \in Row OBVIOUS
<1>2. SubSeq(rows, 1, 0) \in Seq(Row) /\ Len(SubSeq(rows, 1, 0)) = 0 BY <1>1, SubSeqProperties
<1>3. SubSeq(rows, 1, 0) = <<>> BY <1>2
<1> QED BY <1>3 DEF Begins

(* The new entry is the only one with its key.                             *)
LEMMA PutPages ==
  ASSUME QueryTypes, QueryTypes', PageInv, NEW r \in Readers, Put(r), UNCHANGED calls PROVE PageInv'
<1>1. PICK c \in Reading : c = call[r] BY DEF QueryTypes
<1> DEFINE n == [c EXCEPT !.at = "get", !.rows = <<>>, !.since = clock]
           new == EntryOf(r)
<1>2. /\ c.at = "scan" /\ c.kind # "status" /\ call' = [call EXCEPT ![r] = n] /\ cursors' = cursors
      /\ clock' = clock
  BY <1>1 DEF Put, Now
<1>3. n.at = "get" /\ n.key = c.key /\ n.got = c.got /\ n.offset = c.offset BY DEF Reading
<1> HIDE DEF n
<1>4. n = call'[r] BY <1>2 DEF QueryTypes
<1>5. \A s \in Readers : s # r => call'[s] = call[s] BY <1>2 DEF QueryTypes
<1>6. new \in Entry /\ new.key = c.key /\ new.owner = OwnerOf(r) /\ new.rows = c.rows
  BY <1>1, EntryIs
<1>7. ToSet(cache') \subseteq ToSet(cache) \cup {new} BY PutTypes
<1> HIDE DEF new
<1>8. Fresh(r) /\ Paging(r) /\ Owning(c) BY <1>1, <1>2 DEF PageInv, Owning
<1>9. /\ \A e \in ToSet(cache) : e.key # c.key
      /\ \A d \in cursors : d.key # c.key
      /\ \A s \in Readers : s # r /\ call[s].at # "idle" => call[s].key # c.key
      /\ c.key <= calls /\ c.got = <<>> /\ c.offset = 0
  BY <1>1, <1>2, <1>8 DEF Fresh, Paging
<1>10. OneSnapshot' BY <1>2, <1>6, <1>7, <1>9 DEF OneSnapshot, PageInv
<1>11. Fresh(r)' BY <1>2, <1>3, <1>4, <1>5, <1>9 DEF Fresh
<1>12. \A e \in ToSet(cache') : e.key = n.key => e.owner = OwnerOf(r) /\ Begins(n.got, n.offset, e.rows)
  BY <1>3, <1>6, <1>7, <1>9, NothingBegins DEF Reading
<1>13. Paging(r)' BY <1>3, <1>4, <1>9, <1>12 DEF Paging
<1>14. ASSUME NEW s \in Readers, s # r PROVE Fresh(s)' /\ Paging(s)'
  <2>1. Fresh(s) /\ Paging(s) /\ call'[s] = call[s] BY <1>5, <1>14 DEF PageInv
  <2>2. call[s].at # "idle" => call[s].key # new.key BY <1>6, <1>9, <1>14
  <2>3. Owning(call[s]) => call[s].at # "idle" BY DEF Owning
  <2>4. Owning(call[s]) => n.key # call[s].key BY <1>3, <1>9, <1>14, <2>3
  <2>5. Fresh(s)' BY <1>2, <1>4, <1>5, <1>7, <2>1, <2>2, <2>3, <2>4 DEF Fresh, Owning
  <2>6. Paging(s)' BY <1>7, <2>1, <2>2 DEF Paging
  <2> QED BY <2>5, <2>6
<1> QED BY <1>10, <1>11, <1>13, <1>14 DEF PageInv

LEMMA GetPages ==
  ASSUME QueryTypes, QueryTypes', PageInv, NEW r \in Readers, Get(r), UNCHANGED calls PROVE PageInv'
<1>1. PICK c \in Reading : c = call[r] BY DEF QueryTypes
<1>2. Inherits BY GetTypes DEF Inherits
<1>3. cursors' = cursors /\ clock' = clock /\ c.at = "get" BY <1>1 DEF Get
<1>4. CASE Fail(r)
  <2>1. call' = [call EXCEPT ![r] = Nothing] BY <1>4 DEF Fail, Now
  <2> QED BY <1>2, <1>3, <2>1, QuietPages DEF Quiet
<1>5. CASE ~Fail(r)
  <2> DEFINE e == CHOOSE f \in Found(r) : TRUE
             n == [c EXCEPT !.at = "page", !.rows = e.rows]
  <2>1. Found(r) # {} /\ call' = [call EXCEPT ![r] = n] BY <1>1, <1>5 DEF Get, Now
  <2>2. e \in ToSet(Unexpired(cache)) /\ e.key = c.key BY <1>1, <2>1 DEF Found
  <2>3. e \in ToSet(cache)
    <3>1. ToSet(Unexpired(cache)) \subseteq ToSet(cache) BY UnexpiredIs DEF QueryTypes
    <3> QED BY <2>2, <3>1
  <2> HIDE DEF e
  <2>4. /\ n.at = "page" /\ n.key = c.key /\ n.got = c.got /\ n.offset = c.offset /\ n.rows = e.rows
    BY DEF Reading
  <2> HIDE DEF n
  <2>5. n = call'[r] BY <2>1 DEF QueryTypes
  <2>6. OneSnapshot' /\ \A s \in Readers : s # r => Fresh(s)' /\ Paging(s)'
    BY <1>1, <1>2, <1>3, <2>1, <2>4, OthersPage
  <2>7. Fresh(r)' BY <2>4, <2>5 DEF Fresh, Owning
  <2>8. Paging(r) /\ OneSnapshot BY DEF PageInv
  <2>9. n.key <= calls /\ Begins(n.got, n.offset, n.rows) BY <1>1, <1>3, <2>2, <2>3, <2>4, <2>8 DEF Paging
  <2>10. \A f \in ToSet(cache) : f.key = c.key => f.owner = OwnerOf(r) /\ f.rows = e.rows
    BY <1>1, <1>3, <2>2, <2>3, <2>8 DEF Paging, OneSnapshot
  <2>11. \A f \in ToSet(cache') : f.key = n.key => f.owner = OwnerOf(r) /\ f.rows = n.rows
    BY <1>2, <2>4, <2>10 DEF Inherits
  <2>12. Paging(r)' BY <2>4, <2>5, <2>9, <2>11 DEF Paging
  <2> QED BY <2>6, <2>7, <2>12 DEF PageInv
<1> QED BY <1>4, <1>5

(* The rows given out so far and those of the page are what the cursor of  *)
(* the next page stands behind.                                            *)
LEMMA PageFollows ==
  ASSUME NEW c \in Reading, Begins(c.got, c.offset, c.rows)
  PROVE  Begins(c.got \o PageOf(c), NextOffset(c), c.rows)
<1>1. PICK m \in Int : /\ m <= Len(c.rows) /\ PageOf(c) = SubSeq(c.rows, c.offset + 1, m)
                       /\ c.offset <= Len(c.rows) => m >= c.offset
                       /\ Len(PageOf(c)) = IF c.offset + 1 <= m THEN m - c.offset ELSE 0
  BY PageOfIs
<1>2. /\ c.rows \in Seq(Row) /\ c.offset \in Nat /\ c.offset <= Len(c.rows)
      /\ c.got = SubSeq(c.rows, 1, c.offset)
  BY DEF Reading, Begins
<1>3. NextOffset(c) = m BY <1>1, <1>2 DEF NextOffset
<1>4. c.got \o PageOf(c) = SubSeq(c.rows, 1, m)
  <2> DEFINE rows == c.rows
             k == c.offset
  <2>1. rows \in Seq(Row) /\ 1 \in 1 .. Len(rows) + 1 /\ k \in 1 - 1 .. Len(rows) /\ m \in k .. Len(rows)
    BY <1>1, <1>2
  <2> HIDE DEF rows, k
  <2>2. SubSeq(rows, 1, k) \o SubSeq(rows, k + 1, m) = SubSeq(rows, 1, m)
    BY <2>1, ConcatAdjacentSubSeq
  <2> QED BY <1>1, <1>2, <2>2 DEF rows, k
<1> QED BY <1>1, <1>3, <1>4 DEF Begins

LEMMA PagePages ==
  ASSUME QueryTypes, QueryTypes', PageInv, NEW r \in Readers, Page(r), UNCHANGED calls PROVE PageInv'
<1>1. PICK c \in Reading : c = call[r] BY DEF QueryTypes
<1> DEFINE new == [key |-> c.key, owner |-> OwnerOf(r), kind |-> c.kind,
                   offset |-> NextOffset(c), got |-> c.got \o PageOf(c)]
<1>2. /\ c.at = "page" /\ call' = [call EXCEPT ![r] = Nothing] /\ cache' = cache /\ clock' = clock
      /\ cursors' \subseteq cursors \cup {new}
  BY <1>1 DEF Page, Now
<1>3. /\ new.key = c.key /\ new.owner = OwnerOf(r) /\ new.offset = NextOffset(c)
      /\ new.got = c.got \o PageOf(c)
  OBVIOUS
<1> HIDE DEF new
<1>4. Nothing = call'[r] /\ Nothing.key = 0 /\ Nothing.at = "idle" /\ calls \in Nat
  BY <1>2 DEF QueryTypes, Nothing
<1>5. \A s \in Readers : s # r => call'[s] = call[s] BY <1>2 DEF QueryTypes
<1>6. Paging(r) /\ OneSnapshot BY DEF PageInv
<1>7. /\ c.key <= calls /\ Begins(c.got, c.offset, c.rows)
      /\ \A e \in ToSet(cache) : e.key = c.key => e.owner = OwnerOf(r) /\ e.rows = c.rows
  BY <1>1, <1>2, <1>6 DEF Paging
<1>8. Begins(new.got, new.offset, c.rows) BY <1>3, <1>7, PageFollows
<1>9. \A e \in ToSet(cache) : e.key = new.key => e.owner = new.owner /\ Begins(new.got, new.offset, e.rows)
  BY <1>3, <1>7, <1>8
<1>10. OneSnapshot' BY <1>2, <1>3, <1>6, <1>7, <1>9 DEF OneSnapshot
<1>11. Fresh(r)' BY <1>4 DEF Fresh, Owning
<1>12. 0 <= calls BY <1>4
<1>13. Paging(r)' BY <1>4, <1>12 DEF Paging
<1>14. ASSUME NEW s \in Readers, s # r PROVE Fresh(s)' /\ Paging(s)'
  <2>1. Fresh(s) /\ Paging(s) /\ call'[s] = call[s] BY <1>5, <1>14 DEF PageInv
  <2>2. Owning(call[s]) => new.key # call[s].key BY <1>1, <1>2, <1>3, <1>14, <2>1 DEF Fresh
  <2>3. Fresh(s)' BY <1>2, <1>4, <1>5, <2>1, <2>2 DEF Fresh, Owning
  <2>4. Paging(s)' BY <1>2, <2>1 DEF Paging
  <2> QED BY <2>3, <2>4
<1> QED BY <1>10, <1>11, <1>13, <1>14 DEF PageInv

(* Time, and the calls that write, leave the pages alone.                  *)
LEMMA RestPages ==
  ASSUME QueryTypes, PageInv, UNCHANGED <<call, cache, cursors>>,
         calls' \in Nat, calls' >= calls, clock' \in Nat, clock' >= clock
  PROVE  PageInv'
<1>1. ASSUME NEW m \in Nat, m <= calls PROVE m <= calls' BY <1>1 DEF QueryTypes
<1>2. /\ \A e \in ToSet(cache) : e.key \in Nat
      /\ \A c \in cursors : c.key \in Nat
  BY KeysCount
<1>3. OneSnapshot' BY <1>1, <1>2 DEF PageInv, OneSnapshot
<1>4. ASSUME NEW s \in Readers PROVE Fresh(s)' /\ Paging(s)'
  <2>1. PICK d \in Reading : d = call[s] BY DEF QueryTypes
  <2>2. Fresh(s) /\ Paging(s) BY DEF PageInv
  <2>3. clock' - d.since < IdleTime => clock - d.since < IdleTime
    <3>1. d.since \in Int /\ IdleTime \in Int /\ clock \in Nat BY CacheNumbers DEF Reading, QueryTypes
    <3> QED BY <3>1
  <2>4. Fresh(s)' BY <2>1, <2>2, <2>3 DEF Fresh, Owning
  <2>5. d.key <= calls' BY <1>1, <2>1, <2>2 DEF Reading, Paging
  <2>6. Paging(s)' BY <2>1, <2>2, <2>5 DEF Paging
  <2> QED BY <2>4, <2>6
<1> QED BY <1>3, <1>4 DEF PageInv

LEMMA PageStep ==
  ASSUME ServiceInv, QueryTypes, HashInv, PageInv, [ServiceNext]_fileServiceVars PROVE PageInv'
<1>1. QueryTypes' BY TypesStep
<1>2. ASSUME UNCHANGED <<call, cache, cursors, clock>>, calls' = calls \/ NextCall PROVE PageInv'
  <2>1. calls' >= calls BY <1>2 DEF NextCall, QueryTypes
  <2>2. clock' >= clock BY <1>2 DEF QueryTypes
  <2> QED BY <1>1, <1>2, <2>1, <2>2, RestPages DEF QueryTypes
<1>3. CASE UNCHANGED fileServiceVars
  <2>1. UNCHANGED <<call, cache, cursors, clock, calls>> BY <1>3 DEF fileServiceVars, queryVars
  <2> QED BY <1>2, <2>1
<1>4. ASSUME NEW c \in Callers, CallWrite(c), UNCHANGED queryVars PROVE PageInv'
  <2>1. UNCHANGED <<call, cache, cursors, clock>> BY <1>4 DEF queryVars
  <2>2. NextCall BY <1>4 DEF CallWrite
  <2> QED BY <1>2, <2>1, <2>2
<1>5. ASSUME NEW r \in Readers, Begin(r) \/ BeginPage(r) PROVE PageInv'
  BY <1>1, <1>5, BeginPages, BeginPagePages
<1>6. ASSUME UNCHANGED queryVars, UNCHANGED calls PROVE PageInv'
  <2>1. UNCHANGED <<call, cache, cursors, clock>> BY <1>6 DEF queryVars
  <2> QED BY <1>2, <1>6, <2>1
<1>7. ASSUME Tick, UNCHANGED calls PROVE PageInv'
  <2>1. UNCHANGED <<call, cache, cursors>> /\ clock' = clock + 1 BY <1>7 DEF Tick
  <2>2. clock' >= clock /\ calls' >= calls BY <1>7, <2>1 DEF QueryTypes
  <2> QED BY <1>1, <2>1, <2>2, RestPages DEF QueryTypes
<1>8. ASSUME NEW r \in Readers, ReadStep(r), UNCHANGED calls PROVE PageInv'
  <2>1. CASE \/ ListFolder(r) \/ Scan(r) \/ Digest(r) \/ CloseHandle(r)
             \/ CheckFolder(r) \/ CheckRow(r) \/ Compare(r)
    <3>1. PICK n : call' = [call EXCEPT ![r] = n] /\ Quiet(call[r], n) BY <2>1, QuietDoes
    <3>2. UNCHANGED <<cache, cursors, clock>>
      BY <2>1 DEF ListFolder, Scan, Digest, CloseHandle, CheckFolder, CheckRow, Compare
    <3>3. Inherits BY <3>2 DEF Inherits
    <3> QED BY <1>1, <1>8, <3>1, <3>2, <3>3, QuietPages
  <2>2. CASE Put(r) BY <1>1, <1>8, <2>2, PutPages
  <2>3. CASE Get(r) BY <1>1, <1>8, <2>3, GetPages
  <2>4. CASE Page(r) BY <1>1, <1>8, <2>4, PagePages
  <2> QED BY <1>8, <2>1, <2>2, <2>3, <2>4 DEF ReadStep
<1> QED BY <1>3, <1>4, <1>5, <1>6, <1>7, <1>8 DEF ServiceNext

-----------------------------------------------------------------------------
(* What the cache keeps.                                                   *)

(* What holds of the empty sequence and survives Append holds of all.      *)
LEMMA SequencesByInduction ==
  ASSUME NEW S, NEW T, <<>> \in T, \A s \in Seq(S), x \in S : s \in T => Append(s, x) \in T
  PROVE  Seq(S) \subseteq T
<1> DEFINE N == {n \in Nat : \A s \in Seq(S) : Len(s) = n => s \in T}
<1>1. 0 \in N
  <2>1. \A s \in Seq(S) : Len(s) = 0 => s = <<>> OBVIOUS
  <2> QED BY <2>1
<1>2. ASSUME NEW n \in Nat, n \in N PROVE n + 1 \in N
  <2>1. ASSUME NEW s \in Seq(S), Len(s) = n + 1 PROVE s \in T
    <3>1. s # <<>> BY <2>1
    <3>2. PICK t \in Seq(S), x \in S : s = Append(t, x) BY <3>1, SequenceEmptyOrAppend
    <3>3. Len(t) = n BY <2>1, <3>2
    <3> QED BY <1>2, <3>2, <3>3
  <2> QED BY <2>1
<1> HIDE DEF N
<1>3. Nat \subseteq N BY <1>1, <1>2, NaturalsByInduction
<1>4. \A s \in Seq(S) : Len(s) \in Nat OBVIOUS
<1> QED BY <1>3, <1>4 DEF N

LEMMA KeptOfNothing == ASSUME NEW wanted PROVE Kept(<<>>, wanted) = <<>>
<1>1. <<>> \in Seq(Int) OBVIOUS
<1>2. PICK k : Stages(<<>>, wanted, k) BY <1>1, KeptStages
<1> QED BY <1>2 DEF Stages

LEMMA KeptOfAppend ==
  ASSUME NEW S, NEW s \in Seq(S), NEW x \in S, NEW wanted
  PROVE  Kept(Append(s, x), wanted) =
           IF x \in wanted THEN Append(Kept(s, wanted), x) ELSE Kept(s, wanted)
<1> DEFINE t == Append(s, x)
           count == Len(s)
<1>1. t \in Seq(S) /\ Len(t) = count + 1 /\ count \in Nat /\ t[count + 1] = x
      /\ \A i \in 1 .. count : t[i] = s[i]
  OBVIOUS
<1> HIDE DEF t
<1>2. PICK j : Stages(s, wanted, j) BY KeptStages
<1>3. PICK k : Stages(t, wanted, k) BY <1>1, KeptStages
<1> DEFINE T == {n \in Nat : n <= count => j[n] = k[n]}
<1>4. 0 \in T BY <1>2, <1>3 DEF Stages
<1>5. ASSUME NEW n \in Nat, n \in T PROVE n + 1 \in T
  <2> SUFFICES ASSUME n + 1 <= count PROVE j[n + 1] = k[n + 1] OBVIOUS
  <2>1. n \in 0 .. Len(s) - 1 /\ n \in 0 .. Len(t) - 1 /\ n + 1 \in 1 .. count BY <1>1
  <2>2. j[n + 1] = IF s[n + 1] \in wanted THEN Append(j[n], s[n + 1]) ELSE j[n]
    BY <1>2, <2>1 DEF Stages
  <2>3. k[n + 1] = IF t[n + 1] \in wanted THEN Append(k[n], t[n + 1]) ELSE k[n]
    BY <1>3, <2>1 DEF Stages
  <2>4. j[n] = k[n] /\ t[n + 1] = s[n + 1] BY <1>1, <1>5, <2>1
  <2> QED BY <2>2, <2>3, <2>4
<1> HIDE DEF T
<1>6. Nat \subseteq T BY <1>4, <1>5, NaturalsByInduction
<1>7. j[count] = k[count] BY <1>1, <1>6 DEF T
<1>8. Kept(s, wanted) = j[count] /\ Kept(t, wanted) = k[count + 1] BY <1>1, <1>2, <1>3 DEF Stages
<1>9. count \in 0 .. Len(t) - 1 BY <1>1
<1>10. k[count + 1] = IF x \in wanted THEN Append(k[count], x) ELSE k[count]
  BY <1>1, <1>3, <1>9 DEF Stages
<1> QED BY <1>7, <1>8, <1>10 DEF t

LEMMA AppendToConcat ==
  ASSUME NEW S, NEW s \in Seq(S), NEW t \in Seq(S), NEW x \in S
  PROVE  s \o Append(t, x) = Append(s \o t, x)
<1> DEFINE u == s \o Append(t, x)
           v == Append(s \o t, x)
<1>1. u \in Seq(S) /\ v \in Seq(S) /\ Len(u) = Len(v)
      /\ \A i \in 1 .. Len(u) : u[i] = v[i]
  OBVIOUS
<1> HIDE DEF u, v
<1> QED BY <1>1, SeqEqual DEF u, v

(* Kept of two sequences in a row, of a sequence already thinned, and by   *)
(* sets that agree on the elements.                                        *)
LEMMA KeptOfConcat ==
  ASSUME NEW S, NEW s \in Seq(S), NEW wanted
  PROVE  \A t \in Seq(S) : Kept(s \o t, wanted) = Kept(s, wanted) \o Kept(t, wanted)
<1> DEFINE T == {t \in Seq(S) : Kept(s \o t, wanted) = Kept(s, wanted) \o Kept(t, wanted)}
<1>1. Kept(s, wanted) \in Seq(S) BY KeptIs
<1>2. <<>> \in T
  <2>1. <<>> \in Seq(S) OBVIOUS
  <2>2. s \o <<>> = s /\ Kept(s, wanted) \o <<>> = Kept(s, wanted) BY <1>1, ConcatEmptySeq
  <2> QED BY <2>1, <2>2, KeptOfNothing
<1>3. ASSUME NEW t \in Seq(S), NEW x \in S, t \in T PROVE Append(t, x) \in T
  <2>1. Kept(t, wanted) \in Seq(S) /\ s \o t \in Seq(S) BY KeptIs
  <2>2. s \o Append(t, x) = Append(s \o t, x) BY AppendToConcat
  <2>3. Kept(s, wanted) \o Append(Kept(t, wanted), x) = Append(Kept(s, wanted) \o Kept(t, wanted), x)
    BY <1>1, <2>1, AppendToConcat
  <2>4. Kept(Append(s \o t, x), wanted) =
          IF x \in wanted THEN Append(Kept(s \o t, wanted), x) ELSE Kept(s \o t, wanted)
    BY <2>1, KeptOfAppend
  <2>5. Kept(Append(t, x), wanted) = IF x \in wanted THEN Append(Kept(t, wanted), x) ELSE Kept(t, wanted)
    BY KeptOfAppend
  <2>6. Append(t, x) \in Seq(S) OBVIOUS
  <2> QED BY <1>3, <2>2, <2>3, <2>4, <2>5, <2>6
<1> HIDE DEF T
<1>4. Seq(S) \subseteq T BY <1>2, <1>3, SequencesByInduction
<1> QED BY <1>4 DEF T

LEMMA KeptIsShorter ==
  ASSUME NEW S, NEW wanted, NEW other
  PROVE  \A s \in Seq(S) : /\ Len(Kept(s, wanted)) <= Len(s)
                           /\ Len(Kept(Kept(s, other), wanted)) <= Len(Kept(s, wanted))
<1> DEFINE T == {s \in Seq(S) : /\ Len(Kept(s, wanted)) <= Len(s)
                                /\ Len(Kept(Kept(s, other), wanted)) <= Len(Kept(s, wanted))}
<1>1. <<>> \in T
  <2>1. <<>> \in Seq(S) OBVIOUS
  <2>2. Kept(<<>>, wanted) = <<>> /\ Kept(<<>>, other) = <<>> BY KeptOfNothing
  <2> QED BY <2>1, <2>2
<1>2. ASSUME NEW s \in Seq(S), NEW x \in S, s \in T PROVE Append(s, x) \in T
  <2> DEFINE thin == Kept(s, other)
             keep == Kept(s, wanted)
             both == Kept(thin, wanted)
  <2>1. thin \in Seq(S) /\ keep \in Seq(S) BY KeptIs
  <2> HIDE DEF thin, keep
  <2>2. both \in Seq(S) BY <2>1, KeptIs
  <2>3. Kept(Append(s, x), wanted) = IF x \in wanted THEN Append(keep, x) ELSE keep
    BY KeptOfAppend DEF keep
  <2>4. Kept(Append(s, x), other) = IF x \in other THEN Append(thin, x) ELSE thin
    BY KeptOfAppend DEF thin
  <2>5. Kept(Append(thin, x), wanted) = IF x \in wanted THEN Append(both, x) ELSE both
    BY <2>1, KeptOfAppend
  <2> HIDE DEF both
  <2>6. Len(keep) <= Len(s) /\ Len(both) <= Len(keep) BY <1>2 DEF keep, thin, both
  <2>7. /\ Len(Append(s, x)) = Len(s) + 1 /\ Len(Append(keep, x)) = Len(keep) + 1
        /\ Len(Append(both, x)) = Len(both) + 1 /\ Append(s, x) \in Seq(S)
        /\ Len(s) \in Nat /\ Len(keep) \in Nat /\ Len(both) \in Nat
    BY <2>1, <2>2
  <2>8. Len(Kept(Append(s, x), wanted)) <= Len(Append(s, x)) BY <2>3, <2>6, <2>7
  <2>9. Kept(thin, wanted) = both BY DEF both
  <2>10. Len(Kept(Kept(Append(s, x), other), wanted)) <= Len(Kept(Append(s, x), wanted))
    BY <2>3, <2>4, <2>5, <2>6, <2>7, <2>9
  <2> QED BY <2>7, <2>8, <2>10
<1> HIDE DEF T
<1>3. Seq(S) \subseteq T BY <1>1, <1>2, SequencesByInduction
<1> QED BY <1>3 DEF T

LEMMA KeptAgrees ==
  ASSUME NEW S, NEW wanted, NEW other
  PROVE  \A s \in Seq(S) : ToSet(s) \cap wanted = ToSet(s) \cap other => Kept(s, wanted) = Kept(s, other)
<1> DEFINE T == {s \in Seq(S) :
                   ToSet(s) \cap wanted = ToSet(s) \cap other => Kept(s, wanted) = Kept(s, other)}
<1>1. <<>> \in T
  <2>1. <<>> \in Seq(S) OBVIOUS
  <2>2. Kept(<<>>, wanted) = Kept(<<>>, other) BY KeptOfNothing
  <2> QED BY <2>1, <2>2
<1>2. ASSUME NEW s \in Seq(S), NEW x \in S, s \in T PROVE Append(s, x) \in T
  <2>1. ToSet(Append(s, x)) = ToSet(s) \cup {x} BY Appended
  <2>2. /\ Kept(Append(s, x), wanted) = IF x \in wanted THEN Append(Kept(s, wanted), x) ELSE Kept(s, wanted)
        /\ Kept(Append(s, x), other) = IF x \in other THEN Append(Kept(s, other), x) ELSE Kept(s, other)
    BY KeptOfAppend
  <2>3. Append(s, x) \in Seq(S) OBVIOUS
  <2>4. ASSUME ToSet(Append(s, x)) \cap wanted = ToSet(Append(s, x)) \cap other
        PROVE  Kept(Append(s, x), wanted) = Kept(Append(s, x), other)
    <3>1. ToSet(s) \cap wanted = ToSet(s) \cap other /\ (x \in wanted <=> x \in other) BY <2>1, <2>4
    <3> QED BY <1>2, <2>2, <3>1
  <2> QED BY <2>3, <2>4
<1> HIDE DEF T
<1>3. Seq(S) \subseteq T BY <1>1, <1>2, SequencesByInduction
<1> QED BY <1>3 DEF T

(* An entry the cache holds: so many entries were used later, so many of   *)
(* them by its own service, and no other has its key.                      *)
Belongs(owner) == {f \in Entry : f.owner = owner}
Split(items, e, pre, post) ==
  /\ items = Append(pre, e) \o post
  /\ \A f \in ToSet(pre) \cup ToSet(post) : f.key # e.key
HoldsWith(items, e, own, all, pre, post) ==
  Split(items, e, pre, post) /\ Len(post) <= all /\ Len(Kept(post, Belongs(e.owner))) <= own
Holds(items, e, own, all) == \E pre, post \in Seq(Entry) : HoldsWith(items, e, own, all, pre, post)

LEMMA OwnedIs ==
  ASSUME NEW items \in Seq(Entry), NEW owner
  PROVE  Owned(items, owner) = Kept(items, Belongs(owner))
<1> DEFINE own == {e \in ToSet(items) : e.owner = owner}
<1>1. ToSet(items) \subseteq Entry BY DEF ToSet
<1>2. ToSet(items) \cap own = ToSet(items) \cap Belongs(owner) BY <1>1 DEF Belongs
<1> HIDE DEF own
<1>3. Kept(items, own) = Kept(items, Belongs(owner)) BY <1>2, KeptAgrees
<1> QED BY <1>3 DEF Owned, own

LEMMA ElementsOfConcat ==
  ASSUME NEW S, NEW s \in Seq(S), NEW t \in Seq(S)
  PROVE  ToSet(s \o t) = ToSet(s) \cup ToSet(t)
<1> DEFINE u == s \o t
<1>1. /\ Len(u) = Len(s) + Len(t) /\ Len(s) \in Nat /\ Len(t) \in Nat /\ u \in Seq(S)
      /\ \A i \in 1 .. Len(s) + Len(t) : u[i] = IF i <= Len(s) THEN s[i] ELSE t[i - Len(s)]
  BY ConcatProperties
<1> HIDE DEF u
<1>2. DOMAIN u = 1 .. Len(s) + Len(t) /\ DOMAIN s = 1 .. Len(s) /\ DOMAIN t = 1 .. Len(t) BY <1>1
<1>3. ToSet(u) \subseteq ToSet(s) \cup ToSet(t)
  <2> SUFFICES ASSUME NEW i \in 1 .. Len(s) + Len(t) PROVE u[i] \in ToSet(s) \cup ToSet(t)
    BY <1>2 DEF ToSet
  <2>1. CASE i <= Len(s)
    <3>1. i \in DOMAIN s /\ u[i] = s[i] BY <1>1, <1>2, <2>1
    <3> QED BY <3>1 DEF ToSet
  <2>2. CASE ~ (i <= Len(s))
    <3>1. i - Len(s) \in DOMAIN t /\ u[i] = t[i - Len(s)] BY <1>1, <1>2, <2>2
    <3> QED BY <3>1 DEF ToSet
  <2> QED BY <2>1, <2>2
<1>4. ToSet(s) \subseteq ToSet(u)
  <2> SUFFICES ASSUME NEW i \in DOMAIN s PROVE s[i] \in ToSet(u) BY DEF ToSet
  <2>1. i \in DOMAIN u /\ u[i] = s[i] BY <1>1, <1>2
  <2> QED BY <2>1 DEF ToSet
<1>5. ToSet(t) \subseteq ToSet(u)
  <2> SUFFICES ASSUME NEW i \in DOMAIN t PROVE t[i] \in ToSet(u) BY DEF ToSet
  <2>1. i + Len(s) \in DOMAIN u /\ u[i + Len(s)] = t[i] BY <1>1, <1>2
  <2> QED BY <2>1 DEF ToSet
<1> QED BY <1>3, <1>4, <1>5 DEF u

(* What is held is there; it stays when it is among what is kept,          *)
LEMMA HeldIsThere ==
  ASSUME NEW items, NEW e \in Entry, NEW own, NEW all, Holds(items, e, own, all)
  PROVE  e \in ToSet(items)
<1>1. PICK pre, post \in Seq(Entry) : HoldsWith(items, e, own, all, pre, post) BY DEF Holds
<1>2. Append(pre, e) \in Seq(Entry) OBVIOUS
<1>3. items = Append(pre, e) \o post BY <1>1 DEF HoldsWith, Split
<1>4. ToSet(Append(pre, e)) = ToSet(pre) \cup {e} BY Appended
<1>5. ToSet(Append(pre, e) \o post) = ToSet(Append(pre, e)) \cup ToSet(post)
  BY <1>2, ElementsOfConcat
<1> QED BY <1>3, <1>4, <1>5

LEMMA HeldIsKept ==
  ASSUME NEW items, NEW e \in Entry, NEW own \in Nat, NEW all \in Nat, Holds(items, e, own, all),
         NEW wanted, e \in wanted
  PROVE  Holds(Kept(items, wanted), e, own, all)
<1>1. PICK pre, post \in Seq(Entry) : HoldsWith(items, e, own, all, pre, post) BY DEF Holds
<1> DEFINE before == Kept(pre, wanted)
           after == Kept(post, wanted)
           mine == Belongs(e.owner)
<1>2. /\ before \in Seq(Entry) /\ ToSet(before) \subseteq ToSet(pre)
      /\ after \in Seq(Entry) /\ ToSet(after) \subseteq ToSet(post)
  BY KeptIs
<1>3. Append(pre, e) \in Seq(Entry) OBVIOUS
<1>4. Kept(items, wanted) = Kept(Append(pre, e), wanted) \o after
  <2>1. items = Append(pre, e) \o post BY <1>1 DEF HoldsWith, Split
  <2> DEFINE head == Append(pre, e)
  <2>2. head \in Seq(Entry) BY <1>3
  <2> HIDE DEF head
  <2>3. Kept(head \o post, wanted) = Kept(head, wanted) \o Kept(post, wanted)
    BY <2>2, KeptOfConcat
  <2> QED BY <2>1, <2>3 DEF head
<1>5. Kept(Append(pre, e), wanted) = Append(before, e) BY KeptOfAppend
<1> HIDE DEF before, mine
<1>6. /\ Len(after) <= Len(post)
      /\ Len(Kept(after, mine)) <= Len(Kept(post, mine))
  BY KeptIsShorter
<1>7. Kept(after, mine) \in Seq(Entry) /\ Kept(post, mine) \in Seq(Entry) BY <1>2, KeptIs
<1> HIDE DEF after
<1>8. Len(after) <= all /\ Len(Kept(after, mine)) <= own
  <2>1. Len(post) <= all /\ Len(Kept(post, mine)) <= own BY <1>1 DEF HoldsWith, mine
  <2>2. Len(after) \in Nat /\ Len(post) \in Nat /\ Len(Kept(after, mine)) \in Nat
        /\ Len(Kept(post, mine)) \in Nat
    BY <1>2, <1>7
  <2> QED BY <1>6, <2>1, <2>2
<1>9. HoldsWith(Kept(items, wanted), e, own, all, before, after)
  BY <1>1, <1>2, <1>4, <1>5, <1>8 DEF HoldsWith, Split, mine
<1> QED BY <1>2, <1>9 DEF Holds

(* when one more is appended,                                              *)
LEMMA HeldIsAppended ==
  ASSUME NEW items, NEW e \in Entry, NEW own \in Nat, NEW all \in Nat, Holds(items, e, own, all),
         NEW x \in Entry, x.key # e.key
  PROVE  Holds(Append(items, x), e, own + (IF e.owner = x.owner THEN 1 ELSE 0), all + 1)
<1>1. PICK pre, post \in Seq(Entry) : HoldsWith(items, e, own, all, pre, post) BY DEF Holds
<1> DEFINE later == Append(post, x)
           mine == Belongs(e.owner)
<1>2. Append(pre, e) \in Seq(Entry) /\ later \in Seq(Entry) /\ Len(later) = Len(post) + 1 OBVIOUS
<1>3. Append(items, x) = Append(pre, e) \o later
  <2>1. items = Append(pre, e) \o post BY <1>1 DEF HoldsWith, Split
  <2> DEFINE head == Append(pre, e)
  <2>2. head \in Seq(Entry) BY <1>2
  <2> HIDE DEF head
  <2>3. head \o Append(post, x) = Append(head \o post, x) BY <2>2, AppendToConcat
  <2> QED BY <2>1, <2>3 DEF head
<1>4. ToSet(later) = ToSet(post) \cup {x} BY Appended
<1> HIDE DEF mine
<1>5. Kept(later, mine) = IF x \in mine THEN Append(Kept(post, mine), x) ELSE Kept(post, mine)
  BY KeptOfAppend
<1>6. Kept(post, mine) \in Seq(Entry) BY KeptIs
<1>7. x \in mine <=> e.owner = x.owner BY DEF Belongs, mine
<1>8. Len(Append(Kept(post, mine), x)) = Len(Kept(post, mine)) + 1 /\ Len(Kept(post, mine)) \in Nat
      /\ Len(post) \in Nat
  BY <1>6
<1>9. Len(post) <= all /\ Len(Kept(post, mine)) <= own BY <1>1 DEF HoldsWith, mine
<1> HIDE DEF later
<1>10. /\ Len(later) <= all + 1
       /\ Len(Kept(later, mine)) <= own + (IF e.owner = x.owner THEN 1 ELSE 0)
  BY <1>2, <1>5, <1>7, <1>8, <1>9
<1>11. Split(Append(items, x), e, pre, later) BY <1>1, <1>3, <1>4 DEF HoldsWith, Split
<1> QED BY <1>2, <1>10, <1>11 DEF Holds, HoldsWith, mine

(* when the oldest of a full cache goes,                                   *)
LEMMA HeldWithinAll ==
  ASSUME NEW items \in Seq(Entry), NEW e \in Entry, NEW own \in Nat, NEW all \in Nat,
         Holds(items, e, own, all), all + 1 < MaxEntries
  PROVE  Holds(WithinAll(items), e, own, all)
<1>1. CASE Len(items) < MaxEntries BY <1>1 DEF WithinAll
<1>2. CASE ~ (Len(items) < MaxEntries)
  <2>1. PICK pre, post \in Seq(Entry) : HoldsWith(items, e, own, all, pre, post) BY DEF Holds
  <2> DEFINE head == Append(pre, e)
  <2>2. head \in Seq(Entry) /\ head # <<>> /\ Len(head) = Len(pre) + 1 OBVIOUS
  <2>3. items = head \o post BY <2>1 DEF HoldsWith, Split
  <2> HIDE DEF head
  <2>4. Len(items) = Len(head) + Len(post) BY <2>2, <2>3, ConcatProperties
  <2>5. Len(post) <= all /\ Len(post) \in Nat /\ MaxEntries \in Nat BY <2>1, CacheNumbers DEF HoldsWith
  <2>6. Len(pre) # 0 BY <1>2, <2>2, <2>4, <2>5
  <2>7. pre # <<>> BY <2>6
  <2>8. Tail(head) = Append(Tail(pre), e) BY <2>7, HeadTailAppend DEF head
  <2>9. Tail(pre) \in Seq(Entry) /\ ToSet(Tail(pre)) \subseteq ToSet(pre) BY <2>7 DEF ToSet
  <2>10. Tail(head \o post) = Tail(head) \o post
    <3> DEFINE u == Tail(head \o post)
               v == Tail(head) \o post
    <3>1. u \in Seq(Entry) /\ v \in Seq(Entry) /\ Len(u) = Len(v)
          /\ \A i \in 1 .. Len(u) : u[i] = v[i]
      BY <2>2
    <3> HIDE DEF u, v
    <3> QED BY <3>1, SeqEqual DEF u, v
  <2>11. WithinAll(items) = Append(Tail(pre), e) \o post BY <1>2, <2>3, <2>8, <2>10 DEF WithinAll
  <2>12. HoldsWith(WithinAll(items), e, own, all, Tail(pre), post)
    BY <2>1, <2>9, <2>11 DEF HoldsWith, Split
  <2> QED BY <2>9, <2>12 DEF Holds
<1> QED BY <1>1, <1>2

(* and when the oldest of a service that has its share goes.               *)
LEMMA HeldWithinOwn ==
  ASSUME NEW items \in Seq(Entry), NEW e \in Entry, NEW own \in Nat, NEW all \in Nat,
         Holds(items, e, own, all), NEW owner, e.owner = owner => own + 1 < MaxOwned
  PROVE  Holds(WithinOwn(items, owner), e, own, all)
<1> DEFINE owned == Owned(items, owner)
           mine == Belongs(owner)
<1>1. CASE Len(owned) < MaxOwned BY <1>1 DEF WithinOwn
<1>2. CASE ~ (Len(owned) < MaxOwned)
  <2>1. PICK pre, post \in Seq(Entry) : HoldsWith(items, e, own, all, pre, post) BY DEF Holds
  <2>2. /\ owned = Kept(items, mine) /\ owned \in Seq(Entry)
        /\ ToSet(owned) \subseteq mine
    BY OwnedIs, KeptIs
  <2> DEFINE before == Kept(pre, mine)
             after == Kept(post, mine)
  <2>3. /\ before \in Seq(Entry) /\ ToSet(before) \subseteq ToSet(pre) /\ after \in Seq(Entry)
        /\ Append(pre, e) \in Seq(Entry)
    BY KeptIs
  <2>4. owned = Kept(Append(pre, e), mine) \o after
    <3>1. items = Append(pre, e) \o post BY <2>1 DEF HoldsWith, Split
    <3> DEFINE head == Append(pre, e)
    <3>2. head \in Seq(Entry) BY <2>3
    <3> HIDE DEF head, mine
    <3>3. Kept(head \o post, mine) = Kept(head, mine) \o Kept(post, mine)
      BY <3>2, KeptOfConcat
    <3> QED BY <2>2, <3>1, <3>3 DEF head
  <2>5. Kept(Append(pre, e), mine) = IF e \in mine THEN Append(before, e) ELSE before BY KeptOfAppend
  <2>6. e \in mine <=> e.owner = owner BY DEF Belongs
  <2>7. MaxOwned \in Nat \ {0} BY CacheNumbers
  <2> HIDE DEF owned
  <2>8. 1 \in 1 .. Len(owned) /\ owned # <<>> BY <1>2, <2>2, <2>7
  <2>9. owned[1] \in ToSet(owned) BY <2>2, <2>8 DEF ToSet
  <2>10. owned[1] # e
    <3> SUFFICES ASSUME owned[1] = e PROVE FALSE OBVIOUS
    <3>1. e \in mine BY <2>2, <2>9
    <3>2. Len(after) <= own BY <2>1, <2>6, <3>1 DEF HoldsWith
    <3> HIDE DEF before, after, mine
    <3>3. owned = Append(before, e) \o after BY <2>4, <2>5, <3>1
    <3>4. Len(owned) = Len(before) + 1 + Len(after) BY <2>3, <3>3
    <3>5. Len(before) # 0
      <4>1. Len(after) \in Nat /\ own + 1 < MaxOwned BY <2>3, <2>6, <3>1
      <4> QED BY <1>2, <2>7, <3>2, <3>4, <4>1
    <3>6. before[1] = e /\ 1 \in DOMAIN before BY <2>3, <3>3, <3>5
    <3>7. e \in ToSet(pre) BY <2>3, <3>6 DEF ToSet
    <3> QED BY <2>1, <3>7 DEF HoldsWith, Split
  <2>11. e \in ToSet(items) \ {owned[1]} BY <2>10, HeldIsThere
  <2>12. Holds(Kept(items, ToSet(items) \ {owned[1]}), e, own, all) BY <2>11, HeldIsKept
  <2> QED BY <1>2, <2>12 DEF WithinOwn, owned
<1> QED BY <1>1, <1>2

LEMMA HeldIsStored ==
  ASSUME NEW items \in Seq(Entry), NEW e \in Entry, NEW own \in Nat, NEW all \in Nat,
         Holds(items, e, own, all), NEW x \in Entry, x.key # e.key, all + 1 < MaxEntries,
         e.owner = x.owner => own + 1 < MaxOwned
  PROVE  Holds(Stored(items, x), e, own + (IF e.owner = x.owner THEN 1 ELSE 0), all + 1)
<1> DEFINE part == WithinOwn(items, x.owner)
<1>1. Holds(part, e, own, all) BY HeldWithinOwn
<1>2. part \in Seq(Entry) BY KeptIs DEF WithinOwn
<1> HIDE DEF part
<1>3. Holds(WithinAll(part), e, own, all) BY <1>1, <1>2, HeldWithinAll
<1>4. Stored(items, x) = Append(WithinAll(part), x) BY DEF Stored, part
<1> QED BY <1>3, <1>4, HeldIsAppended

-----------------------------------------------------------------------------
(* The snapshot that a call awaits.                                        *)

UsesOK == uses \in [Readers -> [own : Nat, all : Nat]]
Mine(c, owner, e) == /\ e.key = c.key /\ e.owner = owner /\ e.kind = c.kind
                     /\ e.created = c.since /\ e.access = c.since
(* It is in the cache, behind it no more than has been used since.         *)
Waits(r) ==
  Awaits(r) => \E e \in Entry : /\ Mine(call[r], OwnerOf(r), e)
                                /\ Holds(cache, e, uses[r].own, uses[r].all)
WaitInv == UsesOK /\ \A r \in Readers : Waits(r)

LEMMA HeldIsUnexpired ==
  ASSUME QueryTypes, NEW e \in Entry, NEW own \in Nat, NEW all \in Nat,
         Holds(cache, e, own, all), clock - e.created < Lifetime, clock - e.access < IdleTime
  PROVE  Holds(Unexpired(cache), e, own, all)
<1> DEFINE young == Young(cache)
<1>1. e \in {f \in ToSet(cache) : clock - f.created < Lifetime} BY HeldIsThere
<1>2. Holds(young, e, own, all) BY <1>1, HeldIsKept DEF Young
<1> HIDE DEF young
<1>3. e \in {f \in ToSet(cache) : clock - f.access < IdleTime} BY HeldIsThere
<1>4. Holds(Kept(young, {f \in ToSet(cache) : clock - f.access < IdleTime}), e, own, all)
  BY <1>2, <1>3, HeldIsKept
<1> QED BY <1>4 DEF Unexpired, young

(* The entry that is awaited has not expired.                              *)
LEMMA AwaitedIs ==
  ASSUME QueryTypes, WaitInv, NEW r \in Readers, Awaits(r)
  PROVE  \E e \in Entry : /\ Mine(call[r], OwnerOf(r), e)
                          /\ uses[r].own \in Nat /\ uses[r].all \in Nat
                          /\ Holds(cache, e, uses[r].own, uses[r].all)
                          /\ Holds(Unexpired(cache), e, uses[r].own, uses[r].all)
<1>1. PICK e \in Entry : /\ Mine(call[r], OwnerOf(r), e)
                         /\ Holds(cache, e, uses[r].own, uses[r].all)
  BY DEF WaitInv, Waits
<1>2. uses[r].own \in Nat /\ uses[r].all \in Nat BY DEF WaitInv, UsesOK
<1>3. PICK c \in Reading : c = call[r] BY DEF QueryTypes
<1>4. clock - c.since < IdleTime /\ c.since \in Int /\ clock \in Int /\ IdleTime \in Int
      /\ Lifetime \in Int /\ IdleTime <= Lifetime
  BY <1>3, CacheNumbers DEF Awaits, Reading, QueryTypes
<1>5. clock - e.created < Lifetime /\ clock - e.access < IdleTime BY <1>1, <1>3, <1>4 DEF Mine
<1>6. Holds(Unexpired(cache), e, uses[r].own, uses[r].all) BY <1>1, <1>2, <1>5, HeldIsUnexpired
<1> QED BY <1>1, <1>2, <1>6

LEMMA WaitsOn ==
  ASSUME QueryTypes, WaitInv, NEW r \in Readers,
         call'[r] = call[r], cache' = cache, uses'[r] = uses[r], clock' \in Nat, clock' >= clock
  PROVE  Waits(r)'
<1> SUFFICES ASSUME Awaits(r)' PROVE (\E e \in Entry : /\ Mine(call[r], OwnerOf(r), e)
                                                     /\ Holds(cache, e, uses[r].own, uses[r].all))'
  BY DEF Waits
<1>1. PICK c \in Reading : c = call[r] BY DEF QueryTypes
<1>2. c.since \in Int /\ clock \in Int /\ IdleTime \in Int BY CacheNumbers DEF Reading, QueryTypes
<1>3. c.at = "get" /\ clock' - c.since < IdleTime /\ uses[r].own < MaxOwned /\ uses[r].all < MaxEntries
  BY <1>1 DEF Awaits
<1>4. clock - c.since < IdleTime BY <1>2, <1>3
<1>5. Awaits(r) BY <1>1, <1>3, <1>4 DEF Awaits
<1>6. PICK e \in Entry : Mine(call[r], OwnerOf(r), e) /\ Holds(cache, e, uses[r].own, uses[r].all)
  BY <1>5, AwaitedIs
<1> QED BY <1>6

(* Another call uses the cache.                                            *)
LEMMA UseIs ==
  ASSUME WaitInv, NEW r \in Readers, NEW s \in Readers, r # s, call[r].at = "get", Use(s)
  PROVE  /\ uses'[r].own = uses[r].own + (IF OwnerOf(r) = OwnerOf(s) THEN 1 ELSE 0)
         /\ uses'[r].all = uses[r].all + 1
BY DEF Use, WaitInv, UsesOK

LEMMA UsedBefore ==
  ASSUME QueryTypes, WaitInv, NEW r \in Readers, NEW s \in Readers, r # s, Use(s), clock' = clock,
         call'[r] = call[r], Awaits(r)'
  PROVE  /\ Awaits(r)
         /\ uses[r].all + 1 < MaxEntries
         /\ OwnerOf(r) = OwnerOf(s) => uses[r].own + 1 < MaxOwned
<1>1. call[r].at = "get" /\ clock - call[r].since < IdleTime
      /\ uses'[r].own < MaxOwned /\ uses'[r].all < MaxEntries
  BY DEF Awaits
<1>2. uses[r].own \in Nat /\ uses[r].all \in Nat BY DEF WaitInv, UsesOK
<1>3. MaxOwned \in Nat /\ MaxEntries \in Nat BY CacheNumbers
<1>4. uses[r].all + 1 < MaxEntries /\ (OwnerOf(r) = OwnerOf(s) => uses[r].own + 1 < MaxOwned)
      /\ uses[r].own < MaxOwned /\ uses[r].all < MaxEntries
  BY <1>1, <1>2, <1>3, UseIs
<1> QED BY <1>1, <1>4 DEF Awaits

LEMMA WaitsThroughPut ==
  ASSUME QueryTypes, PageInv, WaitInv, NEW r \in Readers, NEW s \in Readers, r # s, Put(s)
  PROVE  Waits(r)'
<1>1. call'[r] = call[r] /\ clock' = clock /\ Use(s) /\ call[s].at = "scan" /\ call[s].kind # "status"
      /\ cache' = Stored(Unexpired(cache), EntryOf(s))
  BY DEF Put, Now, QueryTypes
<1> SUFFICES ASSUME Awaits(r)' PROVE (\E e \in Entry : /\ Mine(call[r], OwnerOf(r), e)
                                                     /\ Holds(cache, e, uses[r].own, uses[r].all))'
  BY DEF Waits
<1>2. /\ Awaits(r) /\ uses[r].all + 1 < MaxEntries
      /\ OwnerOf(r) = OwnerOf(s) => uses[r].own + 1 < MaxOwned
  BY <1>1, UsedBefore
<1>3. PICK own, all : own = uses[r].own /\ all = uses[r].all OBVIOUS
<1>4. PICK e \in Entry : /\ Mine(call[r], OwnerOf(r), e) /\ own \in Nat /\ all \in Nat
                         /\ Holds(Unexpired(cache), e, own, all)
  BY <1>2, <1>3, AwaitedIs
<1>5. PICK x \in Entry : x = EntryOf(s) /\ x.key = call[s].key /\ x.owner = OwnerOf(s) BY EntryIs
<1>6. x.key # e.key
  <2>1. Fresh(s) /\ Owning(call[s]) BY <1>1 DEF PageInv, Owning
  <2>2. call[r].at # "idle" BY <1>2 DEF Awaits
  <2> QED BY <1>4, <1>5, <2>1, <2>2 DEF Fresh, Mine
<1>7. e.owner = OwnerOf(r) BY <1>4 DEF Mine
<1>8. PICK items \in Seq(Entry) : items = Unexpired(cache) BY UnexpiredIs DEF QueryTypes
<1>9. Holds(Stored(items, x), e, own + (IF e.owner = x.owner THEN 1 ELSE 0), all + 1)
  BY <1>2, <1>3, <1>4, <1>5, <1>6, <1>7, <1>8, HeldIsStored
<1>10. uses'[r].own = own + (IF e.owner = x.owner THEN 1 ELSE 0) /\ uses'[r].all = all + 1
  BY <1>1, <1>2, <1>3, <1>5, <1>7, UseIs DEF Awaits
<1>11. Holds(cache', e, uses'[r].own, uses'[r].all) BY <1>1, <1>5, <1>8, <1>9, <1>10
<1>12. Mine(call'[r], OwnerOf(r), e) BY <1>1, <1>4
<1> QED BY <1>11, <1>12

LEMMA WaitsThroughGet ==
  ASSUME QueryTypes, PageInv, WaitInv, NEW r \in Readers, NEW s \in Readers, r # s, Get(s)
  PROVE  Waits(r)'
<1>1. call'[r] = call[r] /\ clock' = clock /\ call[s].at = "get"
  BY DEF Get, Now, Fail, QueryTypes
<1> SUFFICES ASSUME Awaits(r)' PROVE (\E e \in Entry : /\ Mine(call[r], OwnerOf(r), e)
                                                     /\ Holds(cache, e, uses[r].own, uses[r].all))'
  BY DEF Waits
<1>2. PICK own, all : own = uses[r].own /\ all = uses[r].all OBVIOUS
<1>3. CASE Found(s) = {}
  <2>1. cache' = Unexpired(cache) /\ uses'[r] = uses[r] BY <1>3 DEF Get, WaitInv, UsesOK
  <2>2. Awaits(r) BY <1>1, <2>1 DEF Awaits
  <2>3. PICK e \in Entry : Mine(call[r], OwnerOf(r), e) /\ Holds(Unexpired(cache), e, own, all)
    BY <1>2, <2>2, AwaitedIs
  <2>4. Holds(cache', e, uses'[r].own, uses'[r].all) BY <1>2, <2>1, <2>3
  <2>5. Mine(call'[r], OwnerOf(r), e) BY <1>1, <2>3
  <2> QED BY <2>4, <2>5
<1>4. CASE Found(s) # {}
  <2> DEFINE g == CHOOSE f \in Found(s) : TRUE
  <2>1. /\ Use(s)
        /\ cache' = Append(Kept(Unexpired(cache), ToSet(cache) \ {g}), [g EXCEPT !.access = clock])
    BY <1>4 DEF Get
  <2>2. g \in ToSet(Unexpired(cache)) /\ g.key = call[s].key /\ g.owner = OwnerOf(s)
    BY <1>4 DEF Found
  <2> HIDE DEF g
  <2>3. PICK items \in Seq(Entry) : items = Unexpired(cache) /\ ToSet(items) \subseteq ToSet(cache)
    BY UnexpiredIs DEF QueryTypes
  <2>4. g \in Entry BY <2>2, <2>3 DEF ToSet
  <2> DEFINE x == [g EXCEPT !.access = clock]
  <2>5. x \in Entry /\ x.key = call[s].key /\ x.owner = OwnerOf(s)
    <3>1. clock \in Int BY DEF QueryTypes
    <3>2. PICK h \in Entry : h = g BY <2>4
    <3> DEFINE y == [h EXCEPT !.access = clock]
    <3>3. y \in Entry /\ y.key = h.key /\ y.owner = h.owner BY <3>1 DEF Entry
    <3> QED BY <2>2, <3>2, <3>3
  <2> HIDE DEF x
  <2>6. /\ Awaits(r) /\ uses[r].all + 1 < MaxEntries
    BY <1>1, <2>1, UsedBefore
  <2>7. PICK e \in Entry : /\ Mine(call[r], OwnerOf(r), e) /\ own \in Nat /\ all \in Nat
                           /\ Holds(cache, e, own, all) /\ Holds(items, e, own, all)
    BY <1>2, <2>3, <2>6, AwaitedIs
  <2>8. e.key # call[s].key
    <3>1. Fresh(r) /\ Owning(call[r]) BY <2>6 DEF PageInv, Owning, Awaits
    <3> QED BY <1>1, <2>7, <3>1 DEF Fresh, Mine
  <2>9. e \in ToSet(cache) \ {g} BY <2>2, <2>7, <2>8, HeldIsThere
  <2>10. Holds(Kept(items, ToSet(cache) \ {g}), e, own, all) BY <2>7, <2>9, HeldIsKept
  <2>11. Holds(cache', e, own + (IF e.owner = x.owner THEN 1 ELSE 0), all + 1)
    <3> DEFINE rest == Kept(items, ToSet(cache) \ {g})
    <3>1. Holds(rest, e, own, all) BY <2>10
    <3> HIDE DEF rest
    <3>2. Holds(Append(rest, x), e, own + (IF e.owner = x.owner THEN 1 ELSE 0), all + 1)
      BY <2>5, <2>7, <2>8, <3>1, HeldIsAppended
    <3>3. cache' = Append(rest, x) BY <2>1, <2>3 DEF rest, x
    <3> QED BY <3>2, <3>3
  <2>12. e.owner = OwnerOf(r) BY <2>7 DEF Mine
  <2>13. uses'[r].own = own + (IF e.owner = x.owner THEN 1 ELSE 0) /\ uses'[r].all = all + 1
    BY <1>2, <2>1, <2>5, <2>6, <2>12, UseIs DEF Awaits
  <2>14. Holds(cache', e, uses'[r].own, uses'[r].all) BY <2>11, <2>13
  <2>15. Mine(call'[r], OwnerOf(r), e) BY <1>1, <2>7
  <2> QED BY <2>14, <2>15
<1> QED BY <1>3, <1>4

(* What a call has just stored is the last entry.                          *)
LEMMA PutWaits ==
  ASSUME QueryTypes, PageInv, WaitInv, NEW r \in Readers, Put(r) PROVE Waits(r)'
<1>1. PICK c \in Reading : c = call[r] BY DEF QueryTypes
<1> DEFINE n == [c EXCEPT !.at = "get", !.rows = <<>>, !.since = clock]
<1>2. /\ c.at = "scan" /\ c.kind # "status" /\ call'[r] = n /\ Use(r)
      /\ cache' = Stored(Unexpired(cache), EntryOf(r))
  BY <1>1 DEF Put, Now, QueryTypes
<1>3. n.key = c.key /\ n.kind = c.kind /\ n.since = clock BY DEF Reading
<1> HIDE DEF n
<1>4. PICK x \in Entry : /\ x = EntryOf(r) /\ x.key = c.key /\ x.owner = OwnerOf(r) /\ x.kind = c.kind
                         /\ x.created = clock /\ x.access = clock
  BY <1>1, EntryIs
<1>5. Mine(n, OwnerOf(r), x) BY <1>3, <1>4 DEF Mine
<1>6. PICK items \in Seq(Entry) : items = Unexpired(cache) /\ ToSet(items) \subseteq ToSet(cache)
  BY UnexpiredIs DEF QueryTypes
<1> DEFINE pre == WithinAll(WithinOwn(items, x.owner))
<1>7. pre \in Seq(Entry) /\ ToSet(pre) \subseteq ToSet(items) BY RoomIs
<1>8. cache' = Append(pre, x) BY <1>2, <1>4, <1>6 DEF Stored
<1> HIDE DEF pre
<1>9. \A f \in ToSet(cache) : f.key # x.key
  <2>1. Fresh(r) /\ Owning(call[r]) BY <1>1, <1>2 DEF PageInv, Owning
  <2> QED BY <1>1, <1>2, <1>4, <2>1 DEF Fresh
<1>10. Holds(Append(pre, x), x, 0, 0)
  <2>1. <<>> \in Seq(Entry) /\ ToSet(<<>>) = {} BY DEF ToSet
  <2>2. Append(pre, x) \o <<>> = Append(pre, x)
    <3>1. Append(pre, x) \in Seq(Entry) BY <1>7
    <3> QED BY <3>1, ConcatEmptySeq
  <2>3. Kept(<<>>, Belongs(x.owner)) = <<>> BY KeptOfNothing
  <2>4. \A f \in ToSet(pre) : f.key # x.key BY <1>6, <1>7, <1>9
  <2>5. Split(Append(pre, x), x, pre, <<>>) BY <2>1, <2>2, <2>4 DEF Split
  <2>6. HoldsWith(Append(pre, x), x, 0, 0, pre, <<>>) BY <2>3, <2>5 DEF HoldsWith
  <2> QED BY <1>7, <2>1, <2>6 DEF Holds
<1>11. uses'[r].own = 0 /\ uses'[r].all = 0 BY <1>2 DEF Use, Unused
<1>12. Holds(cache', x, uses'[r].own, uses'[r].all) BY <1>8, <1>10, <1>11
<1>13. Mine(call'[r], OwnerOf(r), x) BY <1>2, <1>5
<1> QED BY <1>12, <1>13 DEF Waits

(* A call awaits a snapshot only after it has stored one.                  *)
LEMMA OnlyPutAwaits ==
  ASSUME QueryTypes, HashInv, NEW r \in Readers,
         Begin(r) \/ BeginPage(r) \/ (ReadStep(r) /\ ~Put(r))
  PROVE  Waits(r)'
<1> SUFFICES ~Awaits(r)' BY DEF Waits
<1>1. ASSUME NEW n, call' = [call EXCEPT ![r] = n], n.at # "get" PROVE ~Awaits(r)'
  BY <1>1 DEF Awaits, QueryTypes
<1>2. CASE Begin(r)
  <2>1. PICK kind, base :
          Now(r, [Nothing EXCEPT !.at = "scan", !.kind = kind, !.key = calls + 1,
                    !.left = Folders, !.base = base])
    BY <1>2 DEF Begin
  <2> DEFINE n == [Nothing EXCEPT !.at = "scan", !.kind = kind, !.key = calls + 1,
                     !.left = Folders, !.base = base]
  <2>2. n.at = "scan" BY DEF Nothing
  <2> HIDE DEF n
  <2> QED BY <1>1, <2>1, <2>2 DEF n, Now
<1>3. CASE BeginPage(r)
  <2>1. PICK c \in cursors :
          Now(r, [Nothing EXCEPT !.at = "get", !.kind = c.kind, !.key = c.key, !.offset = c.offset,
                    !.got = c.got, !.since = -IdleTime])
    BY <1>3 DEF BeginPage
  <2> DEFINE n == [Nothing EXCEPT !.at = "get", !.kind = c.kind, !.key = c.key, !.offset = c.offset,
                     !.got = c.got, !.since = -IdleTime]
  <2>2. n.since = -IdleTime BY DEF Nothing
  <2>3. call'[r] = n /\ clock' = clock BY <1>3, <2>1 DEF BeginPage, Now, QueryTypes
  <2> HIDE DEF n
  <2>4. ~ (clock - n.since < IdleTime) BY <2>2, CacheNumbers DEF QueryTypes
  <2> QED BY <2>3, <2>4 DEF Awaits
<1>4. CASE \/ ListFolder(r) \/ Scan(r) \/ Digest(r) \/ CloseHandle(r)
           \/ CheckFolder(r) \/ CheckRow(r) \/ Compare(r)
  <2>1. PICK n : call' = [call EXCEPT ![r] = n] /\ Quiet(call[r], n) BY <1>4, QuietDoes
  <2>2. n.at # "get" BY <2>1, NothingIs DEF Quiet
  <2> QED BY <1>1, <2>1, <2>2
<1>5. CASE Get(r)
  <2>1. PICK c \in Reading : c = call[r] BY DEF QueryTypes
  <2> DEFINE e == CHOOSE f \in Found(r) : TRUE
             n == [c EXCEPT !.at = "page", !.rows = e.rows]
  <2>2. Fail(r) \/ call' = [call EXCEPT ![r] = n] BY <1>5, <2>1 DEF Get, Now
  <2>3. n.at = "page" BY DEF Reading
  <2> HIDE DEF n
  <2> QED BY <1>1, <2>2, <2>3, NothingIs DEF Fail, Now
<1>6. CASE Page(r) BY <1>1, <1>6, NothingIs DEF Page, Now
<1> QED BY <1>2, <1>3, <1>4, <1>5, <1>6 DEF ReadStep

LEMMA UsesStep ==
  ASSUME QueryTypes, WaitInv, [ServiceNext]_fileServiceVars PROVE UsesOK'
<1>1. Unused \in [own : Nat, all : Nat] BY DEF Unused
<1>2. ASSUME NEW r \in Readers, Use(r) PROVE UsesOK'
  <2>1. \A s \in Readers : uses[s].own \in Nat /\ uses[s].all \in Nat BY DEF WaitInv, UsesOK
  <2> QED BY <1>1, <1>2, <2>1 DEF Use, UsesOK
<1>3. CASE uses' = uses BY <1>3 DEF WaitInv, UsesOK
<1>4. ASSUME NEW r \in Readers, uses' = [uses EXCEPT ![r] = Unused] PROVE UsesOK'
  BY <1>1, <1>4 DEF WaitInv, UsesOK
<1>5. ASSUME NEW r \in Readers, ReadStep(r) PROVE UsesOK'
  <2>1. CASE \/ ListFolder(r) \/ Scan(r) \/ Digest(r) \/ CloseHandle(r)
             \/ CheckFolder(r) \/ CheckRow(r) \/ Compare(r) \/ Page(r)
    BY <1>3, <2>1
    DEF ListFolder, Scan, Digest, CloseHandle, CheckFolder, CheckRow, Compare, Page
  <2>2. CASE Put(r) BY <1>2, <2>2 DEF Put
  <2>3. CASE Get(r) BY <1>2, <1>4, <2>3 DEF Get
  <2> QED BY <1>5, <2>1, <2>2, <2>3 DEF ReadStep
<1>6. CASE UNCHANGED queryVars BY <1>3, <1>6 DEF queryVars
<1>7. CASE Tick \/ \E r \in Readers : Begin(r) \/ BeginPage(r) BY <1>3, <1>7 DEF Tick, Begin, BeginPage
<1>8. CASE UNCHANGED fileServiceVars BY <1>6, <1>8 DEF fileServiceVars
<1> QED BY <1>5, <1>6, <1>7, <1>8 DEF ServiceNext

LEMMA WaitStep ==
  ASSUME ServiceInv, QueryTypes, HashInv, PageInv, WaitInv, [ServiceNext]_fileServiceVars
  PROVE  WaitInv'
<1>1. UsesOK' BY UsesStep
<1>2. ASSUME UNCHANGED queryVars PROVE \A r \in Readers : Waits(r)'
  <2>1. UNCHANGED <<call, cache, uses, clock>> BY <1>2 DEF queryVars
  <2>2. clock' \in Nat /\ clock' >= clock BY <2>1 DEF QueryTypes
  <2> QED BY <2>1, <2>2, WaitsOn
<1>3. ASSUME Tick PROVE \A r \in Readers : Waits(r)'
  <2>1. UNCHANGED <<call, cache, uses>> /\ clock' = clock + 1 BY <1>3 DEF Tick
  <2>2. clock' \in Nat /\ clock' >= clock BY <2>1 DEF QueryTypes
  <2> QED BY <2>1, <2>2, WaitsOn
<1>4. ASSUME NEW s \in Readers, Begin(s) \/ BeginPage(s) \/ ReadStep(s), NEW r \in Readers
      PROVE  Waits(r)'
  <2>1. CASE r = s BY <1>4, <2>1, OnlyPutAwaits, PutWaits
  <2>2. CASE r # s
    <3>1. CASE Put(s) BY <2>2, <3>1, WaitsThroughPut
    <3>2. CASE Get(s) BY <2>2, <3>2, WaitsThroughGet
    <3>3. CASE ~Put(s) /\ ~Get(s)
      <4>1. UNCHANGED <<cache, uses, clock>>
        BY <1>4, <3>3 DEF ReadStep, Begin, BeginPage, ListFolder, Scan, Digest, CloseHandle,
                          CheckFolder, CheckRow, Compare, Page
      <4>2. PICK n : call' = [call EXCEPT ![s] = n] BY <1>4, ReadersDo DEF ReaderDoes
      <4>3. call'[r] = call[r] BY <2>2, <4>2 DEF QueryTypes
      <4>4. clock' \in Nat /\ clock' >= clock BY <4>1 DEF QueryTypes
      <4> QED BY <4>1, <4>3, <4>4, WaitsOn
    <3> QED BY <3>1, <3>2, <3>3
  <2> QED BY <2>1, <2>2
<1>5. CASE UNCHANGED fileServiceVars BY <1>1, <1>2, <1>5 DEF fileServiceVars, WaitInv
<1>6. \A r \in Readers : Waits(r)' BY <1>2, <1>3, <1>4, <1>5 DEF ServiceNext, fileServiceVars
<1> QED BY <1>1, <1>6 DEF WaitInv

LEMMA PagesStart == ServiceInit => PageInv /\ WaitInv
<1> SUFFICES ASSUME ServiceInit PROVE PageInv /\ WaitInv OBVIOUS
<1>1. /\ call = [r \in Readers |-> Nothing] /\ cache = <<>>
      /\ cursors = {} /\ calls \in 0 .. MaxCalls /\ uses = [r \in Readers |-> Unused]
  BY DEF ServiceInit, QueriesInit, FilesInit
<1>2. \A r \in Readers : call[r].at = "idle" /\ call[r].key = 0 BY <1>1 DEF Nothing
<1>3. ToSet(cache) = {} BY <1>1 DEF ToSet
<1>4. PageInv BY <1>1, <1>2, <1>3, FileBounds DEF PageInv, OneSnapshot, Fresh, Owning, Paging
<1>5. UsesOK BY <1>1 DEF UsesOK, Unused
<1>6. WaitInv BY <1>2, <1>5 DEF WaitInv, Waits, Awaits
<1> QED BY <1>4, <1>6

(* The inductive invariant of the snapshots: the cursors stand where the   *)
(* rows were given out, and what a call awaits is not displaced before     *)
(* older entries are (SnapshotCache.put and get).                          *)
SnapshotInv == InventoryInv /\ PageInv /\ WaitInv
(* No put, get, expiry or eviction breaks the invariant of the snapshots.  *)
THEOREM SnapshotInductive == ServiceSpec => []SnapshotInv
<1>1. ServiceInit => SnapshotInv
  BY ServiceStart, QueriesStart, PagesStart DEF SnapshotInv, InventoryInv
<1>2. SnapshotInv /\ [ServiceNext]_fileServiceVars => SnapshotInv'
  BY ServiceStep, TypesStep, HashStep, MomentStep, PageStep, WaitStep DEF SnapshotInv, InventoryInv
<1> QED BY <1>1, <1>2, PTL DEF ServiceSpec

(* The call that stored a snapshot finds it again, unless it slept or the  *)
(* whole cache, or the share of its service, has been used meanwhile; and  *)
(* a cursor stands behind exactly the rows of its snapshot that were given *)
(* out before it (snapshot_cache.py, file_query.py).                       *)
THEOREM SnapshotsStable == ServiceSpec => []SnapshotsAreStable
<1>1. SnapshotInv => SnapshotsAreStable
  <2> SUFFICES ASSUME SnapshotInv PROVE SnapshotsAreStable OBVIOUS
  <2>1. ASSUME NEW r \in Readers, Awaits(r) PROVE Found(r) # {}
    <3>1. QueryTypes /\ WaitInv BY DEF SnapshotInv, InventoryInv
    <3>2. PICK e \in Entry : /\ Mine(call[r], OwnerOf(r), e)
                             /\ Holds(Unexpired(cache), e, uses[r].own, uses[r].all)
      BY <2>1, <3>1, AwaitedIs
    <3>3. e \in ToSet(Unexpired(cache)) BY <3>2, HeldIsThere
    <3>4. e \in Found(r) BY <3>2, <3>3 DEF Found, Mine
    <3> QED BY <3>4
  <2>2. ASSUME NEW c \in cursors, NEW e \in ToSet(cache), e.key = c.key
        PROVE  e.owner = c.owner /\ c.got = SubSeq(e.rows, 1, c.offset)
    BY <2>2 DEF SnapshotInv, PageInv, OneSnapshot, Begins
  <2> QED BY <2>1, <2>2 DEF SnapshotsAreStable
<1> QED BY <1>1, SnapshotInductive, PTL

=============================================================================
