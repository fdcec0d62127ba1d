------------------------------ MODULE Virtio9p ------------------------------
(***************************************************************************)
(* The 9P device (virtio.c) between the guest's file system client and the *)
(* file system in memory (FsNet), with the transfers that load its files.  *)
(*                                                                         *)
(* The guest runs (at = "guest") until it submits a request and notifies   *)
(* the queue; the loop of queue_notify takes the entries one by one until  *)
(* the ring is empty or an open waits for a transfer.  A transfer that     *)
(* ends, in the main loop, may call back; the callback answers the open    *)
(* and runs queue_notify again, at = "notify", within fs_open_cb.  When    *)
(* the file that has come is an archive, fs_open_cb goes through its       *)
(* members, at = "loop", and each of them may call back.                   *)
(*                                                                         *)
(* The guest follows the rules of its virtual file system: it does not use *)
(* a fid while a request that may end its use is out, it changes names one *)
(* at a time, and it neither adds to a removed directory nor moves a       *)
(* directory below itself or a file onto itself.                           *)
(***************************************************************************)
EXTENDS VirtQueue, FsNet

CONSTANTS
  Fid,
  Filelist,  \* the files the server lists, in order: [name, file_id]
  Clients    \* name of a program of the guest -> what it may ask for, and
             \* how many times

\* malloc always has an object for a fid (fid_create), also while it replaces
\* one, and there are inodes for what the server lists and the root.
ASSUME FidAssumption ==
  IsFiniteSet(Fid) /\ Cardinality(Fid) < Cardinality(FsFile)
ASSUME FilelistAssumption ==
  /\ Filelist \in Seq([name : Name, file_id : DOMAIN Server])
  /\ Len(Filelist) + 1 < Cardinality(Ino)

NoRequest == [op |-> "none"]
NoReply == Reply("none", <<>>)
NoDesc == QueueNum
NoLoop == [of |-> NoIno, good |-> FALSE, cur |-> NoIno, next |-> NoIno]

VARIABLES
  queue,
  (* the device *)
  fid_list,     \* Fid -> its FSFile
  in_progress,  \* req_in_progress, as the head of the open that waits
  fs,
  at,           \* "guest", "notify" or "loop"
  loop,         \* fs_open_cb's place in an archive
  (* the guest *)
  request,      \* head -> what it asks for
  reply,        \* head -> what the device wrote to it
  last_used,
  held,         \* Fid -> what the guest knows it for
  client        \* the program it runs, and how often it may still ask

vars == <<queue, fid_list, in_progress, fs, at, loop, request, reply, last_used, held, client>>
guest == <<request, last_used, held, client>>

-----------------------------------------------------------------------------
(* The beginning: the lists of the server have been read.                  *)

FsMemInit ==
  LET fs0 == [ino |-> [n \in Ino |-> NoInode], file |-> [f \in FsFile |-> ClosedFile],
              blocks |-> 0, cache |-> <<>>, cache_size |-> 0, called |-> <<>>,
              broken |-> FALSE]
      fs1 == InodeIncref(InodeIncref(InodeNew(fs0, "DIR"), Root), Root)
  IN  InodeDirAdd(InodeDirAdd(fs1, Root, Self, Root), Root, Parent, Root)

\* fs_net_set_url
SetUrl(f, n, file_id, size) ==
  IF size = 0 THEN f
  ELSE [f EXCEPT !.ino[n].state = "UNLOADED", !.ino[n].size = size,
                 !.ino[n].file_id = file_id, !.blocks = @ + ToBlocks(size)]

\* filelist_load_rec, of files in the root directory.
FilelistLoad(f, file) ==
  LET n == NewIno(f)
  IN  SetUrl(InodeDirAdd(InodeNew(f, "REG"), Root, file.name, n),
             n, file.file_id, Len(Server[file.file_id]))

Init ==
  /\ queue = QueueInit
  /\ fid_list = [i \in Fid |-> NoFile]
  /\ in_progress = NoDesc
  /\ fs = FoldLeft(FilelistLoad, FsMemInit, Filelist)
  /\ at = "guest"
  /\ loop = NoLoop
  /\ request = [h \in Desc |-> NoRequest]
  /\ reply = [h \in Desc |-> NoReply]
  /\ last_used = 0
  /\ held = [i \in Fid |-> "free"]
  /\ \E name \in DOMAIN Clients : client = [name |-> name, left |-> Clients[name].times]

-----------------------------------------------------------------------------
(* The guest                                                               *)

FidsOf(r) ==
  CASE r.op \in {"none", "stateless", "xattrwalk", "unknown"} -> {}
    [] r.op = "walk" -> {r.fid, r.newfid}
    [] r.op \in {"link", "renameat"} -> {r.fid, r.new_fid}
    [] OTHER -> {r.fid}

\* What the programs ask for.
AskName == Name \union {Self, Parent}
AskOK(r) ==
  /\ r.op \in {"stateless", "xattrwalk", "unknown", "attach", "walk", "lopen", "lcreate",
              "symlink", "mknod", "mkdir", "link", "renameat", "unlinkat", "getattr",
              "setattr", "readdir", "readlink", "lock", "read", "write", "clunk"}
  /\ FidsOf(r) \subseteq Fid
  /\ r.op = "walk" => r.names \in Seq(AskName)
  /\ r.op \in {"lcreate", "symlink", "mknod", "mkdir", "link", "renameat", "unlinkat"} =>
       r.name \in AskName
  /\ r.op = "renameat" => r.new_name \in AskName
  /\ r.op = "mknod" => r.type \in FileTypes
  /\ r.op \in {"lopen", "lcreate"} => r.flags \in Flags
  /\ r.op = "setattr" => r.size \in Nat
  /\ r.op = "write" => r.off \in Nat /\ Len(r.data) \in Nat
ASSUME ClientsAssumption ==
  \A name \in DOMAIN Clients :
    /\ Clients[name].times \in Nat
    /\ \A r \in Clients[name].asks : AskOK(r)

\* The fids whose use a request may change.
Claims(r) ==
  CASE r.op \in {"attach", "lopen", "lcreate", "clunk"} -> {r.fid}
    [] r.op = "walk" -> {r.newfid}
    [] OTHER -> {}

ChangesNames(r) ==
  r.op \in {"lcreate", "symlink", "mknod", "mkdir", "link", "renameat", "unlinkat"}

Undisturbed(r) ==
  \A h \in Desc :
    /\ Claims(r) \intersect FidsOf(request[h]) = {}
    /\ FidsOf(r) \intersect Claims(request[h]) = {}
    /\ ~(ChangesNames(r) /\ ChangesNames(request[h]))

IsHeld(i, uses) == held[i] \in uses

InodeOf(i) == fs.file[fid_list[i]].ino
InLiveDir(i) == IsType(fs, InodeOf(i), "DIR") /\ fs.ino[InodeOf(i)].refcount > 0
InodeLeft == Allocated(fs) # Ino   \* a bound of the model

Allowed(r) ==
  CASE r.op = "attach" -> IsHeld(r.fid, {"free"})
    [] r.op = "walk" ->
         /\ IsHeld(r.fid, {"walked"})
         /\ IsHeld(r.newfid, {"free"}) \/ r.newfid = r.fid
    [] r.op = "lopen" -> IsHeld(r.fid, {"walked"})
    [] r.op \in {"read", "write", "readdir", "lock"} -> IsHeld(r.fid, {"open"})
    [] r.op \in {"lcreate", "symlink", "mknod", "mkdir"} ->
         IsHeld(r.fid, {"walked"}) /\ InLiveDir(r.fid) /\ InodeLeft
    [] r.op = "clunk" -> ~IsHeld(r.fid, {"free"})
    [] r.op = "link" ->
         /\ IsHeld(r.fid, {"walked"}) /\ IsHeld(r.new_fid, {"walked", "open"})
         /\ InLiveDir(r.fid)
    [] r.op = "renameat" ->
         /\ IsHeld(r.fid, {"walked"}) /\ IsHeld(r.new_fid, {"walked"})
         /\ InLiveDir(r.new_fid)
         /\ LET n == InodeSearch(fs, InodeOf(r.fid), r.name)
            IN  n \notin {InodeOf(r.new_fid), InodeSearch(fs, InodeOf(r.new_fid), r.new_name)}
    [] r.op \in {"stateless", "xattrwalk", "unknown"} -> TRUE
    [] OTHER -> IsHeld(r.fid, {"walked", "open"})

Submit(h, r) ==
  /\ at = "guest"
  /\ ~fs.broken
  /\ client.left > 0
  /\ request[h] = NoRequest
  /\ Undisturbed(r)
  /\ Allowed(r)
  /\ request' = [request EXCEPT ![h] = r]
  /\ queue' = AddAvail(queue, h)
  /\ at' = "notify"
  /\ client' = [client EXCEPT !.left = @ - 1]
  /\ UNCHANGED <<fid_list, in_progress, fs, loop, reply, last_used, held>>

HeldAfter(r, res) ==
  CASE r.op = "attach" -> [held EXCEPT ![r.fid] = IF res.err = "OK" THEN "walked" ELSE @]
    [] r.op = "walk" ->
         [held EXCEPT ![r.newfid] = IF res.err # "OK" THEN @
                                    ELSE IF Len(res.data) = Len(r.names)
                                    THEN "walked" ELSE "lost"]
    [] r.op \in {"lopen", "lcreate"} ->
         [held EXCEPT ![r.fid] = IF res.err = "OK" THEN "open" ELSE @]
    [] r.op = "clunk" -> [held EXCEPT ![r.fid] = "free"]
    [] OTHER -> held

Reap ==
  /\ at = "guest"
  /\ ~fs.broken
  /\ last_used # queue.used_idx
  /\ LET h == UsedDesc(queue, last_used)
     IN  /\ held' = HeldAfter(request[h], reply[h])
         /\ request' = [request EXCEPT ![h] = NoRequest]
         /\ reply' = [reply EXCEPT ![h] = NoReply]
  /\ last_used' = NextIdx(last_used)
  /\ queue' = InterruptAck(queue, queue.int_status)
  /\ UNCHANGED <<fid_list, in_progress, fs, at, loop, client>>

-----------------------------------------------------------------------------
(* The device                                                              *)

Taken == request[NextDesc(queue)]
FileOf(i) == fid_list[i]

Take(ops) ==
  /\ at = "notify"
  /\ ~fs.broken
  /\ HasAvail(queue)
  /\ in_progress = NoDesc
  /\ Taken.op \in ops

\* virtio_9p_send_reply and virtio_9p_send_error
SendReply(q, h, res) ==
  /\ queue' = ConsumeDesc(q, h)
  /\ reply' = [reply EXCEPT ![h] = res]

Answer(res) == SendReply(Advance(queue), NextDesc(queue), res)

AnswerCode(err) == Answer(Reply(err, <<>>))

\* The code that a file system operation returned.
AnswerResult(r) ==
  /\ fs' = r.fs
  /\ AnswerCode(r.err)

Refuse ==
  /\ at = "notify"
  /\ HasAvail(queue)
  /\ in_progress # NoDesc
  /\ at' = IF loop = NoLoop THEN "guest" ELSE "loop"
  /\ UNCHANGED <<queue, fid_list, in_progress, fs, loop, reply, guest>>

NotifyDone ==
  /\ at = "notify"
  /\ ~HasAvail(queue)
  /\ at' = IF loop = NoLoop THEN "guest" ELSE "loop"
  /\ UNCHANGED <<queue, fid_list, in_progress, fs, loop, reply, guest>>

\* statfs, version, flush and fsync change nothing; xattrwalk and what the
\* device does not know are refused.
Stateless ==
  /\ Take({"stateless", "xattrwalk", "unknown"})
  /\ AnswerCode(CASE Taken.op = "stateless" -> "OK"
                  [] Taken.op = "xattrwalk" -> "ENOTSUP"
                  [] Taken.op = "unknown" -> "EPROTO")
  /\ UNCHANGED <<fid_list, in_progress, fs, at, loop, guest>>

\* Replaces the file object the fid stands for, which is released.
FidSet(f, i, file) ==
  /\ fs' = IF fid_list[i] = NoFile THEN f ELSE FsDelete(f, fid_list[i])
  /\ fid_list' = [fid_list EXCEPT ![i] = file]

Attach ==
  /\ Take({"attach"})
  /\ FidSet(FsAttach(fs).fs, Taken.fid, Created(fs))
  /\ AnswerCode("OK")
  /\ UNCHANGED <<in_progress, at, loop, guest>>

Walk ==
  /\ Take({"walk"})
  /\ LET w == FsWalk(fs, FileOf(Taken.fid), Taken.names)
     IN  /\ FidSet(w.fs, Taken.newfid, Created(fs))
         /\ Answer(Reply("OK", SubSeq(Taken.names, 1, w.count)))
  /\ UNCHANGED <<in_progress, at, loop, guest>>

Lopen ==
  /\ Take({"lopen"})
  /\ LET r == FsOpen(fs, FileOf(Taken.fid), Taken.flags, Taken.dir, Taken.trunc)
     IN  \/ /\ r.err # "LATER"
            /\ AnswerResult(r)
            /\ UNCHANGED in_progress
         \/ /\ r.err = "LATER"
            /\ fs' = r.fs
            /\ queue' = Advance(queue)
            /\ in_progress' = NextDesc(queue)
            /\ UNCHANGED reply
  /\ UNCHANGED <<fid_list, at, loop, guest>>

Lcreate ==
  /\ Take({"lcreate"})
  /\ AnswerResult(FsCreate(fs, FileOf(Taken.fid), Taken.name, Taken.flags))
  /\ UNCHANGED <<fid_list, in_progress, at, loop, guest>>

Symlink ==
  /\ Take({"symlink"})
  /\ AnswerResult(FsMakeNode(fs, FileOf(Taken.fid), Taken.name, "LNK"))
  /\ UNCHANGED <<fid_list, in_progress, at, loop, guest>>

Mknod ==
  /\ Take({"mknod"})
  /\ AnswerResult(FsMakeNode(fs, FileOf(Taken.fid), Taken.name, Taken.type))
  /\ UNCHANGED <<fid_list, in_progress, at, loop, guest>>

Mkdir ==
  /\ Take({"mkdir"})
  /\ AnswerResult(FsMkdir(fs, FileOf(Taken.fid), Taken.name))
  /\ UNCHANGED <<fid_list, in_progress, at, loop, guest>>

Link ==
  /\ Take({"link"})
  /\ AnswerResult(FsLink(fs, FileOf(Taken.fid), FileOf(Taken.new_fid), Taken.name))
  /\ UNCHANGED <<fid_list, in_progress, at, loop, guest>>

Renameat ==
  /\ Take({"renameat"})
  /\ AnswerResult(FsRenameat(fs, FileOf(Taken.fid), Taken.name,
                           FileOf(Taken.new_fid), Taken.new_name))
  /\ UNCHANGED <<fid_list, in_progress, at, loop, guest>>

Unlinkat ==
  /\ Take({"unlinkat"})
  /\ AnswerResult(FsUnlinkat(fs, FileOf(Taken.fid), Taken.name))
  /\ UNCHANGED <<fid_list, in_progress, at, loop, guest>>

Getattr ==
  /\ Take({"getattr"})
  /\ LET node == fs.ino[fs.file[FileOf(Taken.fid)].ino]
     IN  Answer(Reply("OK", <<node.type, node.refcount, node.size>>))
  /\ UNCHANGED <<fid_list, in_progress, fs, at, loop, guest>>

Setattr ==
  /\ Take({"setattr"})
  /\ AnswerResult(FsSetattr(fs, FileOf(Taken.fid), Taken.size))
  /\ UNCHANGED <<fid_list, in_progress, at, loop, guest>>

Readdir ==
  /\ Take({"readdir"})
  /\ Answer(FsReaddir(fs, FileOf(Taken.fid), Taken.off))
  /\ UNCHANGED <<fid_list, in_progress, fs, at, loop, guest>>

Readlink ==
  /\ Take({"readlink"})
  /\ AnswerCode(FsReadlink(fs, FileOf(Taken.fid)))
  /\ UNCHANGED <<fid_list, in_progress, fs, at, loop, guest>>

Lock ==
  /\ Take({"lock"})
  /\ AnswerCode(FsLock(fs, FileOf(Taken.fid)))
  /\ UNCHANGED <<fid_list, in_progress, fs, at, loop, guest>>

Read ==
  /\ Take({"read"})
  /\ Answer(FsRead(fs, FileOf(Taken.fid), Taken.off, Taken.count))
  /\ UNCHANGED <<fid_list, in_progress, fs, at, loop, guest>>

Write ==
  /\ Take({"write"})
  /\ AnswerResult(FsWrite(fs, FileOf(Taken.fid), Taken.off, Taken.data))
  /\ UNCHANGED <<fid_list, in_progress, at, loop, guest>>

Clunk ==
  /\ Take({"clunk"})
  /\ fs' = FsDelete(fs, FileOf(Taken.fid))
  /\ fid_list' = [fid_list EXCEPT ![Taken.fid] = NoFile]
  /\ AnswerCode("OK")
  /\ UNCHANGED <<in_progress, at, loop, guest>>

RecvRequest ==
  \/ Stateless \/ Attach \/ Walk \/ Lopen \/ Lcreate \/ Symlink \/ Mknod \/ Mkdir
  \/ Link \/ Renameat \/ Unlinkat \/ Getattr \/ Setattr \/ Readdir \/ Readlink
  \/ Lock \/ Read \/ Write \/ Clunk

-----------------------------------------------------------------------------
(* The transfers, and the open that waits for one                          *)

\* answers the open but leaves the device busy
OpenCbBusy(f, then) ==
  IF f.called = <<>>
  THEN /\ fs' = f /\ at' = then
       /\ UNCHANGED <<queue, reply, in_progress>>
  ELSE /\ fs' = [f EXCEPT !.called = <<>>]
       /\ SendReply(queue, in_progress, Reply(f.called[1].err, <<>>))
       /\ at' = "notify"
       /\ UNCHANGED in_progress

\* virtio_9p_open_cb, if the file system has called it.
OpenCb(f, then) ==
  IF f.called = <<>>
  THEN /\ fs' = f /\ at' = then
       /\ UNCHANGED <<queue, reply, in_progress>>
  ELSE /\ fs' = [f EXCEPT !.called = <<>>]
       /\ SendReply(queue, in_progress, Reply(f.called[1].err, <<>>))
       /\ at' = "notify"
       /\ in_progress' = NoDesc

SetEnd(f, n, good) == IF good THEN SetLoaded(f, n) ELSE SetError(f, n)

FirstMember(f, n) ==
  IF f.ino[n].load.members = <<>> THEN NoIno ELSE f.ino[n].load.members[1].ino

\* fs_open_cb at the end of a transfer, ok when the server answered with 200.
TransferEnds(n, ok) ==
  /\ at = "guest"
  /\ ~fs.broken
  /\ fs.ino[n].state = "LOADING"
  /\ fs.ino[n].load.type # "ARCHIVE_FILE"
  /\ LET good == ok /\ Complete(fs, n)
         come == IF ok THEN Arrived(fs, n) ELSE fs
     IN  \/ /\ fs.ino[n].load.type = "REG"
            /\ OpenCb(SetEnd(come, n, good), "guest")
            /\ UNCHANGED loop
         \/ /\ fs.ino[n].load.type = "ARCHIVE"
            /\ fs' = come
            /\ loop' = [NoLoop EXCEPT !.of = n, !.good = good,
                                      !.next = FirstMember(come, n)]
            /\ at' = "loop"
            /\ UNCHANGED <<queue, reply, in_progress>>
  /\ UNCHANGED <<fid_list, guest>>

\* The place of the loop's next member in the list, none if it has been freed.
Places(f) == {k \in DOMAIN f.ino[loop.of].load.members :
                f.ino[loop.of].load.members[k].ino = loop.next}

\* One turn of the loops of fs_read_archive and fs_error_archive: the member
\* of the last turn leaves the list, the next one gets its part.  The loop
\* holds on to the next member over a callback that may free it.
LoopTurn ==
  /\ at = "loop"
  /\ ~fs.broken
  /\ loop.next # NoIno
  /\ LET left == LeaveList(fs, loop.of, loop.cur)
         members == left.ino[loop.of].load.members
         k == Min(Places(left))
         part == IF loop.good THEN CopyMember(left, loop.of, members[k]) ELSE left
     IN  \/ /\ Places(left) # {}
            /\ OpenCb(SetEnd(part, loop.next, loop.good), "loop")
            /\ loop' = [loop EXCEPT !.cur = loop.next,
                          !.next = IF k < Len(members) THEN members[k + 1].ino ELSE NoIno]
         \/ /\ Places(left) = {}
            /\ fs' = [fs EXCEPT !.broken = TRUE]
            /\ UNCHANGED <<queue, reply, in_progress, at, loop>>
  /\ UNCHANGED <<fid_list, guest>>

\* The archive itself has been loaded, or not.
LoopEnds ==
  /\ at = "loop"
  /\ ~fs.broken
  /\ loop.next = NoIno
  /\ OpenCb(SetEnd(LeaveList(fs, loop.of, loop.cur), loop.of, loop.good), "guest")
  /\ loop' = NoLoop
  /\ UNCHANGED <<fid_list, guest>>

-----------------------------------------------------------------------------
Guest == Reap \/ \E h \in Desc, r \in Clients[client.name].asks : Submit(h, r)
Notified == Refuse \/ NotifyDone \/ RecvRequest
Transfers == \E n \in Ino, ok \in BOOLEAN : TransferEnds(n, ok)
Archive == LoopTurn \/ LoopEnds

Next == Guest \/ Notified \/ Transfers \/ Archive

Spec == Init /\ [][Next]_vars

Running == ~fs.broken /\ at # "guest"
Fetching ==
  /\ ~fs.broken /\ at = "guest"
  /\ \E n \in Ino : fs.ino[n].state = "LOADING" /\ fs.ino[n].load.type # "ARCHIVE_FILE"

\* The loops wait for nothing, and a transfer ends, with the file or without.
\* No step of them leaves its own guard true for ever, so this is their weak
\* fairness.
HttpFairness ==
  /\ []<>~Running
  /\ []<>~Fetching

FairSpec == Spec /\ HttpFairness

-----------------------------------------------------------------------------
(* Properties                                                              *)

\* The directory entries that name an inode, by their places.
NamesOf(n) ==
  UNION {{d} \X {k \in DOMAIN fs.ino[d].dents : fs.ino[d].dents[k].ino = n} : d \in Ino}
UsedBlocks == UNION {{n} \X (1 .. ToBlocks(fs.ino[n].size)) : n \in Ino}
CachedInodes == {n \in Ino : fs.ino[n].state = "LOADED"}
CachedBytes == UNION {{n} \X (1 .. fs.ino[n].size) : n \in CachedInodes}

\* The counts that decide when an inode is freed, how full the disk is and
\* what the cache holds agree with the directory entries, the file objects,
\* the sizes and the states, through creations, links, renames, removals,
\* loads and evictions in any order (inode_decref, inode_dec_open).
CountsMatchReferences ==
  ~fs.broken =>
    /\ \A n \in Allocated(fs) :
         /\ fs.ino[n].refcount = Cardinality(NamesOf(n)) + (IF n = Root THEN 1 ELSE 0)
         /\ fs.ino[n].open_count = Cardinality({f \in FsFile : fs.file[f].ino = n})
         /\ n = Root \/ ~Unused(fs, n)
    /\ fs.blocks = Cardinality(UsedBlocks)
    /\ ToSet(fs.cache) = CachedInodes
    /\ Len(fs.cache) = Cardinality(CachedInodes)
    /\ fs.cache_size = Cardinality(CachedBytes)

\* A file the guest has open is in memory with its whole size, whatever is
\* loaded, trimmed or truncated meanwhile: fs_read and fs_write look at the
\* buffer without asking for its state.
OpenFilesArePresent ==
  ~fs.broken =>
    \A f \in FsFile :
      LET node == fs.ino[fs.file[f].ino]
      IN  fs.file[f].is_opened /\ IsType(fs, fs.file[f].ino, "REG") =>
            node.state \in {"LOCAL", "LOADED"} /\ node.size <= Len(node.buf)

\* What a file server shows: nodes with names and contents, whatever is in
\* memory and whatever is still with the server.
ContentOf(node) ==
  IF node.state \in {"LOCAL", "LOADED"} THEN Resized(node.buf, node.size)
  ELSE [i \in 1 .. node.size |-> IF i <= Len(Server[node.file_id])
                                  THEN Server[node.file_id][i] ELSE Zero]
NodeOf(n) ==
  [type |-> fs.ino[n].type,
   names |-> [name \in Name |-> InodeSearch(fs, n, name)],
   data |-> IF fs.ino[n].type = "REG" THEN ContentOf(fs.ino[n]) ELSE <<>>,
   origin |-> IF fs.ino[n].file_id = NoIno THEN <<>> ELSE Server[fs.ino[n].file_id]]
FidOf(i) ==
  LET file == fs.file[fid_list[i]]
  IN  IF fid_list[i] = NoFile THEN [ino |-> NoIno, open |-> "no"]
      ELSE [ino |-> file.ino, open |-> IF file.is_opened THEN file.flags ELSE "no"]

Abstract == INSTANCE FileServer WITH
  node <- [n \in Ino |-> NodeOf(n)],
  fid <- [i \in Fid |-> FidOf(i)],
  asked <- request,
  answer <- reply

\* The device serves one request after the other as a file server does that
\* has all files at hand: names, links, sizes and contents are what the
\* requests before made them, and a request that fails has changed nothing,
\* though files come and go over the network, alone or in archives.
ImplementsFileServer == Abstract!Spec

\* Every request is answered, also the open of a file that has to be fetched
\* and what was submitted while it waited (virtio_9p_open_cb).
RequestsAnswered ==
  \A h \in Desc : request[h] # NoRequest /\ reply[h] = NoReply
                     ~> reply[h] # NoReply
=============================================================================
