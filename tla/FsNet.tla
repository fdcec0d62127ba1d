------------------------------- MODULE FsNet -------------------------------
(***************************************************************************)
(* The file system that the emulator keeps in memory (fs_net.c), behind    *)
(* the 9P device: inodes with two reference counts, directories, the       *)
(* contents of regular files, and the loading of these.  The content of a  *)
(* file is fetched from a server when it is opened, kept while it fits     *)
(* into the cache, and dropped and fetched again later.  A file that the   *)
(* guest changes is local from then on.  Opening a file may preload        *)
(* others, one by one or as members of an archive fetched as one file.     *)
(*                                                                         *)
(* An operator takes the file system and returns it after the call, or the *)
(* pair of it and a code, "LATER" when fs_open will call back.  The names  *)
(* of the preload tables are those of files in the root directory.         *)
(*                                                                         *)
(* Left out: permissions, owners and times, device numbers, the target of  *)
(* a symbolic link.  A directory entry counts for DirentSize bytes         *)
(* whatever its name, and an inode's number is used again once it is free. *)
(***************************************************************************)
EXTENDS Integers, Sequences, SequencesExt, FiniteSetsExt

CONSTANTS
  Name,       \* file names
  Ino,        \* inodes, 1 the root
  FsFile,     \* objects of type FSFile
  Zero, Junk, \* bytes: 0, and what malloc returns
  BlockSize,  \* fs->block_size
  MaxBlocks,  \* fs->fs_max_blocks
  DirentSize

NoIno == 0
NoFile == 0
Root == 1
Self == "."
Parent == ".."
FileTypes == {"DIR", "REG", "LNK", "FIFO", "CHR", "BLK", "SOCK"}
Flags == {"R", "W", "RW"}  \* how a file is opened

\* The pointers of the code are numbers, and 0 is none of them.
ASSUME InoAssumption ==
  Ino \subseteq Nat /\ IsFiniteSet(Ino) /\ Root \in Ino /\ NoIno \notin Ino
ASSUME FsFileAssumption ==
  FsFile \subseteq Nat /\ IsFiniteSet(FsFile) /\ NoFile \notin FsFile
ASSUME SizesAssumption == BlockSize \in Nat \ {0} /\ DirentSize \in Nat

NoLoad == [type |-> "NONE", members |-> <<>>, cb |-> NoFile]
NoInode == [type |-> "NONE", refcount |-> 0, open_count |-> 0, dents |-> <<>>,
            state |-> "LOCAL", size |-> 0, buf |-> <<>>, file_id |-> NoIno,
            load |-> NoLoad]
ClosedFile == [ino |-> NoIno, is_opened |-> FALSE, flags |-> "R"]

Result(fs, err) == [fs |-> fs, err |-> err]

-----------------------------------------------------------------------------
(* File buffers: the length of the sequence is allocated_size.             *)

Resized(buf, n) == [i \in 1 .. n |-> IF i <= Len(buf) THEN buf[i] ELSE Junk]
Zeroed(buf, off, n) ==
  [i \in DOMAIN buf |-> IF i \in off + 1 .. off + n THEN Zero ELSE buf[i]]
Written(buf, off, data) ==
  [i \in DOMAIN buf |-> IF i \in off + 1 .. off + Len(data) THEN data[i - off] ELSE buf[i]]
BufRead(buf, off, n) == SubSeq(buf, off + 1, off + n)

ToBlocks(size) == (size + BlockSize - 1) \div BlockSize

-----------------------------------------------------------------------------
(* Inodes and directory entries                                            *)

Allocated(fs) == {n \in Ino : fs.ino[n].type # "NONE"}
NewIno(fs) == Min(Ino \ Allocated(fs))
IsType(fs, n, type) == n # NoIno /\ fs.ino[n].type = type

InodeIncref(fs, n) == [fs EXCEPT !.ino[n].refcount = @ + 1]
InodeIncOpen(fs, n) == [fs EXCEPT !.ino[n].open_count = @ + 1]

InodeNew(fs, type) ==
  [fs EXCEPT !.ino[NewIno(fs)] = [NoInode EXCEPT !.type = type, !.refcount = 1]]

\* A directory's size changes by an entry.
DirResize(fs, n, diff) ==
  LET size == fs.ino[n].size
  IN  [fs EXCEPT !.ino[n].size = size + diff,
                 !.blocks = @ + ToBlocks(size + diff) - ToBlocks(size)]

InodeDirAdd(fs, n, name, n1) ==
  DirResize([fs EXCEPT !.ino[n].dents = Append(@, [name |-> name, ino |-> n1])],
            n, DirentSize)

WithoutDent(dents, name) == RemoveFirstMatch(dents, LAMBDA de : de.name = name)
InodeDirentDeleteNoDecref(fs, n, name) ==
  DirResize([fs EXCEPT !.ino[n].dents = WithoutDent(@, name)], n, -DirentSize)

InodeSearch(fs, n, name) ==
  LET named == {k \in DOMAIN fs.ino[n].dents : fs.ino[n].dents[k].name = name}
  IN  IF fs.ino[n].type # "DIR" \/ named = {}
      THEN NoIno ELSE fs.ino[n].dents[Min(named)].ino

IsEmptyDir(fs, n) ==
  \A k \in DOMAIN fs.ino[n].dents : fs.ino[n].dents[k].name \in {Self, Parent}

\* fs_wget_set_error of a file whose content does not come: the assertion is
\* that it was being loaded.  Who waits for it in an open is told.
SetError(fs, n) ==
  LET load == fs.ino[n].load
  IN  [fs EXCEPT !.broken = @ \/ fs.ino[n].state # "LOADING",
                 !.ino[n].state = "UNLOADED", !.ino[n].buf = <<>>,
                 !.ino[n].load = NoLoad,
                 !.called = IF load.cb = NoFile THEN @
                            ELSE Append(@, [file |-> load.cb, err |-> "EIO"])]

\* fs_open_end: a file that comes with an archive leaves the archive's list.
WithoutMember(members, n) == RemoveFirstMatch(members, LAMBDA e : e.ino = n)
LeaveList(fs, archive, n) ==
  [fs EXCEPT !.ino[archive].load.members = WithoutMember(@, n)]
LeaveArchive(fs, n) ==
  [fs EXCEPT !.ino = [archive \in Ino |-> LeaveList(fs, archive, n).ino[archive]]]

\* fs_error_archive
ErrorArchive(fs, n) ==
  FoldLeft(LAMBDA f, m : LeaveArchive(SetError(f, m.ino), m.ino), fs,
           fs.ino[n].load.members)

\* The inode's memory is free; a directory has to be empty (an assertion).
InodeGone(fs, n) ==
  [fs EXCEPT !.ino[n] = NoInode, !.broken = @ \/ fs.ino[n].dents # <<>>]

InodeFree(fs, n) ==
  LET node == fs.ino[n]
      freed == [fs EXCEPT !.blocks = @ - ToBlocks(node.size)]
  IN  InodeGone(
        CASE node.state = "LOADED" ->
               [freed EXCEPT !.cache = RemoveFirst(@, n),
                             !.cache_size = @ - node.size]
          [] node.state = "LOADING" /\ node.load.type = "ARCHIVE" ->
               ErrorArchive(freed, n)
          [] node.state = "LOADING" /\ node.load.type # "ARCHIVE" ->
               LeaveArchive(freed, n)
          [] OTHER -> freed, n)

Unused(fs, n) == fs.ino[n].refcount <= 0 /\ fs.ino[n].open_count <= 0
FreeIfUnused(fs, n) == IF Unused(fs, n) THEN InodeFree(fs, n) ELSE fs
InodeDecref(fs, n) == FreeIfUnused([fs EXCEPT !.ino[n].refcount = @ - 1], n)

\* frees an inode that a directory still names, or keeps one nobody names
InodeDecOpenAlone(fs, n) ==
  LET less == [fs EXCEPT !.ino[n].open_count = @ - 1]
  IN  IF less.ino[n].open_count <= 0 /\ less.ino[n].type = "REG"
         /\ less.ino[n].state = "LOCAL"
      THEN InodeFree(less, n) ELSE less

InodeDecOpen(fs, n) == FreeIfUnused([fs EXCEPT !.ino[n].open_count = @ - 1], n)

InodeDirentDelete(fs, n, name) ==
  InodeDecref(InodeDirentDeleteNoDecref(fs, n, name), InodeSearch(fs, n, name))

FlushDir(fs, n) ==
  FoldLeft(LAMBDA f, de : InodeDirentDelete(f, n, de.name), fs, fs.ino[n].dents)

-----------------------------------------------------------------------------
(* FSFile                                                                  *)

FidCreate(fs, n) ==
  LET f == Min({g \in FsFile : fs.file[g].ino = NoIno})
  IN  [InodeIncOpen(fs, n) EXCEPT !.file[f] = [ClosedFile EXCEPT !.ino = n]]
Created(fs) == Min({g \in FsFile : fs.file[g].ino = NoIno})

FsClose(fs, f) == [fs EXCEPT !.file[f].is_opened = FALSE]

FsDelete(fs, f) ==
  LET n == fs.file[f].ino
  IN  InodeDecOpen([FsClose(fs, f) EXCEPT !.file[f] = ClosedFile], n)

\* Walks as far as the names are found, and a file object for where it gets.
Walked(fs, n, names) ==
  FoldLeft(LAMBDA w, name :
             LET next == InodeSearch(fs, w.ino, name)
             IN  IF w.stop \/ next = NoIno THEN [w EXCEPT !.stop = TRUE]
                 ELSE [w EXCEPT !.ino = next, !.count = @ + 1],
           [ino |-> n, count |-> 0, stop |-> FALSE], names)

-----------------------------------------------------------------------------
CONSTANTS
  Server,     \* file id -> the content the server has for it
  CacheLimit, \* inode_cache_size_limit
  Preload,    \* file id -> what to load with it: [archive, name], in order
  Archives    \* name of an archive -> its files: [name, size, file_id]

\* Files have a length, and the lists of the server are lists.
ASSUME ServerAssumption == \A id \in DOMAIN Server : Len(Server[id]) \in Nat
ASSUME PreloadAssumption ==
  /\ \A id \in DOMAIN Preload : Preload[id] \in Seq(Range(Preload[id]))
  /\ \A name \in DOMAIN Archives : Archives[name] \in Seq(Range(Archives[name]))

-----------------------------------------------------------------------------
(* Names                                                                   *)

FsAttach(fs) == Result(FidCreate(fs, Root), "OK")

\* The number of names found, and a file object for where they lead.
FsWalk(fs, f, names) ==
  LET w == Walked(fs, fs.file[f].ino, names)
  IN  [fs |-> FidCreate(fs, w.ino), count |-> w.count]

MakeDir(fs, dir, n1, name) ==
  InodeDirAdd(InodeDirAdd(InodeDirAdd(InodeIncref(InodeIncref(fs, n1), dir),
    n1, Self, n1), n1, Parent, dir), dir, name, n1)

FsMkdir(fs, f, name) ==
  LET n == fs.file[f].ino
  IN  IF fs.ino[n].type # "DIR" THEN Result(fs, "ENOTDIR")
      ELSE IF InodeSearch(fs, n, name) # NoIno THEN Result(fs, "EEXIST")
      ELSE Result(MakeDir(InodeNew(fs, "DIR"), n, NewIno(fs), name), "OK")

\* fs_symlink, and fs_mknod asked for one of the types it makes (with another it
\* answers EINVAL and changes nothing)
FsMakeNode(fs, f, name, type) ==
  LET n == fs.file[f].ino
  IN  IF InodeSearch(fs, n, name) # NoIno THEN Result(fs, "EEXIST")
      ELSE Result(InodeDirAdd(InodeNew(fs, type), n, name, NewIno(fs)), "OK")

\* The file object moves from the directory to the new file.
FsCreate(fs, f, name, flags) ==
  LET n == fs.file[f].ino
      n1 == NewIno(fs)
      made == InodeDirAdd(InodeNew(FsClose(fs, f), "REG"), n, name, n1)
      moved == [InodeIncOpen(InodeDecOpen(made, n), n1) EXCEPT
                  !.file[f].ino = n1, !.file[f].is_opened = TRUE,
                  !.file[f].flags = flags]
  IN  IF fs.ino[n].type # "DIR" THEN Result(fs, "ENOTDIR")
      ELSE IF InodeSearch(fs, n, name) # NoIno THEN Result(fs, "EEXIST")
      ELSE Result(moved, "OK")

FsLink(fs, df, f, name) ==
  LET n == fs.file[df].ino
      n1 == fs.file[f].ino
  IN  IF fs.ino[n1].type = "DIR" THEN Result(fs, "EPERM")
      ELSE IF InodeSearch(fs, n, name) # NoIno THEN Result(fs, "EEXIST")
      ELSE Result(InodeDirAdd(InodeIncref(fs, n1), n, name, n1), "OK")

FsRenameat(fs, f, name, new_f, new_name) ==
  LET dir == fs.file[f].ino
      new_dir == fs.file[new_f].ino
      n == InodeSearch(fs, dir, name)
      n1 == InodeSearch(fs, new_dir, new_name)
      replaced == IF n1 = NoIno THEN fs
                  ELSE InodeDirentDeleteNoDecref(fs, new_dir, new_name)
      renamed == InodeDirentDelete(
                   InodeDirAdd(InodeIncref(replaced, n), new_dir, new_name, n),
                   dir, name)
  IN  IF n = NoIno THEN Result(fs, "ENOENT")
      ELSE IF IsType(fs, n1, "DIR") THEN Result(fs, "EEXIST")
      ELSE Result(IF n1 = NoIno THEN renamed ELSE InodeDecref(renamed, n1), "OK")

FsUnlinkat(fs, f, name) ==
  LET dir == fs.file[f].ino
      n == InodeSearch(fs, dir, name)
      flushed == IF IsType(fs, n, "DIR") THEN FlushDir(fs, n) ELSE fs
  IN  IF name \in {Self, Parent} \/ n = NoIno THEN Result(fs, "ENOENT")
      ELSE IF IsType(fs, n, "DIR") /\ ~IsEmptyDir(fs, n) THEN Result(fs, "ENOTEMPTY")
      ELSE Result(InodeDirentDelete(flushed, dir, name), "OK")

-----------------------------------------------------------------------------
(* The cache of loaded files                                               *)

LeaveCache(fs, n) ==
  [fs EXCEPT !.cache = RemoveFirst(@, n),
             !.cache_size = @ - fs.ino[n].size]

Unload(fs, n) ==
  LeaveCache([fs EXCEPT !.ino[n].buf = <<>>, !.ino[n].state = "UNLOADED"], n)

\* drops the content of open files too
FsTrimCacheAny(fs, added) ==
  FoldLeft(LAMBDA f, n : IF f.cache_size + added <= CacheLimit THEN f ELSE Unload(f, n),
           fs, Reverse(fs.cache))

\* From the least recently opened; open files stay.
FsTrimCache(fs, added) ==
  FoldLeft(LAMBDA f, n : IF f.cache_size + added <= CacheLimit \/ f.ino[n].open_count # 0
                         THEN f ELSE Unload(f, n),
           fs, Reverse(fs.cache))

\* A file that is modified leaves the cache: its content is nowhere else.
BecomeLocal(fs, n) ==
  IF fs.ino[n].state = "LOADED"
  THEN [LeaveCache(fs, n) EXCEPT !.ino[n].state = "LOCAL"] ELSE fs

-----------------------------------------------------------------------------
(* Contents                                                                *)

FsTruncate(fs, n, size) ==
  LET node == fs.ino[n]
      diff_blocks == ToBlocks(size) - ToBlocks(node.size)
      allocated == Len(node.buf)
      grown == IF size <= allocated THEN node.buf
               ELSE Resized(node.buf, Max({size, (allocated * 5) \div 4}))
      shrunk == IF size > (allocated * 4) \div 5 THEN node.buf
                ELSE Resized(node.buf, (allocated * 4) \div 5)
      buf == IF size > node.size
             THEN Zeroed(grown, node.size, size - node.size) ELSE shrunk
      Sized(f) == [f EXCEPT !.blocks = @ + diff_blocks, !.ino[n].size = size]
  IN  IF node.type # "REG" THEN Result(fs, "EINVAL")
      ELSE IF size = node.size THEN Result(fs, "OK")
      ELSE IF node.state = "LOADING" THEN Result(fs, "EIO")
      ELSE IF node.state = "UNLOADED"
      THEN Result(Sized([fs EXCEPT !.ino[n].state = IF size = 0 THEN "LOCAL" ELSE @]), "OK")
      ELSE IF size > node.size /\ fs.blocks + diff_blocks > MaxBlocks
      THEN Result(fs, "ENOSPC")
      ELSE Result(Sized([BecomeLocal(fs, n) EXCEPT !.ino[n].buf = buf]), "OK")

FsSetattr(fs, f, size) == FsTruncate(fs, fs.file[f].ino, size)

MayRead(fs, f) == fs.file[f].is_opened /\ IsType(fs, fs.file[f].ino, "REG")
                  /\ fs.file[f].flags # "W"
MayWrite(fs, f) == fs.file[f].is_opened /\ IsType(fs, fs.file[f].ino, "REG")
                   /\ fs.file[f].flags # "R"

\* The code of a file not open, or not open this way, or not a file.
Refusal(fs, f) == IF fs.file[f].is_opened THEN "EIO" ELSE "EPROTO"

Reply(err, data) == [err |-> err, data |-> data]

FsRead(fs, f, off, count) ==
  LET node == fs.ino[fs.file[f].ino]
  IN  IF ~MayRead(fs, f) THEN Reply(Refusal(fs, f), <<>>)
      ELSE IF off >= node.size THEN Reply("OK", <<>>)
      ELSE Reply("OK", BufRead(node.buf, off, Min({node.size - off, count})))

\* an overwritten file stays in the cache
FsWriteCached(fs, f, off, data) ==
  LET n == fs.file[f].ino
      end == off + Len(data)
      longer == IF end > fs.ino[n].size THEN FsTruncate(fs, n, end) ELSE Result(fs, "OK")
  IN  IF ~MayWrite(fs, f) THEN Result(fs, Refusal(fs, f))
      ELSE IF longer.err # "OK" THEN longer
      ELSE Result([longer.fs EXCEPT !.ino[n].buf = Written(@, off, data)], "OK")

FsWrite(fs, f, off, data) ==
  LET n == fs.file[f].ino
      end == off + Len(data)
      longer == IF end > fs.ino[n].size THEN FsTruncate(fs, n, end) ELSE Result(fs, "OK")
      local == BecomeLocal(longer.fs, n)
  IN  IF ~MayWrite(fs, f) THEN Result(fs, Refusal(fs, f))
      ELSE IF data = <<>> THEN Result(fs, "OK")
      ELSE IF longer.err # "OK" THEN longer
      ELSE Result([local EXCEPT !.ino[n].buf = Written(@, off, data)], "OK")

\* The entries from an offset on.
FsReaddir(fs, f, off) ==
  LET dents == fs.ino[fs.file[f].ino].dents
  IN  IF ~fs.file[f].is_opened \/ ~IsType(fs, fs.file[f].ino, "DIR") 
      THEN Reply("EPROTO", <<>>)
      ELSE Reply("OK", SubSeq(dents, off + 1, Len(dents)))

FsReadlink(fs, f) == IF IsType(fs, fs.file[f].ino, "LNK") THEN "OK" ELSE "EIO"

FsLock(fs, f) ==
  IF fs.file[f].is_opened /\ IsType(fs, fs.file[f].ino, "REG") THEN "OK" ELSE Refusal(fs, f)

-----------------------------------------------------------------------------
(* Opening and loading                                                     *)

\* fs_open_wget
OpenWget(fs, n, type) ==
  LET trimmed == FsTrimCache(fs, fs.ino[n].size)
  IN  [trimmed EXCEPT !.ino[n].buf = Resized(@, fs.ino[n].size),
                      !.ino[n].state = "LOADING",
                      !.ino[n].load = [NoLoad EXCEPT !.type = type]]

IsUnloaded(fs, n) == IsType(fs, n, "REG") /\ fs.ino[n].state = "UNLOADED"

PreloadFile(fs, name) ==
  LET n == InodeSearch(fs, Root, name)
  IN  IF IsUnloaded(fs, n) THEN OpenWget(fs, n, "REG") ELSE fs

\* Where the k-th file of an archive begins.
Offset(name, k) ==
  FoldLeft(LAMBDA sum, e : sum + e.size, 0, SubSeq(Archives[name], 1, k - 1))

\* One file of an archive that is being loaded: it waits for the archive if
\* it is the file the table says it is, otherwise it is fetched by itself.
AddMember(fs, archive, entry, off) ==
  LET n1 == InodeSearch(fs, Root, entry.name)
  IN  IF ~IsUnloaded(fs, n1) THEN fs
      ELSE IF fs.ino[n1].size = entry.size /\ fs.ino[n1].file_id = entry.file_id
      THEN [OpenWget(fs, n1, "ARCHIVE_FILE") EXCEPT
              !.ino[archive].load.members = Append(@, [ino |-> n1, off |-> off])]
      ELSE PreloadFile(fs, entry.name)

PreloadAlone(fs, files) == FoldLeft(LAMBDA f, e : PreloadFile(f, e.name), fs, files)

AddMembers(fs, n, name) ==
  FoldLeft(LAMBDA f, k : AddMember(f, n, Archives[name][k], Offset(name, k)),
           OpenWget(fs, n, "ARCHIVE"), [k \in DOMAIN Archives[name] |-> k])

PreloadArchive(fs, name) ==
  LET files == Archives[name]
      n == InodeSearch(fs, Root, name)
      wanted == \E k \in DOMAIN files :
                  IsUnloaded(fs, InodeSearch(fs, Root, files[k].name))
      total == Offset(name, Len(files) + 1)
  IN  IF name \notin DOMAIN Archives THEN fs
      ELSE IF ~IsUnloaded(fs, n) \/ (wanted /\ total # fs.ino[n].size)
      THEN PreloadAlone(fs, files)
      ELSE IF ~wanted THEN fs ELSE AddMembers(fs, n, name)

PreloadFiles(fs, file_id) ==
  IF file_id \notin DOMAIN Preload THEN fs
  ELSE FoldLeft(LAMBDA f, e : IF e.archive THEN PreloadArchive(f, e.name)
                              ELSE PreloadFile(f, e.name),
                fs, Preload[file_id])

\* The open is answered when the file has come; one open can wait for it.
WaitFor(fs, f, n) ==
  IF fs.ino[n].load.cb # NoFile THEN Result(fs, "EIO")
  ELSE Result([fs EXCEPT !.ino[n].load.cb = f], "LATER")

Opened(fs, f) == Result([fs EXCEPT !.file[f].is_opened = TRUE], "OK")

ToFront(fs, n) == [fs EXCEPT !.cache = <<n>> \o RemoveFirst(@, n)]

FsOpenRegular(fs, f, n) ==
  CASE fs.ino[n].state = "UNLOADED" ->
         LET loading == PreloadFiles(fs, fs.ino[n].file_id)
         IN  WaitFor(IF loading.ino[n].state = "LOADING" THEN loading
                     ELSE OpenWget(loading, n, "REG"), f, n)
    [] fs.ino[n].state = "LOADING" -> WaitFor(fs, f, n)
    [] fs.ino[n].state = "LOCAL" -> Opened(fs, f)
    [] fs.ino[n].state = "LOADED" -> Opened(ToFront(fs, n), f)

\* What fs_truncate returns is not looked at.
FsOpen(fs, f, flags, dir, trunc) ==
  LET n == fs.file[f].ino
      type == fs.ino[n].type
      closed == FsClose(fs, f)
      flagged == [closed EXCEPT !.file[f].flags = flags]
      cut == IF trunc /\ flags # "R" THEN FsTruncate(flagged, n, 0).fs ELSE flagged
  IN  IF dir /\ type # "DIR" THEN Result(closed, "ENOTDIR")
      ELSE IF type \notin {"REG", "DIR"} THEN Result(closed, "EINVAL")
      ELSE IF type = "DIR" THEN Opened(flagged, f)
      ELSE FsOpenRegular(cut, f, n)

\* fs_open_write_cb, over the whole transfer: what is too much is ignored.
Arrived(fs, n) ==
  LET data == Server[fs.ino[n].file_id]
  IN  [fs EXCEPT !.ino[n].buf =
         Written(@, 0, SubSeq(data, 1, Min({Len(data), fs.ino[n].size})))]

\* At the end of the transfer cur_pos has to be the file's size.
Complete(fs, n) == Len(Server[fs.ino[n].file_id]) >= fs.ino[n].size

\* fs_wget_set_loaded.  The list of the archive is left after the callback.
SetLoaded(fs, n) ==
  LET load == fs.ino[n].load
      loaded == [fs EXCEPT !.broken = @ \/ fs.ino[n].state # "LOADING",
                           !.ino[n].state = "LOADED", !.ino[n].load = NoLoad,
                           !.cache = <<n>> \o @, !.cache_size = @ + fs.ino[n].size]
  IN  IF load.cb = NoFile THEN loaded
      ELSE [loaded EXCEPT !.file[load.cb].is_opened = TRUE,
                          !.called = Append(@, [file |-> load.cb, err |-> "OK"])]

\* fs_read_archive gives a member its part of the archive.
CopyMember(fs, archive, member) ==
  [fs EXCEPT !.ino[member.ino].buf =
     Written(@, 0, BufRead(fs.ino[archive].buf, member.off, fs.ino[member.ino].size))]
=============================================================================
