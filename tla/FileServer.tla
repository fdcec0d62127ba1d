----------------------------- MODULE FileServer -----------------------------
(***************************************************************************)
(* What the 9P device promises (virtio.c with fs_net.c): a file server that*)
(* takes requests, serves them one at a time in some order and answers     *)
(* each.  It has all its files, so opening one takes no time; it may still *)
(* fail.  A node exists while a name leads to it or a fid stands for it.   *)
(*                                                                         *)
(* Two liberties are the code's.  A file that is being fetched is opened   *)
(* without being truncated; and a file that was cut before it was fetched  *)
(* shows the server's bytes again, not zeros, when it grows.               *)
(***************************************************************************)
EXTENDS Integers, Sequences, SequencesExt, FiniteSetsExt

CONSTANTS Desc, Fid, Ino, Name, Zero

Root == 1
NoIno == 0
Errors == {"EEXIST", "ENOENT", "ENOTEMPTY", "ENOTDIR", "EPERM", "EINVAL",
           "ENOSPC", "EIO", "EPROTO", "ENOTSUP"}

VARIABLES
  node,    \* Ino -> type, names, data, and what the server has of the data
  fid,     \* Fid -> the node it stands for, and how it is open
  asked,   \* Desc -> request
  answer   \* Desc -> reply

vars == <<node, fid, asked, answer>>

NoNode == [type |-> "NONE", names |-> [n \in Name |-> NoIno], data |-> <<>>, origin |-> <<>>]
NoFid == [ino |-> NoIno, open |-> "no"]
NewNode(type) == [NoNode EXCEPT !.type = type]

Init ==
  /\ node[Root].type = "DIR"
  /\ \A n \in Ino \ {Root} : node[n].type \in {"NONE", "REG"}
  /\ \A n \in Ino : node[n].data = node[n].origin
  /\ fid = [i \in Fid |-> NoFid]
  /\ asked = [h \in Desc |-> [op |-> "none"]]
  /\ answer = [h \in Desc |-> [err |-> "none", data |-> <<>>]]

-----------------------------------------------------------------------------
NodeFor(i) == node[fid[i].ino]
Named(dir, name) == node[fid[dir].ino].names[name]
Exists(dir, name) == Named(dir, name) # NoIno
Links(n) == Cardinality({e \in Ino \X Name : node[e[1]].names[e[2]] = n})

\* Only what a name or a fid leads to is kept.
Kept(nodes, fids) ==
  [n \in Ino |-> IF \/ n = Root
                    \/ \E d \in Ino, name \in Name : nodes[d].names[name] = n
                    \/ \E i \in Fid : fids[i].ino = n
                 THEN nodes[n] ELSE NoNode]

Becomes(nodes, fids) == fid' = fids /\ node' = Kept(nodes, fids)
Nodes(nodes) == Becomes(nodes, fid)
Fids(fids) == Becomes(node, fids)
Same == UNCHANGED <<node, fid>>

\* A file's bytes with another size.
Sized(n, size, back) ==
  [i \in 1 .. size |->
     IF i <= Len(node[n].data) THEN node[n].data[i]
     ELSE IF back /\ i <= Len(node[n].origin) THEN node[n].origin[i] ELSE Zero]

Overwritten(old, off, data) ==
  [i \in 1 .. Max({Len(old), off + Len(data)}) |->
     IF i \in off + 1 .. off + Len(data) THEN data[i - off]
     ELSE IF i <= Len(old) THEN old[i] ELSE Zero]

-----------------------------------------------------------------------------
(* What each request does when it succeeds, with the data answered.        *)

Attach(r, data) ==
  Fids([fid EXCEPT ![r.fid] = [ino |-> Root, open |-> "no"]]) /\ data = <<>>

Walk(r, data) ==
  LET w == FoldLeft(LAMBDA at, name :
                      LET next == node[at.n].names[name]
                      IN  IF at.stop \/ next = NoIno THEN [at EXCEPT !.stop = TRUE]
                          ELSE [at EXCEPT !.n = next, !.count = @ + 1],
                    [n |-> fid[r.fid].ino, count |-> 0, stop |-> FALSE], r.names)
  IN  /\ Fids([fid EXCEPT ![r.newfid] = [ino |-> w.n, open |-> "no"]])
      /\ data = SubSeq(r.names, 1, w.count)

Lopen(r, data) ==
  LET opened == [fid EXCEPT ![r.fid].open = r.flags]
  IN  /\ NodeFor(r.fid).type \in IF r.dir THEN {"DIR"} ELSE {"DIR", "REG"}
      /\ \/ Fids(opened)
         \/ /\ r.trunc /\ r.flags # "R" /\ NodeFor(r.fid).type = "REG"
            /\ Becomes([node EXCEPT ![fid[r.fid].ino].data = <<>>], opened)
      /\ data = <<>>

\* A new node under a name of its own.
Make(r, data, type) ==
  /\ ~Exists(r.fid, r.name)
  /\ \E n \in Ino :
       /\ node[n] = NoNode
       /\ Nodes([node EXCEPT ![n] = NewNode(type), ![fid[r.fid].ino].names[r.name] = n])
  /\ data = <<>>

Lcreate(r, data) ==
  /\ ~Exists(r.fid, r.name)
  /\ \E n \in Ino :
       /\ node[n] = NoNode
       /\ Becomes([node EXCEPT ![n] = NewNode("REG"), ![fid[r.fid].ino].names[r.name] = n],
                  [fid EXCEPT ![r.fid] = [ino |-> n, open |-> r.flags]])
  /\ data = <<>>

Link(r, data) ==
  /\ ~Exists(r.fid, r.name)
  /\ NodeFor(r.new_fid).type # "DIR"
  /\ Nodes([node EXCEPT ![fid[r.fid].ino].names[r.name] = fid[r.new_fid].ino])
  /\ data = <<>>

Renameat(r, data) ==
  LET n == Named(r.fid, r.name)
  IN  /\ n # NoIno
      /\ Exists(r.new_fid, r.new_name) => node[Named(r.new_fid, r.new_name)].type # "DIR"
      /\ Nodes([node EXCEPT ![fid[r.fid].ino].names[r.name] = NoIno,
                            ![fid[r.new_fid].ino].names[r.new_name] = n])
      /\ data = <<>>

Unlinkat(r, data) ==
  /\ Exists(r.fid, r.name)
  /\ \A name \in Name : node[Named(r.fid, r.name)].names[name] = NoIno
  /\ Nodes([node EXCEPT ![fid[r.fid].ino].names[r.name] = NoIno])
  /\ data = <<>>

Getattr(r, data) ==
  LET n == fid[r.fid].ino
  IN  /\ Same
      /\ data[1] = node[n].type
      /\ node[n].type = "REG" => data = <<"REG", Links(n), Len(node[n].data)>>

Setattr(r, data) ==
  /\ NodeFor(r.fid).type = "REG"
  /\ \E back \in BOOLEAN :
       Nodes([node EXCEPT ![fid[r.fid].ino].data = Sized(fid[r.fid].ino, r.size, back)])
  /\ data = <<>>

\* The names of a directory, all of them if it is read from its beginning.
Readdir(r, data) ==
  LET listed == {<<de.name, de.ino>> : de \in ToSet(data)}
      there == {<<name, Named(r.fid, name)>> : name \in {x \in Name : Exists(r.fid, x)}}
  IN  /\ Same
      /\ {e \in listed : e[1] \in Name} \subseteq there
      /\ r.off = 0 => there \subseteq listed

Read(r, data) ==
  /\ fid[r.fid].open \in {"R", "RW"}
  /\ Same
  /\ data = SubSeq(NodeFor(r.fid).data, r.off + 1,
                   Min({Len(NodeFor(r.fid).data), r.off + r.count}))

Write(r, data) ==
  /\ fid[r.fid].open \in {"W", "RW"}
  /\ Nodes([node EXCEPT ![fid[r.fid].ino].data = Overwritten(@, r.off, r.data)])
  /\ data = <<>>

Clunk(r, data) == Fids([fid EXCEPT ![r.fid] = NoFid]) /\ data = <<>>

Effect(r, data) ==
  CASE r.op = "attach" -> Attach(r, data)
    [] r.op = "walk" -> Walk(r, data)
    [] r.op = "lopen" -> Lopen(r, data)
    [] r.op = "lcreate" -> Lcreate(r, data)
    [] r.op = "symlink" -> Make(r, data, "LNK")
    [] r.op = "mknod" -> Make(r, data, r.type)
    [] r.op = "mkdir" -> Make(r, data, "DIR")
    [] r.op = "link" -> Link(r, data)
    [] r.op = "renameat" -> Renameat(r, data)
    [] r.op = "unlinkat" -> Unlinkat(r, data)
    [] r.op = "getattr" -> Getattr(r, data)
    [] r.op = "setattr" -> Setattr(r, data)
    [] r.op = "readdir" -> Readdir(r, data)
    [] r.op = "read" -> Read(r, data)
    [] r.op = "write" -> Write(r, data)
    [] r.op = "clunk" -> Clunk(r, data)
    [] r.op \in {"readlink", "lock", "stateless"} -> Same /\ data = <<>>

-----------------------------------------------------------------------------
(* When a request may fail, which changes nothing                          *)

MayFail(r, err) ==
  CASE err = "EEXIST" ->
         \/ r.op \in {"lcreate", "symlink", "mknod", "mkdir", "link"} /\ Exists(r.fid, r.name)
         \/ r.op = "renameat" /\ Exists(r.new_fid, r.new_name)
    [] err = "ENOENT" -> r.op \in {"renameat", "unlinkat"} /\ ~Exists(r.fid, r.name)
    [] err = "ENOTEMPTY" ->
         r.op = "unlinkat" /\ \E x \in Name : node[Named(r.fid, r.name)].names[x] # NoIno
    [] err = "ENOTDIR" ->
         r.op \in {"mkdir", "lcreate", "lopen"} /\ NodeFor(r.fid).type # "DIR"
    [] err = "EPERM" -> r.op = "link" /\ NodeFor(r.new_fid).type = "DIR"
    [] err = "EINVAL" -> r.op \in {"lopen", "setattr"} /\ NodeFor(r.fid).type # "REG"
    [] err = "ENOSPC" -> r.op \in {"write", "setattr"}
    [] err = "EIO" ->
         \/ r.op = "lopen" /\ NodeFor(r.fid).origin # <<>>
         \/ r.op = "setattr" /\ NodeFor(r.fid).origin # <<>>
         \/ r.op = "read" /\ fid[r.fid].open \notin {"R", "RW"}
         \/ r.op = "write" /\ fid[r.fid].open \notin {"W", "RW"}
         \/ r.op = "readlink" /\ NodeFor(r.fid).type # "LNK"
         \/ r.op \in {"read", "write", "lock"} /\ NodeFor(r.fid).type # "REG"
    [] err = "EPROTO" ->
         \/ r.op \in {"read", "write", "readdir", "lock"} /\ fid[r.fid].open = "no"
         \/ r.op = "readdir" /\ NodeFor(r.fid).type # "DIR"
         \/ r.op = "unknown"
    [] err = "ENOTSUP" -> r.op = "xattrwalk"

Ask(h) ==
  /\ asked[h].op = "none"
  /\ asked' = [asked EXCEPT ![h] = asked'[h]]
  /\ UNCHANGED <<node, fid, answer>>

Serve(h) ==
  LET r == asked[h]
      given == answer'[h]
  IN  /\ r.op # "none"
      /\ answer[h].err = "none"
      /\ \/ given.err = "OK" /\ Effect(r, given.data)
         \/ given.err \in Errors /\ MayFail(r, given.err) /\ Same
      /\ answer' = [answer EXCEPT ![h] = given]
      /\ UNCHANGED asked

Reap(h) ==
  /\ answer[h].err # "none"
  /\ asked' = [asked EXCEPT ![h] = [op |-> "none"]]
  /\ answer' = [answer EXCEPT ![h] = [err |-> "none", data |-> <<>>]]
  /\ UNCHANGED <<node, fid>>

Next == \E h \in Desc : Ask(h) \/ Serve(h) \/ Reap(h)

Spec == Init /\ [][Next]_vars
=============================================================================
