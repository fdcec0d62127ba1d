---------------------------- MODULE MCHttpStorage ----------------------------
(***************************************************************************)
(* Two devices over HTTP in one run; part says which of them it is about,  *)
(* and the other does not move.                                            *)
(*                                                                         *)
(* 9P: three files of the server, one of them an archive of the others,    *)
(* and programs that each try one part of the file system.                 *)
(* Disk: three blocks of two clusters, a cache of one block, and requests  *)
(* within a cluster, across two, and across two blocks; the wide read goes *)
(* across two clusters of one block.                                       *)
(***************************************************************************)
EXTENDS Virtio9p, BlockNet

VARIABLE part

MCName == {"a", "b", "z", "n"}
MCServer == [i \in 1 .. 3 |-> CASE i = 1 -> <<"p", "q">>
                                [] i = 2 -> <<"r">>
                                [] i = 3 -> <<"p", "q", "r">>]
MCFilelist == <<[name |-> "a", file_id |-> 1], [name |-> "b", file_id |-> 2],
                [name |-> "z", file_id |-> 3]>>
MCPreload == [i \in {1, 2} |->
                IF i = 1 THEN <<[archive |-> TRUE, name |-> "z"]>>
                ELSE <<[archive |-> FALSE, name |-> "a"]>>]
MCArchives == [name \in {"z"} |->
                 <<[name |-> "a", size |-> 2, file_id |-> 1],
                   [name |-> "b", size |-> 1, file_id |-> 2]>>]

Attaching == [op |-> "attach", fid |-> 1]
Walking(i, names) == [op |-> "walk", fid |-> 1, newfid |-> i, names |-> names]
Opening(i, flags, trunc) ==
  [op |-> "lopen", fid |-> i, flags |-> flags, dir |-> FALSE, trunc |-> trunc]
Creating(i, name) == [op |-> "lcreate", fid |-> i, name |-> name, flags |-> "RW"]
Linking(i, name) == [op |-> "link", fid |-> 1, new_fid |-> i, name |-> name]
Renaming(i, name, j, new_name) ==
  [op |-> "renameat", fid |-> i, name |-> name, new_fid |-> j, new_name |-> new_name]
Removing(i, name) == [op |-> "unlinkat", fid |-> i, name |-> name]
Making(op, i, name) == [op |-> op, fid |-> i, name |-> name, type |-> "FIFO"]
Sizing(i, size) == [op |-> "setattr", fid |-> i, size |-> size]
Reading(i) == [op |-> "read", fid |-> i, off |-> 0, count |-> 3]
Writing(i, off) == [op |-> "write", fid |-> i, off |-> off, data |-> <<"x">>]
Listing(i) == [op |-> "readdir", fid |-> i, off |-> 0]
Simple(op, i) == [op |-> op, fid |-> i]
Client(asks, times) == [asks |-> asks, times |-> times]

Linker(times) ==
  Client({Attaching, Walking(2, <<>>), Walking(2, <<"n">>), Creating(2, "n"), Linking(2, "a"),
          Linking(2, "z"), Removing(1, "n"), Removing(1, "z"), Renaming(1, "n", 1, "z"),
          Simple("getattr", 2), Simple("clunk", 2)}, times)
Mover(times) ==
  Client({Attaching, Walking(2, <<"n">>), Making("mkdir", 1, "n"), Making("symlink", 2, "a"),
          Making("mknod", 1, "z"), Renaming(1, "z", 2, "b"), Renaming(2, "a", 1, "z"),
          Removing(1, "n"), Removing(2, "a"), Opening(2, "R", FALSE), Listing(2),
          Simple("readlink", 2), Simple("clunk", 2)}, times)
Writer(times) ==
  Client({Attaching, Walking(2, <<"b">>), Walking(2, <<"z">>), Opening(2, "RW", FALSE), Opening(2, "W", TRUE),
          Sizing(2, 0), Sizing(2, 2), Reading(2), Writing(2, 0), Writing(2, 1), Removing(1, "b"),
          Simple("lock", 2), Simple("clunk", 2)}, times)
Reader(times) ==
  Client({Attaching, Walking(2, <<"a">>), Walking(3, <<"b">>), Opening(2, "R", FALSE),
          Opening(3, "R", FALSE), Reading(2), Reading(3), Sizing(3, 0), Simple("clunk", 2),
          [op |-> "stateless"]}, times)
MCClients ==
  [name \in {"linker", "mover", "writer", "reader"} |->
     CASE name = "linker" -> Linker(7)
       [] name = "mover" -> Mover(7)
       [] name = "writer" -> Writer(7)
       [] name = "reader" -> Reader(8)]

DiskAsk(type, sector, n) == [type |-> type, sector |-> sector, n |-> n, data |-> <<>>]
MCDiskRequests ==
  {DiskAsk("IN", 0, 2), DiskAsk("IN", 2, 2), DiskAsk("IN", 3, 2), DiskAsk("IN", 8, 1),
   DiskAsk("OUT", 1, 2), DiskAsk("OUT", 3, 2), DiskAsk("OUT", 8, 1)}
MCWideRequests == {DiskAsk("IN", 0, 4), DiskAsk("OUT", 3, 1)}
MCPrefetchLists == {<<>>, <<<<0>>>>, <<<<2, 0>>>>, <<<<0, 1>>, <<2>>>>}

IdleDisk == net.transfers = {}
Idle9p == client.name = "linker"

MCInit ==
  /\ Init /\ BlockNetInit
  /\ \/ part = "9p" /\ IdleDisk
     \/ part = "disk" /\ Idle9p

MCNext ==
  \/ part = "9p" /\ Next /\ UNCHANGED <<part, netVars>>
  \/ part = "disk" /\ BlockNetNext /\ UNCHANGED <<part, vars>>

\* In the other part nothing runs, nothing is fetched and no step is enabled.
MCSpec ==
  /\ MCInit
  /\ [][MCNext]_<<part, vars, netVars>>
  /\ HttpFairness
  /\ BlockNetFairness
=============================================================================
