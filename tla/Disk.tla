-------------------------------- MODULE Disk -------------------------------
(***************************************************************************)
(* What a disk behind a queue promises: requests are taken in the order    *)
(* they were submitted, one at a time, each read or write is answered      *)
(* once, in that order, a read returns the sectors as the writes before it *)
(* left them, and nothing but a write changes a sector.  What it takes and *)
(* cannot do is dropped.                                                   *)
(*                                                                         *)
(* A request taken is performed at once or deferred.  What a deferred      *)
(* write leaves in its sectors is not promised.                            *)
(***************************************************************************)
EXTENDS Integers, Sequences

CONSTANTS
  Sector, Data,
  Tag,        \* names of requests
  Request,    \* records of a type, a first sector, n sectors and their data
  Nothing

VARIABLES
  disk,       \* sector -> contents
  readonly,
  queue,      \* submitted, not yet taken
  current,    \* the request deferred, or Nothing
  answers     \* answered, not yet collected

vars == <<disk, readonly, queue, current, answers>>

Init ==
  /\ disk \in [Sector -> Data]
  /\ readonly \in BOOLEAN
  /\ queue = <<>>
  /\ current = Nothing
  /\ answers = <<>>

Sectors(r) == r.sector .. r.sector + r.n - 1

\* Performs r with the data given and answers it.
Answer(t, r, data) ==
  LET result ==
        CASE r.type = "IN" ->
               [status |-> "OK", data |-> [i \in 1 .. r.n |-> disk[r.sector + i - 1]]]
          [] r.type = "OUT" ->
               [status |-> IF readonly THEN "IOERR" ELSE "OK", data |-> <<>>]
  IN  /\ answers' = Append(answers, [tag |-> t, result |-> result])
      /\ disk' = IF r.type = "OUT" /\ ~readonly
                 THEN [s \in Sector |-> IF s \in Sectors(r)
                                        THEN data[s - r.sector + 1] ELSE disk[s]]
                 ELSE disk
      /\ UNCHANGED readonly

Submit(t, r) ==
  /\ queue' = Append(queue, [tag |-> t, req |-> r])
  /\ UNCHANGED <<disk, readonly, current, answers>>

Takes(types) ==
  /\ queue # <<>>
  /\ Head(queue).req.type \in types
  /\ queue' = Tail(queue)

Perform ==
  /\ current = Nothing
  /\ Takes({"IN", "OUT"})
  /\ Answer(Head(queue).tag, Head(queue).req, Head(queue).req.data)
  /\ UNCHANGED current

Defer ==
  /\ current = Nothing
  /\ Takes({"IN", "OUT"})
  /\ current' = Head(queue)
  /\ UNCHANGED <<disk, readonly, answers>>

Complete ==
  /\ current # Nothing
  /\ \E data \in [1 .. current.req.n -> Data] :
       Answer(current.tag, current.req, data)
  /\ current' = Nothing
  /\ UNCHANGED queue

Drop ==
  /\ Takes({"OTHER", "BAD"})
  /\ UNCHANGED <<disk, readonly, current, answers>>

Collect ==
  /\ answers # <<>>
  /\ answers' = Tail(answers)
  /\ UNCHANGED <<disk, readonly, queue, current>>

Reset ==
  /\ current = Nothing
  /\ queue' = <<>>
  /\ answers' = <<>>
  /\ UNCHANGED <<disk, readonly, current>>

Next ==
  \/ \E t \in Tag, r \in Request : Submit(t, r)
  \/ Perform \/ Defer \/ Complete \/ Drop \/ Collect \/ Reset

Spec == Init /\ [][Next]_vars
=============================================================================
