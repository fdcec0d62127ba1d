-------------------------------- MODULE Ram --------------------------------
(***************************************************************************)
(* What a memory promises: a read returns the bytes last written, and      *)
(* nothing but a write changes a byte.                                     *)
(***************************************************************************)
EXTENDS Integers

CONSTANTS
  Addr,   \* the addresses
  Byte,   \* the values a byte can have
  Zero    \* the value of a byte never written

VARIABLES
  mem,    \* the contents
  last,   \* what the last write wrote, as far as it is remembered
  reply   \* the bytes the last read returned, none once another access began

NoBytes == [a \in {} |-> Zero]

Init ==
  /\ mem = [a \in Addr |-> Zero]
  /\ last = NoBytes
  /\ reply = NoBytes

Write(bytes) ==
  /\ mem' = [a \in Addr |-> IF a \in DOMAIN bytes THEN bytes[a] ELSE mem[a]]
  /\ last' = bytes
  /\ reply' = NoBytes

Read(S) ==
  /\ reply' = [a \in S |-> mem[a]]
  /\ last' = NoBytes
  /\ UNCHANGED mem

\* Forgets the reply, and of the last write all but S.
Forget(S) ==
  /\ last' = [a \in S |-> last[a]]
  /\ reply' = NoBytes
  /\ UNCHANGED mem

Next ==
  \/ \E S \in SUBSET Addr : \E bytes \in [S -> Byte] : Write(bytes)
  \/ \E S \in SUBSET Addr : Read(S)
  \/ \E S \in SUBSET DOMAIN last : Forget(S)

Spec == Init /\ [][Next]_<<mem, last, reply>>
=============================================================================
