-------------------------- MODULE MCVirtioDevices --------------------------
(***************************************************************************)
(* Three devices in one run; part says which of them it is about, and the  *)
(* others do not move.                                                     *)
(*                                                                         *)
(* Block: two descriptors, indices that wrap after two turns of the rings, *)
(* two sectors, and requests for one and for both.                         *)
(* Console: the same rings; much input, much output, or a little of both   *)
(* with a change of the terminal's size.                                   *)
(* Input: four buffers, fewer than the entries of the longest event.       *)
(***************************************************************************)
EXTENDS VirtioBlock, VirtioConsole, VirtioInput

VARIABLE part

CONSTANTS zero, full  \* contents of a sector

Req(type, sector, data) ==
  [type |-> type, sector |-> sector, n |-> Len(data), data |-> data]

MCRequests ==
  { [Req("IN", 0, <<>>) EXCEPT !.n = 2],
    Req("OUT", 0, <<full, zero>>),
    Req("OUT", 1, <<full>>),
    Req("OTHER", 0, <<>>),
    Req("BAD", 0, <<>>) }

MCTermSize == {[cols |-> 1, rows |-> 1], [cols |-> 2, rows |-> 2]}

MCConsoleBounds ==
  { [input |-> 4, output |-> 0, resizes |-> 0],
    [input |-> 0, output |-> 3, resizes |-> 0],
    [input |-> 1, output |-> 1, resizes |-> 1] }

IdleBlock == bf = BfInit("RO", [s \in Sector |-> zero])
IdleConsole == left.resizes = 1 /\ term_size.cols = 1
IdleInput == input_type = "MOUSE"

MCInit ==
  /\ Init /\ ConsoleInit /\ InputInit
  /\ \/ part = "block" /\ IdleConsole /\ IdleInput
     \/ part = "console" /\ IdleBlock /\ IdleInput
     \/ part = "input" /\ IdleBlock /\ IdleConsole

\* The bounds of the console are used up.
ConsoleQuiet ==
  /\ part = "console"
  /\ left = [input |-> 0, output |-> 0, resizes |-> 0]
  /\ UNCHANGED <<part, vars, consoleVars, inputVars>>

MCNext ==
  \/ ConsoleQuiet
  \/ part = "block" /\ Next /\ UNCHANGED <<part, consoleVars, inputVars>>
  \/ part = "console" /\ ConsoleNext /\ UNCHANGED <<part, vars, inputVars>>
  \/ part = "input" /\ InputNext /\ UNCHANGED <<part, vars, consoleVars>>

\* VirtioBlock's fairness: in the other parts its actions are not enabled.
MCSpec ==
  /\ MCInit
  /\ [][MCNext]_<<part, vars, consoleVars, inputVars>>
  /\ BlockFairness
=============================================================================
