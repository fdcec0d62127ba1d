------------------------------ MODULE MCSlirp ------------------------------
(***************************************************************************)
(* Instance of SlirpNet.                                                   *)
(***************************************************************************)
EXTENDS SlirpNet, TLC

Case(who, up, down, n, fails) ==
    [opens |-> who, up |-> up, down |-> down, faults |-> n, fails |-> fails,
     overruns |-> FALSE]

\* Small connections of either end, with and without a fault, one whose host
\* application may fail, and one whose guest sends more than the window takes.
Connections ==
    {Case("guest", 1, 2, 0, FALSE), Case("guest", 4, 0, 0, FALSE),
     Case("guest", 1, 1, 0, TRUE),
     Case("guest", 1, 1, 1, FALSE), Case("guest", 2, 0, 1, FALSE),
     Case("host", 1, 2, 0, FALSE), Case("host", 1, 1, 1, FALSE),
     Case("host", 0, 2, 1, FALSE),
     [Case("guest", 4, 0, 0, FALSE) EXCEPT !.overruns = TRUE]}

=============================================================================
