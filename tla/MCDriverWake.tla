----------------------------- MODULE MCDriverWake -----------------------------
(***************************************************************************)
(* A small instance of DriverWake.                                         *)
(***************************************************************************)
EXTENDS DriverWake

CONSTANTS p1, p2

Environment(refuses, efd_faults, beats) ==
  [refuses |-> refuses, efd_faults |-> efd_faults, beats |-> beats]

\* A healthy kernel, one that refuses SQEs, and one where all fails but the heartbeat.
MCEnvironments ==
  {Environment(FALSE, FALSE, FALSE), Environment(TRUE, FALSE, FALSE), Environment(TRUE, TRUE, TRUE)}
===============================================================================
