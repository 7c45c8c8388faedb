------------------------------- MODULE MCRio -------------------------------
(* Instances of Rio for TLC.                                               *)
EXTENDS Rio

(* Up to five bytes, with a newline or two anywhere.                       *)
MCStreams ==
  UNION {{[length |-> k, newlines |-> nl] : nl \in SUBSET (0 .. k - 1)} : k \in 0 .. 5}

=============================================================================
