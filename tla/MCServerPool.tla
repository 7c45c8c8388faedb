---------------------------- MODULE MCServerPool ----------------------------
(* Instances of ServerPool for TLC.                                        *)
EXTENDS ServerPool

CONSTANTS run1, run2     \* a server and its successor

=============================================================================
