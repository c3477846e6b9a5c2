---------------------------- MODULE MCMessageIds ----------------------------
(* Instances of MessageIds for TLC.                                        *)
EXTENDS MessageIds, TLC

\* Any thread may send and receive, so threads differ by nothing but identity.
ThreadSymmetry == Permutations(Thread)
=============================================================================
