-------------------------- MODULE MCXmppConnection --------------------------
(* Instances of XmppConnection for TLC.                                    *)
EXTENDS XmppConnection, TLC

\* Connection objects differ by nothing but their identity.
ConnSymmetry == Permutations(Conn)
=============================================================================
