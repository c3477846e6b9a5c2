----------------------------- MODULE MCOpusFile -----------------------------
(* Files for TLC: packets of size bytes; flush ends a page after it.       *)
EXTENDS OpusFile

P(size, flush) == [size |-> size, flush |-> flush, eos |-> FALSE, trim |-> 0]
E(size, trim)  == [size |-> size, flush |-> TRUE, eos |-> TRUE, trim |-> trim]
S == P(1, TRUE)
L == P(7, TRUE)

\* A page for each packet, small ones and then large ones; pages of several
\* packets; a packet on two pages, alone on the first and after another one;
\* an end that cuts a packet off and half of the one before; a file that is
\* not ended.
Files ==
  { <<S, S, S, S, S, L, L, E(7, 1)>>,
    <<P(1, FALSE), S, P(3, FALSE), P(1, FALSE), S, E(1, 1)>>,
    <<S, P(9, FALSE), S, P(1, FALSE), S>>,
    <<S, P(1, FALSE), P(8, FALSE), S, S, E(1, 0)>>,
    <<S, P(1, FALSE), S, P(1, FALSE), E(1, 3)>> }
=============================================================================
