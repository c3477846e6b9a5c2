----------------------------- MODULE GranulePos -----------------------------
(***************************************************************************)
(* Arithmetic of granule positions in opusfile.c.  A position is a signed  *)
(* word read as an unsigned one: after MaxGp it goes on at MinGp, and -1,  *)
(* the largest value of all, means that there is none.                     *)
(***************************************************************************)
EXTENDS Integers

CONSTANT MaxGp      \* OP_INT64_MAX

ASSUME MaxGpAssumption == MaxGp \in Nat \ {0}

MinGp == -MaxGp - 1     \* OP_INT64_MIN
NoGp == -1

\* Valid granule positions.
Gp == (MinGp .. MaxGp) \ {NoGp}

\* op_granpos_add: the position delta samples after gp, or NoGp where the code
\* fails.  A sum past either end of the word goes on at the other one.
GranAdd(gp, delta) ==
  IF delta > 0
  THEN IF gp < 0 /\ gp >= -1 - delta THEN NoGp
       ELSE IF gp > MaxGp - delta THEN MinGp + (delta - ((MaxGp - gp) + 1))
       ELSE gp + delta
  ELSE IF delta < 0
  THEN IF gp >= 0 /\ gp < -delta THEN NoGp
       ELSE IF gp < MinGp - delta THEN MaxGp + (delta + ((gp - MinGp) + 1))
       ELSE gp + delta
  ELSE gp

\* op_granpos_diff succeeds, and what it gives then.
HasDiff(a, b) ==
  /\ a < 0 /\ b >= 0 => MaxGp + ((MinGp - a) - 1) >= MaxGp - b
  /\ a >= 0 /\ b < 0 => a + MinGp >= MinGp - (MinGp - b)

GranDiff(a, b) ==
  IF a < 0 /\ b >= 0 THEN (MaxGp - b) - ((MinGp - a) - 1)
  ELSE IF a >= 0 /\ b < 0 THEN (a + MinGp) + (MinGp - b)
  ELSE a - b

\* op_granpos_cmp: a is before b.
GranBefore(a, b) ==
  IF a < 0 /\ b >= 0 THEN FALSE
  ELSE IF a >= 0 /\ b < 0 THEN TRUE
  ELSE a < b

-----------------------------------------------------------------------------
(* The number a position stands for.                                       *)

Value(gp) == IF gp >= 0 THEN gp ELSE gp + 2 * (MaxGp + 1)

\* The last valid position, and the sums op_granpos_add must accept.
Top == 2 * MaxGp
=============================================================================
