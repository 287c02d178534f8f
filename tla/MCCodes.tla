---------------------------- MODULE MCCodes ----------------------------
(* Small instances of Codes. *)
EXTENDS Codes

Few == {0, 1, 2, 3, 5, 8}

\* All small alphabets.
SmallInputs ==
  {[lit |-> f, off |-> [y \in 0..1 |-> f[y]], limit |-> limit, min |-> 2] :
     f \in [0..4 -> Few], limit \in {3, 4}}

\* The alphabets of DEFLATE: literals that are as frequent as each other, or a few
\* that are not, the end of block, the length symbols up to last; offset symbols
\* in two runs.
RealInputs ==
  {[lit |-> [y \in 0..287 |-> IF y \in l.used THEN 1 + (y % l.step)
                              ELSE IF y \in 256..last THEN 1 ELSE 0],
    off |-> [y \in 0..31 |-> IF y \in {0, 3} \/ y \in run..29 THEN 1 ELSE 0],
    limit |-> 14, min |-> 257] :
     l \in [used : {0..9, 97..140}, step : {1}] \cup [used : {97..103, 4..24}, step : {4}],
     last \in {256, 268, 285}, run \in {12, 30}}

AllInputs == SmallInputs \cup RealInputs

\* Every five lengths up to four.
AnyLengths == [0..4 -> 0..4]
=======================================================================
