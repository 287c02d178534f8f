---------------------------- MODULE MCParse ----------------------------
(* A small instance of Parse. *)
EXTENDS Parse

a == 97
b == 98
c == 227

\* Inputs that repeat their pieces, with literals between them.
Pieces == {<<b>>, <<a, a, b>>, <<a, b, b, b>>, <<c, a, a, b, b>>, <<a, a, b, b, b, b>>}
AllInputs == {FlattenSeq(p) : p \in [1..5 -> Pieces]}

AllLevels ==
  {[parser |-> "greedy", depth |-> 6, nice |-> 5],
   [parser |-> "lazy", depth |-> 16, nice |-> 6],
   [parser |-> "lazy2", depth |-> 4, nice |-> 9]}

\* In the window of any position.
Leftovers == {0}

\* With no letter or one only: no match below five bytes.
FewLetters == <<5, 5>>
=======================================================================
