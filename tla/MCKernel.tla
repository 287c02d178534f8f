--------------------------- MODULE MCKernel ---------------------------
(* Small instances of Kernel. *)
EXTENDS Kernel

\* One key; or three in a table of two slots: the first is everybody's, and a
\* program has one more.
OneKey    == {42}
AllOneKey == [t \in Lockers |-> OneKey]

ThreeKeys == {41, 42, 43}
TwoEach   == [t \in Lockers |-> {41, IF t = 2 THEN 43 ELSE 42}]
=======================================================================
