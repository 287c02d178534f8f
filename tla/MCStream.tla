--------------------------- MODULE MCStream ----------------------------
(* A small instance of Stream. *)
EXTENDS Stream

Machines == {[word |-> w, fast |-> f] : w \in {4, 8}, f \in BOOLEAN}

Run(n, i) == [k \in 1..n |-> i]

\* Codes of dynamic blocks, with what their lengths take in the header.
Short == [lo |-> 1, hi |-> 3, short |-> 2, long |-> 3, off |-> 1, end |-> 3]
Long  == [lo |-> 14, hi |-> 14, short |-> 2, long |-> 14, off |-> 15, end |-> 14]
FewLens  == [explicit |-> 4, items |-> <<1, 1>>]
ManyLens == [explicit |-> 19, items |-> <<14, 14, 7, 14>>]

B(items, codes, lens, apart) ==
  [items |-> items, codes |-> codes, lens |-> lens, apart |-> apart]

\* From 7 literals on an uncompressed block is the cheapest, unless many bits are
\* lost before it; 16 take two of them.
Heads ==
  {B(Run(n, Hi), Long, ManyLens, FALSE) : n \in {7, 8, 16}} \cup
  {B(Run(9, Lo), Short, FewLens, TRUE), B(Run(11, Lo), Short, FewLens, FALSE),
   B(<<Lo, Match(258, 1), Match(257, 257), Lo, Match(11, 385)>>, Long, FewLens, FALSE),
   B(<<Lo, Lo>> \o Run(6, Match(10, 2)), Short, ManyLens, FALSE)}
Tails == {B(Run(n, Hi), Long, ManyLens, FALSE) : n \in {1, 7, 8, 9}} \cup
         {B(<<Lo, Lo, Lo, Match(3, 3)>>, Long, FewLens, TRUE)}

Inputs == {<<>>} \cup {<<b>> : b \in Heads \cup Tails} \cup {<<a, b>> : a \in Heads, b \in Tails}
          \cup {<<a, b, c>> : a, b \in {h \in Heads : Len(h.items) \in {7, 9}}, c \in Tails}

AnySymbol == {Block(t, f) : t \in {"static", "dynamic"}, f \in BOOLEAN} \cup
       {Stored(TRUE, 3), Stored(FALSE, 0)} \cup
       {PreLens(4), PreLens(19), PreItem(5), PreItem(14)} \cup
       {Literal(n) : n \in {8, 11, 15}} \cup {End(7), End(15)} \cup
       {MatchSym(7, 1, 0, 5, 1, 0), MatchSym(15, 28, 30, 15, 29, 3), 
        MatchSym(11, 27, 30, 8, 29, 116), MatchSym(11, 29, 0, 8, 5, 1)}

Long_ == 16500
AnyStreams ==
  {[given |-> g, space |-> s, source |-> <<>>] : g \in {0, 1, 5, 9}, s \in {4}} \cup
  {[given |-> Long_ + 1 + g, space |-> Long_ + s, 
     source |-> <<Stored(FALSE, Long_), Block("static", TRUE)>>] :
     g \in {24, 36}, s \in {262, 302, 310}}

Ends == {-40, -9, -3, -2, -1, 0, 1, 3}
NearEnd == {-2, -1, 0, 1}
Fits == {-1, 0, 320}
=======================================================================
