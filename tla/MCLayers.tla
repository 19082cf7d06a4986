------------------------------ MODULE MCLayers ------------------------------
(* Two layers over the paths d, d/.b, d/f, f and e, with the whiteouts of   *)
(* three of them and the opaque marker of d; single archives of entries of  *)
(* every type, with relative and absolute links and hard links through      *)
(* them.  ".b" sorts before every marker, "d", "e" and "f" after.           *)
EXTENDS Layers

B == Plain(".b")
D == Plain("d")
E == Plain("e")
F == Plain("f")

MCSorted == <<B, Whiteout(".b"), Opaque, Whiteout("d"), Whiteout("f"), D, E, F>>

Dr(p) == [type |-> "dir", path |-> p, to |-> <<>>, size |-> 0]
Fl(p, n) == [type |-> "file", path |-> p, to |-> <<>>, size |-> n]
Ln(p, to) == [type |-> "link", path |-> p, to |-> to, size |-> 0]
Hd(p, to) == [type |-> "hard", path |-> p, to |-> to, size |-> 0]
Ot(p) == [type |-> "other", path |-> p, to |-> <<>>, size |-> 0]

\* The sequences of at most n of the given entries, in the given order.
Picks(s, n) ==
  {SelectSeq(s, LAMBDA e : e \in S) : S \in {T \in SUBSET Range(s) : Cardinality(T) <= n}}

Lower == Picks(<<Ln(<<D>>, <<E>>), Fl(<<D>>, 0), Fl(<<D, F>>, 1),
                 Fl(<<D, B>>, 0), Fl(<<F>>, 0), Ln(<<F>>, <<D>>)>>, 2)
Upper == Picks(<<Dr(<<D>>), Fl(<<D, F>>, 0), Fl(<<D, B>>, 1), Fl(<<D, Opaque>>, 0),
                 Fl(<<D, Whiteout("f")>>, 0), Fl(<<D, Whiteout(".b")>>, 0),
                 Fl(<<Whiteout("d")>>, 0), Fl(<<Opaque>>, 0), Fl(<<F>>, 2), Ln(<<F>>, <<Root, E>>)>>, 3)
Single == Picks(<<Dr(<<>>), Fl(<<>>, 0), Dr(<<D>>), Fl(<<D, F>>, 1), Ln(<<E>>, <<D>>),
                  Ln(<<E>>, <<Root>>), Ln(<<F>>, Outside), Fl(Outside, 1), Hd(<<E, F>>, <<D, F>>), Hd(<<D, B>>, <<E, F>>),
                  Hd(<<F>>, <<D, F>>), Ot(<<B>>), Fl(<<B>>, 5), Fl(<<B>>, 10),
                  Fl(<<B, F>>, 0)>>, 4)

\* A hard link to a file behind two links.
Chain == <<Fl(<<D, F>>, 1), Ln(<<E>>, <<D>>), Ln(<<F>>, <<E>>), Hd(<<B>>, <<F, F>>)>>

MCHostFiles == {<<Root, F>>}

MCInputs ==
  {[job |-> "layered", tar |-> <<l, u>>] : l \in Lower, u \in Upper}
    \cup {[job |-> j, tar |-> <<s, <<>>>>] : j \in {"flat", "disk"}, s \in Single \cup {Chain}}
=============================================================================
