---------------------------- MODULE LayersProofs ----------------------------
(***************************************************************************)
(* Layers, for every number of layers, every set of archives and every     *)
(* budget: what a successful extraction leaves in the rootfs is what the   *)
(* archives describe, and the layers that succeed fit in the budget they   *)
(* share.                                                                  *)
(***************************************************************************)
EXTENDS Layers, TLAPS

Job == {"layered", "flat", "disk"}
Names == Range(Sorted)
EntryRec == [type : {"dir", "file", "link", "hard", "other"}, path : Path, to : Target, size : Nat]

-----------------------------------------------------------------------------
(* The inductive invariants.                                               *)

\* The loops: where each of them is in its archive, and how much of the entry
\* there it still has to read.
LoopOK(i) ==
  /\ pos[i] <= Len(tar[i]) + 1
  /\ pc[i] \in {"load", "read"} => left[i] \in 1 .. Cost(i)
  /\ pc[i] = "entry" => left[i] = 0
  /\ pc[i] = "ok" /\ job # "flat" => AtEnd(i)
  /\ job # "layered" /\ i # 1 => pc[i] = "ok" /\ tar[i] = <<>>

LoopsOK ==
  /\ job \in Job /\ tar \in [Layer -> Seq(EntryRec)] /\ (job # "layered" => 1 \in Layer)
  /\ pc \in [Layer -> {"head", "load", "read", "entry", "ok", "err"}]
  /\ pos \in [Layer -> Nat \ {0}] /\ left \in [Layer -> Nat] /\ remaining \in Int
  /\ \A i \in Layer : LoopOK(i)

\* The units that were taken off the budget, of those the archives take.
Taken ==
  {x \in Units :
     LET i == x[1][1]
         k == x[1][2]
     IN  \/ k < pos[i]
         \/ /\ job # "disk" /\ k = pos[i]
            /\ pc[i] \in {"load", "read", "entry"} /\ x[2] <= Cost(i) - left[i]}

\* Layer i will not succeed once the budget is spent: it failed, or it has to
\* read again.
Doomed(i) ==
  \/ pc[i] \in {"err", "head", "load"}
  \/ pc[i] = "entry" /\ ~AtEnd(i)

\* What was taken and what remains make up no more than the budget.  If all of
\* it was taken, the layer that took the last unit of it still has to look.
BudgetOK ==
  job # "flat" =>
    /\ IsFiniteSet(Taken)
    /\ Cardinality(Taken) + remaining <= MaxSize
    /\ job = "disk" => remaining >= 0
    /\ job = "layered" /\ Cardinality(Taken) >= MaxSize => \E i \in Layer : Doomed(i)

\* A tree: its paths are below the destination, and on the way to each of them
\* are directories.
Node == {Dir} \cup [kind : {"file"}, data : Layer] \cup [kind : {"link"}, to : Target]
WellFormed(t) ==
  \A p \in DOMAIN t :
    /\ p \in Seq(Names) \ {<<>>} /\ t[p] \in Node
    /\ \A q \in Ancestors(p) : q \in DOMAIN t /\ t[q] = Dir

\* The files of tree t are those of layer i.
FilesOf(t, i) == \A p \in DOMAIN t : Is(t, p, "file") => t[p] = File(i)

\* What a loop has extracted is what the entries it is past describe.
TreesOK ==
  /\ tree = [i \in Layer |-> tree[i]]
  /\ \A i \in Layer :
       /\ tree[i] = Tree(SubSeq(tar[i], 1, pos[i] - 1), i)
       /\ WellFormed(tree[i]) /\ FilesOf(tree[i], i)

\* A flat archive none of whose entries are skipped: the budget is looked at
\* after every entry, so it is not spent between two of them.
FlatOK ==
  job = "flat" /\ (\A e \in Range(tar[1]) : e.path # Outside) =>
    /\ pc[1] = "head" \/ (pc[1] = "load" /\ left[1] = Cost(1)) => remaining > 0
    /\ pc[1] = "ok" => AtEnd(1)

Walk(t) == {p \in DOMAIN t : \A q \in Ancestors(p) : ~Marked(q)}

\* What the paths of V, of a layer t, hide of the layers below.
HiddenIn(t, V, p) ==
  \E q \in Prefixes(p) \ {<<>>} :
    \/ Append(Parent(q), Whiteout(Base(q).base)) \in V
    \/ Append(Parent(q), Opaque) \in V
    \/ q \in V /\ ~Marked(q) /\ t[q].kind # "dir"

\* Rootfs r after the paths of V, of a layer t, were applied.
Applied(r, t, V) ==
  [p \in {q \in DOMAIN r : ~HiddenIn(t, V, q)} \cup {q \in V : ~Marked(q)} |->
     IF p \in V THEN t[p] ELSE r[p]]

AllPlain(t) == \A p \in DOMAIN t : \A q \in Prefixes(p) \ {<<>>} : ~Marked(q)

\* In the middle of layer n: of it the paths that WalkDir has visited, those
\* not in remain, were applied to the layers below.
InLayer(n, remain, rootfs) ==
  LET t == Described(n)
      V == Walk(t) \ remain
  IN  /\ remain \subseteq Walk(t)
      /\ \A v \in V, w \in remain : Before(v, w)
      /\ NoneAhead => /\ WellFormed(Composed(n - 1)) /\ AllPlain(Composed(n - 1))
                      /\ rootfs = Applied(Composed(n - 1), t, V)

\* The rootfs, once the archives are extracted.
RootfsOK ==
  /\ phase \in {"extract", "apply", "done", "failed"}
  /\ phase = "extract" => dst = NoFiles /\ cur = 0 /\ todo = {}
  /\ phase \in {"apply", "done"} => \A i \in Layer : pc[i] = "ok"
  /\ phase = "done" /\ job # "layered" => dst = tree[1]
  /\ phase = "apply" => job = "layered"
  /\ phase \in {"apply", "done"} /\ job = "layered" =>
       /\ cur \in 0 .. Cardinality(Layer)
       /\ phase = "done" => cur = Cardinality(Layer) /\ todo = {}
       /\ cur = 0 => todo = {} /\ dst = NoFiles
       /\ cur > 0 => InLayer(cur, todo, dst)

\* The trees and the rootfs are as described if no hard link takes a file of the
\* host.
AllInside == \A i \in Layer : SourcesInside(tar[i])

LayersInv == LoopsOK /\ BudgetOK /\ FlatOK /\ (AllInside => TreesOK /\ RootfsOK)

-----------------------------------------------------------------------------
(* Paths.                                                                  *)

LEMMA NameFacts ==
  /\ Names \subseteq Name
  /\ \A n \in Names : n.mark = "none" => n = Plain(n.base)
  /\ \A n \in Names : n.mark \in {"none", "whiteout", "opaque"} /\ (n.mark = "opaque" <=> n = Opaque)
  /\ Outside \notin Seq(Names)
<1>1. Names \subseteq Name
  BY LayersAssumption DEF Names, Range
<1>2. ASSUME NEW n \in [mark : {"none", "whiteout"}, base : STRING]
      PROVE  n = [mark |-> n.mark, base |-> n.base] /\ n.mark \in {"none", "whiteout"}
  BY Zenon
<1>3. Opaque.mark = "opaque"
  BY DEF Opaque
<1>4. ASSUME NEW n \in Name
      PROVE  /\ n.mark = "none" => n = Plain(n.base)
             /\ n.mark \in {"none", "whiteout", "opaque"} /\ (n.mark = "opaque" <=> n = Opaque)
  <2>1. CASE n = Opaque
    BY <1>3, <2>1
  <2>2. CASE n \in [mark : {"none", "whiteout"}, base : STRING]
    BY <1>2, <1>3, <2>2, Zenon DEF Plain
  <2> QED
    BY <2>1, <2>2 DEF Name
<1>5. Outside \notin Seq(Names)
  <2>1. Len(Outside) = 1 /\ Outside[1].mark = "dotdot"
    BY ZenonT(30) DEF Outside
  <2>2. \A s \in Seq(Names) : Len(s) = 1 => s[1] \in Names
    OBVIOUS
  <2> QED
    BY <1>1, <1>4, <2>1, <2>2
<1> QED
  BY <1>1, <1>4, <1>5, Zenon

LEMMA InPrefixes ==
  ASSUME NEW p \in Seq(Name), NEW q
  PROVE  /\ q \in Prefixes(p) \ {<<>>} <=> \E l \in 1 .. Len(p) : q = SubSeq(p, 1, l)
         /\ q \in Ancestors(p) <=> \E l \in 1 .. Len(p) - 1 : q = SubSeq(p, 1, l)
<1>1. \A l \in 0 .. Len(p) : Len(SubSeq(p, 1, l)) = l
  OBVIOUS
<1>2. SubSeq(p, 1, 0) = <<>> /\ SubSeq(p, 1, Len(p)) = p
  OBVIOUS
<1>3. Len(p) \in Nat /\ Len(<<>>) = 0
  OBVIOUS
<1>4. q \in Prefixes(p) <=> \E l \in 0 .. Len(p) : q = SubSeq(p, 1, l)
  BY Zenon DEF Prefixes
<1>5. \A l \in 0 .. Len(p) : (SubSeq(p, 1, l) = <<>> <=> l = 0) /\ (SubSeq(p, 1, l) = p <=> l = Len(p))
  BY <1>1, <1>2, <1>3, Zenon
<1>6. q \in Prefixes(p) \ {<<>>} <=> \E l \in 1 .. Len(p) : q = SubSeq(p, 1, l)
  <2>1. \A l : l \in 1 .. Len(p) <=> l \in 0 .. Len(p) /\ l # 0
    BY <1>3
  <2> QED
    BY <1>4, <1>5, <2>1, Zenon
<1>7. q \in Ancestors(p) <=> \E l \in 1 .. Len(p) - 1 : q = SubSeq(p, 1, l)
  <2>1. \A l : l \in 1 .. Len(p) - 1 <=> l \in 0 .. Len(p) /\ l # 0 /\ l # Len(p)
    BY <1>3
  <2> QED
    BY <1>4, <1>5, <2>1, Zenon DEF Ancestors
<1> QED
  BY <1>6, <1>7, Zenon

LEMMA StrictPrefixIff ==
  ASSUME NEW p \in Seq(Name), NEW q \in Seq(Name)
  PROVE  IsStrictPrefix(q, p) <=> \E l \in 0 .. Len(p) - 1 : q = SubSeq(p, 1, l)
<1>1. \A l \in 0 .. Len(p) : Len(SubSeq(p, 1, l)) = l
  OBVIOUS
<1>2. Len(p) \in Nat /\ Len(q) \in Nat
  OBVIOUS
<1>3. ASSUME IsStrictPrefix(q, p) PROVE \E l \in 0 .. Len(p) - 1 : q = SubSeq(p, 1, l)
  <2>1. Len(q) \in 0 .. Len(p) - 1
    BY <1>2, <1>3 DEF IsStrictPrefix
  <2> QED
    BY <1>3, <2>1, Zenon DEF IsStrictPrefix
<1>4. ASSUME NEW l \in 0 .. Len(p) - 1, q = SubSeq(p, 1, l) PROVE IsStrictPrefix(q, p)
  <2>1. Len(q) = l /\ l < Len(p)
    BY <1>1, <1>2, <1>4
  <2> QED
    BY <1>4, <2>1, Zenon DEF IsStrictPrefix
<1> QED
  BY <1>3, <1>4, Zenon

LEMMA PrefixFacts ==
  ASSUME NEW p \in Seq(Name)
  PROVE  /\ p # <<>> => Prefixes(p) \ {<<>>} = Ancestors(p) \cup {p}
         /\ p = <<>> => Prefixes(p) \ {<<>>} = {}
         /\ p \notin Ancestors(p)
         /\ \A q \in Prefixes(p) : q \in Seq(Name)
         /\ \A q \in Ancestors(p) : /\ q \in Seq(Name) \ {<<>>} /\ q # p
                                    /\ Ancestors(q) \subseteq Ancestors(p)
                                    /\ p \notin Ancestors(q)
         /\ \A q \in Seq(Name) : q # <<>> => (IsStrictPrefix(q, p) <=> q \in Ancestors(p))
<1>1. Len(p) \in Nat /\ SubSeq(p, 1, Len(p)) = p /\ (p # <<>> <=> Len(p) > 0)
  OBVIOUS
<1>2. \A l \in 0 .. Len(p) : SubSeq(p, 1, l) \in Seq(Name) /\ Len(SubSeq(p, 1, l)) = l
  OBVIOUS
<1>3. p # <<>> => Prefixes(p) \ {<<>>} = Ancestors(p) \cup {p}
  <2> SUFFICES ASSUME p # <<>>, NEW q PROVE q \in Prefixes(p) \ {<<>>} <=> q \in Ancestors(p) \cup {p}
    BY Zenon
  <2> QED
    BY <1>1, InPrefixes
<1>4. p = <<>> => Prefixes(p) \ {<<>>} = {}
  <2>1. \A q \in Prefixes(p) \ {<<>>} : \E l \in 1 .. Len(p) : q = SubSeq(p, 1, l)
    BY InPrefixes, Zenon
  <2>2. Len(p) = 0 => 1 .. Len(p) = {}
    OBVIOUS
  <2> QED
    BY <1>1, <2>1, <2>2, Zenon
<1>5. \A q \in Prefixes(p) : q \in Seq(Name)
  BY <1>2, Zenon DEF Prefixes
<1>6. ASSUME NEW q \in Ancestors(p)
      PROVE  /\ q \in Seq(Name) \ {<<>>} /\ q # p
             /\ Ancestors(q) \subseteq Ancestors(p) /\ p \notin Ancestors(q)
  <2>1. PICK l \in 1 .. Len(p) - 1 : q = SubSeq(p, 1, l)
    BY InPrefixes
  <2>2. q \in Seq(Name) /\ Len(q) = l /\ l \in 0 .. Len(p)
    BY <1>1, <1>2, <2>1
  <2>3. \A m \in 1 .. l - 1 : SubSeq(q, 1, m) = SubSeq(p, 1, m) /\ Len(SubSeq(q, 1, m)) = m
    BY <1>1, <2>1
  <2>4. \A r \in Ancestors(q) : \E m \in 1 .. l - 1 : r = SubSeq(p, 1, m) /\ Len(r) = m
    BY <2>2, <2>3, InPrefixes
  <2>5. Ancestors(q) \subseteq Ancestors(p) /\ p \notin Ancestors(q)
    <3> SUFFICES ASSUME NEW r \in Ancestors(q) PROVE r \in Ancestors(p) /\ r # p
      BY Zenon
    <3>1. PICK m \in 1 .. l - 1 : r = SubSeq(p, 1, m) /\ Len(r) = m
      BY <2>4, Zenon
    <3>2. m \in 1 .. Len(p) - 1 /\ m # Len(p)
      <4>1. \A a \in Nat : \A b \in 1 .. a - 1 : \A c \in 1 .. b - 1 : c \in 1 .. a - 1 /\ c # a
        OBVIOUS
      <4> QED
        BY <1>1, <2>1, <3>1, <4>1, Zenon
    <3> QED
      BY <3>1, <3>2, InPrefixes, Zenon
  <2> QED
    BY <1>1, <2>2, <2>5
<1>7. p \notin Ancestors(p)
  BY <1>6
<1>8. ASSUME NEW q \in Seq(Name), q # <<>> PROVE IsStrictPrefix(q, p) <=> q \in Ancestors(p)
  <2>1. SubSeq(p, 1, 0) = <<>>
    OBVIOUS
  <2>2. (\E l \in 0 .. Len(p) - 1 : q = SubSeq(p, 1, l)) <=> \E l \in 1 .. Len(p) - 1 : q = SubSeq(p, 1, l)
    BY <1>1, <1>8, <2>1
  <2> QED
    <3>1. IsStrictPrefix(q, p) <=> \E l \in 0 .. Len(p) - 1 : q = SubSeq(p, 1, l)
      BY StrictPrefixIff, Zenon
    <3>2. q \in Ancestors(p) <=> \E l \in 1 .. Len(p) - 1 : q = SubSeq(p, 1, l)
      BY InPrefixes, Zenon
    <3> QED
      BY <2>2, <3>1, <3>2, Zenon
<1> QED
  BY <1>3, <1>4, <1>5, <1>6, <1>7, <1>8, Zenon

LEMMA PathFacts ==
  ASSUME NEW p \in Seq(Names)
  PROVE  /\ p # <<>> => Prefixes(p) \ {<<>>} = Ancestors(p) \cup {p}
         /\ p = <<>> => Prefixes(p) \ {<<>>} = {}
         /\ p \notin Ancestors(p)
         /\ \A q \in Prefixes(p) : q \in Seq(Names)
         /\ \A q \in Ancestors(p) : /\ q \in Seq(Names) \ {<<>>} /\ q # p
                                    /\ Ancestors(q) \subseteq Ancestors(p)
                                    /\ p \notin Ancestors(q)
         /\ \A q \in Seq(Names) : q # <<>> => (IsStrictPrefix(q, p) <=> q \in Ancestors(p))
<1>1. Seq(Names) \subseteq Seq(Name)
  BY NameFacts
<1>2. \A l \in 0 .. Len(p) : SubSeq(p, 1, l) \in Seq(Names)
  OBVIOUS
<1>3. \A q \in Prefixes(p) : q \in Seq(Names)
  BY <1>2, Zenon DEF Prefixes
<1>4. Ancestors(p) \subseteq Prefixes(p)
  BY DEF Ancestors
<1>5. p \in Seq(Name)
  BY <1>1, Zenon
<1> QED
  BY <1>1, <1>3, <1>4, <1>5, PrefixFacts, Zenon

LEMMA NodeFacts ==
  /\ \A n \in Node : n.kind \in {"dir", "file", "link"} /\ (n.kind = "dir" <=> n = Dir)
  /\ \A i \in Layer : File(i) \in Node /\ File(i).kind = "file" /\ Dir # File(i)
  /\ \A q \in Target : Link(q) \in Node /\ Link(q).kind = "link" /\ Dir # Link(q)
  /\ Dir \in Node /\ Dir.kind = "dir"
<1>1. Dir \in Node /\ Dir.kind = "dir"
  BY DEF Node, Dir
<1>2. \A i \in Layer : File(i) \in [kind : {"file"}, data : Layer] /\ File(i).kind = "file"
  BY Zenon DEF File
<1>3. \A q \in Target : Link(q) \in [kind : {"link"}, to : Target] /\ Link(q).kind = "link"
  BY DEF Link
<1>4. \A n \in [kind : {"file"}, data : Layer] : n.kind = "file"
  OBVIOUS
<1>5. \A n \in [kind : {"link"}, to : Target] : n.kind = "link"
  BY Zenon
<1> HIDE DEF Dir
<1>6. \A n \in Node : n.kind \in {"dir", "file", "link"} /\ (n.kind = "dir" <=> n = Dir)
  BY <1>1, <1>4, <1>5 DEF Node
<1> QED
  BY <1>1, <1>2, <1>3, <1>6, Zenon DEF Node

LEMMA EndFacts ==
  ASSUME NEW p \in Seq(Name) \ {<<>>}
  PROVE  /\ Parent(p) \in Seq(Name) /\ Base(p) \in Name /\ p = Append(Parent(p), Base(p))
         /\ Len(Parent(p)) = Len(p) - 1 /\ Len(p) \in Nat \ {0}
         /\ Ancestors(p) = Prefixes(Parent(p)) \ {<<>>}
<1>1. Len(p) \in Nat \ {0}
  OBVIOUS
<1>2. Parent(p) \in Seq(Name) /\ Base(p) \in Name /\ Len(Parent(p)) = Len(p) - 1
  <2>1. Parent(p) \in Seq(Name)
    BY <1>1 DEF Parent
  <2>2. Base(p) \in Name
    BY <1>1 DEF Base
  <2>3. Len(Parent(p)) = Len(p) - 1
    <3>1. \A l \in 0 .. Len(p) : Len(SubSeq(p, 1, l)) = l
      OBVIOUS
    <3>2. Len(p) - 1 \in 0 .. Len(p)
      BY <1>1
    <3> QED
      BY <3>1, <3>2, Zenon DEF Parent
  <2> QED
    BY <2>1, <2>2, <2>3
<1>3. p = Append(Parent(p), Base(p))
  BY <1>1 DEF Parent, Base
<1>4. \A l \in 1 .. Len(p) - 1 : SubSeq(Parent(p), 1, l) = SubSeq(p, 1, l)
  BY <1>1 DEF Parent
<1>5. ASSUME NEW q PROVE q \in Ancestors(p) <=> q \in Prefixes(Parent(p)) \ {<<>>}
  <2>1. q \in Ancestors(p) <=> \E l \in 1 .. Len(p) - 1 : q = SubSeq(p, 1, l)
    BY InPrefixes, Zenon
  <2>2. q \in Prefixes(Parent(p)) \ {<<>>} <=> \E l \in 1 .. Len(p) - 1 : q = SubSeq(Parent(p), 1, l)
    BY <1>2, InPrefixes, ZenonT(30)
  <2> QED
    BY <1>4, <2>1, <2>2, Zenon
<1> QED
  BY <1>1, <1>2, <1>3, <1>5

LEMMA AppendEnd ==
  ASSUME NEW f \in Seq(Name), NEW n \in Name
  PROVE  /\ Append(f, n) \in Seq(Name) \ {<<>>} /\ Parent(Append(f, n)) = f /\ Base(Append(f, n)) = n
         /\ Ancestors(Append(f, n)) = Prefixes(f) \ {<<>>}
<1>1. Append(f, n) \in Seq(Name) /\ Append(f, n) # <<>>
  <2>1. Append(f, n) \in Seq(Name)
    OBVIOUS
  <2>2. Len(f) \in Nat /\ Len(Append(f, n)) = Len(f) + 1
    OBVIOUS
  <2>3. Len(Append(f, n)) # 0 /\ Len(<<>>) = 0
    BY <2>2
  <2> QED
    BY <2>1, <2>3, Zenon
<1>2. Parent(Append(f, n)) = f /\ Base(Append(f, n)) = n
  BY DEF Parent, Base
<1> QED
  BY <1>1, <1>2, EndFacts, Zenon

-----------------------------------------------------------------------------
(* The order of the walk.                                                  *)

LEMMA RankFacts ==
  /\ \A n \in Names : Rank(n) \in Nat
  /\ \A m, n \in Names : Rank(m) = Rank(n) => m = n
<1>1. Sorted \in Seq(Name)
  BY LayersAssumption, Zenon
<1>2. DOMAIN Sorted \subseteq Nat
  BY <1>1
<1>3. \A n \in Names : Rank(n) \in DOMAIN Sorted /\ Sorted[Rank(n)] = n
  <2>1. \A n \in Names : \E k \in DOMAIN Sorted : Sorted[k] = n
    BY Zenon DEF Names, Range
  <2> QED
    BY <2>1, Zenon DEF Rank
<1> QED
  BY <1>2, <1>3, Zenon

\* What comes below a name that sorts after a marker is not before the marker.
LEMMA MarkerFirst ==
  ASSUME NEW p \in Seq(Names), NEW v \in Seq(Names), NEW l \in Nat \ {0}, l = Len(p), l <= Len(v),
         SubSeq(v, 1, l - 1) = SubSeq(p, 1, l - 1), Rank(p[l]) < Rank(v[l])
  PROVE  ~Before(v, p)
<1>1. \A k \in 1 .. l - 1 : v[k] = p[k]
  <2> SUFFICES ASSUME NEW k \in 1 .. l - 1 PROVE v[k] = p[k]
    OBVIOUS
  <2>1. SubSeq(v, 1, l - 1)[k] = v[k] /\ SubSeq(p, 1, l - 1)[k] = p[k]
    OBVIOUS
  <2> QED
    BY <2>1, Zenon
<1>2. \A k \in 1 .. l : v[k] \in Names /\ p[k] \in Names
  OBVIOUS
<1>3. ~IsStrictPrefix(v, p)
  <2>1. SubSeq(v, 1, Len(v)) = v /\ SubSeq(p, 1, Len(p)) = p
    OBVIOUS
  <2> QED
    BY <2>1 DEF IsStrictPrefix
<1>4. ASSUME NEW k \in DOMAIN v \cap DOMAIN p, Rank(v[k]) < Rank(p[k]) PROVE FALSE
  <2>1. k \in 1 .. l
    OBVIOUS
  <2>2. Rank(v[k]) \in Nat /\ Rank(p[k]) \in Nat /\ Rank(v[l]) \in Nat /\ Rank(p[l]) \in Nat
    BY <1>2, <2>1, RankFacts
  <2>3. k = l \/ k \in 1 .. l - 1
    BY <2>1
  <2> QED
    BY <1>1, <1>4, <2>2, <2>3
<1> QED
  BY <1>3, <1>4, Zenon DEF Before

\* A directory comes before what is in it.
LEMMA DirectoryFirst ==
  ASSUME NEW p \in Seq(Names), NEW q \in Ancestors(p)
  PROVE  ~Before(p, q)
<1>0. p \in Seq(Name)
  BY NameFacts
<1>1. PICK l \in 1 .. Len(p) - 1 : q = SubSeq(p, 1, l)
  BY <1>0, InPrefixes, Zenon
<1>2. Len(p) \in Nat /\ Len(q) = l /\ q \in Seq(Names) /\ DOMAIN q = 1 .. l
  BY <1>1
<1>3. \A k \in 1 .. l : q[k] = p[k] /\ p[k] \in Names
  BY <1>1
<1>4. ~IsStrictPrefix(p, q)
  BY <1>1, <1>2 DEF IsStrictPrefix
<1>5. ASSUME NEW k \in DOMAIN p \cap DOMAIN q, Rank(p[k]) < Rank(q[k]) PROVE FALSE
  <2>1. q[k] = p[k] /\ Rank(p[k]) \in Nat
    BY <1>2, <1>3, RankFacts, Zenon
  <2> QED
    BY <1>5, <2>1
<1> QED
  BY <1>4, <1>5, Zenon DEF Before

-----------------------------------------------------------------------------
(* Applying a layer: its markers.                                          *)

\* A layer t, the paths V of it that WalkDir has visited, and the rootfs r
\* that the layers below made.
Walking(r, t, V) ==
  /\ WellFormed(t) /\ t = [p \in DOMAIN t |-> t[p]]
  /\ WellFormed(r) /\ r = [p \in DOMAIN r |-> r[p]] /\ AllPlain(r)
  /\ V \subseteq Walk(t)
  /\ \A v \in V, w \in Walk(t) \ V : Before(v, w)

\* WalkDir has visited the directories on the way to what it has visited.
LEMMA VisitedClosed ==
  ASSUME NEW r, NEW t, NEW V, Walking(r, t, V), NEW p \in Walk(t), NEW q \in Ancestors(p),
         p \in V \/ (p \notin V /\ \A w \in Walk(t) \ V : w # p => Before(p, w))
  PROVE  q \in V /\ ~Marked(q) /\ t[q] = Dir
<1>1. p \in DOMAIN t /\ p \in Seq(Names) /\ ~Marked(q)
  BY DEF Walk, WellFormed, Walking
<1>2. q \in DOMAIN t /\ t[q] = Dir /\ Ancestors(q) \subseteq Ancestors(p) /\ q # p
  BY <1>1, PathFacts DEF WellFormed, Walking
<1>3. q \in Walk(t)
  BY <1>2 DEF Walk
<1>4. ~Before(p, q)
  BY <1>1, DirectoryFirst, Zenon
<1> QED
  BY <1>1, <1>2, <1>3, <1>4 DEF Walking

LEMMA PlainIff ==
  ASSUME NEW t, WellFormed(t), NEW p
  PROVE  p \in PlainPaths(t) <=> p \in Walk(t) /\ ~Marked(p)
<1> SUFFICES ASSUME p \in DOMAIN t PROVE p \in PlainPaths(t) <=> p \in Walk(t) /\ ~Marked(p)
  BY Zenon DEF PlainPaths, Walk
<1>1. Prefixes(p) \ {<<>>} = Ancestors(p) \cup {p}
  BY PathFacts DEF WellFormed
<1> QED
  BY <1>1, Zenon DEF PlainPaths, Walk

LEMMA AppliedFacts ==
  ASSUME NEW r, NEW t, NEW V
  PROVE  /\ \A q : q \in DOMAIN Applied(r, t, V) <=>
                     (q \in DOMAIN r /\ ~HiddenIn(t, V, q)) \/ (q \in V /\ ~Marked(q))
         /\ \A q \in DOMAIN Applied(r, t, V) : Applied(r, t, V)[q] = IF q \in V THEN t[q] ELSE r[q]
BY Zenon DEF Applied

LEMMA AppliedWellFormed ==
  ASSUME NEW r, NEW t, NEW V, Walking(r, t, V)
  PROVE  WellFormed(Applied(r, t, V)) /\ AllPlain(Applied(r, t, V))
<1> DEFINE d == Applied(r, t, V)
<1>0. /\ \A q : q \in DOMAIN d <=> (q \in DOMAIN r /\ ~HiddenIn(t, V, q)) \/ (q \in V /\ ~Marked(q))
      /\ \A q \in DOMAIN d : d[q] = IF q \in V THEN t[q] ELSE r[q]
  BY AppliedFacts, Zenon
<1> HIDE DEF d
<1>1. ASSUME NEW p \in DOMAIN d PROVE p \in Seq(Names) \ {<<>>} /\ d[p] \in Node
  BY <1>0 DEF Walking, WellFormed, Walk
<1>2. ASSUME NEW p \in V, ~Marked(p), NEW q \in Ancestors(p) PROVE q \in DOMAIN d /\ d[q] = Dir
  <2>1. q \in V /\ ~Marked(q) /\ t[q] = Dir
    BY VisitedClosed, ZenonT(30) DEF Walking
  <2> QED
    BY <1>0, <2>1, Zenon
<1>3. ASSUME NEW p \in DOMAIN r, ~HiddenIn(t, V, p), NEW q \in Ancestors(p)
      PROVE  q \in DOMAIN d /\ d[q] = Dir
  <2>1. p \in Seq(Names) \ {<<>>} /\ q \in DOMAIN r /\ r[q] = Dir
    BY DEF Walking, WellFormed
  <2>2. q \in Seq(Names) \ {<<>>} /\ Ancestors(q) \subseteq Ancestors(p)
    BY <2>1, PathFacts
  <2>3. Prefixes(q) \ {<<>>} \subseteq Prefixes(p) \ {<<>>} /\ q \in Prefixes(p) \ {<<>>}
    BY <2>1, <2>2, PathFacts
  <2>4. ~HiddenIn(t, V, q)
    BY <1>3, <2>3, Zenon DEF HiddenIn
  <2>5. q \in V => t[q] = Dir
    <3>1. ~Marked(q)
      BY <2>3, Zenon DEF Walking, AllPlain
    <3>2. q \in V => t[q].kind = "dir"
      BY <1>3, <2>3, <3>1, Zenon DEF HiddenIn
    <3>3. q \in V => t[q] \in Node
      BY Zenon DEF Walking, Walk, WellFormed
    <3> QED
      BY <3>2, <3>3, NodeFacts, Zenon
  <2> QED
    BY <1>0, <2>1, <2>4, <2>5, Zenon
<1>4. WellFormed(d)
  BY <1>0, <1>1, <1>2, <1>3 DEF WellFormed
<1>5. AllPlain(d)
  <2>1. \A p \in V : ~Marked(p) => p \in PlainPaths(t)
    BY PlainIff, Zenon DEF Walking
  <2> QED
    BY <1>0, <2>1 DEF AllPlain, Walking, PlainPaths
<1> QED
  BY <1>4, <1>5 DEF d

\* What marker p of a layer hides of the layers below.
Removes(p, q) ==
  IF Base(p).mark = "whiteout" THEN Hides(p) \in Prefixes(q) \ {<<>>}
  ELSE IsStrictPrefix(Parent(p), q)

LEMMA MarkFacts ==
  /\ \A b : /\ Plain(b).mark = "none" /\ Plain(b).base = b
            /\ Whiteout(b).mark = "whiteout" /\ Whiteout(b).base = b
  /\ Opaque \in Name /\ Opaque.mark = "opaque"
  /\ \A n \in Name :
       /\ n.mark \in {"none", "whiteout", "opaque"}
       /\ n.mark = "none" => n = Plain(n.base) /\ Whiteout(n.base) \in Name
       /\ n.mark = "whiteout" => n = Whiteout(n.base) /\ Plain(n.base) \in Name
       /\ n.mark = "opaque" => n = Opaque
<1>1. \A b : /\ Plain(b).mark = "none" /\ Plain(b).base = b
             /\ Whiteout(b).mark = "whiteout" /\ Whiteout(b).base = b
  BY DEF Plain, Whiteout
<1>2. Opaque \in Name /\ Opaque.mark = "opaque"
  BY Zenon DEF Opaque, Name
<1>3. \A n \in [mark : {"none", "whiteout"}, base : STRING] :
        n = [mark |-> n.mark, base |-> n.base] /\ n.base \in STRING /\ n.mark \in {"none", "whiteout"}
  OBVIOUS
<1>4. \A b \in STRING : Plain(b) \in Name /\ Whiteout(b) \in Name
  BY Zenon DEF Plain, Whiteout, Name
<1>5. ASSUME NEW n \in Name
      PROVE  /\ n.mark \in {"none", "whiteout", "opaque"}
             /\ n.mark = "none" => n = Plain(n.base) /\ Whiteout(n.base) \in Name
             /\ n.mark = "whiteout" => n = Whiteout(n.base) /\ Plain(n.base) \in Name
             /\ n.mark = "opaque" => n = Opaque
  <2>1. CASE n = Opaque
    BY <1>2, <2>1
  <2>2. CASE n \in [mark : {"none", "whiteout"}, base : STRING]
    BY <1>3, <1>4, <2>2, Zenon DEF Plain, Whiteout
  <2> QED
    BY <2>1, <2>2, Zenon DEF Name
<1> QED
  BY <1>1, <1>2, <1>5

LEMMA AppendsEqual ==
  ASSUME NEW f \in Seq(Name), NEW n \in Name, NEW p \in Seq(Name) \ {<<>>}
  PROVE  Append(f, n) = p <=> Parent(p) = f /\ Base(p) = n
BY AppendEnd, EndFacts, Zenon

\* The marker p for a name x that has none.
LEMMA MarkerOf ==
  ASSUME NEW p \in Seq(Name) \ {<<>>}, NEW x \in Seq(Name) \ {<<>>}, ~Marked(x)
  PROVE  /\ Append(Parent(x), Whiteout(Base(x).base)) = p <=> Base(p).mark = "whiteout" /\ Hides(p) = x
         /\ Append(Parent(x), Opaque) = p <=> Base(p).mark = "opaque" /\ Parent(p) = Parent(x)
<1>1. /\ Parent(x) \in Seq(Name) /\ Base(x) \in Name /\ Base(x).mark = "none"
      /\ Parent(p) \in Seq(Name) /\ Base(p) \in Name
  BY EndFacts, Zenon DEF Marked
<1>2. Base(x) = Plain(Base(x).base) /\ Whiteout(Base(x).base) \in Name
  BY <1>1, MarkFacts, Zenon
<1>3. Append(Parent(x), Whiteout(Base(x).base)) = p <=> Parent(p) = Parent(x) /\ Base(p) = Whiteout(Base(x).base)
  BY <1>1, <1>2, AppendsEqual, Zenon
<1>4. Append(Parent(x), Opaque) = p <=> Parent(p) = Parent(x) /\ Base(p) = Opaque
  BY <1>1, MarkFacts, AppendsEqual, ZenonT(30)
<1>5. ASSUME Base(p).mark = "whiteout"
      PROVE  Hides(p) = x <=> Parent(p) = Parent(x) /\ Base(p) = Whiteout(Base(x).base)
  <2>1. Hides(p) = Append(Parent(p), Plain(Base(p).base))
    BY <1>5, Zenon DEF Hides
  <2>2. Base(p) = Whiteout(Base(p).base) /\ Plain(Base(p).base) \in Name
    BY <1>1, <1>5, MarkFacts, Zenon
  <2>3. Hides(p) = x <=> Parent(x) = Parent(p) /\ Base(x) = Plain(Base(p).base)
    <3>1. Append(Parent(p), Plain(Base(p).base)) = x <=> Parent(x) = Parent(p) /\ Base(x) = Plain(Base(p).base)
      BY <1>1, <2>2, AppendsEqual, Zenon
    <3> QED
      BY <2>1, <3>1
  <2>4. Base(x) = Plain(Base(p).base) <=> Base(x).base = Base(p).base
    <3>1. Plain(Base(p).base).base = Base(p).base
      BY MarkFacts, Zenon
    <3> QED
      BY <1>2, <3>1
  <2>5. Base(p) = Whiteout(Base(x).base) <=> Base(x).base = Base(p).base
    BY <2>2, MarkFacts, Zenon
  <2> QED
    BY <2>3, <2>4, <2>5, Zenon
<1>6. Base(p) = Opaque <=> Base(p).mark = "opaque"
  BY <1>1, MarkFacts, Zenon
<1>7. Base(p) = Whiteout(Base(x).base) => Base(p).mark = "whiteout"
  <2>1. Whiteout(Base(x).base).mark = "whiteout"
    BY Zenon DEF Whiteout
  <2> QED
    BY <2>1
<1> QED
  BY <1>3, <1>4, <1>5, <1>6, <1>7, Zenon

LEMMA ParentPrefix ==
  ASSUME NEW q \in Seq(Name), NEW f \in Seq(Name)
  PROVE  IsStrictPrefix(f, q) <=> \E x \in Prefixes(q) \ {<<>>} : Parent(x) = f
<1>1. Len(q) \in Nat
  OBVIOUS
<1>2. \A l \in 1 .. Len(q) : Parent(SubSeq(q, 1, l)) = SubSeq(q, 1, l - 1)
  <2> SUFFICES ASSUME NEW l \in 1 .. Len(q) PROVE Parent(SubSeq(q, 1, l)) = SubSeq(q, 1, l - 1)
    OBVIOUS
  <2>1. Len(SubSeq(q, 1, l)) = l /\ SubSeq(SubSeq(q, 1, l), 1, l - 1) = SubSeq(q, 1, l - 1)
    OBVIOUS
  <2> QED
    BY <2>1, Zenon DEF Parent
<1>3. (\E x \in Prefixes(q) \ {<<>>} : Parent(x) = f) <=> \E l \in 1 .. Len(q) : Parent(SubSeq(q, 1, l)) = f
  <2>1. \A x : x \in Prefixes(q) \ {<<>>} <=> \E l \in 1 .. Len(q) : x = SubSeq(q, 1, l)
    BY InPrefixes, Zenon
  <2> QED
    BY <2>1, Zenon
<1>4. (\E l \in 1 .. Len(q) : Parent(SubSeq(q, 1, l)) = f) <=> \E l \in 1 .. Len(q) : SubSeq(q, 1, l - 1) = f
  BY <1>2, Zenon
<1>5. (\E l \in 1 .. Len(q) : SubSeq(q, 1, l - 1) = f) <=> \E l \in 0 .. Len(q) - 1 : f = SubSeq(q, 1, l)
  <2>1. \A l \in 1 .. Len(q) : l - 1 \in 0 .. Len(q) - 1
    BY <1>1
  <2>2. \A l \in 0 .. Len(q) - 1 : l + 1 \in 1 .. Len(q) /\ (l + 1) - 1 = l
    BY <1>1
  <2> QED
    BY <2>1, <2>2, Zenon
<1> QED
  BY <1>3, <1>4, <1>5, StrictPrefixIff, Zenon

\* Whether a marker hides a path: there is a name on the way to the path that
\* the marker is for.
LEMMA RemovesIff ==
  ASSUME NEW p \in Seq(Name) \ {<<>>}, Marked(p), NEW q \in Seq(Name),
         \A x \in Prefixes(q) \ {<<>>} : ~Marked(x)
  PROVE  Removes(p, q) <=> \E x \in Prefixes(q) \ {<<>>} :
                             \/ Append(Parent(x), Whiteout(Base(x).base)) = p
                             \/ Append(Parent(x), Opaque) = p
<1>1. \A x \in Prefixes(q) \ {<<>>} : x \in Seq(Name) \ {<<>>}
  BY PrefixFacts, Zenon
<1>2. \A x \in Prefixes(q) \ {<<>>} :
        /\ Append(Parent(x), Whiteout(Base(x).base)) = p <=> Base(p).mark = "whiteout" /\ Hides(p) = x
        /\ Append(Parent(x), Opaque) = p <=> Base(p).mark = "opaque" /\ Parent(p) = Parent(x)
  BY <1>1, MarkerOf, Zenon
<1>3. Base(p) \in Name /\ Parent(p) \in Seq(Name)
  BY EndFacts, Zenon
<1>4. Base(p).mark \in {"whiteout", "opaque"}
  BY <1>3, MarkFacts DEF Marked
<1>5. CASE Base(p).mark = "whiteout"
  BY <1>2, <1>5 DEF Removes
<1>6. CASE Base(p).mark = "opaque"
  <2>1. Removes(p, q) <=> IsStrictPrefix(Parent(p), q)
    BY <1>6 DEF Removes
  <2> QED
    BY <1>2, <1>3, <1>6, <2>1, ParentPrefix, Zenon
<1> QED
  BY <1>4, <1>5, <1>6, Zenon

LEMMA HiddenMore ==
  ASSUME NEW r, NEW t, NEW V, Walking(r, t, V), NEW p \in Walk(t), Marked(p), NEW q \in DOMAIN r
  PROVE  HiddenIn(t, V \cup {p}, q) <=> HiddenIn(t, V, q) \/ Removes(p, q)
<1>1. p \in Seq(Name) \ {<<>>} /\ q \in Seq(Name)
  BY NameFacts DEF Walking, Walk, WellFormed
<1>2. \A x \in Prefixes(q) \ {<<>>} : ~Marked(x)
  BY Zenon DEF Walking, AllPlain
<1>3. Removes(p, q) <=> \E x \in Prefixes(q) \ {<<>>} :
                          \/ Append(Parent(x), Whiteout(Base(x).base)) = p
                          \/ Append(Parent(x), Opaque) = p
  BY <1>1, <1>2, RemovesIff, Zenon
<1> QED
  BY <1>2, <1>3, Zenon DEF HiddenIn

\* A marker hides nothing that WalkDir has visited before it: a marker that
\* covers a path of its layer is visited first.
LEMMA KeepsVisited ==
  ASSUME NEW r, NEW t, NEW V, Walking(r, t, V), NEW p \in Walk(t) \ V, Marked(p),
         NEW v \in V, ~Marked(v), ~AheadOfMarker(t, v)
  PROVE  ~Removes(p, v)
<1>0. /\ p \in Seq(Names) \ {<<>>} /\ p \in DOMAIN t /\ v \in Seq(Names) \ {<<>>}
      /\ v \in Walk(t) /\ Before(v, p)
  BY DEF Walking, Walk, WellFormed
<1>1. p \in Seq(Name) \ {<<>>} /\ v \in Seq(Name) \ {<<>>}
  BY <1>0, NameFacts
<1>2. \A x \in Prefixes(v) \ {<<>>} : ~Marked(x)
  BY <1>0, PlainIff, Zenon DEF Walking, PlainPaths
<1>3. SUFFICES ASSUME NEW x \in Prefixes(v) \ {<<>>},
                      \/ Append(Parent(x), Whiteout(Base(x).base)) = p
                      \/ Append(Parent(x), Opaque) = p
               PROVE  FALSE
  BY <1>1, <1>2, RemovesIff, Zenon
<1>4. x \in Seq(Name) \ {<<>>}
  BY <1>1, PrefixFacts, Zenon
<1>5. Parent(p) = Parent(x) /\ Base(p) \in {Whiteout(Base(x).base), Opaque}
  <2>1. Whiteout(Base(x).base) \in Name /\ Opaque \in Name /\ Parent(x) \in Seq(Name)
    BY <1>2, <1>4, EndFacts, MarkFacts, Zenon DEF Marked
  <2> QED
    BY <1>1, <1>3, <2>1, AppendsEqual
<1>6. p = Append(Parent(x), Base(p))
  BY <1>1, <1>5, EndFacts
<1>7. ~(Rank(Base(x)) < Rank(Base(p)))
  BY <1>0, <1>5, <1>6, ZenonT(30) DEF AheadOfMarker
<1>8. Base(x) # Base(p)
  BY <1>2 DEF Marked
<1>9. PICK l \in 1 .. Len(v) : x = SubSeq(v, 1, l)
  BY <1>1, InPrefixes, Zenon
<1>10. Len(x) = l /\ Base(x) = v[l] /\ Parent(x) = SubSeq(v, 1, l - 1) /\ Len(v) \in Nat
  BY <1>9 DEF Base, Parent
<1>11. Len(p) = l
  <2>1. Len(p) - 1 = Len(x) - 1 /\ Len(p) \in Nat /\ Len(x) \in Nat
    BY <1>1, <1>4, <1>5, EndFacts
  <2> QED
    BY <1>10, <2>1
<1>12. Base(p) = p[l] /\ Parent(p) = SubSeq(p, 1, l - 1)
  BY <1>11 DEF Base, Parent
<1>13. p[l] \in Names /\ v[l] \in Names
  BY <1>0, <1>11
<1>14. Rank(p[l]) < Rank(v[l])
  BY <1>7, <1>8, <1>10, <1>12, <1>13, RankFacts
<1>15. ~Before(v, p)
  <2>1. l \in Nat \ {0} /\ l <= Len(v) /\ l = Len(p)
    BY <1>10, <1>11
  <2>2. SubSeq(v, 1, l - 1) = SubSeq(p, 1, l - 1)
    BY <1>5, <1>10, <1>12, Zenon
  <2> QED
    BY <1>0, <1>14, <2>1, <2>2, MarkerFirst, Zenon
<1> QED
  BY <1>0, <1>15

LEMMA ApplyMarker ==
  ASSUME NEW r, NEW t, NEW V, Walking(r, t, V), NEW p \in Walk(t) \ V, Marked(p),
         \A v \in V : ~Marked(v) => ~AheadOfMarker(t, v)
  PROVE  ApplyPath(Applied(r, t, V), t, p) = Applied(r, t, V \cup {p})
<1> DEFINE d == Applied(r, t, V)
           e == Applied(r, t, V \cup {p})
<1>0. WellFormed(d) /\ AllPlain(d)
  BY AppliedWellFormed, Zenon
<1>1. /\ \A q : q \in DOMAIN d <=> (q \in DOMAIN r /\ ~HiddenIn(t, V, q)) \/ (q \in V /\ ~Marked(q))
      /\ \A q \in DOMAIN d : d[q] = IF q \in V THEN t[q] ELSE r[q]
  BY AppliedFacts, Zenon
<1>2. /\ \A q : q \in DOMAIN e <=> (q \in DOMAIN r /\ ~HiddenIn(t, V \cup {p}, q)) \/ (q \in V \cup {p} /\ ~Marked(q))
      /\ \A q \in DOMAIN e : e[q] = IF q \in V \cup {p} THEN t[q] ELSE r[q]
  BY AppliedFacts, Zenon
<1>3. d = [q \in DOMAIN d |-> d[q]] /\ e = [q \in DOMAIN e |-> e[q]]
  BY Zenon DEF Applied
<1> HIDE DEF d, e
<1>4. p \in Seq(Name) \ {<<>>}
  BY NameFacts DEF Walking, Walk, WellFormed
<1>5. \A q \in DOMAIN r : HiddenIn(t, V \cup {p}, q) <=> HiddenIn(t, V, q) \/ Removes(p, q)
  BY HiddenMore, Zenon
<1>6. \A q \in V : ~Marked(q) => ~Removes(p, q)
  BY KeepsVisited, Zenon
<1>7. \A q : q \in DOMAIN e <=> q \in DOMAIN d /\ ~Removes(p, q)
  BY <1>1, <1>2, <1>5, <1>6, Zenon
<1>8. \A q \in DOMAIN d : q \in Seq(Name) \ {<<>>} /\ ~Marked(q) /\ q # p
  <2>1. \A q \in DOMAIN d : q \in Seq(Name) \ {<<>>}
    BY <1>0, NameFacts DEF WellFormed
  <2>2. \A q \in DOMAIN d : q \in Prefixes(q) \ {<<>>}
    BY <2>1, PrefixFacts, ZenonT(30)
  <2> QED
    BY <1>0, <2>1, <2>2, Zenon DEF AllPlain
<1>9. \A q \in DOMAIN e : e[q] = d[q]
  BY <1>1, <1>2, <1>7, <1>8, Zenon
<1>10. ASSUME NEW S, \A q \in DOMAIN d : q \in S <=> Removes(p, q)
       PROVE  Without(d, S) = e
  <2>1. DOMAIN e = DOMAIN d \ S
    BY <1>7, <1>10
  <2> QED
    BY <1>3, <1>9, <2>1, Zenon DEF Without
<1>11. Base(p).mark \in {"whiteout", "opaque"} /\ Parent(p) \in Seq(Name)
  <2>1. Base(p) \in Name /\ Parent(p) \in Seq(Name)
    BY <1>4, EndFacts, Zenon
  <2> QED
    BY <2>1, MarkFacts, Zenon DEF Marked
<1>12. CASE Base(p).mark = "opaque"
  <2>1. ApplyPath(d, t, p) = Without(d, Below(d, Parent(p)))
    BY <1>12 DEF ApplyPath, applyOpaqueWhiteout, Hides, Marked
  <2>2. \A q \in DOMAIN d : q \in Below(d, Parent(p)) <=> Removes(p, q)
    BY <1>12, Zenon DEF Below, Removes
  <2> QED
    BY <1>10, <2>1, <2>2, Zenon DEF d, e
<1>13. CASE Base(p).mark = "whiteout"
  <2> DEFINE h == Hides(p)
  <2>1. h \in Seq(Name) \ {<<>>}
    <3>1. Plain(Base(p).base) \in Name
      BY <1>4, <1>13, EndFacts, MarkFacts, Zenon
    <3> QED
      BY <1>11, <1>13, <3>1, AppendEnd, Zenon DEF Hides
  <2> HIDE DEF h
  <2>2. ApplyPath(d, t, p) = applyWhiteout(d, h)
    BY <1>13, Zenon DEF ApplyPath, Marked, h
  <2>3. \A q \in DOMAIN d : Removes(p, q) <=> q = h \/ h \in Ancestors(q)
    <3>1. \A q \in DOMAIN d : Removes(p, q) <=> h \in Prefixes(q) \ {<<>>}
      BY <1>13, Zenon DEF Removes, h
    <3>2. \A q \in DOMAIN d : Prefixes(q) \ {<<>>} = Ancestors(q) \cup {q}
      BY <1>8, PrefixFacts, Zenon
    <3> QED
      BY <3>1, <3>2, Zenon
  <2>4. CASE SafeWalk(d, h) = "missing"
    <3>1. PICK a \in Ancestors(h) : a \notin DOMAIN d
      BY <2>4 DEF SafeWalk
    <3>2. ASSUME NEW q \in DOMAIN d, q = h \/ h \in Ancestors(q) PROVE FALSE
      <4>1. a \in Ancestors(q)
        BY <1>8, <3>1, <3>2, PrefixFacts
      <4> QED
        BY <1>0, <3>1, <4>1, Zenon DEF WellFormed
    <3>3. Without(d, {}) = e
      BY <1>10, <2>3, <3>2
    <3>4. Without(d, {}) = d
      BY <1>3 DEF Without
    <3> QED
      BY <2>2, <2>4, <3>3, <3>4, Zenon DEF applyWhiteout, d, e
  <2>5. CASE SafeWalk(d, h) # "missing"
    <3>1. ApplyPath(d, t, p) = Without(d, {h} \cup Below(d, h))
      BY <2>2, <2>5 DEF applyWhiteout
    <3>2. \A q \in DOMAIN d : IsStrictPrefix(h, q) <=> h \in Ancestors(q)
      BY <1>8, <2>1, PrefixFacts, Zenon
    <3>3. \A q \in DOMAIN d : q \in {h} \cup Below(d, h) <=> Removes(p, q)
      BY <2>3, <3>2 DEF Below
    <3> QED
      BY <1>10, <3>1, <3>3, Zenon DEF d, e
  <2> QED
    BY <2>4, <2>5
<1> QED
  BY <1>11, <1>12, <1>13

LEMMA HiddenByNode ==
  ASSUME NEW r, NEW t, NEW V, Walking(r, t, V), NEW p \in Walk(t), ~Marked(p), NEW q \in DOMAIN r
  PROVE  HiddenIn(t, V \cup {p}, q) <=>
           HiddenIn(t, V, q) \/ (p \in Prefixes(q) \ {<<>>} /\ t[p].kind # "dir")
<1>1. p \in Seq(Name) \ {<<>>} /\ q \in Seq(Name)
  BY NameFacts DEF Walking, Walk, WellFormed
<1>2. \A x \in Prefixes(q) \ {<<>>} : ~Marked(x) /\ x \in Seq(Name) \ {<<>>}
  BY <1>1, PrefixFacts, Zenon DEF Walking, AllPlain
<1>3. \A x \in Prefixes(q) \ {<<>>} :
        Append(Parent(x), Whiteout(Base(x).base)) # p /\ Append(Parent(x), Opaque) # p
  <2> SUFFICES ASSUME NEW x \in Prefixes(q) \ {<<>>}
               PROVE  Append(Parent(x), Whiteout(Base(x).base)) # p /\ Append(Parent(x), Opaque) # p
    BY Zenon
  <2>1. /\ Append(Parent(x), Whiteout(Base(x).base)) = p => Base(p).mark = "whiteout"
        /\ Append(Parent(x), Opaque) = p => Base(p).mark = "opaque"
    BY <1>1, <1>2, MarkerOf, Zenon
  <2> QED
    BY <2>1 DEF Marked
<1> QED
  BY <1>3, Zenon DEF HiddenIn

-----------------------------------------------------------------------------
(* The layers up to the next one.                                          *)

LEMMA ComposedNone == Composed(0) = NoFiles
<1>1. Shown(0) = {}
  BY DEF Shown
<1> QED
  BY <1>1 DEF Composed, NoFiles

LEMMA AppliedNone ==
  ASSUME NEW r, NEW t, r = [p \in DOMAIN r |-> r[p]]
  PROVE  Applied(r, t, {}) = r
<1>1. {q \in DOMAIN r : ~HiddenIn(t, {}, q)} \cup {q \in {} : ~Marked(q)} = DOMAIN r
  BY DEF HiddenIn
<1> QED
  BY <1>1 DEF Applied

\* After a whole layer, its paths hide what they should.
LEMMA HiddenByAll ==
  ASSUME NEW t, WellFormed(t), NEW q \in Seq(Name), \A x \in Prefixes(q) \ {<<>>} : ~Marked(x)
  PROVE  HiddenIn(t, Walk(t), q) <=> HiddenBy(t, q)
<1>1. ASSUME NEW x \in Prefixes(q) \ {<<>>}
      PROVE  /\ Append(Parent(x), Whiteout(Base(x).base)) \in Walk(t) <=>
                  Append(Parent(x), Whiteout(Base(x).base)) \in DOMAIN t
             /\ Append(Parent(x), Opaque) \in Walk(t) <=> Append(Parent(x), Opaque) \in DOMAIN t
             /\ x \in Walk(t) /\ ~Marked(x) <=> x \in PlainPaths(t)
  <2>1. x \in Seq(Name) \ {<<>>} /\ q # <<>>
    BY PrefixFacts
  <2>2. Ancestors(x) \subseteq Prefixes(q) \ {<<>>}
    BY <1>1, <2>1, PrefixFacts
  <2>3. /\ Parent(x) \in Seq(Name) /\ Whiteout(Base(x).base) \in Name /\ Opaque \in Name
        /\ Ancestors(x) = Prefixes(Parent(x)) \ {<<>>}
    BY <2>1, EndFacts, MarkFacts, Zenon DEF Marked
  <2>4. \A m \in Name : Ancestors(Append(Parent(x), m)) = Ancestors(x)
    BY <2>3, AppendEnd, Zenon
  <2>5. \A m \in Name : Append(Parent(x), m) \in Walk(t) <=> Append(Parent(x), m) \in DOMAIN t
    BY <2>2, <2>4, Zenon DEF Walk
  <2>6. x \in Walk(t) /\ ~Marked(x) <=> x \in PlainPaths(t)
    BY PlainIff, Zenon
  <2> QED
    BY <2>3, <2>5, <2>6, Zenon
<1> QED
  BY <1>1, Zenon DEF HiddenIn, HiddenBy

LEMMA ShownNext ==
  ASSUME NEW n \in Nat \ {0}, NEW p
  PROVE  p \in Shown(n) <=> \/ p \in Shown(n - 1) /\ ~HiddenBy(Described(n), p)
                            \/ p \in PlainPaths(Described(n))
<1> DEFINE P(i) == p \in PlainPaths(Described(i))
           H(j) == HiddenBy(Described(j), p)
<1>1. \A m : p \in Shown(m) <=> \E i \in 1 .. m : P(i) /\ \A j \in i + 1 .. m : ~H(j)
  BY DEF Shown
<1>2. /\ \A i : i \in 1 .. n <=> i \in 1 .. n - 1 \/ i = n
      /\ n + 1 .. n = {}
  OBVIOUS
<1>3. \A i \in 1 .. n - 1 : \A j : j \in i + 1 .. n <=> j \in i + 1 .. n - 1 \/ j = n
  OBVIOUS
<1> HIDE DEF P, H
<1>4. p \in Shown(n) <=> \/ \E i \in 1 .. n - 1 : P(i) /\ \A j \in i + 1 .. n : ~H(j)
                         \/ P(n)
  <2>1. p \in Shown(n) <=> \E i \in 1 .. n : P(i) /\ \A j \in i + 1 .. n : ~H(j)
    BY <1>1, Zenon
  <2>2. \A j \in n + 1 .. n : ~H(j)
    BY <1>2, Zenon
  <2> QED
    BY <1>2, <2>1, <2>2
<1>5. (\E i \in 1 .. n - 1 : P(i) /\ \A j \in i + 1 .. n : ~H(j)) <=>
        (\E i \in 1 .. n - 1 : P(i) /\ \A j \in i + 1 .. n - 1 : ~H(j)) /\ ~H(n)
  BY <1>3, Zenon
<1>6. p \in Shown(n) <=> (p \in Shown(n - 1) /\ ~H(n)) \/ P(n)
  BY <1>1, <1>4, <1>5, Zenon
<1> QED
  BY <1>6, Zenon DEF P, H

LEMMA HighestNext ==
  ASSUME NEW n \in Nat \ {0}, NEW p
  PROVE  /\ p \in PlainPaths(Described(n)) => Highest(n, p) = {n}
         /\ p \notin PlainPaths(Described(n)) => Highest(n, p) = Highest(n - 1, p)
<1> DEFINE P(i) == p \in PlainPaths(Described(i))
<1>1. \A m, i : i \in Highest(m, p) <=> i \in 1 .. m /\ P(i) /\ \A j \in i + 1 .. m : ~P(j)
  BY Zenon DEF Highest
<1>2. /\ \A i : i \in 1 .. n <=> i \in 1 .. n - 1 \/ i = n
      /\ n + 1 .. n = {} /\ n \notin 1 .. n - 1
  OBVIOUS
<1>3. \A i \in 1 .. n - 1 : \A j : j \in i + 1 .. n <=> j \in i + 1 .. n - 1 \/ j = n
  OBVIOUS
<1> HIDE DEF P
<1>4. ASSUME P(n) PROVE \A i : i \in Highest(n, p) <=> i = n
  BY <1>1, <1>2, <1>3, <1>4, ZenonT(30)
<1>5. ASSUME ~P(n) PROVE \A i : i \in Highest(n, p) <=> i \in Highest(n - 1, p)
  <2>1. \A i : i \in Highest(n, p) <=> i \in 1 .. n - 1 /\ P(i) /\ \A j \in i + 1 .. n : ~P(j)
    BY <1>1, <1>2, <1>5, Zenon
  <2>2. \A i \in 1 .. n - 1 : (\A j \in i + 1 .. n : ~P(j)) <=> \A j \in i + 1 .. n - 1 : ~P(j)
    BY <1>3, <1>5, Zenon
  <2> QED
    BY <1>1, <2>1, <2>2, Zenon
<1>6. P(n) => Highest(n, p) = {n}
  BY <1>4
<1>7. ~P(n) => Highest(n, p) = Highest(n - 1, p)
  BY <1>5, Zenon
<1> QED
  BY <1>6, <1>7, Zenon DEF P

LEMMA ComposedNext ==
  ASSUME NEW n \in Nat \ {0}, WellFormed(Described(n)),
         WellFormed(Composed(n - 1)), AllPlain(Composed(n - 1))
  PROVE  Composed(n) = Applied(Composed(n - 1), Described(n), Walk(Described(n)))
<1> DEFINE t == Described(n)
           c == Composed(n - 1)
           e == Applied(c, t, Walk(t))
<1>1. /\ \A q : q \in DOMAIN e <=> (q \in DOMAIN c /\ ~HiddenIn(t, Walk(t), q)) \/ (q \in Walk(t) /\ ~Marked(q))
      /\ \A q \in DOMAIN e : e[q] = IF q \in Walk(t) THEN t[q] ELSE c[q]
  BY AppliedFacts, ZenonT(30)
<1>2. e = [q \in DOMAIN e |-> e[q]]
  BY Zenon DEF Applied
<1>3. DOMAIN c = Shown(n - 1) /\ DOMAIN Composed(n) = Shown(n)
  BY Zenon DEF Composed
<1>4. \A p \in Shown(n - 1) : c[p] = Described(CHOOSE i \in Highest(n - 1, p) : TRUE)[p]
  BY Zenon DEF Composed
<1>5. WellFormed(t) /\ WellFormed(c) /\ AllPlain(c)
  BY Zenon
<1>6. Composed(n) = [p \in Shown(n) |-> Described(CHOOSE i \in Highest(n, p) : TRUE)[p]]
  BY Zenon DEF Composed
<1>7. \A p : p \in Shown(n) <=> (p \in Shown(n - 1) /\ ~HiddenBy(t, p)) \/ p \in PlainPaths(t)
  BY ShownNext, Zenon
<1>8. \A p : /\ p \in PlainPaths(t) => Highest(n, p) = {n}
             /\ p \notin PlainPaths(t) => Highest(n, p) = Highest(n - 1, p)
  BY HighestNext, Zenon
<1>9. Described(n) = t
  BY Zenon
<1> HIDE DEF t, c, e
<1>10. \A q \in DOMAIN c : q \in Seq(Name) /\ \A x \in Prefixes(q) \ {<<>>} : ~Marked(x)
  BY <1>5, NameFacts DEF WellFormed, AllPlain
<1>11. \A q \in DOMAIN c : HiddenIn(t, Walk(t), q) <=> HiddenBy(t, q)
  BY <1>5, <1>10, HiddenByAll, Zenon
<1>12. \A q : q \in PlainPaths(t) <=> q \in Walk(t) /\ ~Marked(q)
  BY <1>5, PlainIff, Zenon
<1>13. DOMAIN e = Shown(n)
  <2>1. \A q : q \in DOMAIN e <=> q \in Shown(n)
    BY <1>1, <1>3, <1>7, <1>11, <1>12, Zenon
  <2> QED
    BY <2>1, Zenon
<1>14. ASSUME NEW p \in Shown(n) PROVE e[p] = Described(CHOOSE i \in Highest(n, p) : TRUE)[p]
  <2>1. CASE p \in PlainPaths(t)
    <3>1. (CHOOSE i \in {n} : TRUE) = n
      OBVIOUS
    <3> QED
      BY <1>1, <1>8, <1>9, <1>12, <1>13, <2>1, <3>1, Zenon
  <2>2. CASE p \notin PlainPaths(t)
    <3>1. p \in Shown(n - 1) /\ Highest(n, p) = Highest(n - 1, p)
      BY <1>7, <1>8, <2>2, Zenon
    <3>2. p \notin Walk(t)
      <4>1. p \in Prefixes(p) \ {<<>>}
        BY <1>3, <1>5, <3>1, PathFacts DEF WellFormed
      <4> QED
        BY <1>3, <1>10, <1>12, <2>2, <3>1, <4>1, Zenon
    <3>3. e[p] = c[p]
      BY <1>1, <1>13, <3>2
    <3> QED
      BY <1>4, <3>1, <3>3, Zenon
  <2> QED
    BY <2>1, <2>2
<1> QED
  BY <1>2, <1>6, <1>13, <1>14, Zenon DEF e, c, t

-----------------------------------------------------------------------------
(* The loops.                                                              *)

LEMMA EntryFacts ==
  ASSUME LoopsOK, NEW i \in Layer
  PROVE  /\ tar[i] \in Seq(EntryRec) /\ Len(tar[i]) \in Nat
         /\ AtEnd(i) \in BOOLEAN
         /\ ~AtEnd(i) => Entry(i) \in EntryRec /\ pos[i] \in 1 .. Len(tar[i])
         /\ Cost(i) \in Nat \ {0}
<1>1. tar[i] \in Seq(EntryRec) /\ pos[i] \in Nat \ {0}
  BY DEF LoopsOK
<1>2. Len(tar[i]) \in Nat
  BY <1>1
<1>3. ~AtEnd(i) => Entry(i) \in EntryRec /\ pos[i] \in 1 .. Len(tar[i])
  BY <1>1, <1>2 DEF AtEnd, Entry
<1>4. ~AtEnd(i) => Entry(i).size \in Nat
  BY <1>3, Zenon DEF EntryRec
<1>5. QED
  BY <1>1, <1>2, <1>3, <1>4 DEF AtEnd, Cost

LEMMA LoopsInit == Init => LoopsOK
<1> SUFFICES ASSUME Init PROVE LoopsOK
  BY Zenon
<1>1. PICK in \in Inputs : job = in.job /\ tar = in.tar
  BY DEF Init
<1>2. /\ job \in Job /\ tar \in [Layer -> Seq(EntryRec)]
      /\ job # "layered" => 1 \in Layer /\ \A i \in Layer \ {1} : tar[i] = <<>>
  BY <1>1, LayersAssumption, ZenonT(30) DEF Job, EntryRec
<1>3. /\ pc \in [Layer -> {"head", "load", "read", "entry", "ok", "err"}]
      /\ pos \in [Layer -> Nat \ {0}] /\ left \in [Layer -> Nat] /\ remaining \in Int
  BY LayersAssumption DEF Init
<1>4. ASSUME NEW i \in Layer PROVE LoopOK(i)
  <2>1. tar[i] \in Seq(EntryRec) /\ Len(tar[i]) \in Nat
    BY <1>2
  <2>2. pos[i] = 1 /\ pc[i] = IF job = "layered" \/ i = 1 THEN "head" ELSE "ok"
    BY Zenon DEF Init
  <2>3. pc[i] = "ok" => AtEnd(i)
    BY <1>2, <2>2 DEF AtEnd
  <2> QED
    BY <1>2, <2>1, <2>2, <2>3 DEF LoopOK
<1> QED
  BY <1>2, <1>3, <1>4 DEF LoopsOK

\* The ways out of the loop's body, other than failing: the end of the
\* archive, an entry that is skipped, and one that is extracted.
EndStep(i) ==
  /\ AtEnd(i) /\ pc' = [pc EXCEPT ![i] = "ok"]
  /\ UNCHANGED <<tree, pos, left, remaining>>
SkipStep(i) ==
  /\ ~AtEnd(i) /\ Entry(i).path = Outside
  /\ pos' = [pos EXCEPT ![i] = @ + 1] /\ pc' = [pc EXCEPT ![i] = "head"]
  /\ UNCHANGED <<tree, left, remaining>>
ExtractStep(i) ==
  /\ ~AtEnd(i) /\ Entry(i).path # Outside /\ ~OverBudget(i)
  /\ IF job = "disk" THEN CanExtractDisk(tree[i], Entry(i)) ELSE CanExtract(tree[i], Entry(i))
  /\ tree' = [tree EXCEPT ![i] = Extract(@, Entry(i), i)]
  /\ remaining' = IF job = "disk" /\ Entry(i).type = "file"
                    THEN remaining - Entry(i).size ELSE remaining
  /\ pos' = [pos EXCEPT ![i] = @ + 1] /\ pc' = [pc EXCEPT ![i] = "head"]
  /\ UNCHANGED left

LEMMA LoopBodyCases ==
  ASSUME NEW i \in Layer, LoopBody(i)
  PROVE  /\ pc[i] = "entry" /\ UNCHANGED <<job, tar, dst, cur, todo, phase>>
         /\ Fail(i) \/ EndStep(i) \/ SkipStep(i) \/ ExtractStep(i)
<1>1. pc[i] = "entry" /\ UNCHANGED <<job, tar, dst, cur, todo, phase>>
  BY Zenon DEF LoopBody
<1>2. CASE AtEnd(i)
  BY <1>2, Zenon DEF LoopBody, EndStep
<1>3. CASE ~AtEnd(i) /\ Entry(i).path = Outside
  BY <1>3, Zenon DEF LoopBody, SkipStep
<1>4. CASE ~AtEnd(i) /\ Entry(i).path # Outside
  BY <1>4, Zenon DEF LoopBody, ExtractStep
<1> QED
  BY <1>1, <1>2, <1>3, <1>4, Zenon

LEMMA LoopsNext == LoopsOK /\ [Next]_vars => LoopsOK'
<1> SUFFICES ASSUME LoopsOK, [Next]_vars PROVE LoopsOK'
  OBVIOUS
<1> USE DEF LoopsOK
<1>1. ASSUME NEW i \in Layer, LoopHead(i) \/ Load(i) \/ Read(i) \/ LoopBody(i) PROVE LoopsOK'
  <2>1. UNCHANGED <<job, tar>>
    BY <1>1 DEF LoopHead, Load, Read, LoopBody, Fail
  <2>2. /\ pc' \in [Layer -> {"head", "load", "read", "entry", "ok", "err"}]
        /\ pos' \in [Layer -> Nat \ {0}] /\ left' \in [Layer -> Nat] /\ remaining' \in Int
    <3>1. CASE LoopHead(i)
      BY <3>1, EntryFacts, ZenonT(30) DEF LoopHead, Fail
    <3>2. CASE Load(i)
      BY <3>2, ZenonT(30) DEF Load, Fail
    <3>3. CASE Read(i)
      <4>1. left[i] - 1 \in Nat
        BY <3>3, EntryFacts DEF LoopOK, Read
      <4> QED
        BY <3>3, <4>1 DEF Read
    <3>4. CASE LoopBody(i)
      <4>1. ~AtEnd(i) => Entry(i).size \in Nat
        BY EntryFacts, Zenon DEF EntryRec
      <4>2. CASE Fail(i)
        BY <4>2 DEF Fail
      <4>3. CASE EndStep(i)
        BY <4>3, Zenon DEF EndStep
      <4>4. CASE SkipStep(i)
        BY <4>4 DEF SkipStep
      <4>5. CASE ExtractStep(i)
        BY <4>1, <4>5, SMTT(30) DEF ExtractStep
      <4> QED
        BY <3>4, <4>2, <4>3, <4>4, <4>5, LoopBodyCases
    <3> QED
      BY <1>1, <3>1, <3>2, <3>3, <3>4, Zenon
  <2>3. ASSUME NEW j \in Layer, j # i PROVE LoopOK(j)'
    <3>1. pc'[j] = pc[j] /\ pos'[j] = pos[j] /\ left'[j] = left[j]
      BY <1>1, <2>3 DEF LoopHead, Load, Read, LoopBody, Fail
    <3> QED
      BY <2>1, <3>1, Zenon DEF LoopOK, AtEnd, Cost, Entry
  <2>4. LoopOK(i)'
    <3>0. job # "layered" /\ i # 1 => pc[i] = "ok"
      BY SMTT(30) DEF LoopOK
    <3>1. CASE LoopHead(i)
      BY <2>1, <3>0, <3>1, EntryFacts DEF LoopHead, Fail, LoopOK, AtEnd, Cost, Entry
    <3>2. CASE Load(i)
      BY <2>1, <3>0, <3>2, EntryFacts DEF Load, Fail, LoopOK, AtEnd, Cost, Entry
    <3>3. CASE Read(i)
      BY <2>1, <3>0, <3>3, EntryFacts DEF Read, LoopOK, AtEnd, Cost, Entry
    <3>4. CASE LoopBody(i)
      BY <2>1, <3>0, <3>4, EntryFacts DEF LoopBody, Fail, LoopOK, AtEnd, Cost
    <3> QED
      BY <1>1, <3>1, <3>2, <3>3, <3>4, Zenon
  <2> QED
    BY <2>1, <2>2, <2>3, <2>4, Zenon
<1>2. CASE Cancel \/ Extracted \/ NextLayer \/ Apply \/ UNCHANGED vars
  <2>1. UNCHANGED <<job, tar, pc, pos, left, remaining>>
    BY <1>2 DEF Cancel, Extracted, NextLayer, Apply, vars
  <2> QED
    BY <2>1, Zenon DEF LoopOK, AtEnd, Cost, Entry
<1> QED
  BY <1>1, <1>2, Zenon DEF Next

LEMMA InputFixed == [Next]_vars => UNCHANGED <<job, tar>>
BY Zenon DEF Next, LoopHead, Load, Read, LoopBody, Cancel, Extracted, NextLayer, Apply, vars

LEMMA FlatInit == Init => FlatOK
<1> SUFFICES ASSUME Init, job = "flat"
             PROVE  remaining > 0 /\ pc[1] # "ok"
  BY Zenon DEF FlatOK
<1>1. 1 \in Layer
  BY LoopsInit DEF LoopsOK
<1> QED
  BY <1>1, LayersAssumption DEF Init

LEMMA FlatNext == LoopsOK /\ FlatOK /\ [Next]_vars => FlatOK'
<1> SUFFICES ASSUME LoopsOK, FlatOK, [Next]_vars, job' = "flat",
                    \A e \in Range(tar'[1]) : e.path # Outside
             PROVE  /\ pc'[1] = "head" \/ (pc'[1] = "load" /\ left'[1] = Cost(1)') => remaining' > 0
                    /\ pc'[1] = "ok" => AtEnd(1)'
  BY Zenon DEF FlatOK
<1>1. job' = job /\ tar' = tar
  BY InputFixed, Zenon
<1>2. /\ pc[1] = "head" \/ (pc[1] = "load" /\ left[1] = Cost(1)) => remaining > 0
      /\ pc[1] = "ok" => AtEnd(1)
  BY <1>1, Zenon DEF FlatOK
<1>4. \A i \in Layer \ {1} : pc[i] = "ok"
  BY <1>1 DEF LoopsOK, LoopOK
<1>5. remaining \in Int
  BY Zenon DEF LoopsOK
<1>6. ASSUME NEW i \in Layer, pc[i] # "ok" PROVE i = 1
  BY <1>4, <1>6
<1>7. ASSUME NEW i \in Layer, LoopHead(i) PROVE FlatOK'
  BY <1>1, <1>2, <1>6, <1>7, Zenon DEF LoopHead, Fail, LoopsOK, FlatOK, Cost, AtEnd, Entry
<1>8. ASSUME NEW i \in Layer, Load(i) PROVE FlatOK'
  BY <1>1, <1>2, <1>5, <1>6, <1>8 DEF Load, Fail, LoopsOK, FlatOK, Cost, AtEnd, Entry
<1>9. ASSUME NEW i \in Layer, Read(i) PROVE FlatOK'
  <2>1. i = 1 /\ left[1] \in 1 .. Cost(1) /\ Cost(1)' = Cost(1) /\ Cost(1) \in Nat
    BY <1>1, <1>6, <1>9, EntryFacts, Zenon DEF Read, LoopsOK, LoopOK, Cost, AtEnd, Entry
  <2>2. left'[1] # Cost(1) /\ pc'[1] \in {"entry", "load"}
    BY <1>9, <2>1 DEF Read, LoopsOK
  <2> QED
    BY <2>1, <2>2 DEF FlatOK
<1>10. ASSUME NEW i \in Layer, LoopBody(i) PROVE FlatOK'
  <2>1. i = 1
    BY <1>6, <1>10 DEF LoopBody
  <2>2. CASE Fail(i)
    BY <2>1, <2>2, Zenon DEF Fail, FlatOK, LoopsOK
  <2>3. CASE EndStep(i)
    BY <1>1, <2>1, <2>3 DEF EndStep, FlatOK, LoopsOK, AtEnd
  <2>4. CASE SkipStep(i)
    <3>1. Entry(1) \in Range(tar[1]) /\ Entry(1).path = Outside
      BY <1>10, <2>1, <2>4, EntryFacts DEF SkipStep, Entry, Range
    <3> QED
      BY <1>1, <3>1, Zenon
  <2>5. CASE ExtractStep(i)
    BY <1>1, <1>5, <2>1, <2>5, SMTT(30) DEF ExtractStep, FlatOK, LoopsOK, OverBudget
  <2> QED
    BY <1>10, <2>2, <2>3, <2>4, <2>5, LoopBodyCases, Zenon
<1>11. CASE Cancel \/ Extracted \/ NextLayer \/ Apply \/ UNCHANGED vars
  BY <1>11, <1>2, <1>1 DEF Cancel, Extracted, NextLayer, Apply, vars, FlatOK, Cost, AtEnd, Entry
<1> QED
  BY <1>7, <1>8, <1>9, <1>10, <1>11, <1>1, Zenon DEF Next, FlatOK

-----------------------------------------------------------------------------
(* What a step takes off the budget.                                       *)

LEMMA ChargeFacts ==
  ASSUME LoopsOK, NEW i \in Layer
  PROVE  /\ \A k \in DOMAIN tar[i] : Charge(tar[i][k]) \in Nat
         /\ ~AtEnd(i) => pos[i] \in DOMAIN tar[i] /\ Charge(Entry(i)) \in Nat
         /\ ~AtEnd(i) /\ job # "disk" => Charge(Entry(i)) = Cost(i)
<1>1. tar[i] \in Seq(EntryRec) /\ pos[i] \in Nat \ {0}
  BY Zenon DEF LoopsOK
<1>2. \A k \in DOMAIN tar[i] : tar[i][k] \in EntryRec
  BY <1>1
<1>3. \A e \in EntryRec : Charge(e) \in Nat
  BY DEF EntryRec, Charge
<1>4. ~AtEnd(i) => pos[i] \in DOMAIN tar[i]
  BY <1>1 DEF AtEnd
<1>5. ~AtEnd(i) /\ job # "disk" => Charge(Entry(i)) = Cost(i)
  BY DEF Charge, Cost
<1> QED
  BY <1>2, <1>3, <1>4, <1>5, Zenon DEF Entry

\* Membership of Taken, unit by unit.
Off(i, k, u) ==
  \/ k < pos[i]
  \/ /\ job # "disk" /\ k = pos[i]
     /\ pc[i] \in {"load", "read", "entry"} /\ u <= Cost(i) - left[i]

Unit(i, k, u) == i \in Layer /\ k \in DOMAIN tar[i] /\ u \in 1 .. Charge(tar[i][k])

TakenByUnit ==
  /\ \A x \in Taken : \E i, k, u : x = <<<<i, k>>, u>> /\ Unit(i, k, u) /\ Off(i, k, u)
  /\ \A i, k, u : Unit(i, k, u) /\ Off(i, k, u) => <<<<i, k>>, u>> \in Taken

LEMMA UnitForm == \A x : x \in Units <=> \E i, k, u : x = <<<<i, k>>, u>> /\ Unit(i, k, u)
<1> DEFINE Of(i, k) == {<<i, k>>} \X (1 .. Charge(tar[i][k]))
<1>1. \A x, i, k : x \in Of(i, k) <=> \E u \in 1 .. Charge(tar[i][k]) : x = <<<<i, k>>, u>>
  OBVIOUS
<1>2. \A x : x \in Units <=> \E i \in Layer : x \in UNION {Of(i, k) : k \in DOMAIN tar[i]}
  BY DEF Units
<1>3. \A x, i : x \in UNION {Of(i, k) : k \in DOMAIN tar[i]} <=> \E k \in DOMAIN tar[i] : x \in Of(i, k)
  BY Zenon
<1> HIDE DEF Of
<1>4. ASSUME NEW x \in Units PROVE \E i, k, u : x = <<<<i, k>>, u>> /\ Unit(i, k, u)
  <2>1. PICK i \in Layer : \E k \in DOMAIN tar[i] : x \in Of(i, k)
    BY <1>2, <1>3
  <2>2. PICK k \in DOMAIN tar[i] : x \in Of(i, k)
    BY <2>1
  <2>3. PICK u \in 1 .. Charge(tar[i][k]) : x = <<<<i, k>>, u>>
    BY <1>1, <2>2
  <2> QED
    BY <2>3, Zenon DEF Unit
<1>5. ASSUME NEW x, NEW i, NEW k, NEW u, x = <<<<i, k>>, u>>, Unit(i, k, u) PROVE x \in Units
  <2>1. x \in Of(i, k)
    BY <1>1, <1>5, Zenon DEF Unit
  <2> QED
    BY <1>2, <1>3, <1>5, <2>1, Zenon DEF Unit
<1> QED
  BY <1>4, <1>5, Zenon

LEMMA TakenForm == TakenByUnit
<1>1. ASSUME NEW x \in Taken
      PROVE  \E i, k, u : x = <<<<i, k>>, u>> /\ Unit(i, k, u) /\ Off(i, k, u)
  <2>1. PICK i, k, u : x = <<<<i, k>>, u>> /\ Unit(i, k, u)
    BY UnitForm, Zenon DEF Taken
  <2>2. x[1][1] = i /\ x[1][2] = k /\ x[2] = u
    BY <2>1
  <2>3. Off(i, k, u)
    BY <2>2, Zenon DEF Taken, Off
  <2> QED
    BY <2>1, <2>3
<1>2. ASSUME NEW i, NEW k, NEW u, Unit(i, k, u), Off(i, k, u)
      PROVE  <<<<i, k>>, u>> \in Taken
  <2>1. <<<<i, k>>, u>> \in Units
    BY <1>2, UnitForm
  <2>2. <<<<i, k>>, u>>[1][1] = i /\ <<<<i, k>>, u>>[1][2] = k /\ <<<<i, k>>, u>>[2] = u
    BY Zenon
  <2> QED
    BY <1>2, <2>1, <2>2 DEF Taken, Off
<1> QED
  BY <1>1, <1>2 DEF TakenByUnit

LEMMA TakenInit == Init => Taken = {}
<1> SUFFICES ASSUME Init PROVE Taken = {}
  BY Zenon
<1>1. ASSUME NEW i, NEW k, NEW u, Unit(i, k, u) PROVE ~Off(i, k, u)
  <2>1. tar[i] \in Seq(EntryRec)
    BY <1>1, LoopsInit, Zenon DEF LoopsOK, Unit
  <2>2. k \in Nat \ {0}
    BY <1>1, <2>1 DEF Unit
  <2> QED
    BY <1>1, <2>2 DEF Init, Off, Unit
<1> QED
  BY <1>1, TakenForm, Zenon DEF TakenByUnit

\* Every unit has been taken when the loops have succeeded.
LEMMA TakenAll ==
  ASSUME LoopsOK, \A i \in Layer : pc[i] = "ok", job # "flat"
  PROVE  Units = Taken
<1>1. ASSUME NEW i, NEW k, NEW u, Unit(i, k, u) PROVE <<<<i, k>>, u>> \in Taken
  <2>1. AtEnd(i) /\ tar[i] \in Seq(EntryRec) /\ pos[i] \in Nat
    BY <1>1, Zenon DEF Unit, LoopsOK, LoopOK
  <2>2. Off(i, k, u)
    BY <1>1, <2>1 DEF Unit, AtEnd, Off
  <2> QED
    BY <1>1, <2>2, TakenForm DEF TakenByUnit
<1> QED
  BY <1>1, UnitForm DEF Taken

LEMMA TakenWithin ==
  ASSUME UNCHANGED <<job, tar>>, NEW X,
         \A j, k, u : Unit(j, k, u) /\ Off(j, k, u)' => Off(j, k, u) \/ <<<<j, k>>, u>> \in X
  PROVE  Taken' \subseteq Taken \cup X
<1> SUFFICES ASSUME NEW x \in Taken', x \notin X PROVE x \in Taken
  BY Zenon
<1>1. TakenByUnit'
  BY TakenForm, PTL
<1>2. PICK j, k, u : x = <<<<j, k>>, u>> /\ Unit(j, k, u)' /\ Off(j, k, u)'
  BY <1>1, Zenon DEF TakenByUnit
<1>3. Unit(j, k, u)
  BY <1>2 DEF Charge, Unit
<1> QED
  BY <1>2, <1>3, TakenForm DEF TakenByUnit

\* A step takes nothing, and leaves a layer doomed that is.  Or it takes one
\* unit, and if that was not the end of an archive its layer is doomed when the
\* budget is spent.  Or it takes a whole file of a disk image, that fits.
TakesNothing ==
  /\ UNCHANGED <<job, remaining>> /\ Taken' \subseteq Taken
  /\ job = "layered" /\ remaining <= 0 => \A j \in Layer : Doomed(j) => Doomed(j)'

TakesUnit ==
  /\ job = "layered" /\ UNCHANGED job /\ remaining' = remaining - 1
  /\ \E x : Taken' \subseteq Taken \cup {x}
  /\ \A j \in Layer : Doomed(j) => Doomed(j)'
  /\ Taken' \subseteq Taken \/ \E j \in Layer : Doomed(j)'

TakesFile ==
  /\ job = "disk" /\ UNCHANGED job
  /\ \E x : \E c \in Nat : /\ Taken' \subseteq Taken \cup ({x} \X (1 .. c))
                           /\ remaining' = remaining - c /\ remaining >= c

LEMMA NothingTaken ==
  ASSUME UNCHANGED <<job, tar, remaining>>,
         \A j, k, u : Unit(j, k, u) /\ Off(j, k, u)' => Off(j, k, u),
         job = "layered" /\ remaining <= 0 => \A j \in Layer : Doomed(j) => Doomed(j)'
  PROVE  TakesNothing
<1>1. \A j, k, u : Unit(j, k, u) /\ Off(j, k, u)' => Off(j, k, u) \/ <<<<j, k>>, u>> \in {}
  BY Zenon
<1>2. Taken' \subseteq Taken \cup {}
  BY <1>1, TakenWithin, Zenon
<1> QED
  BY <1>2 DEF TakesNothing

\* A loop's own steps do not touch the units of the other layers.
LEMMA OtherLoops ==
  ASSUME NEW j, UNCHANGED <<job, tar>>,
         pc'[j] = pc[j], pos'[j] = pos[j], left'[j] = left[j]
  PROVE  /\ \A k, u : Off(j, k, u)' => Off(j, k, u)
         /\ Doomed(j) => Doomed(j)'
BY Zenon DEF Off, Doomed, Cost, AtEnd, Entry

LEMMA LoopKeepsOthers ==
  ASSUME LoopsOK, NEW i \in Layer, LoopHead(i) \/ Load(i) \/ Read(i) \/ LoopBody(i)
  PROVE  /\ UNCHANGED <<job, tar>>
         /\ \A j \in Layer : j # i => /\ \A k, u : Off(j, k, u)' => Off(j, k, u)
                                      /\ Doomed(j) => Doomed(j)'
<1>1. UNCHANGED <<job, tar>>
  BY Zenon DEF LoopHead, Load, Read, LoopBody
<1>2. ASSUME NEW j \in Layer, j # i
      PROVE  pc'[j] = pc[j] /\ pos'[j] = pos[j] /\ left'[j] = left[j]
  BY <1>2, Zenon DEF LoopsOK, LoopHead, Load, Read, LoopBody, Fail
<1> QED
  BY <1>1, <1>2, OtherLoops

\* So a loop's step takes nothing if it takes nothing of its own.
LEMMA LoopTakesNothing ==
  ASSUME LoopsOK, NEW i \in Layer, LoopHead(i) \/ Load(i) \/ Read(i) \/ LoopBody(i),
         remaining' = remaining,
         \A k, u : Unit(i, k, u) /\ Off(i, k, u)' => Off(i, k, u),
         job = "layered" /\ remaining <= 0 /\ Doomed(i) => Doomed(i)'
  PROVE  TakesNothing
<1>1. /\ UNCHANGED <<job, tar>>
      /\ \A j \in Layer : j # i => /\ \A k, u : Off(j, k, u)' => Off(j, k, u)
                                   /\ Doomed(j) => Doomed(j)'
  BY LoopKeepsOthers
<1>2. \A j, k, u : Unit(j, k, u) /\ Off(j, k, u)' => Off(j, k, u)
  BY <1>1, Zenon DEF Unit
<1>3. job = "layered" /\ remaining <= 0 => \A j \in Layer : Doomed(j) => Doomed(j)'
  BY <1>1, Zenon
<1> QED
  BY <1>1, <1>2, <1>3, NothingTaken

LEMMA HeadTakes ==
  ASSUME LoopsOK, NEW i \in Layer, LoopHead(i)
  PROVE  TakesNothing
<1>1. UNCHANGED <<job, tar, pos, remaining>> /\ pc[i] = "head"
  BY DEF LoopHead, Fail
<1>2. \/ pc'[i] = "err"
      \/ pc'[i] = "load" /\ left'[i] = Cost(i)
  BY DEF LoopHead, Fail, LoopsOK
<1>3. Cost(i)' = Cost(i) /\ Cost(i) \in Nat
  BY <1>1, EntryFacts, Zenon DEF Cost, AtEnd, Entry
<1>4. ASSUME NEW k, NEW u, Unit(i, k, u), Off(i, k, u)' PROVE Off(i, k, u)
  <2>1. u \in Nat \ {0}
    BY <1>4, ChargeFacts DEF Unit
  <2> QED
    BY <1>1, <1>2, <1>3, <1>4, <2>1 DEF Off
<1>5. Doomed(i)'
  BY <1>2, Zenon DEF Doomed
<1> QED
  BY <1>1, <1>4, <1>5, LoopTakesNothing

LEMMA LoadTakes ==
  ASSUME LoopsOK, NEW i \in Layer, Load(i), job # "flat"
  PROVE  TakesNothing
<1>1. UNCHANGED <<job, tar, pos, left, remaining>> /\ pc[i] = "load"
  BY DEF Load, Fail
<1>2. /\ pc'[i] \in {"err", "read"}
      /\ job = "layered" /\ remaining <= 0 => pc'[i] = "err"
  BY DEF Load, Fail, LoopsOK
<1>3. Cost(i)' = Cost(i)
  BY <1>1, Zenon DEF Cost, AtEnd, Entry
<1>4. \A k, u : Off(i, k, u)' => Off(i, k, u)
  BY <1>1, <1>2, <1>3, Zenon DEF Off
<1>5. job = "layered" /\ remaining <= 0 => Doomed(i)'
  BY <1>2 DEF Doomed
<1> QED
  BY <1>1, <1>4, <1>5, LoopTakesNothing

LEMMA ReadTakes ==
  ASSUME LoopsOK, NEW i \in Layer, Read(i), job # "flat"
  PROVE  TakesNothing \/ TakesUnit
<1>1. /\ UNCHANGED <<job, tar, pos>> /\ pc[i] = "read" /\ left[i] \in 1 .. Cost(i)
      /\ left'[i] = left[i] - 1 /\ pc'[i] = IF left[i] = 1 THEN "entry" ELSE "load"
      /\ remaining' = IF job = "disk" THEN remaining ELSE remaining - 1
      /\ Cost(i)' = Cost(i) /\ Cost(i) \in Nat /\ left[i] \in Nat
  <2>1. Cost(i) \in Nat
    BY EntryFacts, Zenon
  <2> QED
    BY <2>1 DEF Read, LoopsOK, LoopOK, Cost, AtEnd, Entry
<1>2. ~Doomed(i)
  BY <1>1, ZenonT(30) DEF Doomed
<1>3. CASE job = "disk"
  <2>1. \A k, u : Off(i, k, u)' => Off(i, k, u)
    BY <1>1, <1>3, Zenon DEF Off
  <2> QED
    BY <1>1, <1>2, <1>3, <2>1, LoopTakesNothing
<1>4. CASE job = "layered"
  <2> DEFINE x == <<<<i, pos[i]>>, Cost(i) - left[i] + 1>>
             Few(X) == \A k, u : Unit(i, k, u) /\ Off(i, k, u)' => Off(i, k, u) \/ <<<<i, k>>, u>> \in X
  <2>1. \A j \in Layer : j # i => /\ \A k, u : Off(j, k, u)' => Off(j, k, u)
                                  /\ Doomed(j) => Doomed(j)'
    BY LoopKeepsOthers
  <2>2. ASSUME NEW X, Few(X) PROVE Taken' \subseteq Taken \cup X
    <3>1. \A j, k, u : Unit(j, k, u) /\ Off(j, k, u)' => Off(j, k, u) \/ <<<<j, k>>, u>> \in X
      BY <2>1, <2>2, Zenon DEF Unit
    <3> QED
      BY <1>1, <3>1, TakenWithin, Zenon
  <2>3. ASSUME NEW k, NEW u, Unit(i, k, u), Off(i, k, u)', ~Off(i, k, u)
        PROVE  <<<<i, k>>, u>> = x
    <3>1. u \in Nat /\ k = pos[i] /\ u <= Cost(i) - (left[i] - 1) /\ ~(u <= Cost(i) - left[i])
      BY <1>1, <1>4, <2>3, ChargeFacts DEF Off, Unit
    <3>2. u = Cost(i) - left[i] + 1
      BY <1>1, <3>1
    <3> QED
      BY <3>1, <3>2
  <2>4. Few({x})
    BY <2>3, Zenon
  <2> HIDE DEF x
  <2>5. ASSUME AtEnd(i) PROVE Taken' \subseteq Taken
    <3>1. tar[i] \in Seq(EntryRec) /\ pos[i] \in Nat
      BY Zenon DEF LoopsOK
    <3>2. \A k, u : Unit(i, k, u) => k # pos[i]
      BY <2>5, <3>1 DEF AtEnd, Unit
    <3>3. Few({})
      BY <1>1, <3>2, Zenon DEF Off
    <3> HIDE DEF Few
    <3>4. Taken' \subseteq Taken \cup {}
      BY <2>2, <3>3, Zenon
    <3> QED
      BY <3>4
  <2>6. ~AtEnd(i) => Doomed(i)'
    BY <1>1, Zenon DEF Doomed, AtEnd
  <2>7. Taken' \subseteq Taken \/ \E j \in Layer : Doomed(j)'
    BY <2>5, <2>6, Zenon
  <2>8. \E y : Taken' \subseteq Taken \cup {y}
    BY <2>2, <2>4, ZenonT(30)
  <2> HIDE DEF Few
  <2> QED
    BY <1>1, <1>2, <1>4, <2>1, <2>7, <2>8, Zenon DEF TakesUnit
<1> QED
  BY <1>3, <1>4, Zenon DEF LoopsOK, Job

LEMMA BodyTakes ==
  ASSUME LoopsOK, NEW i \in Layer, LoopBody(i), job # "flat", job = "disk" => remaining >= 0
  PROVE  TakesNothing \/ TakesFile
<1>1. pc[i] = "entry" /\ left[i] = 0 /\ UNCHANGED <<job, tar>>
  BY LoopBodyCases DEF LoopsOK, LoopOK
<1>2. CASE Fail(i)
  <2>1. UNCHANGED <<pos, left, remaining>> /\ pc'[i] = "err"
    BY <1>2 DEF Fail, LoopsOK
  <2>2. (\A k, u : Off(i, k, u)' => Off(i, k, u)) /\ Doomed(i)'
    BY <2>1, Zenon DEF Off, Doomed
  <2> QED
    BY <2>1, <2>2, LoopTakesNothing
<1>3. CASE EndStep(i)
  <2>1. UNCHANGED <<pos, left, remaining>> /\ pc'[i] = "ok" /\ AtEnd(i)
    BY <1>3, Zenon DEF EndStep, LoopsOK
  <2>2. \A k, u : Off(i, k, u)' => Off(i, k, u)
    BY <2>1, Zenon DEF Off
  <2>3. ~Doomed(i)
    BY <1>1, <2>1, Zenon DEF Doomed
  <2> QED
    BY <2>1, <2>2, <2>3, LoopTakesNothing
<1>4. ASSUME ~AtEnd(i), pos'[i] = pos[i] + 1, pc'[i] = "head", NEW k, NEW u, Unit(i, k, u), Off(i, k, u)'
      PROVE  Off(i, k, u) \/ (job = "disk" /\ k = pos[i] /\ u \in 1 .. Charge(Entry(i)))
  <2>1. pos[i] \in Nat /\ Len(tar[i]) \in Nat /\ k \in Nat /\ u \in 1 .. Charge(tar[i][k])
    BY <1>4, EntryFacts, SMTT(30) DEF LoopsOK, Unit
  <2>2. k < pos[i] + 1
    BY <1>1, <1>4, Zenon DEF Off
  <2>3. k = pos[i] => tar[i][k] = Entry(i) /\ u \in Nat /\ (job # "disk" => u <= Cost(i))
    BY <1>4, <2>1, ChargeFacts DEF Entry
  <2>4. Cost(i) - left[i] = Cost(i)
    BY <1>1, EntryFacts
  <2> QED
    BY <1>1, <2>1, <2>2, <2>3, <2>4 DEF Off
<1>5. ASSUME ~AtEnd(i), pos'[i] = pos[i] + 1, pc'[i] = "head", remaining' = remaining,
             job = "disk" => Charge(Entry(i)) = 0
      PROVE  TakesNothing
  <2>1. \A k, u : Unit(i, k, u) /\ Off(i, k, u)' => Off(i, k, u)
    BY <1>4, <1>5
  <2>2. Doomed(i)'
    BY <1>5, Zenon DEF Doomed
  <2> QED
    BY <1>5, <2>1, <2>2, LoopTakesNothing, SMTT(30)
<1>6. CASE SkipStep(i)
  <2>1. pos'[i] = pos[i] + 1 /\ pc'[i] = "head" /\ ~AtEnd(i) /\ remaining' = remaining
    BY <1>6 DEF SkipStep, LoopsOK
  <2>2. job = "disk" => Charge(Entry(i)) = 0
    BY <1>6, Zenon DEF SkipStep, Charge
  <2> QED
    BY <1>5, <2>1, <2>2, Zenon
<1>7. CASE ExtractStep(i)
  <2>1. /\ pos'[i] = pos[i] + 1 /\ pc'[i] = "head" /\ ~AtEnd(i)
        /\ remaining' = IF job = "disk" /\ Entry(i).type = "file"
                          THEN remaining - Entry(i).size ELSE remaining
        /\ Entry(i).path # Outside /\ ~OverBudget(i)
    BY <1>7, Zenon DEF ExtractStep, LoopsOK
  <2>2. CASE job # "disk"
    BY <1>5, <2>1, <2>2, Zenon
  <2>3. CASE job = "disk"
    <3> DEFINE c == Charge(Entry(i))
               X == {<<i, pos[i]>>} \X (1 .. c)
    <3>1. Entry(i).size \in Nat /\ remaining \in Int
      BY <2>1, EntryFacts, ZenonT(30) DEF EntryRec, LoopsOK
    <3>2. c \in Nat /\ remaining' = remaining - c /\ remaining >= c
      BY <2>1, <2>3, <3>1, SMTT(30) DEF Charge, OverBudget
    <3> HIDE DEF c
    <3>3. \A k, u : Unit(i, k, u) /\ Off(i, k, u)' => Off(i, k, u) \/ <<<<i, k>>, u>> \in X
      BY <1>4, <2>1 DEF c
    <3>4. \A j, k, u : Unit(j, k, u) /\ Off(j, k, u)' => Off(j, k, u) \/ <<<<j, k>>, u>> \in X
      BY <3>3, LoopKeepsOthers, Zenon DEF Unit
    <3>5. Taken' \subseteq Taken \cup X
      BY <1>1, <3>4, TakenWithin, Zenon
    <3> QED
      BY <1>1, <2>3, <3>2, <3>5, Zenon DEF TakesFile
  <2> QED
    BY <2>2, <2>3
<1> QED
  BY <1>2, <1>3, <1>6, <1>7, LoopBodyCases

LEMMA StepTakes ==
  ASSUME LoopsOK, [Next]_vars, job # "flat", job = "disk" => remaining >= 0
  PROVE  TakesNothing \/ TakesUnit \/ TakesFile
<1>1. CASE \E i \in Layer : LoopHead(i) \/ Load(i) \/ Read(i) \/ LoopBody(i)
  BY <1>1, HeadTakes, LoadTakes, ReadTakes, BodyTakes
<1>2. CASE Cancel \/ Extracted \/ NextLayer \/ Apply \/ UNCHANGED vars
  <2>1. UNCHANGED <<job, tar, pc, pos, left, remaining>>
    BY <1>2 DEF Cancel, Extracted, NextLayer, Apply, vars
  <2>2. \A j, k, u : Off(j, k, u)' => Off(j, k, u)
    BY <2>1, Zenon DEF Off, Cost, AtEnd, Entry
  <2>3. \A j \in Layer : Doomed(j) => Doomed(j)'
    BY <2>1, Zenon DEF Doomed, AtEnd
  <2> QED
    BY <2>1, <2>2, <2>3, NothingTaken
<1> QED
  BY <1>1, <1>2 DEF Next

-----------------------------------------------------------------------------
(* The least number principle, from the well-foundedness of the naturals,  *)
(* and what rests on it.                                                   *)

INSTANCE WellFoundedInduction

Less == OpToRel(<, Nat)

LEMMA LeastNumber ==
  ASSUME NEW S, S \subseteq Nat, S # {}
  PROVE  \E n \in S : \A m \in S : n <= m
<1>1. \A m, n \in Nat : <<m, n>> \in Less <=> m < n
  BY Zenon DEF Less, OpToRel
<1>2. IsWellFoundedOn(Less, Nat)
  BY NatLessThanWellFounded, Zenon DEF Less
<1>3. \E n \in S : \A m \in S : ~(<<m, n>> \in Less)
  BY <1>2, WFMin, Zenon
<1>4. PICK n \in S : \A m \in S : ~(<<m, n>> \in Less)
  BY <1>3, Zenon
<1>5. ASSUME NEW m \in S PROVE n <= m
  <2>1. m \in Nat /\ n \in Nat /\ ~(m < n)
    BY <1>1, <1>4, Zenon
  <2> QED
    BY <2>1
<1> QED
  BY <1>5, Zenon

\* No link on the way: the system finds p at p.
LEMMA FoundThere ==
  ASSUME NEW t, NEW p, \A q \in Ancestors(p) : ~Is(t, q, "link")
  PROVE  LinksTo(t, p) = {} /\ Found(t, p) = p
<1>1. LinksTo(t, p) = {}
  BY Zenon DEF LinksTo
<1> QED
  BY <1>1, Zenon DEF Found

-----------------------------------------------------------------------------
(* Applying a layer: its directories, files and links.                     *)

LEMMA ApplyNode ==
  ASSUME NEW r, NEW t, NEW V, Walking(r, t, V), NEW p \in Walk(t) \ V, ~Marked(p),
         \A w \in Walk(t) \ V : w # p => Before(p, w),
         CanApply(Applied(r, t, V), t, p)
  PROVE  ApplyPath(Applied(r, t, V), t, p) = Applied(r, t, V \cup {p})
<1> DEFINE d == Applied(r, t, V)
           e == Applied(r, t, V \cup {p})
<1>0. WellFormed(d)
  BY AppliedWellFormed, Zenon
<1>1. /\ \A q : q \in DOMAIN d <=> (q \in DOMAIN r /\ ~HiddenIn(t, V, q)) \/ (q \in V /\ ~Marked(q))
      /\ \A q \in DOMAIN d : d[q] = IF q \in V THEN t[q] ELSE r[q]
  BY AppliedFacts, Zenon
<1>2. /\ \A q : q \in DOMAIN e <=> (q \in DOMAIN r /\ ~HiddenIn(t, V \cup {p}, q)) \/ (q \in V \cup {p} /\ ~Marked(q))
      /\ \A q \in DOMAIN e : e[q] = IF q \in V \cup {p} THEN t[q] ELSE r[q]
  BY AppliedFacts, Zenon
<1>3. d = [q \in DOMAIN d |-> d[q]] /\ e = [q \in DOMAIN e |-> e[q]]
  BY Zenon DEF Applied
<1>4. CanApply(d, t, p)
  OBVIOUS
<1> HIDE DEF d, e
<1>5. p \in Seq(Names) \ {<<>>} /\ t[p] \in Node
  BY DEF Walking, Walk, WellFormed
<1>6. \A a \in Ancestors(p) : a \in DOMAIN d /\ d[a] = Dir
  <2>1. \A a \in Ancestors(p) : a \in V /\ ~Marked(a) /\ t[a] = Dir
    BY VisitedClosed, Zenon
  <2> QED
    BY <1>1, <2>1, Zenon
<1>7. \A q \in DOMAIN r : HiddenIn(t, V \cup {p}, q) <=>
                            HiddenIn(t, V, q) \/ (p \in Prefixes(q) \ {<<>>} /\ t[p].kind # "dir")
  BY HiddenByNode, Zenon
<1>8. \A q \in DOMAIN d : q \in Seq(Names) \ {<<>>} /\ d[q] \in Node
  BY <1>0, Zenon DEF WellFormed
<1>9. \A q \in DOMAIN d : Prefixes(q) \ {<<>>} = Ancestors(q) \cup {q}
  BY <1>8, PathFacts, Zenon
<1>10. Prefixes(p) \ {<<>>} = Ancestors(p) \cup {p}
  BY <1>5, PathFacts, Zenon
<1>11. Base(p).mark = "none"
  BY DEF Marked
<1>12. p \in DOMAIN d => (t[p].kind = "dir" <=> d[p].kind = "dir")
  <2>1. CASE t[p].kind = "dir"
    <3>1. CanMkdir(d, Prefixes(p) \ {<<>>})
      BY <1>4, <1>11, <2>1, Zenon DEF CanApply, Marked
    <3> QED
      BY <1>10, <2>1, <3>1 DEF CanMkdir
  <2>2. CASE t[p].kind = "link"
    BY <1>4, <1>11, <2>2 DEF CanApply, Marked, Is
  <2>3. CASE t[p].kind = "file"
    <3>1. CanWrite(d, p)
      BY <1>4, <1>11, <2>3, Zenon DEF CanApply, Marked
    <3> QED
      BY <2>3, <3>1 DEF CanWrite, validateNoSymlinkLeaf
  <2> QED
    BY <1>5, <2>1, <2>2, <2>3, NodeFacts, Zenon
<1>13. DOMAIN e = DOMAIN d \cup {p}
  <2>1. ASSUME NEW q \in DOMAIN d, p \in Prefixes(q) \ {<<>>}, t[p].kind # "dir" PROVE q = p
    <3>1. SUFFICES ASSUME p \in Ancestors(q) PROVE FALSE
      BY <1>9, <2>1, Zenon
    <3>2. p \in DOMAIN d /\ d[p] = Dir
      BY <1>0, <3>1, Zenon DEF WellFormed
    <3> QED
      BY <1>12, <2>1, <3>2, NodeFacts, Zenon
  <2>2. ASSUME NEW q \in DOMAIN d PROVE q \in DOMAIN e
    <3>1. CASE q \in V \cup {p}
      BY <1>1, <1>2, <1>7, <2>1, <3>1, Zenon
    <3>2. CASE q \notin V \cup {p}
      BY <1>1, <1>2, <1>7, <2>1, <3>2, ZenonT(30)
    <3> QED
      BY <3>1, <3>2
  <2>3. p \in DOMAIN e
    BY <1>2, Zenon
  <2>4. \A q \in DOMAIN e : q \in DOMAIN d \/ q = p
    BY <1>1, <1>2, <1>7, Zenon
  <2> QED
    BY <2>2, <2>3, <2>4
<1>14. e[p] = t[p] /\ \A q \in DOMAIN d : q # p => e[q] = d[q]
  BY <1>1, <1>2, <1>13
<1>15. CASE t[p].kind = "dir"
  <2>1. ApplyPath(d, t, p) = Mkdir(d, Prefixes(p) \ {<<>>})
    BY <1>11, <1>15 DEF ApplyPath, Marked
  <2>2. t[p] = Dir /\ (p \in DOMAIN d => d[p] = Dir)
    BY <1>5, <1>8, <1>12, <1>15, NodeFacts, Zenon
  <2>3. DOMAIN d \cup (Prefixes(p) \ {<<>>}) = DOMAIN e
    BY <1>6, <1>10, <1>13
  <2>4. \A q \in DOMAIN e : e[q] = IF q \in DOMAIN d THEN d[q] ELSE Dir
    BY <1>13, <1>14, <2>2, Zenon
  <2> QED
    BY <1>3, <2>1, <2>3, <2>4, ZenonT(30) DEF Mkdir, d, e
<1>16. CASE t[p].kind # "dir"
  <2>1. Mkdir(d, Ancestors(p)) = d
    <3>1. DOMAIN d \cup Ancestors(p) = DOMAIN d
      BY <1>6, Zenon
    <3> QED
      BY <1>3, <3>1 DEF Mkdir
  <2>2. ApplyPath(d, t, p) = Put(d, p, t[p])
    <3>1. CASE t[p].kind = "link"
      BY <1>11, <3>1 DEF ApplyPath, Marked
    <3>2. CASE t[p].kind = "file"
      <4>1. ApplyPath(d, t, p) = WriteFile(d, p, t[p].data)
        BY <1>11, <3>2 DEF ApplyPath, Marked
      <4>2. t[p] \in [kind : {"file"}, data : Layer]
        BY <1>5, <3>2 DEF Node, Dir
      <4>3. File(t[p].data) = t[p]
        BY <4>2, Zenon DEF File
      <4> QED
        BY <2>1, <4>1, <4>3, Zenon DEF WriteFile
    <3> QED
      BY <1>5, <1>16, <3>1, <3>2, NodeFacts
  <2>3. Found(d, p) = p
    <3>1. \A a \in Ancestors(p) : ~Is(d, a, "link")
      BY <1>6, NodeFacts, Zenon DEF Is
    <3> QED
      BY <1>5, <1>8, <3>1, FoundThere
  <2>4. Put(d, p, t[p]) = [q \in DOMAIN e |-> IF q = p THEN t[p] ELSE d[q]]
    BY <1>13, <2>3 DEF Put
  <2>5. \A q \in DOMAIN e : e[q] = IF q = p THEN t[p] ELSE d[q]
    BY <1>13, <1>14, Zenon
  <2> QED
    BY <1>3, <2>2, <2>4, <2>5, ZenonT(30) DEF d, e
<1> QED
  BY <1>15, <1>16

-----------------------------------------------------------------------------
(* What the extraction of an entry leaves.                                 *)

Live(s) == {j \in DOMAIN s : s[j].path # Outside /\ s[j].type # "other"}
EntryNode(e, i) == CASE e.type = "dir" -> Dir [] e.type = "link" -> Link(e.to) [] OTHER -> File(i)

\* Tree t with the node that entry e describes.
With(t, e, i) ==
  [q \in DOMAIN t \cup (Prefixes(e.path) \ {<<>>}) |->
     IF q = e.path THEN EntryNode(e, i) ELSE IF q \in DOMAIN t THEN t[q] ELSE Dir]

LEMMA EntryNodeFacts ==
  ASSUME NEW e \in EntryRec, NEW i \in Layer
  PROVE  /\ EntryNode(e, i) \in Node
         /\ e.type = "dir" => EntryNode(e, i) = Dir
         /\ e.type = "link" => EntryNode(e, i) = Link(e.to)
         /\ e.type \in {"file", "hard"} => EntryNode(e, i) = File(i)
         /\ EntryNode(e, i).kind = "file" => EntryNode(e, i) = File(i)
<1>1. e.to \in Target
  BY DEF EntryRec
<1>2. CASE e.type = "dir"
  BY <1>2, NodeFacts DEF EntryNode
<1>3. CASE e.type = "link"
  BY <1>1, <1>3, NodeFacts DEF EntryNode
<1>4. CASE e.type # "dir" /\ e.type # "link"
  BY <1>4, NodeFacts DEF EntryNode
<1> QED
  BY <1>2, <1>3, <1>4, Zenon

\* What an extraction has checked when it succeeds.
Clear(t, e) ==
  /\ \A q \in Ancestors(e.path) \cap DOMAIN t : t[q].kind = "dir"
  /\ e.type = "dir" => (e.path \in DOMAIN t => t[e.path].kind = "dir")
  /\ e.type # "dir" => e.path # <<>> /\ (e.path \in DOMAIN t => t[e.path].kind # "dir")

LEMMA DiskExtracts ==
  ASSUME NEW t, NEW e \in EntryRec, CanExtractDisk(t, e)
  PROVE  CanExtract(t, e)
<1>1. e.type \in {"dir", "file", "link", "hard", "other"}
  BY DEF EntryRec
<1>2. CASE e.type = "dir"
  BY <1>2 DEF CanExtract, CanExtractDisk
<1>3. CASE e.type = "file"
  BY <1>3, Zenon DEF CanExtract, CanExtractDisk, CanWrite
<1>4. CASE e.type = "link"
  BY <1>4 DEF CanExtract, CanExtractDisk, CanSymlink
<1>5. CASE e.type = "hard"
  BY <1>5 DEF CanExtract, CanExtractDisk, CanHardlink
<1>6. CASE e.type = "other"
  BY <1>6, Zenon DEF CanExtract
<1> QED
  BY <1>1, <1>2, <1>3, <1>4, <1>5, <1>6, Zenon

LEMMA ExtractsClear ==
  ASSUME NEW t, <<>> \notin DOMAIN t,
         NEW e \in EntryRec, e.type # "other", e.path \in Seq(Names), CanExtract(t, e)
  PROVE  Clear(t, e)
<1>1. e.type \in {"dir", "file", "link", "hard"}
  BY DEF EntryRec
<1>2. CASE e.type = "dir"
  <2>1. CanMkdir(t, Prefixes(e.path) \ {<<>>})
    BY <1>2 DEF CanExtract
  <2>2. CASE e.path = <<>>
    <3>1. Ancestors(e.path) = {} 
      BY <2>2, PathFacts, ZenonT(30) DEF Ancestors
    <3> QED
      BY <1>2, <2>1, <2>2, <3>1, Zenon DEF Clear, CanMkdir
  <2>3. CASE e.path # <<>>
    <3>1. Prefixes(e.path) \ {<<>>} = Ancestors(e.path) \cup {e.path}
      BY <2>3, PathFacts, Zenon
    <3> QED
      BY <1>2, <2>1, <3>1, Zenon DEF Clear, CanMkdir
  <2> QED
    BY <2>2, <2>3
<1>3. CASE e.type = "file"
  <2>1. CanMkdirParents(t, e.path) /\ validateNoSymlinkLeaf(t, e.path)
    BY <1>3 DEF CanExtract, CanWrite
  <2> QED
    BY <1>3, <2>1, Zenon DEF Clear, CanMkdirParents, CanMkdir, validateNoSymlinkLeaf
<1>4. CASE e.type = "link"
  <2>1. CanMkdirParents(t, e.path) /\ ~Is(t, e.path, "dir")
    BY <1>4 DEF CanExtract, CanSymlink
  <2> QED
    BY <1>4, <2>1, Zenon DEF Clear, CanMkdirParents, CanMkdir, Is
<1>5. CASE e.type = "hard"
  <2>1. CanMkdirParents(t, e.path) /\ validateNoSymlinkLeaf(t, e.path)
    BY <1>5, SMTT(30) DEF CanExtract, CanHardlink
  <2> QED
    BY <1>5, <2>1, Zenon DEF Clear, CanMkdirParents, CanMkdir, validateNoSymlinkLeaf
<1> QED
  BY <1>1, <1>2, <1>3, <1>4, <1>5

\* A node put at the end of a path whose parents were made.
LEMMA PutIsWith ==
  ASSUME NEW t, <<>> \notin DOMAIN t, NEW e \in EntryRec, NEW i \in Layer,
         e.path \in Seq(Names), e.path # <<>>,
         \A q \in Ancestors(e.path) \cap DOMAIN t : t[q].kind = "dir"
  PROVE  Put(Mkdir(t, Ancestors(e.path)), e.path, EntryNode(e, i)) = With(t, e, i)
<1> DEFINE p == e.path
           m == Mkdir(t, Ancestors(p))
<1>1. DOMAIN m = DOMAIN t \cup Ancestors(p) /\ \A q \in DOMAIN m : m[q] = IF q \in DOMAIN t THEN t[q] ELSE Dir
  BY DEF Mkdir
<1>2. <<>> \notin DOMAIN m
  BY <1>1 DEF Ancestors
<1>3. \A q \in Ancestors(p) : m[q].kind = "dir"
  BY <1>1, NodeFacts
<1>4. \A q \in Ancestors(p) : ~Is(m, q, "link")
  BY <1>3, Zenon DEF Is
<1> HIDE DEF m
<1>5. Found(m, p) = p
  BY <1>2, <1>4, FoundThere
<1>6. Put(m, p, EntryNode(e, i)) = [q \in DOMAIN m \cup {p} |-> IF q = p THEN EntryNode(e, i) ELSE m[q]]
  BY <1>5, Zenon DEF Put
<1>7. DOMAIN m \cup {p} = DOMAIN t \cup (Prefixes(p) \ {<<>>})
  <2>1. Prefixes(p) \ {<<>>} = Ancestors(p) \cup {p}
    BY PathFacts, Zenon
  <2> QED
    BY <1>1, <2>1, Zenon
<1>8. \A q \in DOMAIN m \cup {p} : q # p => m[q] = IF q \in DOMAIN t THEN t[q] ELSE Dir
  BY <1>1, Zenon
<1> QED
  BY <1>6, <1>7, <1>8 DEF With, m

LEMMA ExtractIsWith ==
  ASSUME NEW t, NEW i \in Layer, t = [q \in DOMAIN t |-> t[q]], WellFormed(t), FilesOf(t, i),
         NEW e \in EntryRec, e.type # "other", e.path \in Seq(Names), CanExtract(t, e),
         e.type = "hard" => ~HostFile(t, e.to)
  PROVE  Extract(t, e, i) = With(t, e, i) /\ Clear(t, e)
<1>1. e.type \in {"dir", "file", "link", "hard"}
  BY Zenon DEF EntryRec
<1>2. <<>> \notin DOMAIN t /\ \A q \in DOMAIN t : t[q].kind = "dir" => t[q] = Dir
  BY NodeFacts, Zenon DEF WellFormed
<1>3. Clear(t, e)
  BY <1>2, ExtractsClear
<1>4. CASE e.type = "dir"
  <2> DEFINE S == Prefixes(e.path) \ {<<>>}
  <2>1. Extract(t, e, i) = [q \in DOMAIN t \cup S |-> IF q \in DOMAIN t THEN t[q] ELSE Dir]
    BY <1>4 DEF Extract, Mkdir
  <2>2. EntryNode(e, i) = Dir
    BY <1>4, EntryNodeFacts, Zenon
  <2>3. e.path \in DOMAIN t => t[e.path] = Dir
    BY <1>2, <1>3, <1>4 DEF Clear
  <2> QED
    BY <1>3, <2>1, <2>2, <2>3 DEF With
<1>5. CASE e.type # "dir"
  <2>1. Put(Mkdir(t, Ancestors(e.path)), e.path, EntryNode(e, i)) = With(t, e, i)
    BY <1>2, <1>3, <1>5, PutIsWith DEF Clear
  <2>2. CASE e.type = "file"
    BY <1>3, <2>1, <2>2, EntryNodeFacts, Zenon DEF Extract, WriteFile
  <2>3. CASE e.type = "link"
    BY <1>3, <2>1, <2>3, EntryNodeFacts DEF Extract
  <2>4. CASE e.type = "hard"
    <3>1. Is(t, Found(t, e.to), "file")
      BY <2>4 DEF CanExtract, CanHardlink
    <3>2. HardlinkSource(t, e.to) = File(i)
      BY <3>1, Zenon DEF FilesOf, Is, HardlinkSource
    <3> QED
      BY <1>3, <2>1, <2>4, <3>2, EntryNodeFacts, Zenon DEF Extract
  <2> QED
    BY <1>1, <1>5, <2>2, <2>3, <2>4, Zenon
<1> QED
  BY <1>4, <1>5

LEMMA WithWellFormed ==
  ASSUME NEW t, NEW i \in Layer, WellFormed(t), FilesOf(t, i),
         NEW e \in EntryRec, e.path \in Seq(Names), Clear(t, e)
  PROVE  WellFormed(With(t, e, i)) /\ FilesOf(With(t, e, i), i)
<1> DEFINE p == e.path
           w == With(t, e, i)
           S == Prefixes(p) \ {<<>>}
<1>1. /\ DOMAIN w = DOMAIN t \cup S
      /\ \A q \in DOMAIN w : w[q] = IF q = p THEN EntryNode(e, i) ELSE IF q \in DOMAIN t THEN t[q] ELSE Dir
  BY Zenon DEF With
<1> HIDE DEF w
<1>2. \A q \in S : q \in Seq(Names) \ {<<>>} /\ Ancestors(q) \subseteq Ancestors(p)
  BY PathFacts, SMTT(30)
<1>3. \A q \in DOMAIN w : q \in Seq(Names) \ {<<>>} /\ w[q] \in Node
  <2> SUFFICES ASSUME NEW q \in DOMAIN w PROVE q \in Seq(Names) \ {<<>>} /\ w[q] \in Node
    BY Zenon
  <2>1. q \in DOMAIN t => q \in Seq(Names) \ {<<>>} /\ t[q] \in Node
    BY Zenon DEF WellFormed
  <2>2. Dir \in Node /\ EntryNode(e, i) \in Node
    BY NodeFacts, EntryNodeFacts, Zenon
  <2> QED
    BY <1>1, <1>2, <2>1, <2>2, Zenon
<1>4. \A q \in Ancestors(p) : q \in DOMAIN w /\ w[q] = Dir
  <2> SUFFICES ASSUME NEW q \in Ancestors(p) PROVE q \in DOMAIN w /\ w[q] = Dir
    BY Zenon
  <2>1. q \in S /\ q # p
    BY PathFacts, Zenon DEF Ancestors
  <2>2. q \in DOMAIN t => t[q] = Dir
    BY NodeFacts, Zenon DEF Clear, WellFormed
  <2> QED
    BY <1>1, <2>1, <2>2
<1>5. ASSUME NEW q \in DOMAIN t, NEW a \in Ancestors(q) PROVE a \in DOMAIN w /\ w[a] = Dir
  <2>1. a \in DOMAIN t /\ t[a] = Dir
    BY <1>5 DEF WellFormed
  <2>2. a = p => e.type = "dir"
    BY <2>1, NodeFacts, Zenon DEF Clear
  <2> QED
    BY <1>1, <2>1, <2>2, EntryNodeFacts, SMTT(30)
<1>6. WellFormed(w)
  BY <1>1, <1>2, <1>3, <1>4, <1>5, ZenonT(30) DEF WellFormed
<1>7. FilesOf(w, i)
  BY <1>1, NodeFacts, EntryNodeFacts DEF FilesOf, Is
<1> QED
  BY <1>6, <1>7 DEF w

-----------------------------------------------------------------------------
(* What an archive describes, entry by entry.                              *)

LastNaming(s, p) == CHOOSE k \in Naming(s, p) : \A j \in Naming(s, p) : j <= k
NodeAt(s, p, i) == IF Naming(s, p) = {} THEN Dir ELSE EntryNode(s[LastNaming(s, p)], i)
Mentioned(s) == UNION {Prefixes(s[k].path) \ {<<>>} : k \in Live(s)}

LEMMA TreeForm ==
  ASSUME NEW s, NEW i
  PROVE  Tree(s, i) = [p \in Mentioned(s) |-> NodeAt(s, p, i)]
BY Zenon DEF Tree, Mentioned, Live, NodeAt, EntryNode, LastNaming

LEMMA LastNamingFacts ==
  ASSUME NEW s \in Seq(EntryRec), NEW p, Naming(s, p) # {}
  PROVE  LastNaming(s, p) \in Naming(s, p) /\ LastNaming(s, p) \in DOMAIN s
<1> DEFINE B == {n \in Nat : \A j \in Naming(s, p) : j <= n}
<1>1. Naming(s, p) \subseteq DOMAIN s /\ DOMAIN s = 1 .. Len(s) /\ Len(s) \in Nat
  BY DEF Naming
<1>2. Len(s) \in B
  BY <1>1
<1>3. B \subseteq Nat /\ B # {}
  BY <1>2
<1>4. PICK n \in B : \A m \in B : n <= m
  BY <1>3, LeastNumber, Zenon
<1>5. n \in Naming(s, p)
  <2> SUFFICES ASSUME n \notin Naming(s, p) PROVE FALSE
    OBVIOUS
  <2>1. n \in Nat /\ \A j \in Naming(s, p) : j \in Nat \ {0} /\ j <= n /\ j # n
    BY <1>1, <1>4
  <2>2. n - 1 \in Nat /\ \A j \in Naming(s, p) : j <= n - 1
    BY <2>1
  <2>3. n - 1 \in B /\ ~(n <= n - 1)
    BY <2>1, <2>2
  <2> QED
    BY <1>4, <2>3, Zenon
<1>6. \E k \in Naming(s, p) : \A j \in Naming(s, p) : j <= k
  BY <1>4, <1>5, Zenon
<1>7. LastNaming(s, p) \in Naming(s, p)
  BY <1>6, Zenon DEF LastNaming
<1> QED
  BY <1>1, <1>7, Zenon

LEMMA AppendFacts ==
  ASSUME NEW s \in Seq(EntryRec), NEW e \in EntryRec
  PROVE  /\ Append(s, e) \in Seq(EntryRec)
         /\ DOMAIN Append(s, e) = DOMAIN s \cup {Len(s) + 1} /\ Len(s) + 1 \notin DOMAIN s
         /\ \A k \in DOMAIN s : Append(s, e)[k] = s[k] /\ k <= Len(s) + 1
         /\ Append(s, e)[Len(s) + 1] = e /\ Len(s) + 1 <= Len(s) + 1
         /\ \A k \in DOMAIN s : ~(Len(s) + 1 <= k)
OBVIOUS

LEMMA TreeSkip ==
  ASSUME NEW s \in Seq(EntryRec), NEW e \in EntryRec, NEW i \in Layer,
         e.path = Outside \/ e.type = "other",
         \A p \in Mentioned(s) : p # Outside
  PROVE  Tree(Append(s, e), i) = Tree(s, i)
<1> DEFINE a == Append(s, e)
           n == Len(s) + 1
<1>1. /\ DOMAIN a = DOMAIN s \cup {n} /\ n \notin DOMAIN s /\ a[n] = e
      /\ \A k \in DOMAIN s : a[k] = s[k]
  BY AppendFacts
<1> HIDE DEF a, n
<1>2. Live(a) = Live(s)
  BY <1>1, Zenon DEF Live
<1>3. Mentioned(a) = Mentioned(s)
  BY <1>1, <1>2 DEF Mentioned, Live
<1>4. \A p \in Mentioned(s) : Naming(a, p) = Naming(s, p)
  BY <1>1, Zenon DEF Naming
<1>5. ASSUME NEW p \in Mentioned(s) PROVE NodeAt(a, p, i) = NodeAt(s, p, i)
  <2>1. LastNaming(a, p) = LastNaming(s, p)
    BY <1>4, Zenon DEF LastNaming
  <2>2. Naming(s, p) # {} => a[LastNaming(s, p)] = s[LastNaming(s, p)]
    BY <1>1, LastNamingFacts, Zenon
  <2> QED
    BY <1>4, <2>1, <2>2, Zenon DEF NodeAt
<1>6. Tree(a, i) = [p \in Mentioned(s) |-> NodeAt(s, p, i)]
  BY <1>3, <1>5, TreeForm, Zenon
<1> QED
  BY <1>6, TreeForm, Zenon DEF a

LEMMA TreeWith ==
  ASSUME NEW s \in Seq(EntryRec), NEW e \in EntryRec, NEW i \in Layer,
         e.path \in Seq(Names), e.type # "other"
  PROVE  Tree(Append(s, e), i) = With(Tree(s, i), e, i)
<1> DEFINE a == Append(s, e)
           n == Len(s) + 1
           t == Tree(s, i)
           S == Prefixes(e.path) \ {<<>>}
<1>1. /\ DOMAIN a = DOMAIN s \cup {n} /\ n \notin DOMAIN s /\ a[n] = e
      /\ \A k \in DOMAIN s : a[k] = s[k] /\ k <= n /\ ~(n <= k)
      /\ n <= n /\ a \in Seq(EntryRec)
  BY AppendFacts
<1>2. t = [p \in Mentioned(s) |-> NodeAt(s, p, i)]
  BY TreeForm, Zenon
<1>3. Tree(a, i) = [p \in Mentioned(a) |-> NodeAt(a, p, i)]
  BY TreeForm, Zenon
<1> HIDE DEF a, n, t
<1>4. Live(a) = Live(s) \cup {n}
  BY <1>1, NameFacts, Zenon DEF Live
<1>5. Mentioned(a) = Mentioned(s) \cup S
  BY <1>1, <1>4 DEF Mentioned, Live
<1>6. \A p : Naming(a, p) = IF p = e.path THEN Naming(s, p) \cup {n} ELSE Naming(s, p)
  BY <1>1, Zenon DEF Naming
<1>7. NodeAt(a, e.path, i) = EntryNode(e, i)
  <2>1. n \in Naming(a, e.path) /\ \A j \in Naming(a, e.path) : j <= n /\ (n <= j => j = n)
    BY <1>1, <1>6, Zenon DEF Naming
  <2>2. LastNaming(a, e.path) = n
    BY <2>1, Zenon DEF LastNaming
  <2> QED
    BY <1>1, <2>1, <2>2, Zenon DEF NodeAt
<1>8. ASSUME NEW p, p # e.path PROVE NodeAt(a, p, i) = NodeAt(s, p, i)
  <2>1. LastNaming(a, p) = LastNaming(s, p) /\ Naming(a, p) = Naming(s, p)
    BY <1>6, <1>8, Zenon DEF LastNaming
  <2>2. Naming(s, p) # {} => a[LastNaming(s, p)] = s[LastNaming(s, p)]
    BY <1>1, LastNamingFacts, Zenon
  <2> QED
    BY <2>1, <2>2, Zenon DEF NodeAt
<1>9. ASSUME NEW p \in S, p \notin Mentioned(s) PROVE NodeAt(s, p, i) = Dir
  <2>1. p \in Seq(Names) /\ p # <<>>
    BY <1>9, PathFacts, Zenon
  <2>2. p \in Prefixes(p) \ {<<>>} /\ p # Outside
    BY <2>1, PathFacts, NameFacts, ZenonT(30)
  <2>3. Naming(s, p) \subseteq Live(s)
    BY <2>2, Zenon DEF Naming, Live
  <2>4. Naming(s, p) = {}
    BY <1>9, <2>2, <2>3 DEF Naming, Mentioned
  <2> QED
    BY <2>4, Zenon DEF NodeAt
<1>10. DOMAIN t = Mentioned(s) /\ \A p \in Mentioned(s) : t[p] = NodeAt(s, p, i)
  BY <1>2
<1>11. \A p \in Mentioned(s) \cup S :
         NodeAt(a, p, i) = IF p = e.path THEN EntryNode(e, i) ELSE IF p \in DOMAIN t THEN t[p] ELSE Dir
  BY <1>7, <1>8, <1>9, <1>10, Zenon
<1>12. Tree(a, i) = With(t, e, i)
  BY <1>3, <1>5, <1>10, <1>11 DEF With
<1> QED
  BY <1>12 DEF a, t

\* The links of a tree are those of its archive.
LEMMA TreeLinks ==
  ASSUME NEW s \in Seq(EntryRec), NEW i \in Layer, NEW q \in DOMAIN Tree(s, i),
         Tree(s, i)[q].kind = "link"
  PROVE  \E k \in DOMAIN s : s[k].type = "link" /\ s[k].path = q /\ Tree(s, i)[q] = Link(s[k].to)
<1> DEFINE k == LastNaming(s, q)
<1>1. Tree(s, i)[q] = NodeAt(s, q, i)
  BY TreeForm, Zenon
<1>2. Naming(s, q) # {}
  BY <1>1, NodeFacts DEF NodeAt
<1>3. k \in Naming(s, q) /\ k \in DOMAIN s
  BY <1>2, LastNamingFacts, Zenon
<1>4. s[k].path = q /\ s[k] \in EntryRec /\ Tree(s, i)[q] = EntryNode(s[k], i)
  BY <1>1, <1>2, <1>3 DEF Naming, NodeAt
<1>5. s[k].type \in {"dir", "file", "link", "hard", "other"}
  BY <1>4 DEF EntryRec
<1>6. s[k].type = "link"
  BY <1>4, <1>5, NodeFacts DEF EntryNode
<1> QED
  BY <1>3, <1>4, <1>6, EntryNodeFacts, Zenon

\* A hard link of an archive whose sources are inside takes no file of the host.
LEMMA HardlinkInside ==
  ASSUME NEW a \in Seq(EntryRec), SourcesInside(a), NEW n \in 1 .. Len(a), a[n].type = "hard",
         NEW i \in Layer
  PROVE  ~HostFile(Tree(SubSeq(a, 1, n - 1), i), a[n].to)
<1> DEFINE s == SubSeq(a, 1, n - 1)
           t == Tree(s, i)
           to == a[n].to
<1>1. s \in Seq(EntryRec) /\ \A k \in DOMAIN s : k \in DOMAIN a /\ s[k] = a[k]
  OBVIOUS
<1>2. a[n] \in Range(a) /\ \A k \in DOMAIN s : s[k] \in Range(a)
  <2>1. n \in DOMAIN a
    OBVIOUS
  <2> QED
    BY <1>1, <2>1, Zenon DEF Range
<1> HIDE DEF s
<1>3. ASSUME NEW q, Is(t, q, "link")
      PROVE  \E l \in Range(a) : l.type = "link" /\ l.path = q /\ t[q].to = l.to
  <2>1. PICK k \in DOMAIN s : s[k].type = "link" /\ s[k].path = q /\ t[q] = Link(s[k].to)
    BY <1>1, <1>3, TreeLinks, Zenon DEF Is
  <2>2. t[q].to = s[k].to
    BY <2>1 DEF Link
  <2> QED
    BY <1>2, <2>1, <2>2, Zenon
<1> HIDE DEF t
<1>4. CASE \A e \in Range(a) : e.type = "link" => ~IsAbs(e.to)
  <2>1. ASSUME NEW q \in LinksTo(t, Found(t, to)) PROVE ~IsAbs(t[q].to)
    BY <1>3, <1>4, <2>1, Zenon DEF LinksTo
  <2> QED
    BY <2>1, Zenon DEF HostFile, t, s
<1>5. CASE \A e, l \in Range(a) : e.type = "hard" /\ l.type = "link" => l.path \notin Ancestors(e.to)
  <2>1. ASSUME NEW q \in Ancestors(to), Is(t, q, "link") PROVE FALSE
    <3>1. PICK l \in Range(a) : l.type = "link" /\ l.path = q
      BY <1>3, <2>1, Zenon
    <3>2. a[n] \in Range(a) /\ a[n].type = "hard" /\ a[n].to = to
      BY <1>2, Zenon DEF to
    <3> QED
      BY <1>5, <2>1, <3>1, <3>2, Zenon
  <2>2. LinksTo(t, to) = {} /\ Found(t, to) = to
    BY <2>1, FoundThere
  <2> QED
    BY <2>2, Zenon DEF HostFile, t, s
<1> QED
  BY <1>4, <1>5, Zenon DEF SourcesInside

LEMMA TreesInit == Init => TreesOK
<1> SUFFICES ASSUME Init, NEW i \in Layer
             PROVE  /\ tree[i] = Tree(SubSeq(tar[i], 1, pos[i] - 1), i)
                    /\ WellFormed(tree[i]) /\ FilesOf(tree[i], i)
  BY ZenonT(30) DEF TreesOK, Init
<1>1. tree[i] = NoFiles /\ pos[i] = 1
  BY Zenon DEF Init
<1>2. tar[i] \in Seq(EntryRec)
  BY LoopsInit, Zenon DEF LoopsOK
<1>3. SubSeq(tar[i], 1, pos[i] - 1) = <<>>
  BY <1>1, <1>2
<1>4. Live(<<>>) = {}
  BY DEF Live
<1>5. Mentioned(<<>>) = {}
  BY <1>4, Zenon DEF Mentioned
<1>6. Tree(<<>>, i) = NoFiles
  BY <1>5, TreeForm, Zenon DEF NoFiles
<1>7. DOMAIN NoFiles = {}
  BY SMTT(30) DEF NoFiles
<1> QED
  BY <1>1, <1>3, <1>6, <1>7, ZenonT(30) DEF WellFormed, FilesOf

LEMMA TreesNext == LoopsOK /\ AllInside /\ TreesOK /\ [Next]_vars => TreesOK'
<1> SUFFICES ASSUME LoopsOK, AllInside, TreesOK, [Next]_vars PROVE TreesOK'
  BY Zenon
<1>10. tree' = [i \in Layer |-> tree'[i]]
  <2>1. tree = [i \in Layer |-> tree[i]]
    BY Zenon DEF TreesOK
  <2>2. ASSUME NEW i \in Layer, LoopBody(i) PROVE tree' = [k \in Layer |-> tree'[k]]
    BY <2>1, <2>2, LoopBodyCases, ZenonT(30) DEF Fail, EndStep, SkipStep, ExtractStep
  <2>3. (\A i \in Layer : ~LoopBody(i)) => tree' = tree
    BY ZenonT(30) DEF Next, LoopHead, Load, Read, Fail, Cancel, Extracted, NextLayer, Apply, vars
  <2> QED
    BY <2>1, <2>2, <2>3
<1> SUFFICES ASSUME NEW j \in Layer
             PROVE  /\ tree'[j] = Tree(SubSeq(tar'[j], 1, pos'[j] - 1), j)
                    /\ WellFormed(tree'[j]) /\ FilesOf(tree'[j], j)
  BY <1>10, Zenon DEF TreesOK
<1>0. /\ tree[j] = Tree(SubSeq(tar[j], 1, pos[j] - 1), j)
      /\ WellFormed(tree[j]) /\ FilesOf(tree[j], j) /\ DOMAIN tree = Layer
  BY DEF TreesOK
<1>1. ASSUME tar'[j] = tar[j], pos'[j] = pos[j], tree'[j] = tree[j]
      PROVE  /\ tree'[j] = Tree(SubSeq(tar'[j], 1, pos'[j] - 1), j)
             /\ WellFormed(tree'[j]) /\ FilesOf(tree'[j], j)
  <2>1. SubSeq(tar'[j], 1, pos'[j] - 1) = SubSeq(tar[j], 1, pos[j] - 1)
    BY <1>1, Zenon
  <2> QED
    BY <1>0, <1>1, <2>1, Zenon
<1>2. CASE Cancel \/ Extracted \/ NextLayer \/ Apply \/ UNCHANGED vars
  BY <1>1, <1>2 DEF Cancel, Extracted, NextLayer, Apply, vars
<1>3. ASSUME NEW i \in Layer, LoopHead(i) \/ Load(i) \/ Read(i)
      PROVE  UNCHANGED <<tar, pos, tree>>
  BY <1>3, ZenonT(30) DEF LoopHead, Load, Read, Fail
<1>4. ASSUME NEW i \in Layer, LoopBody(i)
      PROVE  /\ tree'[j] = Tree(SubSeq(tar'[j], 1, pos'[j] - 1), j)
             /\ WellFormed(tree'[j]) /\ FilesOf(tree'[j], j)
  <2>0. UNCHANGED <<job, tar>>
    BY <1>4, LoopBodyCases
  <2>1. CASE Fail(i) \/ EndStep(i)
    BY <1>1, <2>0, <2>1, Zenon DEF Fail, EndStep
  <2>2. CASE (SkipStep(i) \/ ExtractStep(i)) /\ i # j
    <3>1. pos'[j] = pos[j]
      BY <2>2 DEF SkipStep, ExtractStep, LoopsOK
    <3>2. tree'[j] = tree[j]
      BY <1>0, <2>2, Zenon DEF SkipStep, ExtractStep
    <3> QED
      BY <1>1, <2>0, <3>1, <3>2, SMTT(30)
  <2>3. CASE (SkipStep(i) \/ ExtractStep(i)) /\ i = j
    <3> DEFINE s == SubSeq(tar[j], 1, pos[j] - 1)
               e == Entry(j)
    <3>1. ~AtEnd(j) /\ pos'[j] = pos[j] + 1
      BY <2>3, Zenon DEF SkipStep, ExtractStep, LoopsOK
    <3>2. e \in EntryRec /\ pos[j] \in 1 .. Len(tar[j]) /\ tar[j] \in Seq(EntryRec)
      BY <3>1, EntryFacts
    <3>3. s \in Seq(EntryRec)
      BY <3>2
    <3>4. SubSeq(tar'[j], 1, pos'[j] - 1) = Append(s, e)
      <4>1. \A q \in Seq(EntryRec) : \A k \in 1 .. Len(q) : SubSeq(q, 1, k) = Append(SubSeq(q, 1, k - 1), q[k])
        OBVIOUS
      <4>2. pos'[j] - 1 = pos[j]
        BY <3>1, <3>2
      <4> QED
        BY <2>0, <3>2, <4>1, <4>2, Zenon DEF Entry
    <3>5. e.path \in Seq(Names) \/ e.path = Outside
      BY <3>2, Zenon DEF EntryRec, Path, Names
    <3> HIDE DEF s, e
    <3>6. tree[j] = Tree(s, j)
      BY <1>0 DEF s
    <3>7. DOMAIN tree[j] = Mentioned(s) /\ tree[j] = [p \in DOMAIN tree[j] |-> tree[j][p]]
      BY <3>6, TreeForm, Zenon
    <3>8. \A p \in Mentioned(s) : p # Outside
      BY <1>0, <3>7, NameFacts DEF WellFormed
    <3>9. CASE SkipStep(i)
      <4>1. tree' = tree /\ e.path = Outside
        BY <2>3, <3>9 DEF SkipStep, e
      <4>2. Tree(Append(s, e), j) = Tree(s, j)
        BY <3>2, <3>3, <3>8, <4>1, TreeSkip, Zenon
      <4> QED
        BY <1>0, <3>4, <3>6, <4>1, <4>2, ZenonT(30)
    <3>10. CASE ExtractStep(i)
      <4>1. e.path # Outside
        BY <2>3, <3>10, Zenon DEF ExtractStep, e
      <4>2. CanExtract(tree[j], e)
        BY <2>3, <3>2, <3>10, DiskExtracts DEF ExtractStep, e
      <4>3. tree'[j] = Extract(tree[j], e, j)
        <5>1. tree' = [tree EXCEPT ![j] = Extract(@, Entry(j), j)]
          BY <2>3, <3>10, ZenonT(30) DEF ExtractStep
        <5> QED
          BY <1>0, <5>1 DEF e
      <4>4. CASE e.type = "other"
        <5>1. tree'[j] = tree[j]
          BY <4>3, <4>4 DEF Extract
        <5>2. Tree(Append(s, e), j) = Tree(s, j)
          BY <3>2, <3>3, <3>8, <4>4, TreeSkip, Zenon
        <5> QED
          BY <1>0, <3>4, <3>6, <5>1, <5>2, ZenonT(30)
      <4>5. CASE e.type # "other"
        <5>1. e.path \in Seq(Names)
          BY <3>5, <4>1, SMTT(30)
        <5>0. e.type = "hard" => ~HostFile(tree[j], e.to)
          BY <3>2, <3>6, HardlinkInside, ZenonT(30) DEF AllInside, Entry, e, s
        <5>2. Extract(tree[j], e, j) = With(tree[j], e, j) /\ Clear(tree[j], e)
          BY <1>0, <3>2, <3>7, <4>2, <4>5, <5>0, <5>1, ExtractIsWith, Zenon
        <5>3. WellFormed(With(tree[j], e, j)) /\ FilesOf(With(tree[j], e, j), j)
          BY <1>0, <3>2, <5>1, <5>2, WithWellFormed, SMTT(30)
        <5>4. Tree(Append(s, e), j) = With(Tree(s, j), e, j)
          BY <3>2, <3>3, <4>5, <5>1, TreeWith
        <5> QED
          BY <3>4, <3>6, <4>3, <5>2, <5>3, <5>4, ZenonT(30)
      <4> QED
        BY <4>4, <4>5
    <3> QED
      BY <2>3, <3>9, <3>10
  <2> QED
    BY <1>4, <2>1, <2>2, <2>3, LoopBodyCases, ZenonT(30)
<1> QED
  BY <1>1, <1>2, <1>3, <1>4 DEF Next

-----------------------------------------------------------------------------
(* The rootfs.                                                             *)

LEMMA ExtractedAll ==
  ASSUME LoopsOK, TreesOK, NEW i \in Layer, AtEnd(i)
  PROVE  tree[i] = Described(i) /\ WellFormed(Described(i))
<1>1. tar[i] \in Seq(EntryRec) /\ pos[i] \in Nat \ {0} /\ Len(tar[i]) \in Nat
  BY EntryFacts, Zenon DEF LoopsOK
<1>2. pos[i] - 1 = Len(tar[i])
  BY <1>1 DEF LoopsOK, LoopOK, AtEnd
<1>3. SubSeq(tar[i], 1, Len(tar[i])) = tar[i]
  BY <1>1
<1> QED
  BY <1>2, <1>3, Zenon DEF TreesOK, Described

\* What the archives describe does not change.
LEMMA ArchivesFixed ==
  ASSUME tar' = tar
  PROVE  InLayer(cur', todo', dst') <=> InLayer(cur, todo, dst)'
<1>1. \A i : Described(i)' = Described(i)
  BY Zenon DEF Described
<1>2. \A n : Composed(n)' = Composed(n)
  <2>1. \A n, p : p \in Shown(n)' <=> p \in Shown(n)
    BY <1>1 DEF Shown
  <2>2. \A n, p, i : i \in Highest(n, p)' <=> i \in Highest(n, p)
    BY <1>1, Zenon DEF Highest
  <2>3. \A n : Shown(n)' = Shown(n)
    BY <2>1
  <2>4. \A n, p : Highest(n, p)' = Highest(n, p)
    BY <2>2
  <2>5. \A n, p : (Described(CHOOSE i \in Highest(n, p) : TRUE)[p])' =
                   Described(CHOOSE i \in Highest(n, p) : TRUE)[p]
    BY <1>1, <2>4, Zenon
  <2> SUFFICES ASSUME NEW n PROVE Composed(n)' = Composed(n)
    BY Zenon
  <2>6. Composed(n)' = [p \in Shown(n)' |-> (Described(CHOOSE i \in Highest(n, p) : TRUE)[p])']
    BY Zenon DEF Composed
  <2>7. Composed(n) = [p \in Shown(n) |-> Described(CHOOSE i \in Highest(n, p) : TRUE)[p]]
    BY Zenon DEF Composed
  <2>8. Shown(n)' = Shown(n)
    BY <2>3, Zenon
  <2> QED
    BY <2>5, <2>6, <2>7, <2>8
<1>3. NoneAhead' <=> NoneAhead
  BY <1>1 DEF NoneAhead
<1> QED
  BY <1>1, <1>2, <1>3, Zenon DEF InLayer

LEMMA CardinalityFacts == Cardinality(Layer) \in Nat /\ Layer = 1 .. Cardinality(Layer)
BY LayersAssumption, Zenon

LEMMA ComposedFunction ==
  ASSUME NEW n
  PROVE  /\ Composed(n) = [p \in DOMAIN Composed(n) |-> Composed(n)[p]]
         /\ Described(n) = [p \in DOMAIN Described(n) |-> Described(n)[p]]
<1>1. Composed(n) = [p \in DOMAIN Composed(n) |-> Composed(n)[p]]
  BY DEF Composed
<1>2. Described(n) = [p \in DOMAIN Described(n) |-> Described(n)[p]]
  BY TreeForm, Zenon DEF Described
<1> QED
  BY <1>1, <1>2

LEMMA WalkingInLayer ==
  ASSUME NEW n, NEW remain, NEW rootfs, WellFormed(Described(n)), InLayer(n, remain, rootfs), NoneAhead
  PROVE  /\ Walking(Composed(n - 1), Described(n), Walk(Described(n)) \ remain)
         /\ rootfs = Applied(Composed(n - 1), Described(n), Walk(Described(n)) \ remain)
<1>1. /\ WellFormed(Composed(n - 1)) /\ AllPlain(Composed(n - 1))
      /\ remain \subseteq Walk(Described(n))
      /\ \A v \in Walk(Described(n)) \ remain, w \in remain : Before(v, w)
      /\ rootfs = Applied(Composed(n - 1), Described(n), Walk(Described(n)) \ remain)
  BY Zenon DEF InLayer
<1>2. \A w \in Walk(Described(n)) \ (Walk(Described(n)) \ remain) : w \in remain
  BY Zenon
<1>3. Walk(Described(n)) \ remain \subseteq Walk(Described(n))
  BY Zenon
<1> QED
  BY <1>1, <1>2, <1>3, ComposedFunction, Zenon DEF Walking

\* A layer that was applied is part of the composition.
LEMMA LayerDone ==
  ASSUME NEW n \in Nat \ {0}, NEW rootfs, WellFormed(Described(n)), InLayer(n, {}, rootfs), NoneAhead
  PROVE  rootfs = Composed(n) /\ WellFormed(Composed(n)) /\ AllPlain(Composed(n))
<1>1. Walk(Described(n)) \ {} = Walk(Described(n))
  BY Zenon
<1>2. /\ Walking(Composed(n - 1), Described(n), Walk(Described(n)))
      /\ rootfs = Applied(Composed(n - 1), Described(n), Walk(Described(n)))
  BY <1>1, WalkingInLayer
<1>3. Composed(n) = Applied(Composed(n - 1), Described(n), Walk(Described(n)))
  BY <1>2, ComposedNext, Zenon DEF Walking
<1> QED
  BY <1>2, <1>3, AppliedWellFormed

LEMMA RootfsInit == Init => RootfsOK
BY DEF Init, RootfsOK

LEMMA RootfsNextLayer ==
  ASSUME LoopsOK, TreesOK, RootfsOK, NextLayer
  PROVE  RootfsOK'
<1>0. /\ phase = "apply" /\ todo = {} /\ job = "layered" /\ \A i \in Layer : pc[i] = "ok"
      /\ UNCHANGED <<job, tar, tree, pc, dst>>
      /\ cur \in 0 .. Cardinality(Layer) /\ (cur = 0 => dst = NoFiles) /\ (cur > 0 => InLayer(cur, {}, dst))
  BY DEF NextLayer, RootfsOK
<1>1. \A i \in Layer : AtEnd(i)
  BY <1>0 DEF LoopsOK, LoopOK
<1>2. \A i \in Layer : tree[i] = Described(i) /\ WellFormed(Described(i))
  BY <1>1, ExtractedAll, Zenon
<1>3. CASE cur = Cardinality(Layer)
  <2>1. phase' = "done" /\ UNCHANGED <<cur, todo>>
    BY <1>3, Zenon DEF NextLayer
  <2>2. cur > 0 => InLayer(cur, todo, dst)'
    BY <1>0, <2>1, ArchivesFixed, SMTT(30)
  <2> QED
    BY <1>0, <1>3, <2>1, <2>2 DEF RootfsOK
<1>4. CASE cur # Cardinality(Layer)
  <2>1. phase' = "apply" /\ cur' = cur + 1 /\ todo' = Walk(tree[cur'])
    BY <1>0, <1>4, Zenon DEF NextLayer, Walk
  <2>2. cur' \in 1 .. Cardinality(Layer) /\ cur' \in Layer /\ cur' - 1 = cur /\ cur \in Nat
    BY <1>0, <1>4, <2>1, CardinalityFacts
  <2>3. todo' = Walk(Described(cur'))
    BY <1>2, <2>1, <2>2, Zenon
  <2>4. ASSUME NoneAhead
        PROVE  dst = Composed(cur) /\ WellFormed(Composed(cur)) /\ AllPlain(Composed(cur))
    <3>1. CASE cur = 0
      <4>1. WellFormed(NoFiles) /\ AllPlain(NoFiles)
        BY Zenon DEF WellFormed, AllPlain, NoFiles
      <4> QED
        BY <1>0, <3>1, <4>1, ComposedNone
    <3>2. CASE cur # 0
      <4>1. cur \in Nat \ {0} /\ cur > 0 /\ cur \in Layer
        BY <1>0, <3>2, CardinalityFacts
      <4> QED
        BY <1>0, <1>2, <2>4, <4>1, LayerDone
    <3> QED
      BY <3>1, <3>2, Zenon
  <2>5. InLayer(cur', todo', dst')
    <3>1. Walk(Described(cur')) \ todo' = {}
      BY <2>3
    <3>2. NoneAhead => dst' = Applied(Composed(cur' - 1), Described(cur'), {})
      <4>1. NoneAhead => Applied(Composed(cur), Described(cur'), {}) = Composed(cur)
        BY AppliedNone, ComposedFunction, Zenon
      <4> QED
        BY <1>0, <2>2, <2>4, <4>1, Zenon
    <3>3. NoneAhead => WellFormed(Composed(cur' - 1)) /\ AllPlain(Composed(cur' - 1))
      BY <2>2, <2>4, Zenon
    <3> QED
      BY <2>3, <3>1, <3>2, <3>3, Zenon DEF InLayer
  <2>6. InLayer(cur, todo, dst)'
    BY <1>0, <2>5, ArchivesFixed
  <2> QED
    BY <1>0, <2>1, <2>2, <2>6 DEF RootfsOK
<1> QED
  BY <1>3, <1>4, SMTT(30)

LEMMA RootfsApply ==
  ASSUME LoopsOK, TreesOK, RootfsOK, Apply
  PROVE  RootfsOK'
<1>0. /\ phase = "apply" /\ job = "layered" /\ \A i \in Layer : pc[i] = "ok"
      /\ UNCHANGED <<job, tar, tree, pc, cur>> /\ todo # {}
      /\ cur \in 0 .. Cardinality(Layer) /\ cur # 0 /\ InLayer(cur, todo, dst)
  <2>1. /\ phase = "apply" /\ job = "layered" /\ \A i \in Layer : pc[i] = "ok"
        /\ UNCHANGED <<job, tar, tree, pc, cur>> /\ todo # {}
        /\ cur \in 0 .. Cardinality(Layer) /\ cur # 0
    BY Zenon DEF Apply, RootfsOK
  <2>2. cur > 0
    BY <2>1, CardinalityFacts
  <2> QED
    BY <2>1, <2>2 DEF RootfsOK
<1>1. cur \in Layer
  BY <1>0, CardinalityFacts
<1>2. AtEnd(cur)
  BY <1>0, <1>1, Zenon DEF LoopsOK, LoopOK
<1> DEFINE t == Described(cur)
           r == Composed(cur - 1)
           V == Walk(t) \ todo
<1>3. tree[cur] = t /\ WellFormed(t)
  BY <1>1, <1>2, ExtractedAll
<1>4. PICK p \in todo :
        /\ \A q \in todo \ {p} : Before(p, q)
        /\ IF CanApply(dst, t, p)
             THEN dst' = ApplyPath(dst, t, p) /\ todo' = todo \ {p} /\ UNCHANGED phase
             ELSE phase' = "failed" /\ UNCHANGED <<dst, todo>>
  BY <1>3, Zenon DEF Apply
<1>5. CASE ~CanApply(dst, t, p)
  BY <1>0, <1>4, <1>5 DEF RootfsOK
<1>6. CASE CanApply(dst, t, p)
  <2>1. dst' = ApplyPath(dst, t, p) /\ todo' = todo \ {p} /\ phase' = phase
    BY <1>4, <1>6
  <2>2. todo \subseteq Walk(t) /\ \A v \in V, w \in todo : Before(v, w)
    BY <1>0, Zenon DEF InLayer
  <2>3. p \in Walk(t) \ V /\ V \cup {p} = Walk(t) \ todo' /\ Walk(t) \ V = todo
    BY <2>1, <2>2
  <2>4. \A v \in V \cup {p}, w \in todo' : Before(v, w)
    BY <1>4, <2>1, <2>2, Zenon
  <2>5. ASSUME NoneAhead
        PROVE  WellFormed(r) /\ AllPlain(r) /\ dst' = Applied(r, t, V \cup {p})
    <3>1. Walking(r, t, V) /\ dst = Applied(r, t, V)
      BY <1>0, <1>3, <2>5, WalkingInLayer, Zenon
    <3>2. \A v \in V : ~Marked(v) => ~AheadOfMarker(t, v)
      <4>1. \A v \in PlainPaths(t) : ~AheadOfMarker(t, v)
        BY <1>1, <2>5, Zenon DEF NoneAhead
      <4> QED
        BY <1>3, <4>1, PlainIff, Zenon
    <3> HIDE DEF t, r, V
    <3>5. p \in Walk(t) \ V /\ Walking(r, t, V)
      BY <2>3, <3>1, Zenon
    <3>3. CASE Marked(p)
      <4>1. ApplyPath(Applied(r, t, V), t, p) = Applied(r, t, V \cup {p})
        BY <3>2, <3>3, <3>5, ApplyMarker
      <4> QED
        BY <2>1, <3>1, <4>1, Zenon DEF Walking
    <3>4. CASE ~Marked(p)
      <4>1. \A w \in Walk(t) \ V : w # p => Before(p, w)
        BY <1>4, <2>3, Zenon
      <4>2. CanApply(Applied(r, t, V), t, p)
        BY <1>6, <3>1, Zenon
      <4>3. ApplyPath(Applied(r, t, V), t, p) = Applied(r, t, V \cup {p})
        BY <3>4, <3>5, <4>1, <4>2, ApplyNode, SMTT(30)
      <4> QED
        BY <2>1, <3>1, <4>3, Zenon DEF Walking
    <3> QED
      BY <3>3, <3>4
  <2>6. InLayer(cur', todo', dst')
    <3>1. cur' = cur /\ todo' \subseteq Walk(t)
      BY <1>0, <2>1, <2>2, Zenon
    <3>2. InLayer(cur, todo', dst')
      BY <2>3, <2>4, <2>5, <3>1, Zenon DEF InLayer
    <3> QED
      BY <3>1, <3>2
  <2>7. InLayer(cur, todo, dst)'
    BY <1>0, <2>6, ArchivesFixed
  <2> QED
    BY <1>0, <2>1, <2>7, Zenon DEF RootfsOK
<1> QED
  BY <1>5, <1>6, Zenon

LEMMA RootfsNext == LoopsOK /\ TreesOK /\ RootfsOK /\ [Next]_vars => RootfsOK'
<1> SUFFICES ASSUME LoopsOK, TreesOK, RootfsOK, [Next]_vars PROVE RootfsOK'
  OBVIOUS
<1>1. ASSUME NEW i \in Layer, LoopHead(i) \/ Load(i) \/ Read(i) \/ LoopBody(i) PROVE RootfsOK'
  <2>1. pc[i] # "ok" /\ UNCHANGED <<job, tar, dst, cur, todo, phase>>
    BY <1>1, ZenonT(30) DEF LoopHead, Load, Read, LoopBody
  <2>2. phase \notin {"apply", "done"}
    BY <2>1, Zenon DEF RootfsOK
  <2> QED
    BY <2>1, <2>2, SMTT(30) DEF RootfsOK
<1>2. CASE Cancel
  BY <1>2 DEF Cancel, RootfsOK
<1>3. CASE Extracted
  <2>1. /\ phase = "extract" /\ dst = NoFiles /\ cur = 0 /\ todo = {}
        /\ UNCHANGED <<job, tar, tree, pc, cur, todo>>
    BY <1>3 DEF Extracted, RootfsOK
  <2>2. CASE \E i \in Layer : pc[i] = "err"
    BY <1>3, <2>1, <2>2, Zenon DEF Extracted, RootfsOK
  <2>3. CASE ~\E i \in Layer : pc[i] = "err"
    <3>1. \A i \in Layer : pc[i] = "ok"
      BY <1>3, <2>3, Zenon DEF Extracted
    <3>2. CASE job = "layered"
      <4>1. phase' = "apply" /\ dst' = dst
        BY <1>3, <2>3, <3>2 DEF Extracted
      <4>2. 0 \in 0 .. Cardinality(Layer) /\ ~(0 > 0)
        BY CardinalityFacts
      <4> QED
        BY <2>1, <3>1, <3>2, <4>1, <4>2, SMTT(30) DEF RootfsOK
    <3>3. CASE job # "layered"
      <4>1. phase' = "done" /\ dst' = tree[1]
        BY <1>3, <2>3, <3>3 DEF Extracted
      <4> QED
        BY <2>1, <3>1, <3>3, <4>1, ZenonT(30) DEF RootfsOK
    <3> QED
      BY <3>2, <3>3
  <2> QED
    BY <2>2, <2>3, Zenon
<1>4. CASE NextLayer
  BY <1>4, RootfsNextLayer, Zenon
<1>5. CASE Apply
  BY <1>5, RootfsApply, ZenonT(30)
<1>6. CASE UNCHANGED vars
  <2>1. UNCHANGED <<job, tar, tree, pc, dst, cur, todo, phase>>
    BY <1>6, Zenon DEF vars
  <2>2. InLayer(cur, todo, dst) <=> InLayer(cur, todo, dst)'
    <3>1. InLayer(cur, todo, dst) <=> InLayer(cur', todo', dst')
      BY <2>1, Zenon
    <3> QED
      BY <2>1, <3>1, ArchivesFixed
  <2> QED
    BY <2>1, <2>2 DEF RootfsOK
<1> QED
  BY <1>1, <1>2, <1>3, <1>4, <1>5, <1>6, Zenon DEF Next

LEMMA RootfsImplied ==
  LoopsOK /\ FlatOK /\ (AllInside => TreesOK /\ RootfsOK) => RootfsAsDescribed
<1> SUFFICES ASSUME LoopsOK, TreesOK, FlatOK, RootfsOK, phase = "done"
             PROVE  /\ job = "layered" /\ NoneAhead => dst = Composed(Cardinality(Layer))
                    /\ job = "disk" => dst = Described(1)
                    /\ job = "flat" /\ (\A e \in Range(tar[1]) : e.path # Outside) => dst = Described(1)
  BY Zenon DEF RootfsAsDescribed, AllInside
<1>1. \A i \in Layer : pc[i] = "ok"
  BY Zenon DEF RootfsOK
<1>2. ASSUME job = "layered", NoneAhead PROVE dst = Composed(Cardinality(Layer))
  <2>1. /\ cur = Cardinality(Layer) /\ (cur = 0 => dst = NoFiles)
        /\ cur > 0 => InLayer(cur, {}, dst)
    BY <1>2, Zenon DEF RootfsOK
  <2>2. CASE cur = 0
    BY <2>1, <2>2, ComposedNone
  <2>3. CASE cur # 0
    <3>1. cur \in Nat \ {0} /\ cur > 0 /\ cur \in Layer
      BY <2>1, <2>3, CardinalityFacts
    <3>2. AtEnd(cur)
      BY <1>1, <1>2, <3>1 DEF LoopsOK, LoopOK
    <3>3. WellFormed(Described(cur))
      BY <3>1, <3>2, ExtractedAll
    <3>4. dst = Composed(cur)
      BY <1>2, <2>1, <3>1, <3>3, LayerDone
    <3> QED
      BY <2>1, <3>4, Zenon
  <2> QED
    BY <2>2, <2>3
<1>3. ASSUME job # "layered", job = "flat" => \A e \in Range(tar[1]) : e.path # Outside
      PROVE  dst = Described(1)
  <2>1. 1 \in Layer /\ dst = tree[1]
    BY <1>3 DEF LoopsOK, RootfsOK
  <2>2. AtEnd(1)
    BY <1>1, <1>3, <2>1, Zenon DEF LoopsOK, LoopOK, FlatOK
  <2> QED
    BY <2>1, <2>2, ExtractedAll
<1> QED
  BY <1>2, <1>3

-----------------------------------------------------------------------------
(* The budget: how many units there are.                                   *)

INSTANCE FiniteSetTheorems

LEMMA BudgetInit == Init => BudgetOK
<1> SUFFICES ASSUME Init PROVE BudgetOK
  BY Zenon
<1>1. IsFiniteSet(Taken) /\ Cardinality(Taken) = 0
  BY TakenInit, FS_EmptySet
<1>2. remaining = MaxSize /\ MaxSize \in Nat \ {0}
  BY LayersAssumption, Zenon DEF Init
<1> QED
  BY <1>1, <1>2, SMTT(30) DEF BudgetOK

LEMMA BudgetNext == LoopsOK /\ BudgetOK /\ [Next]_vars => BudgetOK'
<1> SUFFICES ASSUME LoopsOK, BudgetOK, [Next]_vars, job # "flat" PROVE BudgetOK'
  BY InputFixed, Zenon DEF BudgetOK
<1>1. /\ IsFiniteSet(Taken) /\ Cardinality(Taken) + remaining <= MaxSize
      /\ job = "disk" => remaining >= 0
      /\ job = "layered" /\ Cardinality(Taken) >= MaxSize => \E j \in Layer : Doomed(j)
  BY Zenon DEF BudgetOK
<1>2. Cardinality(Taken) \in Nat /\ MaxSize \in Nat /\ remaining \in Int
  BY <1>1, LayersAssumption, FS_CardinalityType, SMTT(30) DEF LoopsOK
<1>3. ASSUME NEW X, IsFiniteSet(X), Taken' \subseteq Taken \cup X
      PROVE  /\ IsFiniteSet(Taken') /\ Cardinality(Taken') \in Nat
             /\ Cardinality(Taken') <= Cardinality(Taken) + Cardinality(X)
  <2>1. /\ IsFiniteSet(Taken \cup X)
        /\ Cardinality(Taken \cup X) = Cardinality(Taken) + Cardinality(X) - Cardinality(Taken \cap X)
    BY <1>1, <1>3, FS_Union, Zenon
  <2>2. IsFiniteSet(Taken') /\ Cardinality(Taken') <= Cardinality(Taken \cup X)
    BY <1>3, <2>1, FS_Subset, Zenon
  <2>3. IsFiniteSet(Taken \cap X)
    BY <1>3, FS_Subset, Zenon
  <2>4. /\ Cardinality(X) \in Nat /\ Cardinality(Taken \cap X) \in Nat
        /\ Cardinality(Taken') \in Nat
    BY <1>3, <2>2, <2>3, FS_CardinalityType, Zenon
  <2> QED
    BY <1>2, <2>1, <2>2, <2>4, SMTT(30)
<1>4. ASSUME Taken' \subseteq Taken
      PROVE  /\ IsFiniteSet(Taken') /\ Cardinality(Taken') \in Nat
             /\ Cardinality(Taken') <= Cardinality(Taken)
  BY <1>1, <1>4, FS_Subset, FS_CardinalityType, ZenonT(30)
<1>5. CASE TakesNothing
  <2>1. UNCHANGED <<job, remaining>> /\ Taken' \subseteq Taken
    BY <1>5, Zenon DEF TakesNothing
  <2>2. job = "layered" /\ Cardinality(Taken') >= MaxSize => \E j \in Layer : Doomed(j)'
    BY <1>1, <1>2, <1>4, <1>5, <2>1, SMTT(30) DEF TakesNothing
  <2> QED
    BY <1>1, <1>2, <1>4, <2>1, <2>2, SMTT(30) DEF BudgetOK
<1>6. CASE TakesUnit
  <2>1. PICK x : Taken' \subseteq Taken \cup {x}
    BY <1>6, Zenon DEF TakesUnit
  <2>2. IsFiniteSet({x}) /\ Cardinality({x}) = 1
    BY FS_Singleton, Zenon
  <2>3. /\ IsFiniteSet(Taken') /\ Cardinality(Taken') \in Nat
        /\ Cardinality(Taken') <= Cardinality(Taken) + 1
    BY <1>3, <2>1, <2>2, SMTT(30)
  <2>4. Cardinality(Taken') >= MaxSize => \E j \in Layer : Doomed(j)'
    BY <1>1, <1>2, <1>4, <1>6, <2>3, SMTT(30) DEF TakesUnit
  <2> QED
    BY <1>1, <1>2, <1>6, <2>3, <2>4, SMTT(30) DEF BudgetOK, TakesUnit
<1>7. CASE TakesFile
  <2>0. PICK x : \E c \in Nat : /\ Taken' \subseteq Taken \cup ({x} \X (1 .. c))
                                /\ remaining' = remaining - c /\ remaining >= c
    BY <1>7, Zenon DEF TakesFile
  <2>1. PICK c \in Nat : /\ Taken' \subseteq Taken \cup ({x} \X (1 .. c))
                         /\ remaining' = remaining - c /\ remaining >= c
    BY <2>0, Zenon
  <2>2. IsFiniteSet({x}) /\ Cardinality({x}) = 1
    BY FS_Singleton, Zenon
  <2>3. IsFiniteSet(1 .. c) /\ Cardinality(1 .. c) = c
    BY FS_Interval
  <2>4. /\ IsFiniteSet({x} \X (1 .. c))
        /\ Cardinality({x} \X (1 .. c)) = Cardinality({x}) * Cardinality(1 .. c)
    BY <2>2, <2>3, FS_Product, ZenonT(30)
  <2>5. /\ IsFiniteSet(Taken') /\ Cardinality(Taken') \in Nat
        /\ Cardinality(Taken') <= Cardinality(Taken) + c
    BY <1>3, <2>1, <2>2, <2>3, <2>4, SMTT(30)
  <2>6. job' = "disk"
    BY <1>7, Zenon DEF TakesFile
  <2> QED
    BY <1>1, <1>2, <2>1, <2>5, <2>6, SMTT(30) DEF BudgetOK
<1> QED
  BY <1>1, <1>5, <1>6, <1>7, StepTakes, SMTT(30)

LEMMA BudgetImplied == LoopsOK /\ BudgetOK => BudgetHolds
<1> SUFFICES ASSUME LoopsOK, BudgetOK, \A i \in Layer : pc[i] = "ok",
                    job = "layered" \/ job = "disk"
             PROVE  Cardinality(Units) <= MaxSize
  BY Zenon DEF BudgetHolds
<1>1. Units = Taken
  BY TakenAll
<1>2. \A i \in Layer : ~Doomed(i)
  BY Zenon DEF Doomed
<1>3. IsFiniteSet(Taken) /\ Cardinality(Taken) \in Nat /\ MaxSize \in Nat /\ remaining \in Int
  BY LayersAssumption, FS_CardinalityType DEF BudgetOK, LoopsOK
<1> QED
  BY <1>1, <1>2, <1>3 DEF BudgetOK

-----------------------------------------------------------------------------
(* The theorems.                                                           *)

\* The invariant behind both: the loops, the budget and the trees of the
\* extraction, and the rootfs in the middle of a layer.
THEOREM LayersInvariant == Spec => []LayersInv
<1>1. Init => LayersInv
  BY LoopsInit, BudgetInit, TreesInit, FlatInit, RootfsInit, ZenonT(30) DEF LayersInv
<1>2. LayersInv /\ [Next]_vars => LayersInv'
  <2>1. LayersInv /\ [Next]_vars => (AllInside' => AllInside)
    BY InputFixed, Zenon DEF AllInside
  <2> QED
    BY <2>1, LoopsNext, BudgetNext, TreesNext, FlatNext, RootfsNext, Zenon DEF LayersInv
<1> QED
  BY <1>1, <1>2, PTL DEF Spec

\* The layers that are extracted in parallel, and a disk image, never take more
\* than the budget (extractTarSharedLimit, atomicLimitReader, Decompress): for
\* any number of layers, any archives and any interleaving of their reads.
THEOREM BudgetSafe == Spec => []BudgetHolds
<1>1. LayersInv => BudgetHolds
  BY BudgetImplied, Zenon DEF LayersInv
<1> QED
  BY <1>1, LayersInvariant, PTL

\* A successful extraction leaves exactly what the archives describe
\* (extractImageLayered, extractTarSharedLimit, applyLayerToDir, extractTar,
\* Decompress): for any number of layers, any archives whatever paths, links,
\* whiteouts and repeated entries they hold, as long as their hard links take no
\* file of the host, any budget, and any interleaving of the extractions with
\* each other and with the caller's cancellation.
THEOREM RootfsSafe == Spec => []RootfsAsDescribed
<1>1. LayersInv => RootfsAsDescribed
  BY RootfsImplied, Zenon DEF LayersInv
<1> QED
  BY <1>1, LayersInvariant, PTL
=============================================================================
