------------------------------- MODULE Layers -------------------------------
(***************************************************************************)
(* What a pull puts in the rootfs: extractImageLayered, which extracts the *)
(* layers in parallel under one size budget and then applies them bottom   *)
(* up with their whiteouts; extractImage, which extracts one flattened     *)
(* archive; and package disk's Decompress, which does so for a disk image. *)
(* ImageCache models when a pull does which, and the caches around it.     *)
(*                                                                         *)
(* A path is a sequence of names below the destination.  A name is a plain *)
(* one, the whiteout of one (".wh." and the name) or the opaque marker     *)
(* (".wh..wh..opq"); Sorted lists them in the byte order in which WalkDir  *)
(* visits a directory.  A tree maps the paths that exist to their nodes.   *)
(* A file's contents are the layer it came from.  Sizes are in units of    *)
(* one read; a header and the end of an archive take one unit each.        *)
(*                                                                         *)
(* A relative link is held as the path below the destination that it       *)
(* names, an absolute one as it is written: a path that begins with Root,  *)
(* the root of whoever follows it.  While an archive is extracted that is  *)
(* the host's root, of which the model knows the regular files.            *)
(*                                                                         *)
(* Left out: modes and ownership; which of one layer's contents a file     *)
(* holds when an archive names a path twice, or two hard links are         *)
(* written; and relative links with a ".." behind a name that is a link.   *)
(***************************************************************************)
EXTENDS Integers, Sequences, FiniteSets, Functions

CONSTANTS
  Layer,       \* the layers, 1 .. n from the bottom
  Sorted,      \* every name, in byte order
  Inputs,      \* what there is to extract: records [job, tar]
  MaxSize,     \* maxExtractSize and MaxDecompressedSize, in units
  MaxEntries,  \* maxExtractEntries
  MaxLinks,    \* how many links the system follows on the way to a path
  HostFiles    \* the regular files of the host: paths that begin with Root

VARIABLES
  job,         \* "layered", "flat" or "disk"
  tar,         \* per layer: the archive, a sequence of entries
  tree,        \* per layer: what was extracted so far
  pc,          \* per layer: head, load, read, entry, ok, err
  pos,         \* per layer: the entry being read
  left,        \* per layer: units of it not read yet
  remaining,   \* the size budget: shared by the layers of a layered pull
  cancelled,   \* ctx or, in a layered pull, the errgroup's context is done
  dst,         \* the rootfs
  cur,         \* the layer being applied
  todo,        \* its paths that WalkDir has not visited yet
  phase        \* extract, apply, done, failed

vars == <<job, tar, tree, pc, pos, left, remaining, cancelled, dst, cur, todo, phase>>

Plain(n) == [mark |-> "none", base |-> n]
Whiteout(n) == [mark |-> "whiteout", base |-> n]
Opaque == [mark |-> "opaque", base |-> ""]

\* A path that leaves the destination: it fails sanitizeTarPath, and a link to
\* it fails the check of its target.
Outside == <<[mark |-> "dotdot", base |-> ""]>>

Root == [mark |-> "root", base |-> ""]
IsAbs(to) == to # <<>> /\ Head(to) = Root

Name == [mark : {"none", "whiteout"}, base : STRING] \cup {Opaque}
Path == Seq(Range(Sorted)) \cup {Outside}
Target == Seq(Range(Sorted) \cup {Root}) \cup {Outside}

ASSUME LayersAssumption ==
  /\ Cardinality(Layer) \in Nat /\ Layer = 1 .. Cardinality(Layer)
  /\ Sorted \in Seq(Name) /\ IsInjective(Sorted)
  /\ MaxSize \in Nat \ {0} /\ MaxEntries \in Nat /\ MaxLinks \in Nat
  /\ \A in \in Inputs :
       /\ in.job \in {"layered", "flat", "disk"}
       /\ in.tar \in [Layer -> Seq([type : {"dir", "file", "link", "hard", "other"},
                                   path : Path, to : Target, size : Nat])]
       /\ in.job # "layered" => 1 \in Layer /\ \A i \in Layer \ {1} : in.tar[i] = <<>>

\* filepath.Base and filepath.Dir, and the paths on the way to p, p included.
Base(p) == p[Len(p)]
Parent(p) == SubSeq(p, 1, Len(p) - 1)
Prefixes(p) == {SubSeq(p, 1, l) : l \in 0 .. Len(p)}
IsStrictPrefix(p, q) == Len(p) < Len(q) /\ p = SubSeq(q, 1, Len(p))

Rank(n) == CHOOSE k \in DOMAIN Sorted : Sorted[k] = n

\* WalkDir visits a directory before what is in it, and that in byte order.
Before(p, q) ==
  \/ IsStrictPrefix(p, q)
  \/ \E k \in DOMAIN p \cap DOMAIN q :
       /\ SubSeq(p, 1, k - 1) = SubSeq(q, 1, k - 1)
       /\ Rank(p[k]) < Rank(q[k])

NoFiles == [p \in {} |-> "none"]
Dir == [kind |-> "dir"]
File(data) == [kind |-> "file", data |-> data]
Link(to) == [kind |-> "link", to |-> to]

Is(t, p, kind) == p \in DOMAIN t /\ t[p].kind = kind
Ancestors(p) == Prefixes(p) \ {<<>>, p}
Below(t, p) == {q \in DOMAIN t : IsStrictPrefix(p, q)}
Without(t, S) == [q \in DOMAIN t \ S |-> t[q]]

\* The links on the way to p.
LinksTo(t, p) == {q \in Ancestors(p) : Is(t, q, "link")}

\* Path p with the link q on the way to it followed.
Follow(t, p, q) == t[q].to \o SubSeq(p, Len(q) + 1, Len(p))

\* Where the system finds p in the destination: it follows the relative links on
\* the way to it, one after the other.
Found(t, p) ==
  IF LinksTo(t, p) = {} THEN p
  ELSE LET at[k \in 0 .. MaxLinks] ==
             IF k = 0 THEN p
             ELSE LET x == at[k - 1]
                      links == {q \in LinksTo(t, x) : ~IsAbs(t[q].to)}
                  IN  IF links = {} THEN x ELSE Follow(t, x, CHOOSE q \in links : TRUE)
       IN  at[MaxLinks]

\* An absolute link on the way leads to the host, and to a file of it.
HostFile(t, p) ==
  \E q \in LinksTo(t, Found(t, p)) :
    IsAbs(t[q].to) /\ Follow(t, Found(t, p), q) \in HostFiles

\* Put a node at p, in place of the file or link that is there.
Put(t, p, node) ==
  [q \in DOMAIN t \cup {Found(t, p)} |-> IF q = Found(t, p) THEN node ELSE t[q]]

-----------------------------------------------------------------------------
(* The checks and steps every extraction is made of.                       *)

\* Mutant: a symlink to a directory passes for a directory.
MkdirThroughLinks(t, S) == \A q \in S \cap DOMAIN t : t[q].kind # "file"

\* mkdirAllNoSymlink creates the directories of S unless one of them exists as
\* something else.
CanMkdir(t, S) == \A q \in S \cap DOMAIN t : t[q].kind = "dir"
Mkdir(t, S) == [q \in DOMAIN t \cup S |-> IF q \in DOMAIN t THEN t[q] ELSE Dir]

\* The parents of p: those of the destination itself are outside it.
CanMkdirParents(t, p) == p # <<>> /\ CanMkdir(t, Ancestors(p))

validateNoSymlinkLeaf(t, p) == p \in DOMAIN t => t[p].kind = "file"

\* extractRegularFile; also copyFileToDir, which writes a file of a layer.
CanWrite(t, p) == CanMkdirParents(t, p) /\ validateNoSymlinkLeaf(t, p)
WriteFile(t, p, data) == Put(Mkdir(t, Ancestors(p)), p, File(data))

\* extractSymlink: a link out of the destination is refused, and so is one in
\* place of a directory.  An absolute target is checked as if the destination
\* were the root, and written as it is.
CanSymlink(t, p, to) ==
  CanMkdirParents(t, p) /\ to # Outside /\ ~Is(t, p, "dir")

\* extractHardlink: the source must be a regular file.  Its path is joined to the
\* destination, and looked up by Lstat and Link through whatever links are on
\* the way.  The target is removed before the link is made.
CanHardlink(t, p, to) ==
  /\ CanMkdirParents(t, p) /\ to # Outside
  /\ \/ Is(t, Found(t, to), "file") /\ Found(t, to) # p
     \/ HostFile(t, to)
  /\ validateNoSymlinkLeaf(t, p)

\* The file a hard link shares: one of the host holds no layer's contents.
HardlinkSource(t, to) ==
  IF Is(t, Found(t, to), "file") THEN t[Found(t, to)] ELSE File(0)

\* extractTarEntry: whether it succeeds ...
CanExtract(t, e) ==
  CASE e.type = "dir"  -> CanMkdir(t, Prefixes(e.path) \ {<<>>})
    [] e.type = "file" -> CanWrite(t, e.path)
    [] e.type = "link" -> CanSymlink(t, e.path, e.to)
    [] e.type = "hard" -> CanHardlink(t, e.path, e.to)
    [] OTHER -> TRUE

\* ... and what it leaves.  Other types of entry are skipped.
Extract(t, e, data) ==
  CASE e.type = "dir"  -> Mkdir(t, Prefixes(e.path) \ {<<>>})
    [] e.type = "file" -> WriteFile(t, e.path, data)
    [] e.type = "link" -> Put(Mkdir(t, Ancestors(e.path)), e.path, Link(e.to))
    [] e.type = "hard" -> Put(Mkdir(t, Ancestors(e.path)), e.path, HardlinkSource(t, e.to))
    [] OTHER -> t

\* Package disk has its own extractEntry, with its own extractRegFile,
\* extractSymlink and extractHardlink: the same checks in the same order.
CanExtractDisk(t, e) ==
  CASE e.type = "dir" -> CanMkdir(t, Prefixes(e.path) \ {<<>>})
    [] e.type \in {"file", "link", "hard"} ->
         CanMkdirParents(t, e.path) /\
         (CASE e.type = "file" -> validateNoSymlinkLeaf(t, e.path)
            [] e.type = "link" -> e.to # Outside /\ ~Is(t, e.path, "dir")
            [] e.type = "hard" ->
                 /\ e.to # Outside
                 /\ \/ Is(t, Found(t, e.to), "file") /\ Found(t, e.to) # e.path
                    \/ HostFile(t, e.to)
                 /\ validateNoSymlinkLeaf(t, e.path))
    [] OTHER -> TRUE

-----------------------------------------------------------------------------
(* Extraction: one loop per archive, in three variants.                    *)

Init ==
  /\ \E in \in Inputs : job = in.job /\ tar = in.tar
  /\ tree = [i \in Layer |-> NoFiles]
  /\ pc = [i \in Layer |-> IF job = "layered" \/ i = 1 THEN "head" ELSE "ok"]
  /\ pos = [i \in Layer |-> 1]
  /\ left = [i \in Layer |-> 0]
  /\ remaining = MaxSize
  /\ cancelled = FALSE
  /\ dst = NoFiles /\ cur = 0 /\ todo = {}
  /\ phase = "extract"

AtEnd(i) == pos[i] > Len(tar[i])
Entry(i) == tar[i][pos[i]]
Cost(i) == IF AtEnd(i) THEN 1 ELSE 1 + Entry(i).size

\* An extraction that fails ends the errgroup's context.
Fail(i) ==
  /\ pc' = [pc EXCEPT ![i] = "err"]
  /\ cancelled' = (cancelled \/ job = "layered")
  /\ UNCHANGED <<tree, pos, left, remaining>>

\* The head of the loop: the context is checked, then the header is read.
LoopHead(i) ==
  /\ pc[i] = "head"
  /\ \/ cancelled /\ Fail(i)
     \/ /\ ~cancelled
        /\ pc' = [pc EXCEPT ![i] = "load"]
        /\ left' = [left EXCEPT ![i] = Cost(i)]
        /\ UNCHANGED <<tree, pos, remaining, cancelled>>
  /\ UNCHANGED <<job, tar, dst, cur, todo, phase>>

\* One Read, first half.  contextReader checks the context.  With the budget
\* spent atomicLimitReader fails; io.LimitedReader reports the end of the
\* stream, which is the end of the archive when it falls between two entries.
\* Decompress limits nothing here.
Load(i) ==
  /\ pc[i] = "load"
  /\ \/ cancelled /\ job # "disk" /\ Fail(i)
     \/ /\ job # "disk" /\ ~cancelled /\ remaining <= 0
        /\ IF job = "flat" /\ left[i] = Cost(i)
             THEN /\ pc' = [pc EXCEPT ![i] = "ok"]
                  /\ UNCHANGED <<tree, pos, left, remaining, cancelled>>
             ELSE Fail(i)
     \/ /\ job = "disk" \/ (~cancelled /\ remaining > 0)
        /\ pc' = [pc EXCEPT ![i] = "read"]
        /\ UNCHANGED <<tree, pos, left, remaining, cancelled>>
  /\ UNCHANGED <<job, tar, dst, cur, todo, phase>>

\* One Read, second half: the bytes are taken off the budget after they were
\* read, whatever others took in between.
Read(i) ==
  /\ pc[i] = "read"
  /\ remaining' = IF job = "disk" THEN remaining ELSE remaining - 1
  /\ left' = [left EXCEPT ![i] = @ - 1]
  /\ pc' = [pc EXCEPT ![i] = IF left[i] = 1 THEN "entry" ELSE "load"]
  /\ UNCHANGED <<job, tar, tree, pos, cancelled, dst, cur, todo, phase>>

\* Mutant: nobody looks at the budget after the entry.
OverBudgetUnchecked(i) == FALSE

\* The check after an entry: of the stream's or the shared budget, and in
\* Decompress of the sum of the files.
OverBudget(i) ==
  IF job = "disk"
    THEN Entry(i).type = "file" /\ remaining < Entry(i).size
    ELSE remaining <= 0

\* The rest of the loop's body: the end of the archive, the limit on entries,
\* an unsafe name that is skipped without a look at the budget, the extraction
\* and the check after it.  An empty disk image is an error, an empty layer is
\* not.
LoopBody(i) ==
  /\ pc[i] = "entry"
  /\ \/ /\ AtEnd(i)
        /\ IF job = "disk" /\ pos[i] = 1 THEN Fail(i)
           ELSE /\ pc' = [pc EXCEPT ![i] = "ok"]
                /\ UNCHANGED <<tree, pos, left, remaining, cancelled>>
     \/ ~AtEnd(i) /\ job # "disk" /\ pos[i] > MaxEntries /\ Fail(i)
     \/ /\ ~AtEnd(i) /\ (job = "disk" \/ pos[i] <= MaxEntries)
        /\ \/ /\ Entry(i).path = Outside
              /\ pos' = [pos EXCEPT ![i] = @ + 1]
              /\ pc' = [pc EXCEPT ![i] = "head"]
              /\ UNCHANGED <<tree, left, remaining, cancelled>>
           \/ /\ Entry(i).path # Outside
              /\ IF \/ OverBudget(i)
                    \/ IF job = "disk" THEN ~CanExtractDisk(tree[i], Entry(i))
                                       ELSE ~CanExtract(tree[i], Entry(i))
                   THEN Fail(i)
                   ELSE /\ tree' = [tree EXCEPT ![i] = Extract(@, Entry(i), i)]
                        /\ remaining' = IF job = "disk" /\ Entry(i).type = "file"
                                          THEN remaining - Entry(i).size ELSE remaining
                        /\ pos' = [pos EXCEPT ![i] = @ + 1]
                        /\ pc' = [pc EXCEPT ![i] = "head"]
                        /\ UNCHANGED <<left, cancelled>>
  /\ UNCHANGED <<job, tar, dst, cur, todo, phase>>

\* The caller gives up.
Cancel ==
  /\ phase = "extract" /\ ~cancelled
  /\ cancelled' = TRUE
  /\ UNCHANGED <<job, tar, tree, pc, pos, left, remaining, dst, cur, todo, phase>>

\* g.Wait: nothing is applied unless every layer was extracted.  A single
\* archive was extracted in its place.
Extracted ==
  /\ phase = "extract"
  /\ \A i \in Layer : pc[i] \in {"ok", "err"}
  /\ IF \E i \in Layer : pc[i] = "err"
       THEN phase' = "failed" /\ UNCHANGED dst
       ELSE IF job = "layered"
              THEN phase' = "apply" /\ UNCHANGED dst
              ELSE phase' = "done" /\ dst' = tree[1]
  /\ UNCHANGED <<job, tar, tree, pc, pos, left, remaining, cancelled, cur, todo>>

-----------------------------------------------------------------------------
(* applyLayerToDir: one step per path that WalkDir visits.                 *)

\* SafeWalk to p: "missing" and "refused" are about its parents only.
SafeWalk(t, p) ==
  IF \E q \in Ancestors(p) : q \in DOMAIN t /\ t[q].kind # "dir" THEN "refused"
  ELSE IF \E q \in Ancestors(p) : q \notin DOMAIN t THEN "missing" ELSE "found"

CanApplyWhiteout(t, p) == SafeWalk(t, p) # "refused"
applyWhiteout(t, p) ==
  IF SafeWalk(t, p) = "missing" THEN t ELSE Without(t, {p} \cup Below(t, p))

CanApplyOpaque(t, d) ==
  SafeWalk(t, d) # "refused" /\ (d \in DOMAIN t => t[d].kind = "dir")
applyOpaqueWhiteout(t, d) == Without(t, Below(t, d))

Marked(p) == Base(p).mark # "none"
Hides(p) == IF Base(p).mark = "whiteout"
              THEN Append(Parent(p), Plain(Base(p).base)) ELSE Parent(p)

\* Whether a path of layer t can be applied to rootfs r, and the result.
CanApply(r, t, p) ==
  CASE Base(p).mark = "opaque" -> CanApplyOpaque(r, Hides(p))
    [] Base(p).mark = "whiteout" -> CanApplyWhiteout(r, Hides(p))
    [] ~Marked(p) /\ t[p].kind = "link" -> t[p].to # Outside /\ ~Is(r, p, "dir")
    [] ~Marked(p) /\ t[p].kind = "dir" -> CanMkdir(r, Prefixes(p) \ {<<>>})
    [] ~Marked(p) /\ t[p].kind = "file" -> CanWrite(r, p)

ApplyPath(r, t, p) ==
  CASE Base(p).mark = "opaque" -> applyOpaqueWhiteout(r, Hides(p))
    [] Base(p).mark = "whiteout" -> applyWhiteout(r, Hides(p))
    [] ~Marked(p) /\ t[p].kind = "link" -> Put(r, p, t[p])
    [] ~Marked(p) /\ t[p].kind = "dir" -> Mkdir(r, Prefixes(p) \ {<<>>})
    [] ~Marked(p) /\ t[p].kind = "file" -> WriteFile(r, p, t[p].data)

\* The next layer, bottom to top.  What is below a directory named as a
\* whiteout is not walked.
NextLayer ==
  /\ phase = "apply" /\ todo = {}
  /\ IF cur = Cardinality(Layer)
       THEN phase' = "done" /\ UNCHANGED <<cur, todo>>
       ELSE /\ cur' = cur + 1
            /\ todo' = {p \in DOMAIN tree[cur'] : \A q \in Ancestors(p) : ~Marked(q)}
            /\ UNCHANGED phase
  /\ UNCHANGED <<job, tar, tree, pc, pos, left, remaining, cancelled, dst>>

Apply ==
  /\ phase = "apply"
  /\ \E p \in todo :
       /\ \A q \in todo \ {p} : Before(p, q)
       /\ IF CanApply(dst, tree[cur], p)
            THEN /\ dst' = ApplyPath(dst, tree[cur], p)
                 /\ todo' = todo \ {p}
                 /\ UNCHANGED phase
            ELSE phase' = "failed" /\ UNCHANGED <<dst, todo>>
  /\ UNCHANGED <<job, tar, tree, pc, pos, left, remaining, cancelled, cur>>

Next ==
  \/ \E i \in Layer : LoopHead(i) \/ Load(i) \/ Read(i) \/ LoopBody(i)
  \/ Cancel \/ Extracted \/ NextLayer \/ Apply

Spec == Init /\ [][Next]_vars

-----------------------------------------------------------------------------
(* The reference: what the archives say, whatever the order of the steps.  *)

\* The entries of archive s that name p: entries of other types are skipped.
Naming(s, p) == {k \in DOMAIN s : s[k].path = p /\ s[k].type # "other"}

\* The tree that archive s of layer i describes: a path has the node of the
\* last entry that names it, a path only needed on the way is a directory.
Tree(s, i) ==
  [p \in UNION {Prefixes(s[k].path) \ {<<>>} :
               k \in {j \in DOMAIN s : s[j].path # Outside /\ s[j].type # "other"}} |->
     IF Naming(s, p) = {} THEN Dir
     ELSE LET e == s[CHOOSE k \in Naming(s, p) : \A j \in Naming(s, p) : j <= k]
          IN  CASE e.type = "dir" -> Dir
                [] e.type = "link" -> Link(e.to)
                [] OTHER -> File(i)]

Described(i) == Tree(tar[i], i)

PlainPaths(t) == {p \in DOMAIN t : \A q \in Prefixes(p) \ {<<>>} : ~Marked(q)}

\* A layer hides a path of the layers below it with a whiteout of it or of a
\* directory it is in, with an opaque marker in such a directory, or by having
\* something else than a directory there.
HiddenBy(t, p) ==
  \E q \in Prefixes(p) \ {<<>>} :
    \/ Append(Parent(q), Whiteout(Base(q).base)) \in DOMAIN t
    \/ Append(Parent(q), Opaque) \in DOMAIN t
    \/ q \in PlainPaths(t) /\ t[q].kind # "dir"

\* The highest of the layers 1 to n that have p.
Highest(n, p) ==
  {i \in 1 .. n : /\ p \in PlainPaths(Described(i))
                  /\ \A j \in i + 1 .. n : p \notin PlainPaths(Described(j))}

\* Layers 1 to n: a path is what the highest of them that has it says, unless
\* a higher one hides it.
Shown(n) ==
  UNION {{p \in PlainPaths(Described(i)) :
            \A j \in i + 1 .. n : ~HiddenBy(Described(j), p)} : i \in 1 .. n}
Composed(n) == [p \in Shown(n) |-> Described(CHOOSE i \in Highest(n, p) : TRUE)[p]]

\* WalkDir reaches p before a marker of its own layer that covers it: a name
\* that begins with a dot and sorts before ".wh.".
AheadOfMarker(t, p) ==
  \E q \in Prefixes(p) \ {<<>>} :
    \E m \in {Whiteout(Base(q).base), Opaque} :
      Append(Parent(q), m) \in DOMAIN t /\ Rank(Base(q)) < Rank(m)

NoneAhead == \A i \in Layer : \A p \in PlainPaths(Described(i)) :
                                ~AheadOfMarker(Described(i), p)

\* No hard link of archive s takes a file of the host: it has no absolute link, or
\* none of its links is on the way to the source of a hard link.
SourcesInside(s) ==
  \/ \A e \in Range(s) : e.type = "link" => ~IsAbs(e.to)
  \/ \A e, l \in Range(s) : e.type = "hard" /\ l.type = "link" => l.path \notin Ancestors(e.to)

\* A successful extraction leaves exactly what the archives describe: the
\* layers in order, each hiding what its whiteouts name in the layers below it
\* and nothing of its own (extractImageLayered, applyLayerToDir), or the one
\* archive, never a part of it (extractTar, Decompress).  It says so for the
\* archives whose hard links take no file of the host, which extractHardlink
\* does not rule out; for the layers that have no name ahead of a marker that
\* covers it; and for flat archives none of whose entries are skipped.
RootfsAsDescribed ==
  phase = "done" /\ (\A i \in Layer : SourcesInside(tar[i])) =>
    /\ job = "layered" /\ NoneAhead => dst = Composed(Cardinality(Layer))
    /\ job = "disk" => dst = Described(1)
    /\ job = "flat" /\ (\A e \in Range(tar[1]) : e.path # Outside) => dst = Described(1)

\* What an entry takes of the budget: its header and contents, in Decompress
\* the file it writes.
Charge(e) ==
  IF job # "disk" THEN 1 + e.size
  ELSE IF e.type = "file" /\ e.path # Outside THEN e.size ELSE 0

\* The units the archives take: numbered in their entry, of their layer.
Units ==
  UNION {UNION {{<<i, k>>} \X (1 .. Charge(tar[i][k])) : k \in DOMAIN tar[i]} : i \in Layer}

\* The layers that are extracted in parallel never take more than the budget
\* they share, though each takes its bytes off it after reading them: if all
\* succeed their headers and files fit (atomicLimitReader, and the check after
\* each entry); the same holds of the files of a disk image.
BudgetHolds ==
  (\A i \in Layer : pc[i] = "ok") /\ (job = "layered" \/ job = "disk") =>
    Cardinality(Units) <= MaxSize

\* Whatever the top layer holds is in the rootfs: its whiteouts are for the
\* layers below it.
TopLayerKept ==
  phase = "done" /\ job = "layered" =>
    LET t == Described(Cardinality(Layer)) IN PlainPaths(t) \subseteq DOMAIN dst
=============================================================================
