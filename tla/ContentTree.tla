------------------------------ MODULE ContentTree ------------------------------
(***************************************************************************)
(* The structure of a page: the headings and anchors content-core cuts it  *)
(* into (slug.mjs), their Merkle tree (tree.mjs), and how the review       *)
(* server compares two of those trees (tree-diff.ts, which the site        *)
(* repeats).                                                               *)
(*                                                                         *)
(* A page is the sequence of its sections in document order.  A hash is    *)
(* modelled by what it is a hash of: hashes are equal where contents are.  *)
(***************************************************************************)
EXTENDS Naturals, FiniteSets, Sequences

CONSTANTS
    Preamble,   \* stands for the heading of the prose above the first heading
    Fenced,     \* in the place of a region: code that is in the page itself
    NoPage      \* the page of a version that does not exist

(* A section has its heading's text and level, its own prose, and the code  *)
(* in it: fenced blocks, and snippets it includes by their region of a      *)
(* file.  The preamble is the first section, at a level no heading is under. *)
IsPage(page) ==
    /\ Len(page) \in Nat /\ DOMAIN page = 1..Len(page)
    /\ \A i \in DOMAIN page : page[i].level \in 1..7
    /\ \A i \in DOMAIN page : page[i].heading = Preamble <=> page[i].level = 7
    /\ \A i \in DOMAIN page : page[i].heading = Preamble => i = 1
    /\ \A i \in DOMAIN page :
          LET code == page[i].code
          IN  /\ Len(code) \in Nat /\ code = [k \in 1..Len(code) |-> code[k]]
              /\ \A k \in DOMAIN code : code[k].region \notin Nat

(***************************************************************************)
(* Anchors and nesting                                                     *)
(***************************************************************************)

(* Headings of the same text are told apart by a counter. *)
AnchorSlug(page, i) ==
    <<page[i].heading, Cardinality({j \in 1..(i - 1) : page[j].heading = page[i].heading})>>

AnchorSlugs(page) == {AnchorSlug(page, i) : i \in DOMAIN page}

SectionAt(page, slug) == {i \in DOMAIN page : AnchorSlug(page, i) = slug}

Encloses(page, j, i) == j < i /\ \A k \in (j + 1)..i : page[k].level > page[j].level

Subtree(page, i) == {i} \cup {j \in DOMAIN page : Encloses(page, i, j)}

(* What a quote is looked for in: the prose of the section, its subsections *)
(* included.                                                                *)
BodyText(page, i) == {page[j].prose : j \in Subtree(page, i)}

(* The headings from the top of the page down to section i. *)
DepthPath(page, i) ==
    LET trail == {j \in 1..i : j = i \/ Encloses(page, j, i)}
        Nth(n) == CHOOSE j \in trail : Cardinality({k \in trail : k <= j}) = n
    IN  [n \in 1..Cardinality(trail) |-> page[Nth(n)].heading]

(***************************************************************************)
(* The Merkle tree.  A node's key is the path of its section, and which of *)
(* the section's nodes it is: 0 for the heading (or the preamble itself),  *)
(* 1 for its prose; a fenced block by its place among the code of the      *)
(* section, a snippet by its region, wherever it is included.              *)
(***************************************************************************)
Root == [path |-> <<>>, leaf |-> 0]
HeadingKey(page, i) == [path |-> DepthPath(page, i), leaf |-> 0]

LeafName(page, i, n) ==
    IF n = 1 \/ page[i].code[n - 1].region = Fenced THEN n ELSE page[i].code[n - 1].region

LeafKey(page, i, n) == [path |-> DepthPath(page, i), leaf |-> LeafName(page, i, n)]

ProseHash(page, i) == <<AnchorSlug(page, i), page[i].prose>>

(* A subtree is hashed down to its leaves. *)
SubtreeHash(page, i) ==
    [k \in 0..(Cardinality(Subtree(page, i)) - 1) |->
        <<page[i + k].level, page[i + k].heading, ProseHash(page, i + k), page[i + k].code>>]

Above(page, i) == {j \in DOMAIN page : Encloses(page, j, i)}
Innermost(above) == CHOOSE j \in above : \A k \in above : k <= j

Parent(page, i) ==
    IF Above(page, i) = {} THEN Root ELSE HeadingKey(page, Innermost(Above(page, i)))

(* Position among its parent's children, who begin with the prose and code  *)
(* of the parent's own.                                                     *)
Ordinal(page, i) ==
    LET above == Above(page, i)
        siblings == {j \in 1..(i - 1) : Above(page, j) = above}
    IN  Cardinality(siblings) +
        (IF above = {} THEN 0
         ELSE 1 + Len(page[Innermost(above)].code))

HeadingNode(page, i) ==
    [ key     |-> HeadingKey(page, i),
      parent  |-> Parent(page, i),
      ordinal |-> Ordinal(page, i),
      slug    |-> AnchorSlug(page, i),
      node    |-> IF page[i].heading = Preamble THEN ProseHash(page, i)
                  ELSE <<page[i].level, page[i].heading>>,
      subtree |-> SubtreeHash(page, i) ]

LeafNode(page, i, n, hash) ==
    [ key     |-> LeafKey(page, i, n),
      parent  |-> HeadingKey(page, i),
      ordinal |-> n - 1,
      slug    |-> <<>>,
      node    |-> hash,
      subtree |-> hash ]

(* The nodes of section i, in the order the tree is walked in. *)
SectionNodes(page, i) ==
    <<HeadingNode(page, i)>>
    \o (IF page[i].heading = Preamble THEN <<>> ELSE <<LeafNode(page, i, 1, ProseHash(page, i))>>)
    \o [k \in DOMAIN page[i].code |-> LeafNode(page, i, k + 1, page[i].code[k])]

(* The tree as a map: of two nodes with the same key the later one stays. *)
IndexTree(page) ==
    LET nodes == [i \in DOMAIN page |-> SectionNodes(page, i)]
        places == UNION {{<<i, k>> : k \in DOMAIN nodes[i]} : i \in DOMAIN page}
        Key(at) == nodes[at[1]][at[2]].key
        Last(key) == CHOOSE a \in places :
                        /\ Key(a) = key
                        /\ \A b \in places : Key(b) = key =>
                               b[1] < a[1] \/ (b[1] = a[1] /\ b[2] <= a[2])
    IN  [key \in {Key(a) : a \in places} |-> nodes[Last(key)[1]][Last(key)[2]]]

(***************************************************************************)
(* Comparing two trees                                                     *)
(***************************************************************************)
Relocated(old, new) == old.parent # new.parent \/ old.ordinal # new.ordinal

(* How a node that is in both trees changed, "pruned" if it did not. *)
Change(old, new) ==
    IF Relocated(old, new) THEN "moved"
    ELSE IF old.subtree = new.subtree THEN "pruned"
    ELSE IF old.node = new.node THEN "modified-descendants" ELSE "modified"

(* Changes, by the key of the node. *)
DiffTrees(before, after) ==
    LET a == IF before = NoPage THEN <<>> ELSE IndexTree(before)
        b == IndexTree(after)
        all == [key \in DOMAIN a \cup DOMAIN b |->
                   CASE key \notin DOMAIN a -> "added"
                     [] key \notin DOMAIN b -> "removed"
                     [] OTHER               -> Change(a[key], b[key])]
    IN  {<<key, all[key]>> : key \in {k \in DOMAIN all : all[k] # "pruned"}}

(* The nodes a node is under: the headings its path goes through. *)
PathNodes(key) ==
    {[path |-> SubSeq(key.path, 1, n), leaf |-> 0] : n \in 1..Len(key.path)} \ {key}

(* Mutant: whatever is under a change of any kind is left out. *)
HideUnderChanges(entries) ==
    {e \in entries :
        /\ e[2] # "modified-descendants"
        /\ \A up \in PathNodes(e[1]) : \A f \in entries : f[1] # up}

(* What a reviewer is shown: of a subtree that came or went its top node,  *)
(* and no entry for what only has changes below it.                        *)
CompactDiff(entries) ==
    {e \in entries :
        /\ e[2] # "modified-descendants"
        /\ e[2] \in {"added", "removed"} => \A up \in PathNodes(e[1]) : <<up, e[2]>> \notin entries}

ReviewDiff(before, after) ==
    IF before = NoPage THEN {<<Root, "added">>} ELSE CompactDiff(DiffTrees(before, after))

(* Mutant: the heading's own prose is compared, not what is under it. *)
UnchangedOwnProse(before, after) ==
    IF before = NoPage THEN {}
    ELSE {AnchorSlug(after, i) : i \in {k \in DOMAIN after :
             \E j \in DOMAIN before : ProseHash(before, j) = ProseHash(after, k)}}

(* Anchors of the sections, preamble included, whose whole subtree is as it *)
(* was under the same key.                                                  *)
UnchangedSlugs(before, after) ==
    IF before = NoPage THEN {}
    ELSE LET a == IndexTree(before)
             b == IndexTree(after)
         IN  {b[key].slug : key \in {k \in DOMAIN a \cap DOMAIN b :
                                        k.leaf = 0 /\ a[k].subtree = b[k].subtree}}

=============================================================================
