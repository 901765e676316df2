------------------------------ MODULE ThreadsProofs ------------------------------
(***************************************************************************)
(* Where a registration leaves the threads of a page, what its fast path    *)
(* may skip, and what its review diff shows: proved for any builds, drafts *)
(* and quotes, and for any way a quote may fit a text.                     *)
(***************************************************************************)
EXTENDS Threads, FiniteSetTheorems, WellFoundedInduction, TLAPS

(***************************************************************************)
(* The first and the last of some sections                                 *)
(***************************************************************************)

(* Nat is well-ordered. *)
LEMMA LeastExists ==
    ASSUME NEW S \in SUBSET Nat, S # {}
    PROVE  \E i \in S : \A j \in S : i <= j
<1> DEFINE Below == {pair \in Nat \X Nat : pair[1] < pair[2]}
<1>1. IsWellFoundedOn(Below, Nat)
  BY NatLessThanWellFounded, Zenon DEF OpToRel
<1>2. \A i, j \in Nat : <<j, i>> \in Below <=> j < i
  OBVIOUS
<1> HIDE DEF Below
<1>3. PICK i \in S : \A j \in S : <<j, i>> \notin Below
  BY <1>1, WFMin
<1>4. \A j \in S : ~(j < i)
  BY <1>2, <1>3
<1>5. \A j \in S : i <= j
  BY <1>4
<1> QED BY <1>5

(* First picks one of the sections it chooses from. *)
LEMMA FirstIsThere ==
    ASSUME NEW S \in SUBSET Nat, S # {}
    PROVE  First(S) \in S
BY LeastExists DEF First

(* A bounded set of numbers has a last. *)
LEMMA LastExists ==
    ASSUME NEW n \in Nat, NEW S \in SUBSET 1..n, S # {}
    PROVE  \E m \in S : \A j \in S : j <= m
<1> DEFINE bounds == {m \in Nat : \A j \in S : j <= m}
<1>1. n \in bounds
  OBVIOUS
<1>2. PICK m \in bounds : \A k \in bounds : m <= k
  <2> HIDE DEF bounds
  <2>1. bounds \in SUBSET Nat
    BY DEF bounds
  <2> QED BY <1>1, <2>1, LeastExists
<1>3. m \in S
  <2> SUFFICES ASSUME m \notin S PROVE FALSE
    OBVIOUS
  <2>1. \A j \in S : j <= m - 1
    OBVIOUS
  <2>2. m - 1 \in Nat
    <3>1. PICK j \in S : TRUE
      OBVIOUS
    <3>2. j \in 1..n
      BY <3>1
    <3> QED BY <2>1, <3>1, <3>2
  <2>3. m - 1 \in bounds
    BY <2>1, <2>2
  <2>4. ~(m <= m - 1)
    OBVIOUS
  <2> QED BY <1>2, <2>3, <2>4
<1> QED BY <1>3

(* So does LastOf, of sections of a page. *)
LEMMA LastIsThere ==
    ASSUME NEW n \in Nat, NEW S \in SUBSET 1..n, S # {}
    PROVE  LastOf(S) \in S
BY LastExists DEF LastOf

LEMMA SlugOfSection ==
    ASSUME NEW page, NEW i \in DOMAIN page
    PROVE  SectionAt(page, AnchorSlug(page, i)) # {}
BY DEF SectionAt

(* Where a quote is looked for, there are sections. *)
LEMMA ElsewhereIsThere ==
    ASSUME NEW page, IsPage(page), NEW root, NEW framedOnly, Elsewhere(page, root, framedOnly) # {}
    PROVE  LET i == First(Elsewhere(page, root, framedOnly))
           IN  i \in DOMAIN page /\ LocateQuote(BodyText(page, i), root.quote) # "none"
<1> DEFINE fit(i) == LocateQuote(BodyText(page, i), root.quote)
           others == {i \in DOMAIN page : AnchorSlug(page, i) # root.slug}
           framed == {i \in others : fit(i) = "framed"}
           found  == {i \in others : fit(i) # "none"}
           chosen == Elsewhere(page, root, framedOnly)
<1>1. chosen = IF framed # {} THEN {First(framed)}
               ELSE IF ~framedOnly /\ found # {} THEN {First(found)} ELSE {}
  BY DEF Elsewhere
<1>2. DOMAIN page \in SUBSET Nat
  BY DEF IsPage
<1>3. framed \in SUBSET DOMAIN page /\ found \in SUBSET DOMAIN page
  OBVIOUS
<1> HIDE DEF framed, found, chosen
<1>4. framed # {} => First(framed) \in framed
  BY <1>2, <1>3, FirstIsThere
<1>5. found # {} => First(found) \in found
  BY <1>2, <1>3, FirstIsThere
<1>6. PICK i : chosen = {i} /\ i \in DOMAIN page /\ fit(i) # "none"
  BY <1>1, <1>3, <1>4, <1>5 DEF chosen, framed, found
<1>7. First(chosen) \in chosen
  BY <1>2, <1>6, FirstIsThere
<1> QED BY <1>6, <1>7 DEF chosen

(***************************************************************************)
(* Anchors and subtrees                                                    *)
(***************************************************************************)

(* Two sections of one page have two anchors. *)
LEMMA SlugsAreDistinct ==
    ASSUME NEW page, IsPage(page), NEW i \in DOMAIN page, NEW j \in DOMAIN page,
           AnchorSlug(page, i) = AnchorSlug(page, j)
    PROVE  i = j
<1> DEFINE Alike(m) == {k \in 1..(m - 1) : page[k].heading = page[m].heading}
<1>1. ASSUME NEW m \in DOMAIN page, NEW n \in DOMAIN page, m < n,
             AnchorSlug(page, m) = AnchorSlug(page, n)
      PROVE  FALSE
  <2>1. page[m].heading = page[n].heading /\ Cardinality(Alike(m)) = Cardinality(Alike(n))
    BY <1>1 DEF AnchorSlug
  <2>2. m \in Int /\ n \in Int
    BY DEF IsPage
  <2>3. Alike(m) \subseteq Alike(n) /\ m \in Alike(n) /\ m \notin Alike(m)
    BY <1>1, <2>1, <2>2 DEF IsPage
  <2>4. IsFiniteSet(1..(n - 1))
    BY <2>2, FS_Interval
  <2>5. Alike(n) \in SUBSET 1..(n - 1)
    OBVIOUS
  <2> HIDE DEF Alike
  <2>6. IsFiniteSet(Alike(n))
    BY <2>4, <2>5, FS_Subset
  <2> QED BY <2>1, <2>3, <2>6, FS_Subset
<1>2. i \in Int /\ j \in Int
  BY DEF IsPage
<1> QED BY <1>1, <1>2

LEMMA OnlySectionAt ==
    ASSUME NEW page, IsPage(page), NEW i \in DOMAIN page
    PROVE  /\ SectionAt(page, AnchorSlug(page, i)) = {i}
           /\ First(SectionAt(page, AnchorSlug(page, i))) = i
<1>1. SectionAt(page, AnchorSlug(page, i)) = {i}
  BY SlugsAreDistinct DEF SectionAt
<1>2. {i} \in SUBSET Nat
  BY DEF IsPage
<1> QED BY <1>1, <1>2, FirstIsThere

(* The subtree of a section is the section and those that follow, up to some. *)
LEMMA SubtreeIsInterval ==
    ASSUME NEW page, IsPage(page), NEW i \in DOMAIN page
    PROVE  \E n \in Nat \ {0} :
              /\ Subtree(page, i) = i..(i + n - 1)
              /\ Cardinality(Subtree(page, i)) = n
              /\ i + n - 1 \in DOMAIN page
<1> DEFINE tree == Subtree(page, i)
<1>1. Len(page) \in Nat /\ DOMAIN page = 1..Len(page) /\ i \in 1..Len(page)
  BY DEF IsPage
<1>2. tree \in SUBSET 1..Len(page) /\ i \in tree
  BY <1>1 DEF Subtree
<1>3. PICK m \in tree : \A j \in tree : j <= m
  <2> HIDE DEF tree
  <2> QED BY <1>1, <1>2, LastExists
<1>4. \A j \in tree : i <= j
  BY <1>1 DEF Subtree, Encloses
<1>5. \A j \in i..m : j \in tree
  <2> SUFFICES ASSUME NEW j \in i..m, j # i PROVE j \in tree
    BY <1>2
  <2>1. m \in 1..Len(page) /\ j \in 1..Len(page) /\ i < j /\ j <= m
    <3> HIDE DEF tree
    <3> QED BY <1>1, <1>2
  <2>2. Encloses(page, i, m)
    BY <1>1, <2>1 DEF Subtree
  <2>3. \A k \in (i + 1)..j : k \in (i + 1)..m
    BY <1>1, <2>1
  <2>4. Encloses(page, i, j)
    BY <2>1, <2>2, <2>3 DEF Encloses
  <2> QED BY <1>1, <2>1, <2>4 DEF Subtree
<1>6. tree = i..m /\ m \in 1..Len(page) /\ i <= m
  <2> HIDE DEF tree
  <2>1. m \in 1..Len(page) /\ i <= m /\ m \in Int /\ i \in Int
    BY <1>1, <1>2, <1>4
  <2>2. \A j \in tree : j \in i..m
    BY <1>1, <1>2, <1>3, <1>4, <2>1
  <2> QED BY <1>5, <2>1, <2>2
<1>7. Cardinality(tree) = m - i + 1
  <2> HIDE DEF tree
  <2> QED BY <1>1, <1>6, FS_Interval
<1> HIDE DEF tree
<1>8. m - i + 1 \in Nat \ {0} /\ i + (m - i + 1) - 1 = m
  BY <1>1, <1>6
<1>9. Subtree(page, i) = tree
  BY DEF tree
<1> QED BY <1>1, <1>6, <1>7, <1>8, <1>9

(* Sections whose subtrees have one hash have one anchor and one text. *)
LEMMA SameSubtreeSameText ==
    ASSUME NEW before, IsPage(before), NEW i \in DOMAIN before,
           NEW after, IsPage(after), NEW j \in DOMAIN after,
           SubtreeHash(before, i) = SubtreeHash(after, j)
    PROVE  /\ AnchorSlug(before, i) = AnchorSlug(after, j)
           /\ BodyText(before, i) = BodyText(after, j)
<1>1. PICK n \in Nat \ {0} :
         /\ Subtree(before, i) = i..(i + n - 1)
         /\ Cardinality(Subtree(before, i)) = n
  BY SubtreeIsInterval
<1>2. PICK m \in Nat \ {0} :
         /\ Subtree(after, j) = j..(j + m - 1)
         /\ Cardinality(Subtree(after, j)) = m
  BY SubtreeIsInterval
<1>3. i \in Nat /\ j \in Nat
  BY DEF IsPage
<1> DEFINE Part(page, k) == <<page[k].level, page[k].heading, ProseHash(page, k), page[k].code>>
<1>4. /\ SubtreeHash(before, i) = [k \in 0..(n - 1) |-> Part(before, i + k)]
      /\ SubtreeHash(after, j) = [k \in 0..(m - 1) |-> Part(after, j + k)]
  BY <1>1, <1>2 DEF SubtreeHash
<1> HIDE DEF Part
<1>5. 0..(n - 1) = 0..(m - 1)
  BY <1>4
<1>6. n = m
  <2>1. n - 1 \in 0..(m - 1) /\ m - 1 \in 0..(n - 1)
    BY <1>5
  <2> QED BY <2>1
<1>7. ASSUME NEW k \in 0..(n - 1)
      PROVE  ProseHash(before, i + k) = ProseHash(after, j + k)
  <2>1. Part(before, i + k) = Part(after, j + k)
    BY <1>4, <1>6
  <2> QED BY <2>1 DEF Part
<1>8. AnchorSlug(before, i) = AnchorSlug(after, j)
  <2>1. 0 \in 0..(n - 1) /\ i + 0 = i /\ j + 0 = j
    BY <1>3
  <2>2. ProseHash(before, i) = ProseHash(after, j)
    BY <1>7, <2>1
  <2> QED BY <2>2 DEF ProseHash
<1>9. \A k \in 0..(n - 1) : before[i + k].prose = after[j + k].prose
  BY <1>7 DEF ProseHash
<1>10. BodyText(before, i) = {before[i + k].prose : k \in 0..(n - 1)}
  <2>1. \A x \in i..(i + n - 1) : x - i \in 0..(n - 1) /\ x = i + (x - i)
    BY <1>3
  <2>2. \A k \in 0..(n - 1) : i + k \in i..(i + n - 1)
    BY <1>3
  <2> QED BY <1>1, <2>1, <2>2 DEF BodyText
<1>11. BodyText(after, j) = {after[j + k].prose : k \in 0..(n - 1)}
  <2>1. \A x \in j..(j + n - 1) : x - j \in 0..(n - 1) /\ x = j + (x - j)
    BY <1>3
  <2>2. \A k \in 0..(n - 1) : j + k \in j..(j + n - 1)
    BY <1>3
  <2> QED BY <1>2, <1>6, <2>1, <2>2 DEF BodyText
<1> QED BY <1>8, <1>9, <1>10, <1>11

(***************************************************************************)
(* The tree as a map                                                       *)
(***************************************************************************)

(* The leaves of a section, by their numbers, and their hashes. *)
Leaves(page, i) ==
    IF page[i].heading = Preamble THEN 2..(Len(page[i].code) + 1) ELSE 1..(Len(page[i].code) + 1)
LeafHash(page, i, n) == IF n = 1 THEN ProseHash(page, i) ELSE page[i].code[n - 1]
Leaf(page, i, n) == LeafNode(page, i, n, LeafHash(page, i, n))

LEMMA NodesOfSection ==
    ASSUME NEW page, IsPage(page), NEW i \in DOMAIN page
    PROVE  LET nodes == SectionNodes(page, i)
           IN  /\ \E n \in Nat : DOMAIN nodes = 1..n
               /\ 1 \in DOMAIN nodes /\ nodes[1] = HeadingNode(page, i)
               /\ \A k \in DOMAIN nodes \ {1} : \E n \in Leaves(page, i) : nodes[k] = Leaf(page, i, n)
               /\ \A n \in Leaves(page, i) : \E k \in DOMAIN nodes \ {1} : nodes[k] = Leaf(page, i, n)
<1> DEFINE nodes == SectionNodes(page, i)
           code == page[i].code
           prose == LeafNode(page, i, 1, ProseHash(page, i))
           blocks == [k \in DOMAIN code |-> LeafNode(page, i, k + 1, code[k])]
           All == {HeadingNode(page, i), prose} \cup {blocks[k] : k \in DOMAIN code}
           len == Len(code)
<1>1. len \in Nat /\ DOMAIN code = 1..len
  BY DEF IsPage
<1>2. blocks \in Seq(All) /\ Len(blocks) = len
  <2> HIDE DEF prose
  <2>1. blocks \in [1..len -> All]
    BY <1>1
  <2> QED BY <1>1, <2>1
<1>3. \A k \in 1..len : blocks[k] = Leaf(page, i, k + 1)
  BY <1>1 DEF Leaf, LeafHash
<1>4. prose = Leaf(page, i, 1)
  BY DEF Leaf, LeafHash
<1>5. HeadingNode(page, i) \in All /\ prose \in All
  OBVIOUS
<1>6. CASE page[i].heading = Preamble
  <2>1. nodes = <<HeadingNode(page, i)>> \o <<>> \o blocks
    BY <1>6 DEF SectionNodes
  <2>2. Leaves(page, i) = 2..(len + 1)
    BY <1>6 DEF Leaves
  <2> HIDE DEF prose, blocks, All, nodes, len
  <2>3. DOMAIN nodes = 1..(len + 1) /\ nodes[1] = HeadingNode(page, i)
    BY <1>1, <1>2, <1>5, <2>1
  <2>4. \A k \in 2..(len + 1) : nodes[k] = Leaf(page, i, k)
    BY <1>1, <1>2, <1>3, <1>5, <2>1
  <2>5. 1 \in DOMAIN nodes /\ DOMAIN nodes \ {1} = 2..(len + 1) /\ len + 1 \in Nat
    BY <1>1, <2>3
  <2> QED BY <2>2, <2>3, <2>4, <2>5 DEF nodes
<1>7. CASE page[i].heading # Preamble
  <2>1. nodes = <<HeadingNode(page, i)>> \o <<prose>> \o blocks
    BY <1>7 DEF SectionNodes
  <2>2. Leaves(page, i) = 1..(len + 1)
    BY <1>7 DEF Leaves
  <2> HIDE DEF prose, blocks, All, nodes, len
  <2>3. DOMAIN nodes = 1..(len + 2) /\ nodes[1] = HeadingNode(page, i) /\ nodes[2] = Leaf(page, i, 1)
    BY <1>1, <1>2, <1>4, <1>5, <2>1
  <2>4. \A k \in 3..(len + 2) : nodes[k] = Leaf(page, i, k - 1)
    BY <1>1, <1>2, <1>3, <1>5, <2>1
  <2>5. \A k \in 2..(len + 2) : k - 1 \in 1..(len + 1) /\ nodes[k] = Leaf(page, i, k - 1)
    BY <1>1, <2>3, <2>4
  <2>6. \A n \in 1..(len + 1) : n + 1 \in 2..(len + 2) /\ nodes[n + 1] = Leaf(page, i, n)
    <3> TAKE n \in 1..(len + 1)
    <3>1. n + 1 \in 2..(len + 2) /\ (n + 1) - 1 = n
      BY <1>1
    <3> QED BY <2>5, <3>1
  <2>7. 1 \in DOMAIN nodes /\ DOMAIN nodes \ {1} = 2..(len + 2) /\ len + 2 \in Nat
    BY <1>1, <2>3
  <2> QED BY <2>2, <2>3, <2>5, <2>6, <2>7 DEF nodes
<1> QED BY <1>6, <1>7

(* Every key of the tree is a key of a section's heading or of one of its   *)
(* leaves, and holds the node of one section that has that key.             *)
LEMMA TreeHoldsNodes ==
    ASSUME NEW page, IsPage(page)
    PROVE  LET tree == IndexTree(page)
           IN  /\ \A i \in DOMAIN page :
                     /\ HeadingKey(page, i) \in DOMAIN tree
                     /\ \A n \in Leaves(page, i) : LeafKey(page, i, n) \in DOMAIN tree
               /\ \A key \in DOMAIN tree : \E i \in DOMAIN page :
                     \/ key = HeadingKey(page, i) /\ tree[key] = HeadingNode(page, i)
                     \/ \E n \in Leaves(page, i) :
                           key = LeafKey(page, i, n) /\ tree[key] = Leaf(page, i, n)
<1> DEFINE tree == IndexTree(page)
           nodes == [i \in DOMAIN page |-> SectionNodes(page, i)]
           places == UNION {{<<i, k>> : k \in DOMAIN nodes[i]} : i \in DOMAIN page}
           Key(at) == nodes[at[1]][at[2]].key
           IsLast(key, a) == /\ Key(a) = key
                             /\ \A b \in places : Key(b) = key =>
                                    b[1] < a[1] \/ (b[1] = a[1] /\ b[2] <= a[2])
           Last(key) == CHOOSE a \in places : IsLast(key, a)
<1>1. tree = [key \in {Key(a) : a \in places} |-> nodes[Last(key)[1]][Last(key)[2]]]
  BY DEF IndexTree
<1>2. \A i \in DOMAIN page : nodes[i] = SectionNodes(page, i)
  OBVIOUS
<1>3. ASSUME NEW i \in DOMAIN page
      PROVE  /\ \E n \in Nat : DOMAIN nodes[i] = 1..n
             /\ 1 \in DOMAIN nodes[i] /\ nodes[i][1] = HeadingNode(page, i)
             /\ \A k \in DOMAIN nodes[i] \ {1} : \E n \in Leaves(page, i) : nodes[i][k] = Leaf(page, i, n)
             /\ \A n \in Leaves(page, i) : \E k \in DOMAIN nodes[i] \ {1} : nodes[i][k] = Leaf(page, i, n)
  BY <1>2, NodesOfSection
<1>4. \A a : a \in places <=> \E i \in DOMAIN page : \E k \in DOMAIN nodes[i] : a = <<i, k>>
  OBVIOUS
<1> HIDE DEF nodes, places
<1>5. \A i \in DOMAIN page : \A k \in DOMAIN nodes[i] :
         <<i, k>> \in places /\ Key(<<i, k>>) = nodes[i][k].key
  BY <1>4
<1>6. /\ \A i \in DOMAIN page : HeadingNode(page, i).key = HeadingKey(page, i)
      /\ \A i \in DOMAIN page : \A n : Leaf(page, i, n).key = LeafKey(page, i, n)
  BY DEF HeadingNode, Leaf, LeafNode
<1>7. ASSUME NEW key \in {Key(a) : a \in places}
      PROVE  \E a \in places : IsLast(key, a)
  <2> DEFINE Ks(i) == {k \in DOMAIN nodes[i] : nodes[i][k].key = key}
             Is == {i \in DOMAIN page : Ks(i) # {}}
  <2>1. Is # {}
    <3>1. PICK a \in places : Key(a) = key
      OBVIOUS
    <3>2. PICK i \in DOMAIN page : \E k \in DOMAIN nodes[i] : a = <<i, k>>
      BY <1>4
    <3> QED BY <1>5, <3>1, <3>2
  <2>2. Is \in SUBSET 1..Len(page) /\ Len(page) \in Nat
    BY DEF IsPage
  <2>3. PICK i \in Is : \A j \in Is : j <= i
    <3> HIDE DEF Is
    <3> QED BY <2>1, <2>2, LastExists
  <2>4. PICK n \in Nat : DOMAIN nodes[i] = 1..n
    BY <1>3
  <2>5. Ks(i) \in SUBSET 1..n /\ Ks(i) # {}
    BY <2>4
  <2>6. PICK k \in Ks(i) : \A l \in Ks(i) : l <= k
    <3> HIDE DEF Ks
    <3> QED BY <2>5, LastExists
  <2>7. <<i, k>> \in places /\ Key(<<i, k>>) = key
    BY <1>5
  <2>8. ASSUME NEW b \in places, Key(b) = key
        PROVE  b[1] < i \/ (b[1] = i /\ b[2] <= k)
    <3>1. PICK j \in DOMAIN page : \E l \in DOMAIN nodes[j] : b = <<j, l>>
      BY <1>4
    <3>2. PICK l \in DOMAIN nodes[j] : b = <<j, l>>
      BY <3>1
    <3>3. l \in Ks(j) /\ j \in Is
      BY <1>5, <2>8, <3>2
    <3>4. j <= i /\ (j = i => l <= k)
      BY <2>3, <2>6, <3>3
    <3>5. j \in Int /\ i \in Int
      BY <2>2, <3>3
    <3> QED BY <3>2, <3>4, <3>5
  <2>9. IsLast(key, <<i, k>>)
    BY <2>7, <2>8
  <2> QED BY <2>7, <2>9
<1>8. ASSUME NEW key \in {Key(a) : a \in places}
      PROVE  Last(key) \in places /\ Key(Last(key)) = key
  <2>1. Last(key) \in places /\ IsLast(key, Last(key))
    <3> HIDE DEF IsLast
    <3> QED BY <1>7
  <2> QED BY <2>1
<1>9. ASSUME NEW key \in DOMAIN tree
      PROVE  \E i \in DOMAIN page : \E k \in DOMAIN nodes[i] :
                key = nodes[i][k].key /\ tree[key] = nodes[i][k]
  <2>1. key \in {Key(a) : a \in places} /\ tree[key] = nodes[Last(key)[1]][Last(key)[2]]
    BY <1>1
  <2>2. Last(key) \in places /\ Key(Last(key)) = key
    BY <1>8, <2>1
  <2> HIDE DEF Last, tree
  <2>3. PICK i \in DOMAIN page : \E k \in DOMAIN nodes[i] : Last(key) = <<i, k>>
    BY <1>4, <2>2
  <2> QED BY <2>1, <2>2, <2>3
<1>10. ASSUME NEW i \in DOMAIN page, NEW k \in DOMAIN nodes[i]
       PROVE  nodes[i][k].key \in DOMAIN tree
  <2>1. <<i, k>> \in places /\ Key(<<i, k>>) = nodes[i][k].key
    BY <1>5
  <2>2. nodes[i][k].key \in {Key(a) : a \in places}
    <3> HIDE DEF Key
    <3> QED BY <2>1
  <2>3. DOMAIN tree = {Key(a) : a \in places}
    <3> HIDE DEF Key, Last
    <3> QED BY <1>1
  <2> QED BY <2>2, <2>3
<1> HIDE DEF tree
<1>11. ASSUME NEW i \in DOMAIN page
       PROVE  /\ HeadingKey(page, i) \in DOMAIN tree
              /\ \A n \in Leaves(page, i) : LeafKey(page, i, n) \in DOMAIN tree
  <2>1. HeadingKey(page, i) \in DOMAIN tree
    BY <1>3, <1>6, <1>10
  <2>2. ASSUME NEW n \in Leaves(page, i) PROVE LeafKey(page, i, n) \in DOMAIN tree
    <3>1. PICK k \in DOMAIN nodes[i] : nodes[i][k] = Leaf(page, i, n)
      BY <1>3
    <3> QED BY <1>6, <1>10, <3>1
  <2> QED BY <2>1, <2>2
<1>12. ASSUME NEW key \in DOMAIN tree
       PROVE  \E i \in DOMAIN page :
                 \/ key = HeadingKey(page, i) /\ tree[key] = HeadingNode(page, i)
                 \/ \E n \in Leaves(page, i) :
                       key = LeafKey(page, i, n) /\ tree[key] = Leaf(page, i, n)
  <2>1. PICK i \in DOMAIN page : \E k \in DOMAIN nodes[i] :
                key = nodes[i][k].key /\ tree[key] = nodes[i][k]
    BY <1>9
  <2>2. PICK k \in DOMAIN nodes[i] : key = nodes[i][k].key /\ tree[key] = nodes[i][k]
    BY <2>1
  <2>3. CASE k = 1
    BY <1>3, <1>6, <2>2, <2>3
  <2>4. CASE k # 1
    <3>1. PICK n \in Leaves(page, i) : nodes[i][k] = Leaf(page, i, n)
      BY <1>3, <2>4
    <3>2. nodes[i][k].key = LeafKey(page, i, n)
      BY <1>6, <3>1
    <3> QED BY <2>2, <3>1, <3>2
  <2> QED BY <2>3, <2>4
<1> QED BY <1>11, <1>12 DEF tree

(* A leaf is not taken for a heading; and prose, fenced blocks and snippets   *)
(* of different regions not for each other.                                  *)
LEMMA LeafNames ==
    ASSUME NEW page, IsPage(page), NEW i \in DOMAIN page, NEW n \in Leaves(page, i)
    PROVE  /\ n \in Nat \ {0} /\ n - 1 \in Nat
           /\ LeafName(page, i, n) # 0
           /\ NothingCollides(page) =>
                 \A m \in Leaves(page, i) : LeafName(page, i, m) = LeafName(page, i, n) => m = n
<1> DEFINE code == page[i].code
<1>1. /\ Len(code) \in Nat /\ DOMAIN code = 1..Len(code)
      /\ \A k \in DOMAIN code : code[k].region \notin Nat
  BY DEF IsPage
<1>2. ASSUME NEW m \in Leaves(page, i) PROVE m \in Nat \ {0} /\ (m # 1 => m - 1 \in DOMAIN code)
  BY <1>1, <1>2 DEF Leaves
<1>3. ASSUME NEW m \in Leaves(page, i)
      PROVE  \/ LeafName(page, i, m) = m
             \/ /\ m # 1 /\ code[m - 1].region # Fenced
                /\ LeafName(page, i, m) = code[m - 1].region /\ LeafName(page, i, m) \notin Nat
  BY <1>1, <1>2, <1>3 DEF LeafName
<1>4. ASSUME NothingCollides(page), NEW m \in Leaves(page, i), LeafName(page, i, m) = LeafName(page, i, n)
      PROVE  m = n
  <2>1. m \in Nat /\ n \in Nat
    BY <1>2
  <2>2. CASE LeafName(page, i, m) = m \/ LeafName(page, i, n) = n
    BY <1>3, <1>4, <2>1, <2>2
  <2>3. CASE LeafName(page, i, m) # m /\ LeafName(page, i, n) # n
    <3>1. /\ m - 1 \in DOMAIN code /\ n - 1 \in DOMAIN code
          /\ code[m - 1].region = code[n - 1].region /\ code[m - 1].region # Fenced
      BY <1>2, <1>3, <1>4, <2>3
    <3>2. m - 1 = n - 1
      BY <1>4, <3>1 DEF NothingCollides
    <3> QED BY <2>1, <3>2
  <2> QED BY <2>2, <2>3
<1>5. n \in Nat \ {0} /\ n - 1 \in Nat
  BY <1>2
<1>6. LeafName(page, i, n) # 0
  BY <1>3, <1>5
<1> QED BY <1>4, <1>5, <1>6

(* What the fast path takes to be unchanged is there, with the same anchor   *)
(* and the same text, on both pages.                                         *)
LEMMA UnchangedIsOnBoth ==
    ASSUME NEW before, NEW after, IsPage(before), IsPage(after), before # NoPage,
           NEW slug \in UnchangedSlugs(before, after)
    PROVE  \E i \in DOMAIN before, j \in DOMAIN after :
              /\ slug = AnchorSlug(before, i) /\ slug = AnchorSlug(after, j)
              /\ BodyText(before, i) = BodyText(after, j)
<1> DEFINE a == IndexTree(before)
           b == IndexTree(after)
<1>1. PICK key \in DOMAIN a \cap DOMAIN b :
         key.leaf = 0 /\ a[key].subtree = b[key].subtree /\ slug = b[key].slug
  BY DEF UnchangedSlugs
<1> HIDE DEF a, b
<1>2. ASSUME NEW page, IsPage(page), NEW i \in DOMAIN page, NEW n \in Leaves(page, i)
      PROVE  LeafKey(page, i, n).leaf # 0
  BY <1>2, LeafNames DEF LeafKey
<1>3. PICK i \in DOMAIN before : a[key] = HeadingNode(before, i)
  BY <1>1, <1>2, TreeHoldsNodes DEF a
<1>4. PICK j \in DOMAIN after : b[key] = HeadingNode(after, j)
  BY <1>1, <1>2, TreeHoldsNodes DEF b
<1>5. SubtreeHash(before, i) = SubtreeHash(after, j) /\ slug = AnchorSlug(after, j)
  BY <1>1, <1>3, <1>4 DEF HeadingNode
<1> QED BY <1>5, SameSubtreeSameText

(***************************************************************************)
(* Paths                                                                   *)
(***************************************************************************)

(* Numbers counted from the smallest up. *)
Rank(S, j) == Cardinality({k \in S : k <= j})

(* Of each rank there is one. *)
LEMMA RanksAreDistinct ==
    ASSUME NEW S \in SUBSET Nat, IsFiniteSet(S), NEW i \in S, NEW j \in S, Rank(S, i) = Rank(S, j)
    PROVE  i = j
<1> DEFINE Upto(m) == {k \in S : k <= m}
<1>1. ASSUME NEW m \in S, NEW n \in S, m < n PROVE Rank(S, m) # Rank(S, n)
  <2>0. m \in Nat /\ n \in Nat /\ m < n
    BY <1>1
  <2>1. Upto(m) \subseteq Upto(n) /\ n \in Upto(n) /\ n \notin Upto(m)
    <3>1. \A k \in S : k <= m => k <= n
      BY <2>0
    <3>2. n <= n /\ ~(n <= m)
      BY <2>0
    <3> QED BY <3>1, <3>2
  <2>2. Upto(n) \in SUBSET S
    OBVIOUS
  <2>3. Rank(S, m) = Cardinality(Upto(m)) /\ Rank(S, n) = Cardinality(Upto(n))
    BY DEF Rank
  <2> HIDE DEF Upto
  <2>4. IsFiniteSet(Upto(n))
    BY <2>2, FS_Subset
  <2>5. Cardinality(Upto(m)) = Cardinality(Upto(n)) => Upto(m) = Upto(n)
    BY <2>1, <2>4, FS_Subset
  <2> QED BY <2>1, <2>3, <2>5
<1>2. i \in Nat /\ j \in Nat
  OBVIOUS
<1> QED BY <1>1, <1>2

LEMMA RanksAreTaken ==
    ASSUME NEW S \in SUBSET Nat, IsFiniteSet(S), NEW n \in 1..Cardinality(S)
    PROVE  \E j \in S : Rank(S, j) = n
<1> DEFINE card == Cardinality(S)
           f == [j \in S |-> Rank(S, j)]
<1>1. card \in Nat
  BY FS_CardinalityType
<1>2. ASSUME NEW j \in S PROVE Rank(S, j) \in 1..card
  <2> DEFINE upto == {k \in S : k <= j}
  <2>1. upto \in SUBSET S /\ j \in upto
    OBVIOUS
  <2>2. Rank(S, j) = Cardinality(upto)
    BY DEF Rank
  <2> HIDE DEF upto
  <2>3. IsFiniteSet(upto) /\ Cardinality(upto) <= card
    BY <2>1, FS_Subset
  <2>4. Cardinality(upto) \in Nat /\ Cardinality(upto) # 0
    BY <2>1, <2>3, FS_CardinalityType, FS_EmptySet
  <2> QED BY <1>1, <2>2, <2>3, <2>4
<1>3. f \in Injection(S, 1..card)
  BY <1>2, RanksAreDistinct DEF Injection, IsInjective
<1>4. IsFiniteSet(1..card) /\ Cardinality(1..card) = card
  BY <1>1, FS_Interval
<1>5. f \in Surjection(S, 1..card)
  <2> HIDE DEF f, card
  <2> QED
    <3>1. Cardinality(S) = Cardinality(1..card)
      BY <1>4 DEF card
    <3> QED BY <1>3, <1>4, <3>1, FS_Injection
<1>6. PICK j \in S : f[j] = n
  BY <1>5 DEF Surjection
<1> QED BY <1>6

(* The sections a path goes through: a section and those it is under. *)
Trail(page, i) == {j \in 1..i : j = i \/ Encloses(page, j, i)}
At(page, i, n) == CHOOSE j \in Trail(page, i) : Rank(Trail(page, i), j) = n

LEMMA TrailIsFinite ==
    ASSUME NEW page, IsPage(page), NEW i \in DOMAIN page
    PROVE  /\ Trail(page, i) \in SUBSET Nat /\ Trail(page, i) \in SUBSET DOMAIN page
           /\ IsFiniteSet(Trail(page, i)) /\ i \in Trail(page, i)
           /\ Cardinality(Trail(page, i)) \in Nat \ {0}
           /\ Rank(Trail(page, i), i) = Cardinality(Trail(page, i))
<1> DEFINE trail == Trail(page, i)
<1>1. i \in Nat \ {0} /\ i \in 1..Len(page) /\ DOMAIN page = 1..Len(page) /\ Len(page) \in Nat
  BY DEF IsPage
<1>2. trail \in SUBSET 1..i /\ i \in trail
  BY <1>1 DEF Trail
<1>3. {k \in trail : k <= i} = trail
  BY <1>1, <1>2
<1> HIDE DEF trail
<1>4. IsFiniteSet(trail)
  <2>1. IsFiniteSet(1..i)
    BY <1>1, FS_Interval
  <2> QED BY <1>2, <2>1, FS_Subset
<1>5. Cardinality(trail) \in Nat \ {0}
  BY <1>2, <1>4, FS_CardinalityType, FS_EmptySet
<1>6. trail \in SUBSET Nat /\ trail \in SUBSET DOMAIN page
  BY <1>1, <1>2
<1> QED BY <1>2, <1>3, <1>4, <1>5, <1>6 DEF trail, Rank

LEMMA AtHasRank ==
    ASSUME NEW page, IsPage(page), NEW i \in DOMAIN page, NEW n \in 1..Cardinality(Trail(page, i))
    PROVE  At(page, i, n) \in Trail(page, i) /\ Rank(Trail(page, i), At(page, i, n)) = n
<1>1. \E j \in Trail(page, i) : Rank(Trail(page, i), j) = n
  BY TrailIsFinite, RanksAreTaken
<1> QED BY <1>1 DEF At

LEMMA PathOfSection ==
    ASSUME NEW page, IsPage(page), NEW i \in DOMAIN page
    PROVE  LET path == DepthPath(page, i)
               card == Cardinality(Trail(page, i))
           IN  /\ path = [n \in 1..card |-> page[At(page, i, n)].heading]
               /\ card \in Nat \ {0}
               /\ path \in Seq({page[At(page, i, n)].heading : n \in 1..card})
               /\ Len(path) = card
               /\ path[card] = page[i].heading
<1> DEFINE path == DepthPath(page, i)
           card == Cardinality(Trail(page, i))
           names == {page[At(page, i, n)].heading : n \in 1..card}
<1>1. path = [n \in 1..card |-> page[At(page, i, n)].heading]
  BY DEF DepthPath, At, Trail, Rank
<1>2. card \in Nat \ {0} /\ i \in Trail(page, i) /\ Rank(Trail(page, i), i) = card
  BY TrailIsFinite
<1>3. At(page, i, card) = i
  <2>1. card \in 1..card
    BY <1>2
  <2>2. At(page, i, card) \in Trail(page, i) /\ Rank(Trail(page, i), At(page, i, card)) = card
    BY <2>1, AtHasRank
  <2> QED BY <1>2, <2>2, TrailIsFinite, RanksAreDistinct
<1> HIDE DEF path, card
<1>4. path \in [1..card -> names]
  BY <1>1
<1>5. path \in Seq(names) /\ Len(path) = card
  <2> HIDE DEF names
  <2> QED BY <1>2, <1>4
<1>6. path[card] = page[i].heading
  BY <1>1, <1>2, <1>3
<1> QED BY <1>1, <1>2, <1>5, <1>6 DEF path, card

(* The trail of a section on another's trail is the first part of that one. *)
LEMMA TrailOfAncestor ==
    ASSUME NEW page, IsPage(page), NEW i \in DOMAIN page, NEW m \in Trail(page, i)
    PROVE  Trail(page, m) = {k \in Trail(page, i) : k <= m}
<1>1. i \in Nat /\ m \in 1..i /\ i \in 1..Len(page) /\ DOMAIN page = 1..Len(page) /\ Len(page) \in Nat
  BY DEF IsPage, Trail
<1>2. \A k \in DOMAIN page : page[k].level \in Int
  BY DEF IsPage
<1>3. CASE m = i
  BY <1>1, <1>3 DEF Trail
<1>4. CASE m # i
  <2>1. m < i /\ \A x \in (m + 1)..i : page[x].level > page[m].level
    BY <1>1, <1>4 DEF Trail, Encloses
  <2>2. ASSUME NEW k \in Trail(page, m) PROVE k \in Trail(page, i) /\ k <= m
    <3>1. k \in 1..m /\ k \in 1..i /\ k <= m
      BY <1>1, <2>2 DEF Trail
    <3>2. CASE k = m
      BY <3>1, <3>2
    <3>3. CASE k # m
      <4>1. k < m /\ \A x \in (k + 1)..m : page[x].level > page[k].level
        BY <1>1, <2>2, <3>1, <3>3 DEF Trail, Encloses
      <4>2. page[m].level > page[k].level
        BY <1>1, <3>1, <4>1
      <4>3. ASSUME NEW x \in (k + 1)..i PROVE page[x].level > page[k].level
        <5>1. x \in (k + 1)..m \/ x \in (m + 1)..i
          BY <1>1, <3>1
        <5>2. x \in DOMAIN page /\ m \in DOMAIN page /\ k \in DOMAIN page
          BY <1>1, <3>1
        <5>3. page[x].level \in Int /\ page[m].level \in Int /\ page[k].level \in Int
          BY <1>2, <5>2
        <5> QED BY <2>1, <4>1, <4>2, <5>1, <5>3
      <4>4. k < i
        BY <1>1, <2>1, <3>1, <4>1
      <4> QED BY <3>1, <4>3, <4>4 DEF Trail, Encloses
    <3> QED BY <3>2, <3>3
  <2>3. ASSUME NEW k \in Trail(page, i), k <= m PROVE k \in Trail(page, m)
    <3>1. k \in 1..i /\ k \in 1..m
      BY <1>1, <2>3 DEF Trail
    <3>2. CASE k = m
      BY <3>1, <3>2 DEF Trail
    <3>3. CASE k # m
      <4>1. k < m /\ k < i /\ \A x \in (k + 1)..i : page[x].level > page[k].level
        BY <1>1, <2>1, <2>3, <3>1, <3>3 DEF Trail, Encloses
      <4>2. \A x \in (k + 1)..m : x \in (k + 1)..i
        BY <1>1, <3>1
      <4> QED BY <3>1, <4>1, <4>2 DEF Trail, Encloses
    <3> QED BY <3>2, <3>3
  <2> QED BY <2>2, <2>3
<1> QED BY <1>3, <1>4

(* Each first part of a path is the path of a section. *)
LEMMA PrefixIsPath ==
    ASSUME NEW page, IsPage(page), NEW i \in DOMAIN page, NEW n \in 1..Len(DepthPath(page, i))
    PROVE  \E m \in DOMAIN page : DepthPath(page, m) = SubSeq(DepthPath(page, i), 1, n)
<1> DEFINE trail == Trail(page, i)
           card == Cardinality(trail)
           m == At(page, i, n)
           part == Trail(page, m)
           names == {page[At(page, i, x)].heading : x \in 1..card}
<1>1. /\ card \in Nat \ {0} /\ DepthPath(page, i) \in Seq(names) /\ Len(DepthPath(page, i)) = card
      /\ DepthPath(page, i) = [x \in 1..card |-> page[At(page, i, x)].heading]
  BY PathOfSection
<1>2. n \in 1..card
  BY <1>1
<1>3. m \in trail /\ Rank(trail, m) = n
  BY <1>2, AtHasRank
<1>4. m \in DOMAIN page /\ trail \in SUBSET Nat /\ IsFiniteSet(trail)
  BY <1>3, TrailIsFinite
<1> HIDE DEF m
<1>5. part = {k \in trail : k <= m}
  BY <1>3, TrailOfAncestor
<1>6. Cardinality(part) = n
  BY <1>3, <1>5 DEF Rank
<1>7. DepthPath(page, m) = [x \in 1..n |-> page[At(page, m, x)].heading]
  BY <1>4, <1>6, PathOfSection
<1>8. ASSUME NEW x \in 1..n PROVE At(page, m, x) = At(page, i, x)
  <2> DEFINE j == At(page, m, x)
  <2>1. j \in part /\ Rank(part, j) = x
    BY <1>4, <1>6, <1>8, AtHasRank
  <2>2. j \in trail /\ j <= m
    BY <1>5, <2>1
  <2>3. {k \in part : k <= j} = {k \in trail : k <= j}
    <3> HIDE DEF j, trail, part
    <3> QED BY <1>3, <1>4, <1>5, <2>2
  <2>4. Rank(trail, j) = x
    BY <2>1, <2>3 DEF Rank
  <2>5. x \in 1..card
    BY <1>1, <1>2, <1>8
  <2>6. At(page, i, x) \in trail /\ Rank(trail, At(page, i, x)) = x
    BY <2>5, AtHasRank
  <2> HIDE DEF j, trail
  <2>7. j = At(page, i, x)
    BY <1>4, <2>2, <2>4, <2>6, RanksAreDistinct
  <2> QED BY <2>7 DEF j
<1> HIDE DEF trail, card, names
<1>9. SubSeq(DepthPath(page, i), 1, n) = [x \in 1..n |-> DepthPath(page, i)[x]]
  BY <1>1, <1>2
<1>10. \A x \in 1..n : DepthPath(page, i)[x] = page[At(page, i, x)].heading
  BY <1>1, <1>2
<1>11. DepthPath(page, m) = SubSeq(DepthPath(page, i), 1, n)
  BY <1>7, <1>8, <1>9, <1>10
<1> QED BY <1>4, <1>11

(***************************************************************************)
(* Two trees compared                                                      *)
(***************************************************************************)

(* Where nothing collides, the tree holds every node of every section.      *)
LEMMA TreeOfUniquePaths ==
    ASSUME NEW page, IsPage(page), NothingCollides(page), NEW i \in DOMAIN page
    PROVE  LET tree == IndexTree(page)
           IN  /\ HeadingKey(page, i) \in DOMAIN tree
               /\ tree[HeadingKey(page, i)] = HeadingNode(page, i)
               /\ \A n \in Leaves(page, i) :
                     /\ LeafKey(page, i, n) \in DOMAIN tree
                     /\ tree[LeafKey(page, i, n)] = Leaf(page, i, n)
<1> DEFINE tree == IndexTree(page)
<1>1. /\ HeadingKey(page, i) \in DOMAIN tree
      /\ \A n \in Leaves(page, i) : LeafKey(page, i, n) \in DOMAIN tree
  BY TreeHoldsNodes
<1>2. ASSUME NEW key \in DOMAIN tree
      PROVE  \E k \in DOMAIN page :
                \/ key = HeadingKey(page, k) /\ tree[key] = HeadingNode(page, k)
                \/ \E n \in Leaves(page, k) : key = LeafKey(page, k, n) /\ tree[key] = Leaf(page, k, n)
  BY TreeHoldsNodes
<1> HIDE DEF tree
<1>3. ASSUME NEW k \in DOMAIN page, NEW m, NEW n,
             [path |-> DepthPath(page, i), leaf |-> m] = [path |-> DepthPath(page, k), leaf |-> n]
      PROVE  k = i /\ m = n
  <2>1. DepthPath(page, i) = DepthPath(page, k) /\ m = n
    BY <1>3
  <2> QED BY <2>1 DEF NothingCollides
<1>4. \A k \in DOMAIN page : \A n \in Leaves(page, k) : LeafName(page, k, n) # 0
  BY LeafNames
<1>5. tree[HeadingKey(page, i)] = HeadingNode(page, i)
  <2>1. PICK k \in DOMAIN page :
           \/ /\ HeadingKey(page, i) = HeadingKey(page, k)
              /\ tree[HeadingKey(page, i)] = HeadingNode(page, k)
           \/ \E n \in Leaves(page, k) : HeadingKey(page, i) = LeafKey(page, k, n)
    BY <1>1, <1>2
  <2>2. \A n \in Leaves(page, k) : HeadingKey(page, i) # LeafKey(page, k, n)
    BY <1>3, <1>4 DEF HeadingKey, LeafKey
  <2>3. HeadingKey(page, i) = HeadingKey(page, k) => k = i
    BY <1>3 DEF HeadingKey
  <2> QED BY <2>1, <2>2, <2>3
<1>6. ASSUME NEW n \in Leaves(page, i)
      PROVE  tree[LeafKey(page, i, n)] = Leaf(page, i, n)
  <2>1. PICK k \in DOMAIN page :
           \/ LeafKey(page, i, n) = HeadingKey(page, k)
           \/ \E m \in Leaves(page, k) :
                 /\ LeafKey(page, i, n) = LeafKey(page, k, m)
                 /\ tree[LeafKey(page, i, n)] = Leaf(page, k, m)
    BY <1>1, <1>2
  <2>2. LeafKey(page, i, n) # HeadingKey(page, k)
    BY <1>3, <1>4 DEF HeadingKey, LeafKey
  <2>3. PICK m \in Leaves(page, k) :
           /\ LeafKey(page, i, n) = LeafKey(page, k, m)
           /\ tree[LeafKey(page, i, n)] = Leaf(page, k, m)
    BY <2>1, <2>2
  <2>4. k = i /\ LeafName(page, k, m) = LeafName(page, i, n)
    BY <1>3, <2>3 DEF LeafKey
  <2>5. m = n
    BY <2>4, LeafNames
  <2> QED BY <2>3, <2>4, <2>5
<1> QED BY <1>1, <1>5, <1>6 DEF tree

(* A path no section of a page has is the path of no key of its tree.        *)
LEMMA TreeHasNoOther ==
    ASSUME NEW page, IsPage(page), NEW path, NEW name,
           \A i \in DOMAIN page : DepthPath(page, i) # path
    PROVE  [path |-> path, leaf |-> name] \notin DOMAIN IndexTree(page)
<1> DEFINE key == [path |-> path, leaf |-> name]
<1> SUFFICES ASSUME key \in DOMAIN IndexTree(page)
             PROVE  \E i \in DOMAIN page : DepthPath(page, i) = path
  OBVIOUS
<1>1. PICK i \in DOMAIN page : key = HeadingKey(page, i) \/ \E m \in Leaves(page, i) : key = LeafKey(page, i, m)
  BY TreeHoldsNodes
<1> QED BY <1>1 DEF HeadingKey, LeafKey

(* The tree's node under the path of a section, and not the heading's, is    *)
(* one of the section's leaves.                                              *)
LEMMA LeafOfPath ==
    ASSUME NEW page, IsPage(page), NothingCollides(page), NEW i \in DOMAIN page,
           NEW name, name # 0, [path |-> DepthPath(page, i), leaf |-> name] \in DOMAIN IndexTree(page)
    PROVE  \E n \in Leaves(page, i) :
              IndexTree(page)[[path |-> DepthPath(page, i), leaf |-> name]] = Leaf(page, i, n)
<1> DEFINE key == [path |-> DepthPath(page, i), leaf |-> name]
<1>1. PICK k \in DOMAIN page :
         \/ key = HeadingKey(page, k)
         \/ \E n \in Leaves(page, k) : key = LeafKey(page, k, n) /\ IndexTree(page)[key] = Leaf(page, k, n)
  BY TreeHoldsNodes
<1>2. key # HeadingKey(page, k)
  BY DEF HeadingKey
<1>3. PICK n \in Leaves(page, k) : key = LeafKey(page, k, n) /\ IndexTree(page)[key] = Leaf(page, k, n)
  BY <1>1, <1>2
<1>4. DepthPath(page, k) = DepthPath(page, i)
  BY <1>3 DEF LeafKey
<1>5. k = i
  BY <1>4 DEF NothingCollides
<1> QED BY <1>3, <1>5

(* The headings on the way to a section are in the tree. *)
LEMMA AncestorsAreInTree ==
    ASSUME NEW page, IsPage(page), NEW i \in DOMAIN page, NEW n \in 1..Len(DepthPath(page, i))
    PROVE  [path |-> SubSeq(DepthPath(page, i), 1, n), leaf |-> 0] \in DOMAIN IndexTree(page)
<1>1. PICK m \in DOMAIN page : DepthPath(page, m) = SubSeq(DepthPath(page, i), 1, n)
  BY PrefixIsPath
<1> QED BY <1>1, TreeHoldsNodes DEF HeadingKey

(* What diffTrees says of one key. *)
LEMMA EntryOfKey ==
    ASSUME NEW before, NEW after, before # NoPage,
           NEW key, NEW change, change # "pruned"
    PROVE  LET a == IndexTree(before)
               b == IndexTree(after)
           IN  <<key, change>> \in DiffTrees(before, after) <=>
                   \/ key \in DOMAIN b \ DOMAIN a /\ change = "added"
                   \/ key \in DOMAIN a \ DOMAIN b /\ change = "removed"
                   \/ key \in DOMAIN a \cap DOMAIN b /\ change = Change(a[key], b[key])
<1> DEFINE a == IndexTree(before)
           b == IndexTree(after)
           all == [k \in DOMAIN a \cup DOMAIN b |->
                      CASE k \notin DOMAIN a -> "added"
                        [] k \notin DOMAIN b -> "removed"
                        [] OTHER             -> Change(a[k], b[k])]
<1>1. DiffTrees(before, after) = {<<k, all[k]>> : k \in {x \in DOMAIN all : all[x] # "pruned"}}
  BY DEF DiffTrees
<1> HIDE DEF a, b
<1>2. DOMAIN all = DOMAIN a \cup DOMAIN b
  OBVIOUS
<1>3. /\ \A k \in DOMAIN b \ DOMAIN a : all[k] = "added"
      /\ \A k \in DOMAIN a \ DOMAIN b : all[k] = "removed"
      /\ \A k \in DOMAIN a \cap DOMAIN b : all[k] = Change(a[k], b[k])
  OBVIOUS
<1> HIDE DEF all
<1>4. <<key, change>> \in DiffTrees(before, after) <=>
         key \in DOMAIN a \cup DOMAIN b /\ change = all[key]
  BY <1>1, <1>2
<1>5. (\/ key \in DOMAIN b \ DOMAIN a /\ change = "added"
       \/ key \in DOMAIN a \ DOMAIN b /\ change = "removed"
       \/ key \in DOMAIN a \cap DOMAIN b /\ change = Change(a[key], b[key]))
      <=> key \in DOMAIN a \cup DOMAIN b /\ change = all[key]
  BY <1>3
<1> QED BY <1>4, <1>5 DEF a, b

(* Of a heading that came or went, the topmost that did so with it is shown. *)
LEMMA TopmostIsShown ==
    ASSUME NEW S, NEW path \in Seq(S), path # <<>>, NEW entries, NEW change \in {"added", "removed"},
           <<[path |-> path, leaf |-> 0], change>> \in entries
    PROVE  \E n \in 1..Len(path) :
              <<[path |-> SubSeq(path, 1, n), leaf |-> 0], change>> \in CompactDiff(entries)
<1> DEFINE Upper(n) == [path |-> SubSeq(path, 1, n), leaf |-> 0]
           In == {n \in 1..Len(path) : <<Upper(n), change>> \in entries}
<1>1. Len(path) \in Nat \ {0} /\ SubSeq(path, 1, Len(path)) = path
  OBVIOUS
<1>2. Len(path) \in In /\ In \in SUBSET Nat
  BY <1>1
<1>3. PICK n \in In : \A m \in In : n <= m
  <2> HIDE DEF In
  <2> QED BY <1>2, LeastExists
<1>4. n \in 1..Len(path) /\ <<Upper(n), change>> \in entries
  OBVIOUS
<1>5. ASSUME NEW up \in PathNodes(Upper(n)) PROVE <<up, change>> \notin entries
  <2>1. SubSeq(path, 1, n) \in Seq(S) /\ Len(SubSeq(path, 1, n)) = n /\ n \in Nat
    BY <1>1, <1>4
  <2>2. PICK m \in 1..n : up = [path |-> SubSeq(SubSeq(path, 1, n), 1, m), leaf |-> 0] /\ up # Upper(n)
    BY <1>5, <2>1 DEF PathNodes
  <2>3. SubSeq(SubSeq(path, 1, n), 1, m) = SubSeq(path, 1, m)
    BY <1>1, <1>4, <2>1
  <2>4. up = Upper(m) /\ m # n /\ m \in 1..Len(path) /\ m < n
    BY <1>1, <1>4, <2>1, <2>2, <2>3
  <2>5. m \notin In
    BY <1>3, <2>4
  <2> HIDE DEF Upper
  <2> QED BY <2>4, <2>5
<1> HIDE DEF Upper
<1>6. <<Upper(n), change>> \in CompactDiff(entries)
  BY <1>4, <1>5 DEF CompactDiff
<1> QED BY <1>4, <1>6 DEF Upper

LEMMA ChangesOfKept ==
    ASSUME NEW old, NEW new
    PROVE  /\ Change(old, new) \in {"moved", "pruned", "modified", "modified-descendants"}
           /\ old.ordinal # new.ordinal \/ (old.node # new.node /\ old.subtree # new.subtree) =>
                 Change(old, new) \in {"moved", "modified"}
BY DEF Change, Relocated

(* Moves and edits are shown wherever they are. *)
LEMMA EditIsShown ==
    ASSUME NEW before, NEW after, before # NoPage,
           NEW key \in DOMAIN IndexTree(before) \cap DOMAIN IndexTree(after),
           \/ IndexTree(before)[key].ordinal # IndexTree(after)[key].ordinal
           \/ /\ IndexTree(before)[key].node # IndexTree(after)[key].node
              /\ IndexTree(before)[key].subtree # IndexTree(after)[key].subtree
    PROVE  \E e \in ReviewDiff(before, after) : e[1] = key
<1> DEFINE change == Change(IndexTree(before)[key], IndexTree(after)[key])
<1>1. change \in {"moved", "modified"}
  BY ChangesOfKept
<1> HIDE DEF change
<1>2. <<key, change>> \in DiffTrees(before, after)
  <2>1. change # "pruned"
    BY <1>1
  <2>2. change = Change(IndexTree(before)[key], IndexTree(after)[key])
    BY DEF change
  <2> QED BY <2>1, <2>2, EntryOfKey
<1>3. <<key, change>> \in ReviewDiff(before, after)
  BY <1>1, <1>2 DEF ReviewDiff, CompactDiff
<1>4. <<key, change>>[1] = key
  OBVIOUS
<1> QED BY <1>3, <1>4

(* A leaf that came or went is shown where its section stays. *)
LEMMA LeafIsShown ==
    ASSUME NEW before, IsPage(before), NEW after, IsPage(after), before # NoPage,
           NEW i \in DOMAIN before, NEW j \in DOMAIN after,
           DepthPath(before, i) = DepthPath(after, j), NEW name,
           NEW change \in {"added", "removed"},
           <<[path |-> DepthPath(after, j), leaf |-> name], change>> \in DiffTrees(before, after)
    PROVE  \E e \in ReviewDiff(before, after) : e[1].path = DepthPath(after, j)
<1> DEFINE path == DepthPath(after, j)
           key == [path |-> path, leaf |-> name]
<1>1. ASSUME NEW up \in PathNodes(key) PROVE <<up, change>> \notin DiffTrees(before, after)
  <2>1. key.path = path
    OBVIOUS
  <2>2. PICK m \in 1..Len(path) : up = [path |-> SubSeq(path, 1, m), leaf |-> 0]
    <3> HIDE DEF path, key
    <3> QED BY <1>1, <2>1 DEF PathNodes
  <2>3. up \in DOMAIN IndexTree(before) /\ up \in DOMAIN IndexTree(after)
    BY <2>2, AncestorsAreInTree
  <2>4. Change(IndexTree(before)[up], IndexTree(after)[up]) # change
    BY ChangesOfKept
  <2> QED BY <2>3, <2>4, EntryOfKey
<1>2. key.path = path /\ <<key, change>>[1] = key
  OBVIOUS
<1>3. <<key, change>> \in DiffTrees(before, after)
  OBVIOUS
<1> HIDE DEF key
<1>4. <<key, change>> \in ReviewDiff(before, after)
  BY <1>1, <1>3 DEF ReviewDiff, CompactDiff
<1> QED BY <1>2, <1>4

(* A leaf that is not the same on both pages is shown, under its own key or  *)
(* as the move of the snippet that has it on the other page.                 *)
LEMMA LeafDifferenceIsShown ==
    ASSUME NEW before, IsPage(before), NothingCollides(before), before # NoPage,
           NEW after, IsPage(after), NothingCollides(after),
           NEW i \in DOMAIN before, NEW j \in DOMAIN after,
           DepthPath(before, i) = DepthPath(after, j),
           NEW n,
           \/ n \in Leaves(after, j) /\ n \notin Leaves(before, i)
           \/ n \in Leaves(before, i) /\ n \notin Leaves(after, j)
           \/ /\ n \in Leaves(after, j) \cap Leaves(before, i)
              /\ LeafHash(before, i, n) # LeafHash(after, j, n)
    PROVE  \E e \in ReviewDiff(before, after) : e[1].path = DepthPath(after, j)
<1> DEFINE path == DepthPath(after, j)
           a == IndexTree(before)
           b == IndexTree(after)
           Key(name) == [path |-> path, leaf |-> name]
           Shown == \E e \in ReviewDiff(before, after) : e[1].path = path
<1> SUFFICES Shown
  OBVIOUS
<1>1. ASSUME NEW name, Key(name) \in DOMAIN a \cap DOMAIN b,
             \/ a[Key(name)].ordinal # b[Key(name)].ordinal
             \/ a[Key(name)].node # b[Key(name)].node /\ a[Key(name)].subtree # b[Key(name)].subtree
      PROVE  Shown
  <2>1. Key(name).path = path
    OBVIOUS
  <2> DEFINE key == Key(name)
  <2> HIDE DEF Key
  <2>2. \E e \in ReviewDiff(before, after) : e[1] = key
    BY <1>1, EditIsShown
  <2> QED BY <2>1, <2>2
<1>2. ASSUME NEW name, Key(name) \in DOMAIN b \ DOMAIN a \/ Key(name) \in DOMAIN a \ DOMAIN b
      PROVE  Shown
  <2> DEFINE change == IF Key(name) \in DOMAIN b THEN "added" ELSE "removed"
  <2>1. change \in {"added", "removed"} /\ change # "pruned"
    OBVIOUS
  <2>2. <<Key(name), change>> \in DiffTrees(before, after)
    BY <1>2, <2>1, EntryOfKey
  <2> HIDE DEF change
  <2> QED BY <2>1, <2>2, LeafIsShown
<1>3. ASSUME NEW m \in Leaves(before, i), NEW l \in Leaves(after, j)
      PROVE  /\ Leaf(before, i, m).ordinal = m - 1 /\ Leaf(after, j, l).ordinal = l - 1
             /\ m # l => m - 1 # l - 1
             /\ Leaf(before, i, m).node = LeafHash(before, i, m) /\ Leaf(after, j, l).node = LeafHash(after, j, l)
             /\ Leaf(before, i, m).subtree = LeafHash(before, i, m)
             /\ Leaf(after, j, l).subtree = LeafHash(after, j, l)
  <2>1. m \in Nat /\ l \in Nat
    BY LeafNames
  <2> QED BY <2>1 DEF Leaf, LeafNode
<1>4. ASSUME NEW m \in Leaves(before, i)
      PROVE  LET name == LeafName(before, i, m)
             IN  Key(name) \in DOMAIN a /\ a[Key(name)] = Leaf(before, i, m) /\ name # 0
  BY TreeOfUniquePaths, LeafNames DEF LeafKey
<1>5. ASSUME NEW l \in Leaves(after, j)
      PROVE  LET name == LeafName(after, j, l)
             IN  Key(name) \in DOMAIN b /\ b[Key(name)] = Leaf(after, j, l) /\ name # 0
  BY TreeOfUniquePaths, LeafNames DEF LeafKey
<1>6. ASSUME NEW name, name # 0, Key(name) \in DOMAIN a
      PROVE  \E m \in Leaves(before, i) : a[Key(name)] = Leaf(before, i, m)
  BY <1>6, LeafOfPath
<1>7. ASSUME NEW name, name # 0, Key(name) \in DOMAIN b
      PROVE  \E l \in Leaves(after, j) : b[Key(name)] = Leaf(after, j, l)
  BY <1>7, LeafOfPath
<1> HIDE DEF a, b, Key, Shown
<1>8. CASE n \in Leaves(after, j) /\ ~(n \in Leaves(before, i) /\ LeafHash(before, i, n) = LeafHash(after, j, n))
  <2> DEFINE name == LeafName(after, j, n)
  <2>1. Key(name) \in DOMAIN b /\ b[Key(name)] = Leaf(after, j, n) /\ name # 0
    BY <1>5, <1>8
  <2> HIDE DEF name
  <2>2. CASE Key(name) \notin DOMAIN a
    BY <1>2, <2>1, <2>2
  <2>3. CASE Key(name) \in DOMAIN a
    <3>1. PICK m \in Leaves(before, i) : a[Key(name)] = Leaf(before, i, m)
      BY <1>6, <2>1, <2>3
    <3>2. CASE m # n
      <4>1. a[Key(name)].ordinal # b[Key(name)].ordinal
        BY <1>3, <1>8, <2>1, <3>1, <3>2
      <4> QED BY <1>1, <2>1, <2>3, <4>1
    <3>3. CASE m = n
      <4>1. a[Key(name)].node # b[Key(name)].node /\ a[Key(name)].subtree # b[Key(name)].subtree
        BY <1>3, <1>8, <2>1, <3>1, <3>3
      <4> QED BY <1>1, <2>1, <2>3, <4>1
    <3> QED BY <3>2, <3>3
  <2> QED BY <2>2, <2>3
<1>9. CASE n \in Leaves(before, i) /\ n \notin Leaves(after, j)
  <2> DEFINE name == LeafName(before, i, n)
  <2>1. Key(name) \in DOMAIN a /\ a[Key(name)] = Leaf(before, i, n) /\ name # 0
    BY <1>4, <1>9
  <2> HIDE DEF name
  <2>2. CASE Key(name) \notin DOMAIN b
    BY <1>2, <2>1, <2>2
  <2>3. CASE Key(name) \in DOMAIN b
    <3>1. PICK l \in Leaves(after, j) : b[Key(name)] = Leaf(after, j, l)
      BY <1>7, <2>1, <2>3
    <3>2. a[Key(name)].ordinal # b[Key(name)].ordinal
      BY <1>3, <1>9, <2>1, <3>1
    <3> QED BY <1>1, <2>1, <2>3, <3>2
  <2> QED BY <2>2, <2>3
<1> QED BY <1>8, <1>9

(* A subtree's hash begins with its section's own. *)
LEMMA HashOfSubtree ==
    ASSUME NEW page, IsPage(page), NEW i \in DOMAIN page
    PROVE  SubtreeHash(page, i)[0] = <<page[i].level, page[i].heading, ProseHash(page, i), page[i].code>>
<1> DEFINE Part(k) == <<page[k].level, page[k].heading, ProseHash(page, k), page[k].code>>
           size == Cardinality(Subtree(page, i))
<1>1. SubtreeHash(page, i) = [k \in 0..(size - 1) |-> Part(i + k)]
  BY DEF SubtreeHash
<1>2. size \in Nat \ {0}
  BY SubtreeIsInterval
<1>3. i + 0 = i
  BY DEF IsPage
<1> HIDE DEF Part, size
<1>4. SubtreeHash(page, i)[0] = Part(i)
  BY <1>1, <1>2, <1>3
<1> QED BY <1>4 DEF Part

(* A section both pages have is shown if it is not the same on both. *)
LEMMA DifferenceIsShown ==
    ASSUME NEW before, IsPage(before), NothingCollides(before), before # NoPage,
           NEW after, IsPage(after), NothingCollides(after),
           NEW i \in DOMAIN before, NEW j \in DOMAIN after,
           DepthPath(before, i) = DepthPath(after, j), Own(before, i) # Own(after, j)
    PROVE  \E e \in ReviewDiff(before, after) : e[1].path = DepthPath(after, j)
<1> DEFINE path == DepthPath(after, j)
           old == before[i]
           new == after[j]
           a == IndexTree(before)
           b == IndexTree(after)
<1>1. HeadingKey(before, i) = HeadingKey(after, j) /\ HeadingKey(after, j).path = path
  BY DEF HeadingKey
<1>2. old.heading = new.heading
  <2>1. /\ Len(DepthPath(before, i)) = Cardinality(Trail(before, i))
        /\ Len(DepthPath(after, j)) = Cardinality(Trail(after, j))
        /\ DepthPath(before, i)[Cardinality(Trail(before, i))] = old.heading
        /\ DepthPath(after, j)[Cardinality(Trail(after, j))] = new.heading
    BY PathOfSection
  <2> QED BY <2>1
<1>3. /\ old.level \in Nat /\ new.level \in Nat
      /\ old.heading = Preamble <=> old.level = 7
      /\ new.heading = Preamble <=> new.level = 7
      /\ Len(old.code) \in Nat /\ old.code = [k \in 1..Len(old.code) |-> old.code[k]]
      /\ Len(new.code) \in Nat /\ new.code = [k \in 1..Len(new.code) |-> new.code[k]]
  BY DEF IsPage
<1>4. /\ HeadingKey(after, j) \in DOMAIN a \cap DOMAIN b
      /\ a[HeadingKey(after, j)] = HeadingNode(before, i)
      /\ b[HeadingKey(after, j)] = HeadingNode(after, j)
  BY <1>1, TreeOfUniquePaths
<1>5. SubtreeHash(before, i) = SubtreeHash(after, j) =>
         old.level = new.level /\ ProseHash(before, i) = ProseHash(after, j)
  <2>1. /\ SubtreeHash(before, i)[0] = <<old.level, old.heading, ProseHash(before, i), old.code>>
        /\ SubtreeHash(after, j)[0] = <<new.level, new.heading, ProseHash(after, j), new.code>>
    BY HashOfSubtree
  <2> QED BY <2>1
<1> HIDE DEF a, b
<1>6. CASE old.level # new.level
  <2>1. old.heading # Preamble /\ new.heading # Preamble
    BY <1>2, <1>3, <1>6
  <2>2. HeadingNode(before, i).node # HeadingNode(after, j).node
    BY <1>6, <2>1 DEF HeadingNode
  <2>3. HeadingNode(before, i).subtree # HeadingNode(after, j).subtree
    BY <1>5, <1>6 DEF HeadingNode
  <2> QED BY <1>1, <1>4, <2>2, <2>3, EditIsShown DEF a, b
<1>7. CASE old.heading = Preamble /\ ProseHash(before, i) # ProseHash(after, j)
  <2>1. HeadingNode(before, i).node # HeadingNode(after, j).node
    BY <1>2, <1>7 DEF HeadingNode
  <2>2. HeadingNode(before, i).subtree # HeadingNode(after, j).subtree
    BY <1>5, <1>7 DEF HeadingNode
  <2> QED BY <1>1, <1>4, <2>1, <2>2, EditIsShown DEF a, b
<1>8. CASE old.heading # Preamble /\ ProseHash(before, i) # ProseHash(after, j)
  <2>1. 1 \in Leaves(before, i) \cap Leaves(after, j)
    BY <1>2, <1>3, <1>8 DEF Leaves
  <2>2. LeafHash(before, i, 1) # LeafHash(after, j, 1)
    BY <1>8 DEF LeafHash
  <2> QED BY <2>1, <2>2, LeafDifferenceIsShown
<1>9. CASE Len(old.code) # Len(new.code)
  <2>1. PICK n : \/ n \in Leaves(after, j) /\ n \notin Leaves(before, i)
                 \/ n \in Leaves(before, i) /\ n \notin Leaves(after, j)
    <3>1. CASE Len(old.code) < Len(new.code)
      <4>1. Len(new.code) + 1 \in Leaves(after, j) /\ Len(new.code) + 1 \notin Leaves(before, i)
        BY <1>3, <3>1 DEF Leaves
      <4> QED BY <4>1
    <3>2. CASE Len(new.code) < Len(old.code)
      <4>1. Len(old.code) + 1 \in Leaves(before, i) /\ Len(old.code) + 1 \notin Leaves(after, j)
        BY <1>3, <3>2 DEF Leaves
      <4> QED BY <4>1
    <3> QED BY <1>3, <1>9, <3>1, <3>2
  <2> QED BY <2>1, LeafDifferenceIsShown
<1>10. CASE Len(old.code) = Len(new.code) /\ old.code # new.code
  <2>1. PICK k \in 1..Len(new.code) : old.code[k] # new.code[k]
    BY <1>3, <1>10
  <2>2. k + 1 \in Leaves(before, i) \cap Leaves(after, j)
    BY <1>3, <1>10, <2>1 DEF Leaves
  <2>3. LeafHash(before, i, k + 1) = old.code[k] /\ LeafHash(after, j, k + 1) = new.code[k]
    BY <1>3, <2>1 DEF LeafHash
  <2> QED BY <2>1, <2>2, <2>3, LeafDifferenceIsShown
<1>11. old.level # new.level \/ ProseHash(before, i) # ProseHash(after, j) \/ old.code # new.code
  BY DEF Own
<1> QED BY <1>6, <1>7, <1>8, <1>9, <1>10, <1>11

(* A section only one of the pages has is shown, or the topmost of those     *)
(* over it that came or went.                                                *)
LEMMA CameOrWentIsShown ==
    ASSUME NEW before, IsPage(before), before # NoPage, NEW after, IsPage(after)
    PROVE  /\ \A j \in DOMAIN after :
                 (\A i \in DOMAIN before : DepthPath(before, i) # DepthPath(after, j)) =>
                     Explained(ReviewDiff(before, after), after, j, before)
           /\ \A i \in DOMAIN before :
                 (\A j \in DOMAIN after : DepthPath(after, j) # DepthPath(before, i)) =>
                     Explained(ReviewDiff(before, after), before, i, after)
<1>1. ASSUME NEW page, IsPage(page), NEW other, NEW k \in DOMAIN page, NEW change \in {"added", "removed"},
             \A l \in DOMAIN other : DepthPath(other, l) # DepthPath(page, k),
             <<HeadingKey(page, k), change>> \in DiffTrees(before, after)
      PROVE  Explained(ReviewDiff(before, after), page, k, other)
  <2> DEFINE path == DepthPath(page, k)
             card == Cardinality(Trail(page, k))
             names == {page[At(page, k, n)].heading : n \in 1..card}
             Key(n) == [path |-> SubSeq(path, 1, n), leaf |-> 0]
  <2>1. path \in Seq(names) /\ Len(path) = card /\ card \in Nat \ {0}
    BY <1>1, PathOfSection
  <2> HIDE DEF names, card
  <2>2. path # <<>> /\ SubSeq(path, 1, Len(path)) = path
    BY <2>1
  <2>3. <<[path |-> path, leaf |-> 0], change>> \in DiffTrees(before, after)
    BY <1>1 DEF HeadingKey
  <2>4. PICK n \in 1..Len(path) : <<Key(n), change>> \in ReviewDiff(before, after)
    <3> HIDE DEF path
    <3> QED BY <2>1, <2>2, <2>3, TopmostIsShown DEF ReviewDiff
  <2> DEFINE e == <<Key(n), change>>
  <2>5. e[1].path = SubSeq(path, 1, n) /\ e[2] = change
    OBVIOUS
  <2>6. n = Len(path) \/ n \in 1..(Len(path) - 1)
    BY <2>1
  <2> HIDE DEF path, e
  <2>7. e \in ReviewDiff(before, after)
    BY <2>4 DEF e
  <2> QED BY <1>1, <2>2, <2>5, <2>6, <2>7 DEF Explained, path
<1>2. ASSUME NEW j \in DOMAIN after, \A i \in DOMAIN before : DepthPath(before, i) # DepthPath(after, j)
      PROVE  Explained(ReviewDiff(before, after), after, j, before)
  <2>1. HeadingKey(after, j) \in DOMAIN IndexTree(after) \ DOMAIN IndexTree(before)
    BY <1>2, TreeHoldsNodes, TreeHasNoOther DEF HeadingKey
  <2>2. <<HeadingKey(after, j), "added">> \in DiffTrees(before, after)
    BY <2>1, EntryOfKey
  <2> QED BY <1>1, <1>2, <2>2
<1>3. ASSUME NEW i \in DOMAIN before, \A j \in DOMAIN after : DepthPath(after, j) # DepthPath(before, i)
      PROVE  Explained(ReviewDiff(before, after), before, i, after)
  <2>1. HeadingKey(before, i) \in DOMAIN IndexTree(before) \ DOMAIN IndexTree(after)
    BY <1>3, TreeHoldsNodes, TreeHasNoOther DEF HeadingKey
  <2>2. <<HeadingKey(before, i), "removed">> \in DiffTrees(before, after)
    BY <2>1, EntryOfKey
  <2> QED BY <1>1, <1>3, <2>2
<1> QED BY <1>2, <1>3

(* The diff of a page with itself is empty. *)
LEMMA SameIsPruned ==
    ASSUME NEW page, page # NoPage
    PROVE  ReviewDiff(page, page) = {}
<1> DEFINE a == IndexTree(page)
           all == [k \in DOMAIN a \cup DOMAIN a |->
                      CASE k \notin DOMAIN a -> "added"
                        [] k \notin DOMAIN a -> "removed"
                        [] OTHER             -> Change(a[k], a[k])]
<1>1. DiffTrees(page, page) = {<<k, all[k]>> : k \in {x \in DOMAIN all : all[x] # "pruned"}}
  BY DEF DiffTrees
<1> HIDE DEF a
<1>2. \A k \in DOMAIN a : Change(a[k], a[k]) = "pruned"
  BY DEF Change, Relocated
<1>3. \A k \in DOMAIN all : all[k] = "pruned"
  BY <1>2
<1>4. DiffTrees(page, page) = {}
  <2> HIDE DEF all
  <2> QED BY <1>1, <1>3
<1> QED BY <1>4 DEF ReviewDiff, CompactDiff

(***************************************************************************)
(* A thread under the matching tiers                                       *)
(***************************************************************************)
ProseFields ==
    {"kind", "slug", "authored", "heading", "quote", "suggestion", "section", "orphaned", "state"}
CodeFields == {"kind", "region", "hash", "line", "suggestion", "section", "orphaned", "state"}

HasFields(root, fields) == DOMAIN root = fields /\ root = [f \in fields |-> root[f]]

Settled(root) ==
    /\ root.orphaned \in BOOLEAN
    /\ root.state \in AnchorState
    /\ root.suggestion \in SuggestionState

IsProse(root) == HasFields(root, ProseFields) /\ root.kind = "prose" /\ Settled(root)
IsCode(root) == HasFields(root, CodeFields) /\ root.kind = "code" /\ Settled(root)

(* What a registration never touches. *)
SameThread(new, old) ==
    /\ new.kind = old.kind /\ new.section = old.section
    /\ new.authored = old.authored /\ new.heading = old.heading /\ new.quote = old.quote

(* What reanchorThreads promises for a prose thread. *)
Resolved(new, old, page) ==
    /\ IsProse(new)
    /\ SameThread(new, old)
    /\ new.orphaned <=> SectionAt(page, new.slug) = {}
    /\ \/ new.suggestion = old.suggestion
       \/ old.suggestion = "open" /\ new.suggestion = "applied"
    /\ old.suggestion = "applied" /\ SectionAt(page, old.slug) # {} => new.slug = old.slug

LEMMA PlacedIsWhole ==
    ASSUME NEW root, IsProse(root), NEW slug, NEW state \in AnchorState
    PROVE  LET new == Place(root, slug, state)
           IN  /\ IsProse(new) /\ SameThread(new, root) /\ new.suggestion = root.suggestion
               /\ new.slug = slug /\ ~new.orphaned
BY DEF Place, IsProse, HasFields, ProseFields, Settled, SameThread

LEMMA OrphanIsWhole ==
    ASSUME NEW root, IsProse(root)
    PROVE  LET new == [root EXCEPT !.orphaned = TRUE, !.state = "orphaned"]
           IN  /\ IsProse(new) /\ SameThread(new, root) /\ new.suggestion = root.suggestion
               /\ new.slug = root.slug /\ new.orphaned
BY DEF IsProse, HasFields, ProseFields, Settled, SameThread, AnchorState

LEMMA PlacedAtIsState ==
    ASSUME NEW root, NEW slug
    PROVE  PlacedAt(root, slug) \in AnchorState
BY DEF PlacedAt, AnchorState

(* The full search resolves every thread. *)
LEMMA ScanResolves ==
    ASSUME NEW page, IsPage(page), NEW root, IsProse(root)
    PROVE  Resolved(Scan(root, page), root, page)
<1> DEFINE own == SectionAt(page, root.slug)
           text == BodyText(page, First(own))
           fit == IF own = {} \/ root.quote = NoQuote THEN "none" ELSE LocateQuote(text, root.quote)
           lands == /\ root.suggestion = "open" /\ own # {} /\ fit # "framed"
                    /\ SuggestionApplied(text, root.quote)
           applied == IsApplied(root, lands)
           thread == [root EXCEPT !.suggestion = IF lands THEN "applied" ELSE @]
           elsewhere == IF root.quote = NoQuote \/ applied THEN {}
                        ELSE Elsewhere(page, root, own # {} /\ HasContext(root.quote))
           quoted(slug) == IF root.quote = NoQuote \/ applied THEN PlacedAt(root, slug) ELSE "section"
           i == First(elsewhere)
           there == AnchorSlug(page, i)
           how == IF LocateQuote(BodyText(page, i), root.quote) = "fuzzy" THEN "rewritten"
                  ELSE PlacedAt(root, there)
           last == AnchorSlug(page, LastOf(ByFingerprint(page, root)))
           lost == [thread EXCEPT !.orphaned = TRUE, !.state = "orphaned"]
           new == Scan(root, page)
<1>1. new = CASE fit = "framed" \/ (own # {} /\ applied) \/ fit = "exact" ->
                     Place(thread, root.slug, PlacedAt(root, root.slug))
              [] fit = "fuzzy" /\ ~applied -> Place(thread, root.slug, "rewritten")
              [] fit = "none" /\ elsewhere # {} -> Place(thread, there, how)
              [] fit = "none" /\ elsewhere = {} /\ ~(own # {} /\ applied) /\ own # {} ->
                     Place(thread, root.slug, quoted(root.slug))
              [] own = {} /\ elsewhere = {} /\ ByFingerprint(page, root) # {} ->
                     Place(thread, last, quoted(last))
              [] OTHER -> lost
  BY DEF Scan
<1>2. fit \in FitKind /\ (own = {} => fit = "none")
  BY DEF LocateQuote, FitKind
<1>3. applied <=> lands \/ root.suggestion = "applied"
  BY DEF IsApplied
<1>4. lands \in BOOLEAN /\ applied \in BOOLEAN /\ (lands => root.suggestion = "open" /\ own # {})
  BY DEF IsApplied
<1>5. /\ IsProse(thread) /\ SameThread(thread, root) /\ thread.slug = root.slug
      /\ thread.suggestion = IF lands THEN "applied" ELSE root.suggestion
  <2> HIDE DEF lands
  <2> QED BY DEF IsProse, HasFields, ProseFields, Settled, SameThread, SuggestionState
<1>6. elsewhere # {} => ~applied /\ SectionAt(page, there) # {}
  BY ElsewhereIsThere, SlugOfSection
<1>7. ByFingerprint(page, root) # {} => SectionAt(page, last) # {}
  <2>1. ByFingerprint(page, root) \in SUBSET 1..Len(page) /\ Len(page) \in Nat
    BY DEF ByFingerprint, IsPage
  <2>2. ByFingerprint(page, root) # {} => LastOf(ByFingerprint(page, root)) \in DOMAIN page
    BY <2>1, LastIsThere DEF IsPage
  <2> QED BY <2>2, SlugOfSection
<1>8. how \in AnchorState /\ \A slug : quoted(slug) \in AnchorState
  BY PlacedAtIsState DEF AnchorState
<1> HIDE DEF own, fit, lands, applied, thread, elsewhere, quoted, there, how, last, lost
<1>9. ASSUME NEW slug, NEW state \in AnchorState, new = Place(thread, slug, state),
             SectionAt(page, slug) # {}, slug = root.slug \/ own = {} \/ ~applied
      PROVE  Resolved(new, root, page)
  <2>1. /\ IsProse(new) /\ SameThread(new, thread) /\ new.suggestion = thread.suggestion
        /\ new.slug = slug /\ ~new.orphaned
    BY <1>5, <1>9, PlacedIsWhole
  <2> QED BY <2>1, <1>3, <1>4, <1>5, <1>9 DEF Resolved, SameThread, own
<1>10. CASE new = Place(thread, root.slug, PlacedAt(root, root.slug)) /\ own # {}
  BY <1>9, <1>10, PlacedAtIsState DEF own
<1>11. CASE new = Place(thread, root.slug, "rewritten") /\ own # {}
  BY <1>9, <1>11 DEF own, AnchorState
<1>12. CASE new = Place(thread, root.slug, quoted(root.slug)) /\ own # {}
  BY <1>8, <1>9, <1>12 DEF own
<1>13. CASE new = Place(thread, there, how) /\ elsewhere # {}
  BY <1>6, <1>8, <1>9, <1>13
<1>14. CASE new = Place(thread, last, quoted(last)) /\ own = {} /\ ByFingerprint(page, root) # {}
  BY <1>7, <1>8, <1>9, <1>14
<1>15. CASE new = lost /\ own = {}
  <2>1. /\ IsProse(new) /\ SameThread(new, thread) /\ new.suggestion = thread.suggestion
        /\ new.slug = thread.slug /\ new.orphaned
    BY <1>5, <1>15, OrphanIsWhole DEF lost
  <2> QED BY <2>1, <1>4, <1>5, <1>15 DEF Resolved, SameThread, own
<1> QED BY <1>1, <1>2, <1>6, <1>10, <1>11, <1>12, <1>13, <1>14, <1>15 DEF FitKind

(* So does reanchorThreads, whatever the fast path takes to be unchanged.   *)
LEMMA ReanchorResolves ==
    ASSUME NEW page, IsPage(page), NEW root, IsProse(root), NEW unchanged
    PROVE  Resolved(Reanchor(root, page, unchanged), root, page)
<1>1. CASE Reanchor(root, page, unchanged) = Scan(root, page)
  BY <1>1, ScanResolves
<1>2. CASE /\ Reanchor(root, page, unchanged) = root
           /\ root.slug \in AnchorSlugs(page) /\ ~root.orphaned
  BY <1>2, SlugOfSection DEF Resolved, SameThread, AnchorSlugs
<1> QED BY <1>1, <1>2 DEF Reanchor

(* reanchorCodeThreads: the thread is in its region, or on a line that      *)
(* reads like its own, or an orphan.                                        *)
OnItsLine(new, old, build) ==
    /\ IsCode(new)
    /\ new.suggestion = old.suggestion /\ new.section = old.section
    /\ old.region \notin build.regions /\ ~new.orphaned => build.lines[new.line] = old.hash

LEMMA ReanchorCodeFinds ==
    ASSUME NEW build \in Build, NEW root, IsCode(root)
    PROVE  OnItsLine(ReanchorCode(root, build), root, build)
<1> DEFINE found == {n \in DOMAIN build.lines : build.lines[n] = root.hash}
           new == ReanchorCode(root, build)
<1>1. new = CASE root.region \in build.regions /\ ~root.orphaned -> root
              [] root.region \in build.regions /\ root.orphaned ->
                    [root EXCEPT !.orphaned = FALSE, !.state = "exact"]
              [] root.region \notin build.regions /\ found # {} ->
                    [root EXCEPT !.line = First(found), !.orphaned = FALSE, !.state = "moved"]
              [] OTHER -> [root EXCEPT !.orphaned = TRUE, !.state = "orphaned"]
  BY DEF ReanchorCode
<1>2. found # {} => First(found) \in found
  BY BuildAssumption, FirstIsThere
<1> SUFFICES OnItsLine(new, root, build)
  OBVIOUS
<1> HIDE DEF new
<1>3. CASE new = root /\ root.region \in build.regions
  BY <1>3 DEF OnItsLine
<1>4. CASE /\ new = [root EXCEPT !.orphaned = FALSE, !.state = "exact"]
           /\ root.region \in build.regions
  BY <1>4 DEF OnItsLine, IsCode, HasFields, CodeFields, Settled, AnchorState
<1>5. CASE /\ new = [root EXCEPT !.line = First(found), !.orphaned = FALSE, !.state = "moved"]
           /\ found # {}
  <2>1. build.lines[First(found)] = root.hash
    BY <1>2, <1>5
  <2> HIDE DEF found
  <2> QED BY <1>5, <2>1 DEF OnItsLine, IsCode, HasFields, CodeFields, Settled, AnchorState
<1>6. CASE new = [root EXCEPT !.orphaned = TRUE, !.state = "orphaned"]
  BY <1>6 DEF OnItsLine, IsCode, HasFields, CodeFields, Settled, AnchorState
<1> QED BY <1>1, <1>3, <1>4, <1>5, <1>6, root.orphaned \in BOOLEAN DEF new, IsCode, Settled

(***************************************************************************)
(* What the fast path may rely on                                          *)
(***************************************************************************)

Quoted(root, page) ==
    LocateQuote(BodyText(page, First(SectionAt(page, root.slug))), root.quote)

(* A thread is on a page as the search, or its author, would have left it:   *)
(* on a section of the page, where its passage is found as its state says.   *)
(* (The browser's anchor of the preamble is no section's, and never takes    *)
(* the fast path.)                                                           *)
FoundOn(root, page) ==
    \/ root.slug = Top
    \/ /\ SectionAt(page, root.slug) # {}
       /\ root.state \in {"exact", "moved"} =>
             /\ root.state = PlacedAt(root, root.slug)
             /\ \/ root.quote = NoQuote
                \/ root.suggestion = "applied"
                \/ Quoted(root, page) \in {"framed", "exact"}
       /\ root.state = "rewritten" =>
             /\ root.quote # NoQuote /\ root.suggestion # "applied"
             /\ Quoted(root, page) = "fuzzy"

(* A search that does not end in an orphan finds the thread. *)
LEMMA ScanFinds ==
    ASSUME NEW page, IsPage(page), NEW root, IsProse(root), ~Scan(root, page).orphaned
    PROVE  Scan(root, page).state # "orphaned" /\ FoundOn(Scan(root, page), page)
<1> DEFINE own == SectionAt(page, root.slug)
           text == BodyText(page, First(own))
           fit == IF own = {} \/ root.quote = NoQuote THEN "none" ELSE LocateQuote(text, root.quote)
           lands == /\ root.suggestion = "open" /\ own # {} /\ fit # "framed"
                    /\ SuggestionApplied(text, root.quote)
           applied == IsApplied(root, lands)
           thread == [root EXCEPT !.suggestion = IF lands THEN "applied" ELSE @]
           elsewhere == IF root.quote = NoQuote \/ applied THEN {}
                        ELSE Elsewhere(page, root, own # {} /\ HasContext(root.quote))
           quoted(slug) == IF root.quote = NoQuote \/ applied THEN PlacedAt(root, slug) ELSE "section"
           i == First(elsewhere)
           there == AnchorSlug(page, i)
           how == IF LocateQuote(BodyText(page, i), root.quote) = "fuzzy" THEN "rewritten"
                  ELSE PlacedAt(root, there)
           last == AnchorSlug(page, LastOf(ByFingerprint(page, root)))
           lost == [thread EXCEPT !.orphaned = TRUE, !.state = "orphaned"]
           new == Scan(root, page)
<1>1. new = CASE fit = "framed" \/ (own # {} /\ applied) \/ fit = "exact" ->
                     Place(thread, root.slug, PlacedAt(root, root.slug))
              [] fit = "fuzzy" /\ ~applied -> Place(thread, root.slug, "rewritten")
              [] fit = "none" /\ elsewhere # {} -> Place(thread, there, how)
              [] fit = "none" /\ elsewhere = {} /\ ~(own # {} /\ applied) /\ own # {} ->
                     Place(thread, root.slug, quoted(root.slug))
              [] own = {} /\ elsewhere = {} /\ ByFingerprint(page, root) # {} ->
                     Place(thread, last, quoted(last))
              [] OTHER -> lost
  BY DEF Scan
<1>2. /\ fit \in FitKind /\ (own = {} => fit = "none")
      /\ fit # "none" => root.quote # NoQuote /\ fit = LocateQuote(text, root.quote)
  BY DEF LocateQuote, FitKind
<1>3. applied <=> lands \/ root.suggestion = "applied"
  BY DEF IsApplied
<1>4. applied \in BOOLEAN /\ (lands => own # {})
  BY DEF IsApplied
<1>5. /\ IsProse(thread) /\ SameThread(thread, root)
      /\ thread.suggestion = IF lands THEN "applied" ELSE root.suggestion
  <2> HIDE DEF lands
  <2> QED BY DEF IsProse, HasFields, ProseFields, Settled, SameThread, SuggestionState
<1>6. thread.suggestion = "applied" <=> applied
  BY <1>3, <1>5
<1>7. elsewhere # {} =>
         /\ ~applied /\ root.quote # NoQuote /\ SectionAt(page, there) # {}
         /\ First(SectionAt(page, there)) = i
         /\ LocateQuote(BodyText(page, i), root.quote) \in FitKind \ {"none"}
  <2> SUFFICES ASSUME elsewhere # {}
               PROVE  /\ ~applied /\ root.quote # NoQuote
                      /\ First(SectionAt(page, there)) = i /\ SectionAt(page, there) # {}
                      /\ LocateQuote(BodyText(page, i), root.quote) \in FitKind \ {"none"}
    OBVIOUS
  <2>1. /\ ~applied /\ root.quote # NoQuote
        /\ elsewhere = Elsewhere(page, root, own # {} /\ HasContext(root.quote))
    BY DEF IsApplied
  <2>2. i \in DOMAIN page /\ LocateQuote(BodyText(page, i), root.quote) # "none"
    BY <2>1, ElsewhereIsThere
  <2>3. LocateQuote(BodyText(page, i), root.quote) \in FitKind
    BY DEF LocateQuote, FitKind
  <2>4. SectionAt(page, there) = {i} /\ First(SectionAt(page, there)) = i
    BY <2>2, OnlySectionAt
  <2> QED BY <2>1, <2>2, <2>3, <2>4
<1>8. new.orphaned <=> SectionAt(page, new.slug) = {}
  BY ScanResolves DEF Resolved
<1>9. \A slug : PlacedAt(thread, slug) = PlacedAt(root, slug) /\ PlacedAt(root, slug) \in {"exact", "moved"}
  BY <1>5 DEF PlacedAt, SameThread
<1> SUFFICES new.state # "orphaned" /\ FoundOn(new, page)
  OBVIOUS
<1> DEFINE Good(slug, state) ==
              /\ state \in {"exact", "moved", "rewritten", "section"}
              /\ state \in {"exact", "moved"} =>
                    /\ state = PlacedAt(root, slug)
                    /\ \/ root.quote = NoQuote
                       \/ applied
                       \/ LocateQuote(BodyText(page, First(SectionAt(page, slug))), root.quote)
                             \in {"framed", "exact"}
              /\ state = "rewritten" =>
                    /\ root.quote # NoQuote /\ ~applied
                    /\ LocateQuote(BodyText(page, First(SectionAt(page, slug))), root.quote) = "fuzzy"
<1>10. ASSUME NEW slug, NEW state, Good(slug, state), new = Place(thread, slug, state)
       PROVE  new.state # "orphaned" /\ FoundOn(new, page)
  <2> HIDE DEF applied, lands, thread, new
  <2>1. state \in AnchorState
    BY <1>10 DEF AnchorState
  <2>2. /\ SameThread(new, thread) /\ new.suggestion = thread.suggestion /\ new.slug = slug
        /\ new.state = state
    BY <1>5, <1>10, <2>1, PlacedIsWhole DEF Place, IsProse, HasFields, ProseFields
  <2>3. new.quote = root.quote /\ PlacedAt(new, slug) = PlacedAt(root, slug)
    BY <1>5, <2>2 DEF SameThread, PlacedAt
  <2>4. SectionAt(page, new.slug) # {}
    BY <1>8 DEF new
  <2> QED BY <1>6, <1>10, <2>2, <2>3, <2>4 DEF FoundOn, Quoted
<1>11. CASE fit = "framed" \/ (own # {} /\ applied) \/ fit = "exact"
  <2>1. new = Place(thread, root.slug, PlacedAt(root, root.slug))
    BY <1>1, <1>11
  <2>2. Good(root.slug, PlacedAt(root, root.slug))
    BY <1>2, <1>9, <1>11
  <2> HIDE DEF Good, thread, new
  <2> QED BY <1>10, <2>1, <2>2
<1>12. CASE fit = "fuzzy" /\ ~applied
  <2>1. new = Place(thread, root.slug, "rewritten")
    BY <1>1, <1>2, <1>12
  <2>2. Good(root.slug, "rewritten")
    BY <1>2, <1>12
  <2> HIDE DEF Good, thread, new
  <2> QED BY <1>10, <2>1, <2>2
<1>13. CASE fit = "none" /\ elsewhere # {}
  <2>1. new = Place(thread, there, how)
    <3> HIDE DEF elsewhere, own, applied, thread, there, how, last, lost, new, quoted
    <3> QED BY <1>1, <1>7, <1>13
  <2>2. Good(there, how)
    <3> HIDE DEF elsewhere, own, applied, thread, i, there
    <3> QED BY <1>7, <1>9, <1>13 DEF FitKind
  <2> HIDE DEF Good, thread, new, there, how
  <2> QED BY <1>10, <2>1, <2>2
<1>14. CASE fit = "none" /\ elsewhere = {} /\ ~(own # {} /\ applied) /\ own # {}
  <2>1. new = Place(thread, root.slug, quoted(root.slug))
    <3> HIDE DEF elsewhere, own, applied, thread, there, how, last, lost, new, quoted
    <3> QED BY <1>1, <1>14
  <2>2. Good(root.slug, quoted(root.slug))
    <3> HIDE DEF elsewhere, own, applied, thread
    <3> QED BY <1>9
  <2> HIDE DEF Good, thread, new, quoted
  <2> QED BY <1>10, <2>1, <2>2
<1>15. CASE fit = "none" /\ own = {} /\ elsewhere = {} /\ ByFingerprint(page, root) # {}
  <2>1. new = Place(thread, last, quoted(last))
    <3> HIDE DEF elsewhere, own, applied, thread, there, how, last, lost, new, quoted
    <3> QED BY <1>1, <1>15
  <2>2. Good(last, quoted(last))
    <3> HIDE DEF elsewhere, own, applied, thread, last
    <3> QED BY <1>9
  <2> HIDE DEF Good, thread, new, quoted, last
  <2> QED BY <1>10, <2>1, <2>2
<1>16. CASE fit = "none" /\ own = {} /\ elsewhere = {} /\ ByFingerprint(page, root) = {}
  <2>1. new = lost
    <3> HIDE DEF elsewhere, own, applied, thread, there, how, last, lost, new, quoted
    <3> QED BY <1>1, <1>16
  <2>2. lost.orphaned
    BY <1>5, OrphanIsWhole
  <2> QED BY <2>1, <2>2
<1> QED
  <2> HIDE DEF elsewhere, own, applied, thread, there, how, last, lost, new, quoted, fit
  <2> QED BY <1>2, <1>11, <1>12, <1>13, <1>14, <1>15, <1>16 DEF FitKind

(* Where the same text is under the same anchor, a thread is found alike.    *)
LEMMA FoundOnBoth ==
    ASSUME NEW before, IsPage(before), NEW i \in DOMAIN before,
           NEW page, IsPage(page), NEW j \in DOMAIN page,
           BodyText(before, i) = BodyText(page, j),
           NEW root, FoundOn(root, before), root.slug # Top,
           root.slug = AnchorSlug(before, i), root.slug = AnchorSlug(page, j)
    PROVE  FoundOn(root, page) /\ Quoted(root, page) = Quoted(root, before)
<1>1. /\ SectionAt(page, root.slug) = {j} /\ First(SectionAt(page, root.slug)) = j
      /\ First(SectionAt(before, root.slug)) = i
  BY OnlySectionAt
<1>2. Quoted(root, page) = Quoted(root, before)
  BY <1>1 DEF Quoted
<1> QED BY <1>1, <1>2 DEF FoundOn

(* And the search leaves it where it is. *)
LEMMA ScanKeepsWhatIsFound ==
    ASSUME NEW before, IsPage(before), NEW i \in DOMAIN before,
           NEW page, IsPage(page), NEW j \in DOMAIN page,
           BodyText(before, i) = BodyText(page, j),
           NEW root, IsProse(root), FoundOn(root, before), root.slug # Top,
           root.slug = AnchorSlug(before, i), root.slug = AnchorSlug(page, j),
           root.state \in {"exact", "moved", "rewritten"},
           ~(root.state = "rewritten" /\ root.suggestion = "open")
    PROVE  LET full == Scan(root, page)
           IN  full.slug = root.slug /\ full.state = root.state /\ ~full.orphaned
<1> DEFINE own == SectionAt(page, root.slug)
           text == BodyText(page, First(own))
           fit == IF own = {} \/ root.quote = NoQuote THEN "none" ELSE LocateQuote(text, root.quote)
           lands == /\ root.suggestion = "open" /\ own # {} /\ fit # "framed"
                    /\ SuggestionApplied(text, root.quote)
           applied == IsApplied(root, lands)
           thread == [root EXCEPT !.suggestion = IF lands THEN "applied" ELSE @]
           elsewhere == IF root.quote = NoQuote \/ applied THEN {}
                        ELSE Elsewhere(page, root, own # {} /\ HasContext(root.quote))
           quoted(slug) == IF root.quote = NoQuote \/ applied THEN PlacedAt(root, slug) ELSE "section"
           there == AnchorSlug(page, First(elsewhere))
           how == IF LocateQuote(BodyText(page, First(elsewhere)), root.quote) = "fuzzy" THEN "rewritten"
                  ELSE PlacedAt(root, there)
           last == AnchorSlug(page, LastOf(ByFingerprint(page, root)))
           lost == [thread EXCEPT !.orphaned = TRUE, !.state = "orphaned"]
           new == Scan(root, page)
<1>1. new = CASE fit = "framed" \/ (own # {} /\ applied) \/ fit = "exact" ->
                     Place(thread, root.slug, PlacedAt(root, root.slug))
              [] fit = "fuzzy" /\ ~applied -> Place(thread, root.slug, "rewritten")
              [] fit = "none" /\ elsewhere # {} -> Place(thread, there, how)
              [] fit = "none" /\ elsewhere = {} /\ ~(own # {} /\ applied) /\ own # {} ->
                     Place(thread, root.slug, quoted(root.slug))
              [] own = {} /\ elsewhere = {} /\ ByFingerprint(page, root) # {} ->
                     Place(thread, last, quoted(last))
              [] OTHER -> lost
  BY DEF Scan
<1>2. own = {j} /\ First(own) = j
  BY OnlySectionAt
<1>3. LocateQuote(text, root.quote) = Quoted(root, before)
  <2>1. Quoted(root, page) = Quoted(root, before)
    BY FoundOnBoth
  <2> QED BY <2>1 DEF Quoted
<1>4. root.slug # Top /\ FoundOn(root, before)
  OBVIOUS
<1>5. applied <=> lands \/ root.suggestion = "applied"
  BY DEF IsApplied
<1>6. applied \in BOOLEAN /\ (lands => root.suggestion = "open")
  BY DEF IsApplied
<1>7. /\ IsProse(thread) /\ PlacedAt(root, root.slug) \in AnchorState /\ "rewritten" \in AnchorState
  <2>1. IsProse(thread)
    <3> HIDE DEF lands
    <3> QED BY DEF IsProse, HasFields, ProseFields, Settled, SuggestionState
  <2> QED BY <2>1, PlacedAtIsState DEF AnchorState
<1>8. ASSUME NEW state \in AnchorState, new = Place(thread, root.slug, state)
      PROVE  new.slug = root.slug /\ new.state = state /\ ~new.orphaned
  <2> HIDE DEF thread, new
  <2> QED BY <1>7, <1>8 DEF Place, IsProse, HasFields, ProseFields
<1>9. CASE root.state = "rewritten"
  <2>1. fit = "fuzzy" /\ root.suggestion # "applied"
    BY <1>2, <1>3, <1>4, <1>9 DEF FoundOn
  <2>2. ~applied
    <3> HIDE DEF applied, lands
    <3> QED BY <1>5, <1>6, <1>9, <2>1
  <2>3. new = Place(thread, root.slug, "rewritten")
    <3> HIDE DEF elsewhere, own, applied, thread, there, how, last, lost, new, quoted
    <3> QED BY <1>1, <2>1, <2>2
  <2> QED BY <1>7, <1>8, <1>9, <2>3
<1>10. CASE root.state # "rewritten"
  <2>1. /\ root.state = PlacedAt(root, root.slug)
        /\ root.quote = NoQuote \/ root.suggestion = "applied" \/ fit \in {"framed", "exact"}
    BY <1>2, <1>3, <1>4, <1>10 DEF FoundOn
  <2>2. root.quote = NoQuote => fit = "none" /\ elsewhere = {} /\ quoted(root.slug) = PlacedAt(root, root.slug)
    OBVIOUS
  <2>3. new = Place(thread, root.slug, PlacedAt(root, root.slug))
    <3>1. own # {} /\ (root.suggestion = "applied" => applied) /\ (applied => elsewhere = {})
      BY <1>2 DEF IsApplied
    <3> HIDE DEF elsewhere, own, applied, thread, there, how, last, lost, new, quoted
    <3>2. CASE applied \/ fit \in {"framed", "exact"}
      BY <1>1, <3>1, <3>2
    <3>3. CASE ~applied /\ root.quote = NoQuote
      BY <1>1, <2>2, <3>1, <3>3
    <3> QED BY <2>1, <3>1, <3>2, <3>3
  <2> QED BY <1>7, <1>8, <2>1, <2>3
<1> QED BY <1>9, <1>10

(* The search does not look at the section a thread points at. *)
LEMMA ScanForgetsSection ==
    ASSUME NEW page, NEW root, IsProse(root), NEW section
    PROVE  LET other == Scan([root EXCEPT !.section = section], page)
               full == Scan(root, page)
           IN  other.slug = full.slug /\ other.state = full.state /\ other.orphaned = full.orphaned
<1> DEFINE own == SectionAt(page, root.slug)
           text == BodyText(page, First(own))
           fit == IF own = {} \/ root.quote = NoQuote THEN "none" ELSE LocateQuote(text, root.quote)
           lands == /\ root.suggestion = "open" /\ own # {} /\ fit # "framed"
                    /\ SuggestionApplied(text, root.quote)
           applied == IsApplied(root, lands)
           Thread(t) == [t EXCEPT !.suggestion = IF lands THEN "applied" ELSE @]
           elsewhere == IF root.quote = NoQuote \/ applied THEN {}
                        ELSE Elsewhere(page, root, own # {} /\ HasContext(root.quote))
           quoted(slug) == IF root.quote = NoQuote \/ applied THEN PlacedAt(root, slug) ELSE "section"
           there == AnchorSlug(page, First(elsewhere))
           how == IF LocateQuote(BodyText(page, First(elsewhere)), root.quote) = "fuzzy" THEN "rewritten"
                  ELSE PlacedAt(root, there)
           last == AnchorSlug(page, LastOf(ByFingerprint(page, root)))
           Found(t) == CASE fit = "framed" \/ (own # {} /\ applied) \/ fit = "exact" ->
                                Place(t, root.slug, PlacedAt(root, root.slug))
                         [] fit = "fuzzy" /\ ~applied -> Place(t, root.slug, "rewritten")
                         [] fit = "none" /\ elsewhere # {} -> Place(t, there, how)
                         [] fit = "none" /\ elsewhere = {} /\ ~(own # {} /\ applied) /\ own # {} ->
                                Place(t, root.slug, quoted(root.slug))
                         [] own = {} /\ elsewhere = {} /\ ByFingerprint(page, root) # {} ->
                                Place(t, last, quoted(last))
                         [] OTHER -> [t EXCEPT !.orphaned = TRUE, !.state = "orphaned"]
           moved == [root EXCEPT !.section = section]
<1>1. Scan(root, page) = Found(Thread(root))
  BY DEF Scan
<1>2. /\ moved.slug = root.slug /\ moved.quote = root.quote /\ moved.suggestion = root.suggestion
      /\ moved.authored = root.authored /\ moved.heading = root.heading
      /\ IsProse(moved)
  BY DEF IsProse, HasFields, ProseFields, Settled
<1>3. \A slug : PlacedAt(moved, slug) = PlacedAt(root, slug)
  BY <1>2 DEF PlacedAt
<1>4. /\ \A framedOnly : Elsewhere(page, moved, framedOnly) = Elsewhere(page, root, framedOnly)
      /\ ByFingerprint(page, moved) = ByFingerprint(page, root)
      /\ \A l : IsApplied(moved, l) = IsApplied(root, l)
  <2> HIDE DEF moved
  <2> QED BY <1>2 DEF Elsewhere, ByFingerprint, IsApplied
<1>5. Scan(moved, page) = Found(Thread(moved))
  <2> HIDE DEF moved
  <2> QED BY <1>2, <1>3, <1>4 DEF Scan
<1>6. ASSUME NEW t, IsProse(t) PROVE IsProse(Thread(t))
  <2> HIDE DEF lands
  <2> QED BY <1>6 DEF IsProse, HasFields, ProseFields, Settled, SuggestionState
<1>7. IsProse(Thread(root)) /\ IsProse(Thread(moved)) /\ Thread(root).slug = root.slug
         /\ Thread(moved).slug = root.slug
  <2>1. IsProse(Thread(root)) /\ IsProse(Thread(moved))
    BY <1>2, <1>6
  <2> HIDE DEF lands
  <2> QED BY <1>2, <2>1 DEF IsProse, HasFields, ProseFields
<1>0. fit \in FitKind /\ (own = {} => fit = "none") /\ (applied => elsewhere = {})
  BY DEF LocateQuote, FitKind
<1> HIDE DEF Thread, own, fit, lands, applied, elsewhere, quoted, there, how, last, moved
<1> SUFFICES /\ Found(Thread(moved)).slug = Found(Thread(root)).slug
             /\ Found(Thread(moved)).state = Found(Thread(root)).state
             /\ Found(Thread(moved)).orphaned = Found(Thread(root)).orphaned
  BY <1>1, <1>5 DEF moved
<1>8. ASSUME NEW t, IsProse(t)
      PROVE  LET new == [t EXCEPT !.orphaned = TRUE, !.state = "orphaned"]
             IN  new.slug = t.slug /\ new.state = "orphaned" /\ new.orphaned = TRUE
  BY <1>8 DEF IsProse, HasFields, ProseFields
<1>9. ASSUME NEW t, IsProse(t), t.slug = root.slug, NEW u, IsProse(u), u.slug = root.slug
       PROVE  /\ Found(t).slug = Found(u).slug /\ Found(t).state = Found(u).state
              /\ Found(t).orphaned = Found(u).orphaned
  <2>1. ASSUME NEW slug, NEW state, Found(t) = Place(t, slug, state), Found(u) = Place(u, slug, state)
        PROVE  /\ Found(t).slug = Found(u).slug /\ Found(t).state = Found(u).state
               /\ Found(t).orphaned = Found(u).orphaned
    <3> HIDE DEF Found
    <3>1. ASSUME NEW v, IsProse(v)
          PROVE  /\ Place(v, slug, state).slug = slug /\ Place(v, slug, state).state = state
                 /\ Place(v, slug, state).orphaned = FALSE
      BY <3>1 DEF Place, IsProse, HasFields, ProseFields
    <3>2. /\ Place(t, slug, state).slug = slug /\ Place(t, slug, state).state = state
          /\ Place(t, slug, state).orphaned = FALSE
      BY <1>9, <3>1, Zenon
    <3>3. /\ Place(u, slug, state).slug = slug /\ Place(u, slug, state).state = state
          /\ Place(u, slug, state).orphaned = FALSE
      BY <1>9, <3>1, Zenon
    <3> QED BY <2>1, <3>2, <3>3, Zenon
  <2>2. CASE fit = "framed" \/ (own # {} /\ applied) \/ fit = "exact"
    <3>1. /\ Found(t) = Place(t, root.slug, PlacedAt(root, root.slug))
          /\ Found(u) = Place(u, root.slug, PlacedAt(root, root.slug))
      BY <1>0, <2>2
    <3> HIDE DEF Found
    <3> QED BY <2>1, <3>1
  <2>3. CASE fit = "fuzzy" /\ ~(own # {} /\ applied) /\ ~applied
    <3>1. /\ Found(t) = Place(t, root.slug, "rewritten")
          /\ Found(u) = Place(u, root.slug, "rewritten")
      BY <1>0, <2>3
    <3> HIDE DEF Found
    <3> QED BY <2>1, <3>1
  <2>4. CASE fit = "none" /\ ~(own # {} /\ applied) /\ elsewhere # {}
    BY <1>0, <2>1, <2>4
  <2>5. CASE fit = "none" /\ ~(own # {} /\ applied) /\ elsewhere = {} /\ own # {}
    BY <1>0, <2>1, <2>5
  <2>6. CASE fit = "none" /\ own = {} /\ elsewhere = {} /\ ByFingerprint(page, root) # {}
    BY <1>0, <2>1, <2>6
  <2>7. CASE fit = "none" /\ own = {} /\ elsewhere = {} /\ ByFingerprint(page, root) = {}
    BY <1>8, <1>9, <2>7
  <2> QED BY <1>0, <2>2, <2>3, <2>4, <2>5, <2>6, <2>7 DEF FitKind
<1> QED BY <1>7, <1>9

LEMMA ReleasedIsWhole ==
    ASSUME NEW root, NEW build, IsProse(root) \/ IsCode(root)
    PROVE  LET new == ReleaseSection(root, build)
           IN  /\ IsProse(root) => /\ IsProse(new) /\ new.slug = root.slug
               /\ IsCode(root) => /\ IsCode(new) /\ new.region = root.region
                                  /\ new.hash = root.hash
               /\ new.kind = root.kind /\ new.suggestion = root.suggestion
BY DEF ReleaseSection, IsProse, IsCode, HasFields, ProseFields, CodeFields, Settled

(***************************************************************************)
(* The invariant: threads keep their fields, and sections a version has.    *)
(* The foreign key is what an insert is checked against, and registering a  *)
(* hash again is what takes sections away.                                  *)
(***************************************************************************)
Whole ==
    /\ DOMAIN roots \subseteq RootId /\ DOMAIN creating \subseteq RootId
    /\ DOMAIN placedOn = DOMAIN roots
    /\ \A id \in DOMAIN roots : IsProse(roots[id]) \/ IsCode(roots[id])

Anchored == \A id \in DOMAIN roots : roots[id].section \in SectionRows \cup {NoVersion}

IInv == versions \in Seq(Build) /\ calls \in Nat /\ Whole /\ Anchored

LEMMA InvHoldsAtFirst == Init => IInv
BY DEF Init, IInv, Whole, Anchored

(* What becomes of one thread in a registration. *)
LEMMA RootAfterRegistration ==
    ASSUME NEW b \in Build, NEW root, IsProse(root) \/ IsCode(root)
    PROVE  LET new == ReanchorRoot(ReleaseSection(root, b), b)
           IN  /\ IsProse(root) => /\ IsProse(new) /\ new.section = ReleaseSection(root, b).section
                                   /\ Resolved(new, ReleaseSection(root, b), b.page)
               /\ IsCode(root) => /\ IsCode(new) /\ new.section = ReleaseSection(root, b).section
                                  /\ OnItsLine(new, ReleaseSection(root, b), b)
<1> DEFINE released == ReleaseSection(root, b)
<1>1. CASE IsProse(root)
  <2>1. IsProse(released) /\ released.kind = "prose" /\ ~IsCode(root)
    BY <1>1, ReleasedIsWhole DEF IsProse, IsCode
  <2>2. ReanchorRoot(released, b) = Reanchor(released, b.page, Unchanged[Prior][b.page])
    BY <2>1 DEF ReanchorRoot
  <2>3. Resolved(ReanchorRoot(released, b), released, b.page)
    BY <2>1, <2>2, ReanchorResolves, BuildAssumption
  <2> QED BY <2>1, <2>3 DEF Resolved, SameThread
<1>2. CASE IsCode(root)
  <2>1. IsCode(released) /\ released.kind = "code" /\ ~IsProse(root)
    BY <1>2, ReleasedIsWhole DEF IsProse, IsCode
  <2>2. ReanchorRoot(released, b) = ReanchorCode(released, b)
    BY <2>1 DEF ReanchorRoot
  <2>3. OnItsLine(ReanchorRoot(released, b), released, b)
    BY <2>1, <2>2, ReanchorCodeFinds
  <2> QED BY <2>1, <2>3 DEF OnItsLine
<1> QED BY <1>1, <1>2

(* Of the sections there were, a registration takes only those of the       *)
(* version it rewrites, and those it gives that version are there.          *)
LEMMA SectionsAfterRegistration ==
    ASSUME versions \in Seq(Build), NEW b \in Build, versions' = Upsert(b),
           NEW section \in SectionRows, section[1] = b.hash => section \in Sections(b)
    PROVE  section \in SectionRows'
<1>1. PICK n \in DOMAIN versions : section \in Sections(versions[n])
  BY DEF SectionRows
<1>2. section[1] = versions[n].hash
  BY <1>1 DEF Sections
<1>3. n \in DOMAIN versions' /\ versions'[n] = IF versions[n].hash = b.hash THEN b ELSE versions[n]
  BY DEF Upsert, Hashes
<1>4. section \in Sections(versions'[n])
  BY <1>1, <1>2, <1>3
<1> QED BY <1>3, <1>4 DEF SectionRows, Sections

LEMMA RegistrationKeepsInv ==
    ASSUME IInv, NEW b \in Build, RegisterVersion(b)
    PROVE  IInv'
<1>1. versions' \in Seq(Build)
  BY DEF IInv, RegisterVersion, Upsert
<1>2. calls' \in Nat
  BY DEF IInv, RegisterVersion
<1>3. /\ DOMAIN roots' = DOMAIN roots /\ DOMAIN placedOn' = DOMAIN roots
      /\ \A id \in DOMAIN roots : roots'[id] = ReanchorRoot(ReleaseSection(roots[id], b), b)
  BY DEF RegisterVersion
<1>4. Whole'
  BY <1>3, RootAfterRegistration DEF IInv, Whole, RegisterVersion
<1>5. ASSUME NEW id \in DOMAIN roots PROVE roots'[id].section \in SectionRows' \cup {NoVersion}
  <2>1. roots'[id].section = ReleaseSection(roots[id], b).section
    BY <1>3, RootAfterRegistration DEF IInv, Whole
  <2>2. CASE ReleaseSection(roots[id], b) # roots[id]
    BY <2>1, <2>2 DEF ReleaseSection, IInv, Whole, IsProse, IsCode, HasFields, ProseFields, CodeFields
  <2>3. CASE ReleaseSection(roots[id], b) = roots[id] /\ roots[id].section # NoVersion
    <3>1. roots[id].section \in SectionRows
      BY <2>3 DEF IInv, Anchored
    <3>2. roots[id].section[1] = b.hash => roots[id].section \in Sections(b)
      BY <2>3 DEF ReleaseSection, IInv, Whole, IsProse, IsCode, HasFields, ProseFields, CodeFields
    <3> QED BY <2>1, <2>3, <3>1, <3>2, SectionsAfterRegistration DEF IInv, RegisterVersion
  <2>4. CASE roots[id].section = NoVersion
    BY <2>1, <2>4 DEF ReleaseSection
  <2> QED BY <2>2, <2>3, <2>4
<1>6. Anchored'
  BY <1>3, <1>5 DEF Anchored
<1> QED BY <1>1, <1>2, <1>4, <1>6 DEF IInv

LEMMA NewRootIsWhole ==
    ASSUME NEW d, NEW section
    PROVE  /\ IsProse(NewRoot(d, section)) \/ IsCode(NewRoot(d, section))
           /\ NewRoot(d, section).section \in section \cup {NoVersion}
<1>1. CASE d.kind = "code"
  BY <1>1 DEF NewRoot, SectionId, IsCode, HasFields, CodeFields, Settled, AnchorState, SuggestionState
<1>2. CASE d.kind # "code"
  BY <1>2 DEF NewRoot, SectionId, IsProse, HasFields, ProseFields, Settled, AnchorState, SuggestionState
<1> QED BY <1>1, <1>2

LEMMA CommentKeepsInv ==
    ASSUME IInv, NEW id \in RootId,
           (\E d \in Draft : ReadLatest(id, d)) \/ InsertRoot(id)
    PROVE  IInv'
<1>1. CASE \E d \in Draft : ReadLatest(id, d)
  <2>1. UNCHANGED <<versions, roots, calls, placedOn>> /\ DOMAIN creating' = DOMAIN creating \cup {id}
    BY <1>1 DEF ReadLatest, Including
  <2> QED BY <2>1 DEF IInv, Whole, Anchored, SectionRows, Sections
<1>2. CASE InsertRoot(id)
  <2>1. UNCHANGED <<versions, calls>> /\ DOMAIN creating' = DOMAIN creating \ {id}
    BY <1>2 DEF InsertRoot
  <2>2. CASE UNCHANGED <<roots, placedOn>>
    BY <2>1, <2>2 DEF IInv, Whole, Anchored, SectionRows, Sections
  <2>3. CASE /\ creating[id].section \subseteq SectionRows
             /\ roots' = Including(roots, id, NewRoot(creating[id].draft, creating[id].section))
             /\ placedOn' = Including(placedOn, id, creating[id].draft.on)
    <3> DEFINE row == NewRoot(creating[id].draft, creating[id].section)
    <3>1. (IsProse(row) \/ IsCode(row)) /\ row.section \in SectionRows \cup {NoVersion}
      BY <2>3, NewRootIsWhole
    <3>2. /\ DOMAIN roots' = DOMAIN roots \cup {id} /\ DOMAIN placedOn' = DOMAIN placedOn \cup {id}
          /\ \A k \in DOMAIN roots' : roots'[k] = row \/ (k \in DOMAIN roots /\ roots'[k] = roots[k])
      BY <2>3 DEF Including
    <3> HIDE DEF row
    <3>3. Whole'
      BY <2>1, <3>1, <3>2 DEF IInv, Whole
    <3>4. Anchored'
      BY <2>1, <3>1, <3>2 DEF IInv, Anchored, SectionRows, Sections
    <3> QED BY <2>1, <3>3, <3>4 DEF IInv
  <2> QED BY <1>2, <2>2, <2>3 DEF InsertRoot
<1> QED BY <1>1, <1>2

LEMMA SuggestionKeepsInv ==
    ASSUME IInv, NEW id \in RootId, NEW state \in {"open", "applied", "dismissed"},
           SetSuggestionState(id, state)
    PROVE  IInv'
<1>1. /\ id \in DOMAIN roots /\ DOMAIN roots' = DOMAIN roots /\ DOMAIN placedOn' = DOMAIN placedOn
      /\ roots'[id] = [roots[id] EXCEPT !.suggestion = state]
      /\ \A k \in DOMAIN roots \ {id} : roots'[k] = roots[k]
  BY DEF SetSuggestionState
<1>2. (IsProse(roots[id]) => IsProse(roots'[id])) /\ (IsCode(roots[id]) => IsCode(roots'[id]))
  BY <1>1 DEF IsProse, IsCode, HasFields, ProseFields, CodeFields, Settled, SuggestionState
<1>3. roots'[id].section = roots[id].section
  BY <1>1 DEF IInv, Whole, IsProse, IsCode, HasFields, ProseFields, CodeFields
<1>4. Whole'
  BY <1>1, <1>2 DEF IInv, Whole, SetSuggestionState
<1>5. Anchored'
  BY <1>1, <1>3 DEF IInv, Anchored, SetSuggestionState, SectionRows, Sections
<1> QED BY <1>4, <1>5 DEF IInv, SetSuggestionState

LEMMA StepKeepsInv == IInv /\ [Next]_vars => IInv'
<1> SUFFICES ASSUME IInv, [Next]_vars PROVE IInv'
  OBVIOUS
<1>1. CASE UNCHANGED vars
  BY <1>1 DEF vars, IInv, Whole, Anchored, SectionRows, Sections
<1>2. CASE \E b \in Build : RegisterVersion(b)
  BY <1>2, RegistrationKeepsInv
<1>3. CASE \E id \in RootId, d \in Draft : ReadLatest(id, d)
  BY <1>3, CommentKeepsInv
<1>4. CASE \E id \in RootId : InsertRoot(id)
  BY <1>4, CommentKeepsInv
<1>5. CASE \E id \in RootId, state \in {"open", "applied", "dismissed"} : SetSuggestionState(id, state)
  BY <1>5, SuggestionKeepsInv
<1> QED BY <1>1, <1>2, <1>3, <1>4, <1>5 DEF Next

LEMMA InvHolds == Spec => []IInv
BY InvHoldsAtFirst, StepKeepsInv, PTL DEF Spec

(* No comment points at a section that is gone, whatever a registration     *)
(* takes from the version it rewrites and whenever the comment was begun.   *)
THEOREM TypeCorrect == Spec => []TypeOK
<1>1. IInv => TypeOK
  <2> SUFFICES ASSUME IInv PROVE TypeOK
    OBVIOUS
  <2>1. \A n \in DOMAIN versions : versions[n] \in Build
    BY DEF IInv
  <2>2. \A id \in DOMAIN roots : roots[id].kind \in {"prose", "code"} /\ Settled(roots[id])
    BY DEF IInv, Whole, IsProse, IsCode
  <2> QED BY <2>1, <2>2 DEF TypeOK, IInv, Whole, Anchored, Settled
<1> QED BY <1>1, InvHolds, PTL

(***************************************************************************)
(* Where a registration leaves the threads                                 *)
(***************************************************************************)

(* Only registerVersion counts a registration. *)
LEMMA RegistersIsRegistration ==
    ASSUME IInv, [Next]_vars, NEW b \in Build, Registers(b)
    PROVE  RegisterVersion(b)
<1>1. calls' # calls
  BY DEF IInv, Registers
<1>2. PICK c \in Build : RegisterVersion(c)
  BY <1>1 DEF Next, vars, ReadLatest, InsertRoot, SetSuggestionState
<1>3. c = b
  BY <1>2 DEF Registers, RegisterVersion
<1> QED BY <1>2, <1>3

LEMMA ThreadsAfterRegistration ==
    ASSUME IInv, [Next]_vars, NEW b \in Build, Registers(b), NEW id \in DOMAIN roots
    PROVE  /\ IsProse(roots[id]) \/ IsCode(roots[id])
           /\ roots'[id] = ReanchorRoot(ReleaseSection(roots[id], b), b)
BY RegistersIsRegistration DEF RegisterVersion, IInv, Whole

(* Every thread on prose is on a section of the page as registered, or is   *)
(* an orphan for want of one.                                               *)
THEOREM ThreadsResolve == Spec => AnchorsResolve
<1>1. ASSUME IInv, [Next]_vars, NEW b \in Build, Registers(b), NEW id \in DOMAIN roots,
             roots[id].kind = "prose"
      PROVE  roots'[id].orphaned <=> SectionAt(b.page, roots'[id].slug) = {}
  <2>1. IsProse(roots[id])
    BY <1>1, ThreadsAfterRegistration DEF IsCode
  <2> QED BY <1>1, <2>1, ThreadsAfterRegistration, RootAfterRegistration DEF Resolved
<1>2. IInv /\ [Next]_vars =>
        [\A b \in Build : Registers(b) =>
            \A id \in DOMAIN roots : roots[id].kind = "prose" =>
                (roots'[id].orphaned <=> SectionAt(b.page, roots'[id].slug) = {})]_vars
  BY <1>1
<1> QED BY <1>2, InvHolds, PTL DEF Spec, AnchorsResolve

(* A thread on code whose region is gone is on a line like its own, or an    *)
(* orphan.                                                                  *)
THEOREM CodeThreadsFollowTheirLine == Spec => CodeThreadsOnTheirLine
<1>1. ASSUME IInv, [Next]_vars, NEW b \in Build, Registers(b), NEW id \in DOMAIN roots,
             roots[id].kind = "code", roots[id].region \notin b.regions, ~roots'[id].orphaned
      PROVE  b.lines[roots'[id].line] = roots[id].hash
  <2>1. IsCode(roots[id])
    BY <1>1, ThreadsAfterRegistration DEF IsProse
  <2>2. /\ ReleaseSection(roots[id], b).region = roots[id].region
        /\ ReleaseSection(roots[id], b).hash = roots[id].hash
    BY <2>1, ReleasedIsWhole
  <2> QED BY <1>1, <2>1, <2>2, ThreadsAfterRegistration, RootAfterRegistration DEF OnItsLine
<1>2. IInv /\ [Next]_vars =>
        [\A b \in Build : Registers(b) =>
            \A id \in DOMAIN roots :
                roots[id].kind = "code" /\ roots[id].region \notin b.regions /\ ~roots'[id].orphaned =>
                    b.lines[roots'[id].line] = roots[id].hash]_vars
  BY <1>1
<1> QED BY <1>2, InvHolds, PTL DEF Spec, CodeThreadsOnTheirLine

(* A suggestion that was applied stays under its heading, and none is        *)
(* reopened or dismissed by a registration.                                  *)
THEOREM AppliedSuggestionsStay == Spec => AppliedStaysHome
<1>1. ASSUME IInv, [Next]_vars, NEW b \in Build, Registers(b), NEW id \in DOMAIN roots
      PROVE  /\ roots'[id].suggestion = roots[id].suggestion
                   \/ (roots[id].suggestion = "open" /\ roots'[id].suggestion = "applied")
             /\ roots[id].suggestion = "applied" /\ roots[id].kind = "prose"
                   /\ SectionAt(b.page, roots[id].slug) # {}
                => roots'[id].slug = roots[id].slug
  <2> DEFINE released == ReleaseSection(roots[id], b)
  <2>1. /\ roots'[id] = ReanchorRoot(released, b)
        /\ released.suggestion = roots[id].suggestion /\ released.kind = roots[id].kind
    BY <1>1, ThreadsAfterRegistration, ReleasedIsWhole
  <2>2. CASE IsProse(roots[id])
    <3>1. released.slug = roots[id].slug
      BY <2>2, ReleasedIsWhole
    <3>2. Resolved(roots'[id], released, b.page)
      BY <1>1, <2>1, <2>2, RootAfterRegistration
    <3> HIDE DEF released
    <3> QED BY <2>1, <3>1, <3>2 DEF Resolved
  <2>3. CASE IsCode(roots[id])
    <3>1. OnItsLine(roots'[id], released, b)
      BY <1>1, <2>1, <2>3, RootAfterRegistration
    <3> HIDE DEF released
    <3> QED BY <2>1, <2>3, <3>1 DEF OnItsLine, IsCode
  <2> QED BY <1>1, <2>2, <2>3, ThreadsAfterRegistration
<1>2. IInv /\ [Next]_vars =>
        [\A b \in Build : Registers(b) =>
            \A id \in DOMAIN roots :
                /\ roots'[id].suggestion = roots[id].suggestion
                      \/ (roots[id].suggestion = "open" /\ roots'[id].suggestion = "applied")
                /\ roots[id].suggestion = "applied" /\ roots[id].kind = "prose"
                      /\ SectionAt(b.page, roots[id].slug) # {}
                   => roots'[id].slug = roots[id].slug]_vars
  BY <1>1
<1> QED BY <1>2, InvHolds, PTL DEF Spec, AppliedStaysHome

(***************************************************************************)
(* The fast path loses nothing                                             *)
(***************************************************************************)

(* Where threads were placed, and what they were found by there. *)
Placed(id) == roots[id].kind = "prose" /\ ~roots[id].orphaned /\ placedOn[id] # NoPage

AllFound ==
    \A id \in DOMAIN roots : Placed(id) =>
        /\ placedOn[id] \in Build
        /\ roots[id].state # "orphaned"
        /\ FoundOn(roots[id], placedOn[id].page)

HInv == AllFound /\ \A id \in DOMAIN creating : creating[id].draft \in Draft

(* Threads that differ only in the section they point at are found alike. *)
LEMMA FoundWhatever ==
    ASSUME NEW page, NEW old, NEW new, FoundOn(old, page), new.slug = old.slug,
           new.state = old.state, new.authored = old.authored, new.quote = old.quote,
           new.suggestion = old.suggestion
    PROVE  FoundOn(new, page)
BY DEF FoundOn, PlacedAt, Quoted

LEMMA ReleasedIsSame ==
    ASSUME NEW root, IsProse(root), NEW b
    PROVE  LET new == ReleaseSection(root, b)
           IN  /\ IsProse(new) /\ new.slug = root.slug /\ new.state = root.state
               /\ new.authored = root.authored /\ new.quote = root.quote
               /\ new.suggestion = root.suggestion /\ new.orphaned = root.orphaned
               /\ new.kind = root.kind
               /\ new = root \/ new = [root EXCEPT !.section = NoVersion]
BY DEF ReleaseSection, IsProse, HasFields, ProseFields, Settled

(* Anchors the registration takes to be unchanged are on the version before *)
(* and on the one it registers, with the same text.                          *)
LEMMA UnchangedSincePrior ==
    ASSUME IInv, NEW b \in Build, NEW slug \in Unchanged[Prior][b.page]
    PROVE  /\ IsPage(Prior) /\ slug # Top
           /\ \E i \in DOMAIN Prior, j \in DOMAIN b.page :
                 /\ slug = AnchorSlug(Prior, i) /\ slug = AnchorSlug(b.page, j)
                 /\ BodyText(Prior, i) = BodyText(b.page, j)
<1>1. Prior = NoPage \/ \E c \in Build : Prior = c.page
  <2> SUFFICES ASSUME versions # <<>> PROVE \E c \in Build : Prior = c.page
    BY DEF Prior
  <2>1. Len(versions) \in DOMAIN versions
    BY DEF IInv
  <2>2. versions[Len(versions)] \in Build
    BY <2>1 DEF IInv
  <2> QED BY <2>2 DEF Prior
<1>2. b.page \in Page /\ Prior \in Page \cup {NoPage}
  BY <1>1 DEF Page
<1>3. Unchanged[Prior][b.page] = UnchangedSlugs(Prior, b.page)
  BY <1>2 DEF Unchanged
<1>4. Prior # NoPage
  BY <1>3 DEF UnchangedSlugs
<1>5. IsPage(Prior) /\ IsPage(b.page)
  BY <1>1, <1>4, BuildAssumption
<1>6. PICK i \in DOMAIN Prior, j \in DOMAIN b.page :
         /\ slug = AnchorSlug(Prior, i) /\ slug = AnchorSlug(b.page, j)
         /\ BodyText(Prior, i) = BodyText(b.page, j)
  <2>1. slug \in UnchangedSlugs(Prior, b.page)
    BY <1>3
  <2> QED BY <1>4, <1>5, <2>1, UnchangedIsOnBoth
<1>7. slug # Top
  BY <1>6, BuildAssumption DEF AnchorSlugs
<1> QED BY <1>5, <1>6, <1>7

(* A registration either keeps a thread or searches the page for it, and    *)
(* searches whenever the anchor changed or the thread is an orphan.          *)
LEMMA KeptOrSearched ==
    ASSUME IInv, NEW b \in Build, NEW root, IsProse(root)
    PROVE  LET new == ReanchorRoot(root, b)
               unchanged == root.slug \in Unchanged[Prior][b.page]
           IN  new = IF unchanged /\ ~root.orphaned THEN root ELSE Scan(root, b.page)
<1>1. root.slug \in Unchanged[Prior][b.page] => root.slug \in AnchorSlugs(b.page)
  BY UnchangedSincePrior DEF AnchorSlugs
<1>2. root.kind # "code"
  BY DEF IsProse
<1> QED BY <1>1, <1>2 DEF ReanchorRoot, Reanchor

LEMMA RegistrationFinds ==
    ASSUME IInv, HInv, NEW b \in Build, RegisterVersion(b)
    PROVE  HInv'
<1>1. ASSUME NEW id \in DOMAIN roots, Placed(id)'
      PROVE  /\ placedOn'[id] \in Build
             /\ roots'[id].state # "orphaned"
             /\ FoundOn(roots'[id], placedOn'[id].page)
  <2> DEFINE old == roots[id]
             released == ReleaseSection(old, b)
             new == roots'[id]
             unchanged == old.slug \in Unchanged[Prior][b.page]
  <2>1. new = ReanchorRoot(released, b) /\ placedOn'[id] = PlacedBy(id, b)
    BY DEF RegisterVersion
  <2>2. IsProse(old)
    <3>1. new.kind = "prose" /\ (IsProse(old) \/ IsCode(old))
      BY <1>1 DEF Placed, IInv, Whole
    <3>2. IsCode(old) => new.kind = "code"
      BY <2>1, RootAfterRegistration DEF IsCode
    <3> QED BY <3>1, <3>2
  <2>3. /\ IsProse(released) /\ released.slug = old.slug /\ released.state = old.state
        /\ released.authored = old.authored /\ released.quote = old.quote
        /\ released.suggestion = old.suggestion /\ released.orphaned = old.orphaned
    BY <2>2, ReleasedIsSame
  <2> HIDE DEF released
  <2>4. new = IF unchanged /\ ~old.orphaned THEN released ELSE Scan(released, b.page)
    BY <2>1, <2>3, KeptOrSearched
  <2>5. CASE ~unchanged \/ old.orphaned
    <3>1. new = Scan(released, b.page) /\ placedOn'[id] = b
      BY <2>1, <2>4, <2>5 DEF PlacedBy
    <3>2. IsPage(b.page) /\ ~Scan(released, b.page).orphaned
      BY <1>1, <3>1, BuildAssumption DEF Placed
    <3> QED BY <2>3, <3>1, <3>2, ScanFinds
  <2>6. CASE unchanged /\ ~old.orphaned
    <3>1. new = released /\ old.kind = "prose"
      BY <2>2, <2>4, <2>6 DEF IsProse
    <3>2. CASE placedOn[id] = NoPage \/ placedOn[id].page # Prior
      <4>1. placedOn'[id] = placedOn[id]
        BY <2>1, <2>6, <3>1, <3>2 DEF PlacedBy
      <4>2. Placed(id)
        BY <1>1, <2>6, <3>1, <4>1 DEF Placed
      <4>3. placedOn[id] \in Build /\ old.state # "orphaned" /\ FoundOn(old, placedOn[id].page)
        BY <4>2 DEF HInv, AllFound
      <4>4. FoundOn(released, placedOn[id].page)
        BY <2>3, <4>3, FoundWhatever
      <4> QED BY <2>3, <3>1, <4>1, <4>3, <4>4
    <3>3. CASE placedOn[id] # NoPage /\ placedOn[id].page = Prior
      <4>1. placedOn'[id] = b
        BY <2>1, <3>3 DEF PlacedBy
      <4>2. Placed(id)
        BY <2>6, <3>1, <3>3 DEF Placed
      <4>3. old.state # "orphaned" /\ FoundOn(released, Prior)
        <5>1. old.state # "orphaned" /\ FoundOn(old, Prior)
          BY <3>3, <4>2 DEF HInv, AllFound
        <5> QED BY <2>3, <5>1, FoundWhatever
      <4>4. /\ IsPage(Prior) /\ IsPage(b.page) /\ old.slug # Top
            /\ \E i \in DOMAIN Prior, j \in DOMAIN b.page :
                 /\ old.slug = AnchorSlug(Prior, i) /\ old.slug = AnchorSlug(b.page, j)
                 /\ BodyText(Prior, i) = BodyText(b.page, j)
        BY <2>6, UnchangedSincePrior, BuildAssumption
      <4>5. FoundOn(released, b.page)
        <5>1. PICK i \in DOMAIN Prior, j \in DOMAIN b.page :
                 /\ old.slug = AnchorSlug(Prior, i) /\ old.slug = AnchorSlug(b.page, j)
                 /\ BodyText(Prior, i) = BodyText(b.page, j)
          BY <4>4
        <5>2. /\ released.slug # Top
              /\ released.slug = AnchorSlug(Prior, i) /\ released.slug = AnchorSlug(b.page, j)
          BY <2>3, <4>4, <5>1
        <5>3. /\ IsProse(released) /\ FoundOn(released, Prior) /\ IsPage(Prior) /\ IsPage(b.page)
              /\ BodyText(Prior, i) = BodyText(b.page, j)
          BY <2>3, <4>3, <4>4, <5>1
        <5> QED BY <5>2, <5>3, FoundOnBoth
      <4> QED BY <2>3, <3>1, <4>1, <4>3, <4>5
    <3> QED BY <3>2, <3>3
  <2> QED BY <2>5, <2>6
<1>2. DOMAIN roots' = DOMAIN roots /\ creating' = creating
  BY DEF RegisterVersion
<1>3. AllFound'
  BY <1>1, <1>2 DEF AllFound
<1> QED BY <1>2, <1>3 DEF HInv

(* A thread starts on something its author sees. *)
LEMMA NewRootIsFound ==
    ASSUME NEW d \in Draft, NEW section, NewRoot(d, section).kind = "prose"
    PROVE  FoundOn(NewRoot(d, section), d.on.page) /\ NewRoot(d, section).state # "orphaned"
<1> DEFINE new == NewRoot(d, section)
<1>1. d.kind # "code" /\ d.on \in Build /\ ProseDraft(d)
  BY DraftAssumption DEF NewRoot, CodeDraft
<1>2. new.state = "exact" /\ new.slug = d.anchor /\ new.authored = d.anchor /\ new.quote = d.quote
  BY <1>1 DEF NewRoot
<1>3. PICK i \in SectionAt(d.on.page, d.slug) :
         \/ d.quote = NoQuote
         \/ LocateQuote(BodyText(d.on.page, i), d.quote) \in {"framed", "exact"}
  BY <1>1 DEF ProseDraft
<1>4. i \in DOMAIN d.on.page /\ AnchorSlug(d.on.page, i) = d.slug /\ IsPage(d.on.page)
  BY <1>1, <1>3, BuildAssumption DEF SectionAt
<1>5. SectionAt(d.on.page, d.slug) = {i} /\ First(SectionAt(d.on.page, d.slug)) = i
  BY <1>4, OnlySectionAt
<1>6. PlacedAt(new, new.slug) = "exact"
  BY <1>2 DEF PlacedAt, SameAnchor
<1> HIDE DEF new
<1>7. CASE d.anchor = d.slug
  <2>1. Quoted(new, d.on.page) = LocateQuote(BodyText(d.on.page, i), d.quote)
    BY <1>2, <1>5, <1>7 DEF Quoted
  <2> QED BY <1>2, <1>3, <1>5, <1>6, <1>7, <2>1 DEF FoundOn, new
<1>8. CASE d.anchor = Top
  BY <1>2, <1>8 DEF FoundOn, new
<1> QED BY <1>1, <1>7, <1>8 DEF ProseDraft

LEMMA InsertFinds ==
    ASSUME IInv, HInv, NEW id \in RootId, InsertRoot(id)
    PROVE  HInv'
<1> DEFINE call == creating[id]
           row == NewRoot(call.draft, call.section)
<1>1. /\ id \in DOMAIN creating /\ call.draft \in Draft
      /\ \A k \in DOMAIN creating' : creating'[k].draft \in Draft
  BY DEF InsertRoot, HInv
<1>2. CASE UNCHANGED <<roots, placedOn>>
  BY <1>1, <1>2 DEF HInv, AllFound, Placed
<1>3. CASE roots' = Including(roots, id, row) /\ placedOn' = Including(placedOn, id, call.draft.on)
  <2>1. ASSUME NEW k \in DOMAIN roots', Placed(k)'
        PROVE  /\ placedOn'[k] \in Build
               /\ roots'[k].state # "orphaned"
               /\ FoundOn(roots'[k], placedOn'[k].page)
    <3>1. CASE k = id
      <4>1. roots'[k] = row /\ placedOn'[k] = call.draft.on
        BY <1>3, <3>1 DEF Including
      <4>2. row.kind = "prose" /\ call.draft.on \in Build
        BY <1>1, <2>1, <4>1, DraftAssumption DEF Placed
      <4> QED BY <1>1, <4>1, <4>2, NewRootIsFound
    <3>2. CASE k # id
      <4>1. k \in DOMAIN roots /\ roots'[k] = roots[k] /\ placedOn'[k] = placedOn[k]
        BY <1>3, <3>2 DEF Including, IInv, Whole
      <4> QED BY <2>1, <4>1 DEF HInv, AllFound, Placed
    <3> QED BY <3>1, <3>2
  <2>2. AllFound'
    BY <2>1 DEF AllFound
  <2> QED BY <1>1, <2>2 DEF HInv
<1> QED BY <1>2, <1>3 DEF InsertRoot

LEMMA StepFinds == IInv /\ HInv /\ [Next]_vars => HInv'
<1> SUFFICES ASSUME IInv, HInv, [Next]_vars PROVE HInv'
  OBVIOUS
<1>1. CASE UNCHANGED vars
  BY <1>1 DEF vars, HInv, AllFound, Placed
<1>2. CASE \E b \in Build : RegisterVersion(b)
  BY <1>2, RegistrationFinds
<1>3. CASE \E id \in RootId, d \in Draft : ReadLatest(id, d)
  <2>1. PICK id \in RootId, d \in Draft : ReadLatest(id, d)
    BY <1>3
  <2>2. UNCHANGED <<roots, placedOn>> /\ \A k \in DOMAIN creating' : creating'[k].draft \in Draft
    BY <2>1 DEF ReadLatest, Including, HInv
  <2> QED BY <2>2 DEF HInv, AllFound, Placed
<1>4. CASE \E id \in RootId : InsertRoot(id)
  BY <1>4, InsertFinds
<1>5. CASE \E id \in RootId, state \in {"open", "applied", "dismissed"} : SetSuggestionState(id, state)
  <2>1. PICK id \in RootId, state \in {"open", "applied", "dismissed"} : SetSuggestionState(id, state)
    BY <1>5
  <2>2. /\ DOMAIN roots' = DOMAIN roots /\ placedOn'[id] = NoPage /\ creating' = creating
        /\ \A k \in DOMAIN roots \ {id} : roots'[k] = roots[k] /\ placedOn'[k] = placedOn[k]
    BY <2>1 DEF SetSuggestionState, IInv, Whole
  <2> QED BY <2>2 DEF HInv, AllFound, Placed
<1> QED BY <1>1, <1>2, <1>3, <1>4, <1>5 DEF Next

LEMMA HInvHolds == Spec => []HInv
<1>1. Init => HInv
  BY DEF Init, HInv, AllFound
<1> QED BY <1>1, StepFinds, InvHolds, PTL DEF Spec

(* What the search would have found for a thread that was placed on the     *)
(* version before is what the fast path keeps.                               *)
THEOREM FastPathKeepsWhatSearchFinds == Spec => FastPathLosesNothing
<1>1. ASSUME IInv, HInv, [Next]_vars, NEW b \in Build, Registers(b), NEW id \in DOMAIN roots,
             roots[id].kind = "prose", roots[id].state # "section",
             ~(roots[id].state = "rewritten" /\ roots[id].suggestion = "open"),
             placedOn[id] # NoPage, placedOn[id].page = Prior
      PROVE  LET full == Scan(roots[id], b.page)
             IN  /\ roots'[id].slug = full.slug
                 /\ roots'[id].state = full.state
                 /\ roots'[id].orphaned = full.orphaned
  <2> DEFINE old == roots[id]
             released == ReleaseSection(old, b)
             unchanged == old.slug \in Unchanged[Prior][b.page]
             full == Scan(old, b.page)
  <2>1. IsProse(old) /\ roots'[id] = ReanchorRoot(released, b)
    BY <1>1, ThreadsAfterRegistration DEF IsCode
  <2>2. /\ IsProse(released) /\ released.slug = old.slug /\ released.state = old.state
        /\ released.orphaned = old.orphaned
        /\ released = old \/ released = [old EXCEPT !.section = NoVersion]
    BY <2>1, ReleasedIsSame
  <2>3. roots'[id] = IF unchanged /\ ~old.orphaned THEN released ELSE Scan(released, b.page)
    BY <1>1, <2>1, <2>2, KeptOrSearched
  <2> HIDE DEF released
  <2>4. CASE ~(unchanged /\ ~old.orphaned)
    <3>1. roots'[id] = Scan(released, b.page)
      BY <2>3, <2>4
    <3> QED BY <2>1, <2>2, <3>1, ScanForgetsSection
  <2>5. CASE unchanged /\ ~old.orphaned
    <3>1. roots'[id] = released
      BY <2>3, <2>5
    <3>2. Placed(id)
      BY <1>1, <2>5 DEF Placed
    <3>3. old.state # "orphaned" /\ FoundOn(old, Prior)
      BY <1>1, <3>2 DEF HInv, AllFound
    <3>4. /\ IsPage(Prior) /\ IsPage(b.page) /\ old.slug # Top
          /\ \E i \in DOMAIN Prior, j \in DOMAIN b.page :
               /\ old.slug = AnchorSlug(Prior, i) /\ old.slug = AnchorSlug(b.page, j)
               /\ BodyText(Prior, i) = BodyText(b.page, j)
      BY <1>1, <2>5, UnchangedSincePrior, BuildAssumption
    <3>5. old.state \in {"exact", "moved", "rewritten"}
      BY <1>1, <2>1, <3>3 DEF IsProse, Settled, AnchorState
    <3>6. full.slug = old.slug /\ full.state = old.state /\ ~full.orphaned
      <4>1. PICK i \in DOMAIN Prior, j \in DOMAIN b.page :
               /\ old.slug = AnchorSlug(Prior, i) /\ old.slug = AnchorSlug(b.page, j)
               /\ BodyText(Prior, i) = BodyText(b.page, j)
        BY <3>4
      <4>2. ~(old.state = "rewritten" /\ old.suggestion = "open")
        BY <1>1
      <4> HIDE DEF old
      <4> QED BY <2>1, <3>3, <3>4, <3>5, <4>1, <4>2, ScanKeepsWhatIsFound
    <3>7. full.orphaned \in BOOLEAN /\ old.orphaned \in BOOLEAN
      BY <2>1, <3>4, ScanResolves DEF Resolved, IsProse, Settled
    <3> QED BY <2>2, <2>5, <3>1, <3>6, <3>7
  <2> QED BY <2>4, <2>5
<1>2. IInv /\ HInv /\ [Next]_vars =>
        [\A b \in Build : Registers(b) =>
            \A id \in DOMAIN roots :
                /\ roots[id].kind = "prose" /\ roots[id].state # "section"
                /\ ~(roots[id].state = "rewritten" /\ roots[id].suggestion = "open")
                /\ placedOn[id] # NoPage /\ placedOn[id].page = Prior
                => LET full == Scan(roots[id], b.page)
                   IN  /\ roots'[id].slug = full.slug
                       /\ roots'[id].state = full.state
                       /\ roots'[id].orphaned = full.orphaned]_vars
  BY <1>1
<1> QED BY <1>2, InvHolds, HInvHolds, PTL DEF Spec, FastPathLosesNothing

(***************************************************************************)
(* The review diff explains every change                                   *)
(***************************************************************************)

(* Of two pages that are registered one after the other. *)
LEMMA DiffSincePrior ==
    ASSUME IInv, NEW b \in Build, Prior # NoPage
    PROVE  /\ IsPage(Prior) /\ IsPage(b.page)
           /\ Diff[Prior][b.page] = ReviewDiff(Prior, b.page)
<1>1. \E c \in Build : Prior = c.page
  <2>1. versions # <<>> /\ Prior = versions[Len(versions)].page
    BY DEF Prior
  <2>2. Len(versions) \in DOMAIN versions
    BY <2>1 DEF IInv
  <2>3. versions[Len(versions)] \in Build
    BY <2>2 DEF IInv
  <2> QED BY <2>1, <2>3
<1>2. Prior \in Page /\ b.page \in Page
  BY <1>1 DEF Page
<1>3. IsPage(Prior) /\ IsPage(b.page)
  BY <1>1, BuildAssumption
<1> HIDE DEF Prior
<1> QED BY <1>2, <1>3 DEF Diff

(* Whatever differs between a version and the one before it is in the        *)
(* review diff, itself or as part of a subtree that came or went.            *)
THEOREM DiffExplainsChanges == Spec => ChangesAreExplained
<1>1. ASSUME IInv, NEW b \in Build, Prior # NoPage, NothingCollides(Prior), NothingCollides(b.page)
      PROVE  LET diff == Diff[Prior][b.page]
                 Same(i, j) == /\ DepthPath(Prior, i) = DepthPath(b.page, j)
                               /\ Own(Prior, i) = Own(b.page, j)
             IN  /\ \A j \in DOMAIN b.page :
                        Explained(diff, b.page, j, Prior) \/ \E i \in DOMAIN Prior : Same(i, j)
                 /\ \A i \in DOMAIN Prior :
                        Explained(diff, Prior, i, b.page) \/ \E j \in DOMAIN b.page : Same(i, j)
                 /\ Prior = b.page => diff = {}
  <2> DEFINE diff == ReviewDiff(Prior, b.page)
             Same(i, j) == /\ DepthPath(Prior, i) = DepthPath(b.page, j)
                           /\ Own(Prior, i) = Own(b.page, j)
  <2>1. IsPage(Prior) /\ IsPage(b.page) /\ Diff[Prior][b.page] = diff
    BY <1>1, DiffSincePrior
  <2>2. ASSUME NEW i \in DOMAIN Prior, NEW j \in DOMAIN b.page,
               DepthPath(Prior, i) = DepthPath(b.page, j), Own(Prior, i) # Own(b.page, j)
        PROVE  Explained(diff, Prior, i, b.page) /\ Explained(diff, b.page, j, Prior)
    <3>1. \E e \in diff : e[1].path = DepthPath(b.page, j)
      BY <1>1, <2>1, <2>2, DifferenceIsShown
    <3> HIDE DEF diff
    <3> QED BY <2>2, <3>1 DEF Explained
  <2>3. ASSUME NEW j \in DOMAIN b.page
        PROVE  Explained(diff, b.page, j, Prior) \/ \E i \in DOMAIN Prior : Same(i, j)
    <3>1. CASE \E i \in DOMAIN Prior : DepthPath(Prior, i) = DepthPath(b.page, j)
      BY <2>2, <3>1
    <3>2. CASE \A i \in DOMAIN Prior : DepthPath(Prior, i) # DepthPath(b.page, j)
      BY <1>1, <2>1, <3>2, CameOrWentIsShown
    <3> QED BY <3>1, <3>2
  <2>4. ASSUME NEW i \in DOMAIN Prior
        PROVE  Explained(diff, Prior, i, b.page) \/ \E j \in DOMAIN b.page : Same(i, j)
    <3>1. CASE \E j \in DOMAIN b.page : DepthPath(b.page, j) = DepthPath(Prior, i)
      BY <2>2, <3>1
    <3>2. CASE \A j \in DOMAIN b.page : DepthPath(b.page, j) # DepthPath(Prior, i)
      BY <1>1, <2>1, <3>2, CameOrWentIsShown
    <3> QED BY <3>1, <3>2
  <2>5. Prior = b.page => diff = {}
    BY <1>1, SameIsPruned
  <2> HIDE DEF diff
  <2> QED BY <2>1, <2>3, <2>4, <2>5
<1>2. IInv /\ [Next]_vars =>
        [\A b \in Build : Registers(b) /\ Prior # NoPage /\ NothingCollides(Prior)
                              /\ NothingCollides(b.page) =>
            LET diff == Diff[Prior][b.page]
                Same(i, j) == /\ DepthPath(Prior, i) = DepthPath(b.page, j)
                              /\ Own(Prior, i) = Own(b.page, j)
            IN  /\ \A j \in DOMAIN b.page :
                       Explained(diff, b.page, j, Prior) \/ \E i \in DOMAIN Prior : Same(i, j)
                /\ \A i \in DOMAIN Prior :
                       Explained(diff, Prior, i, b.page) \/ \E j \in DOMAIN b.page : Same(i, j)
                /\ Prior = b.page => diff = {}]_vars
  BY <1>1
<1> QED BY <1>2, InvHolds, PTL DEF Spec, ChangesAreExplained
=============================================================================
