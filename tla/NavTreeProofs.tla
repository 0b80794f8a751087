--------------------------- MODULE NavTreeProofs ---------------------------
(***************************************************************************)
(* Theorems about NavTree: the children of a node are put on the page      *)
(* once, the flag of a node says what the page shows, the last navigation  *)
(* ends with a selected item, whatever the order in which the scripts      *)
(* come, and that item is the one of the place the panel follows.          *)
(***************************************************************************)
EXTENDS NavTree, FiniteSetTheorems, SequenceTheorems, WellFoundedInduction, TLAPS

(***************************************************************************)
(* Numbers, bags and paths.                                                *)
(***************************************************************************)
LEMMA LeastOf ==
  ASSUME NEW T \in SUBSET Nat, T # {}
  PROVE  \E k \in T : \A j \in T : k <= j
<1>1. PICK k \in T : \A j \in T : <<j, k>> \notin OpToRel(<, Nat)
  BY NatLessThanWellFounded, WFMin, Zenon
<1>2. \A j \in T : ~ (j < k)
  BY <1>1, Zenon DEF OpToRel
<1>3. k \in Nat /\ \A j \in T : j \in Nat
  OBVIOUS
<1>4. \A j \in T : k <= j
  BY <1>2, <1>3
<1> QED
  BY <1>4

LEMMA BagAdd ==
  ASSUME NEW B, IsABag(B), NEW S
  PROVE  IsABag(B (+) SetToBag(S)) /\ BagToSet(B (+) SetToBag(S)) = BagToSet(B) \cup S
<1>1. IsABag(B (+) SetToBag(S))
  BY DEF (+), IsABag, SetToBag
<1>2. BagToSet(B (+) SetToBag(S)) = BagToSet(B) \cup S
  BY DEF (+), BagToSet, SetToBag
<1> QED
  BY <1>1, <1>2

LEMMA BagRemove ==
  ASSUME NEW B, IsABag(B), NEW c
  PROVE  /\ IsABag(B (-) SetToBag({c}))
         /\ BagToSet(B (-) SetToBag({c})) \subseteq BagToSet(B)
         /\ BagToSet(B) \ {c} \subseteq BagToSet(B (-) SetToBag({c}))
<1>1. IsABag(B (-) SetToBag({c}))
  BY DEF (-), BagToSet, SetToBag, IsABag
<1>2. BagToSet(B (-) SetToBag({c})) \subseteq BagToSet(B)
  BY DEF (-), BagToSet, SetToBag
<1>3. ASSUME NEW d \in BagToSet(B), d # c PROVE d \in BagToSet(B (-) SetToBag({c}))
  BY <1>3 DEF (-), BagToSet, SetToBag, IsABag
<1> QED
  BY <1>1, <1>2, <1>3

LEMMA NodeSeq ==
  /\ Nodes \subseteq Seq(Int)
  /\ <<>> \in Nodes /\ <<0>> \in Nodes
  /\ Scripted \subseteq Nodes
BY TreeAssumption

LEMMA ChildrenOf ==
  ASSUME NEW n \in Seq(Int), NEW m \in Nodes
  PROVE  m \in Children(n) <=> m # <<>> /\ Front(m) = n
<1>1. m \in Seq(Int) /\ Len(m) \in Nat /\ Len(n) \in Nat
  BY NodeSeq
<1>2. ASSUME m \in Children(n) PROVE m # <<>> /\ Front(m) = n
  <2>1. Len(m) = Len(n) + 1 /\ SubSeq(n, 1, Len(n)) = SubSeq(m, 1, Len(n))
    BY <1>2 DEF Children, IsPrefix
  <2>2. SubSeq(n, 1, Len(n)) = n
    BY SubSeqFull
  <2>3. Len(m) - 1 = Len(n) /\ m # <<>>
    BY <1>1, <2>1
  <2> QED
    BY <2>1, <2>2, <2>3 DEF Front
<1>3. ASSUME m # <<>>, Front(m) = n PROVE m \in Children(n)
  <2>1. Len(m) - 1 \in Nat
    BY <1>1, <1>3, EmptySeq
  <2>2. n = SubSeq(m, 1, Len(m) - 1)
    BY <1>3 DEF Front
  <2>3. Len(n) = Len(m) - 1
    <3> DEFINE k == Len(m) - 1
    <3>1. k \in Nat /\ k <= Len(m)
      BY <1>1, <2>1
    <3> HIDE DEF k
    <3>2. Len(SubSeq(m, 1, k)) = k
      BY <1>1, <3>1
    <3> QED
      BY <2>2, <3>2 DEF k
  <2>4. SubSeq(n, 1, Len(n)) = n
    BY SubSeqFull
  <2>5. Len(m) = Len(n) + 1 /\ Len(n) <= Len(m) /\ SubSeq(m, 1, Len(n)) = SubSeq(n, 1, Len(n))
    BY <1>1, <2>2, <2>3, <2>4
  <2> QED
    BY <2>5 DEF Children, IsPrefix
<1> QED
  BY <1>2, <1>3

\* What has children is a node.
LEMMA HasDataNode ==
  ASSUME NEW n \in Seq(Int), HasData(n)
  PROVE  n \in Nodes
<1>1. CASE n \in Scripted
  BY <1>1, NodeSeq
<1>2. CASE Children(n) # {}
  <2>1. PICK m \in Nodes : m \in Children(n)
    BY <1>2 DEF Children
  <2> QED
    BY <2>1, ChildrenOf, TreeAssumption
<1> QED
  BY <1>1, <1>2 DEF HasData

\* What is above a node is a node.
LEMMA AboveNode ==
  ASSUME NEW n \in Nodes, NEW k \in 0..Len(n)
  PROVE  SubSeq(n, 1, k) \in Nodes
<1> DEFINE T == {j \in 0..Len(n) : SubSeq(n, 1, Len(n) - j) \notin Nodes}
<1>1. n \in Seq(Int) /\ Len(n) \in Nat
  BY NodeSeq
<1>2. SUFFICES ASSUME T # {} PROVE FALSE
  <2>1. Len(n) - k \in 0..Len(n) /\ Len(n) - (Len(n) - k) = k
    BY <1>1
  <2> QED
    BY <1>2, <2>1
<1>3. T \in SUBSET Nat
  OBVIOUS
<1>4. PICK j \in T : \A i \in T : j <= i
  BY <1>2, <1>3, LeastOf
<1>5. j # 0
  <2>1. SubSeq(n, 1, Len(n)) = n
    BY <1>1, SubSeqFull
  <2>2. Len(n) - 0 = Len(n)
    BY <1>1
  <2>3. 0 \notin T
    BY <2>1, <2>2
  <2> QED
    BY <2>3
<1>6. j - 1 \in 0..Len(n) /\ ~ (j <= j - 1) /\ j \in 1..Len(n)
  BY <1>1, <1>5
<1>7. j - 1 \notin T
  BY <1>4, <1>6
<1> DEFINE m == SubSeq(n, 1, Len(n) - (j - 1))
<1>8. m \in Nodes
  BY <1>6, <1>7
<1>9. m \in Seq(Int) /\ Len(m) = Len(n) - j + 1 /\ m # <<>>
  <2> DEFINE e == Len(n) - (j - 1)
  <2>1. e \in 1..Len(n) /\ e = Len(n) - j + 1
    BY <1>1, <1>6
  <2> HIDE DEF e
  <2>2. SubSeq(n, 1, e) \in Seq(Int) /\ Len(SubSeq(n, 1, e)) = e
    BY <1>1, <2>1
  <2>3. Len(SubSeq(n, 1, e)) # 0
    BY <2>1, <2>2
  <2> QED
    BY <2>1, <2>2, <2>3, EmptySeq DEF e
<1>10. Front(m) = SubSeq(n, 1, Len(n) - j)
  <2>1. Front(m) = SubSeq(m, 1, Len(n) - j)
    BY <1>1, <1>6, <1>9 DEF Front
  <2> QED
    BY <1>1, <1>6, <2>1
<1>11. Front(m) \in Nodes
  BY <1>8, <1>9, TreeAssumption
<1> QED
  BY <1>10, <1>11

(***************************************************************************)
(* The tree of the page.                                                   *)
(***************************************************************************)
\* u is t with more nodes open and more items selected.
Grows(t, u) ==
  /\ u.loaded = t.loaded
  /\ u.breadcrumbs = t.breadcrumbs
  /\ u.indexes = t.indexes
  /\ t.selected \subseteq u.selected

\* u is t with more nodes open at once, and no other slide.
Displays(t, u) ==
  /\ u.slides = t.slides
  /\ t.shown \subseteq u.shown /\ t.expanded \subseteq u.expanded
  /\ u.expanded \ t.expanded \subseteq u.shown
  /\ u.shown \ t.shown \subseteq u.expanded

LEMMA DisplaysMore ==
  ASSUME NEW t, NEW u, NEW v, Displays(t, u), Displays(u, v)
  PROVE  Displays(t, v)
BY DEF Displays

LEMMA NewItemsOnce ==
  ASSUME NEW t \in Trees, ItemsOnce(t), NEW S \in SUBSET Nodes
  PROVE  LET u == GetNodes(t, S)
         IN  u \in Trees /\ ItemsOnce(u) /\ u.visited = t.visited \cup S
<1> DEFINE u == GetNodes(t, S)
           new == NewItems(t.made, S \ t.visited)
<1>1. t.made \in [Nodes -> Nat] /\ t.visited \in SUBSET Nodes
  BY DEF Trees
<1>2. new \in [Nodes -> Nat]
  BY <1>1 DEF NewItems
<1>3. u \in Trees /\ u.visited = t.visited \cup S /\ u.made = new
  <2> HIDE DEF new
  <2> QED
    BY <1>1, <1>2 DEF GetNodes, Trees, new
<1>4. ASSUME NEW m \in Nodes
      PROVE  new[m] = IF m # <<>> /\ Front(m) \in t.visited \cup S THEN 1 ELSE 0
  <2>1. (\E n \in S \ t.visited : m \in Children(n))
          <=> m # <<>> /\ Front(m) \in S \ t.visited
    BY ChildrenOf, NodeSeq
  <2>2. t.made[m] = IF m # <<>> /\ Front(m) \in t.visited THEN 1 ELSE 0
    BY DEF ItemsOnce
  <2>3. new[m] = IF \E n \in S \ t.visited : m \in Children(n)
                 THEN t.made[m] + 1 ELSE t.made[m]
    BY DEF NewItems
  <2> HIDE DEF new
  <2> QED
    BY <2>1, <2>2, <2>3
<1> HIDE DEF u, new
<1>5. ItemsOnce(u)
  BY <1>3, <1>4 DEF ItemsOnce
<1> QED
  BY <1>3, <1>5 DEF u

LEMMA OpenTree ==
  ASSUME NEW t \in Trees, ItemsOnce(t), NEW S \in SUBSET Nodes, FlagsOK(t)
  PROVE  LET u == Open(t, S)
         IN  /\ u \in Trees /\ ItemsOnce(u) /\ FlagsOK(u) /\ Grows(t, u)
             /\ Displays(t, u) /\ S \subseteq u.expanded
<1> DEFINE g == GetNodes(t, S)
           u == Open(t, S)
<1>1. g \in Trees /\ ItemsOnce(g) /\ g.visited = t.visited \cup S
  BY NewItemsOnce
<1>2. /\ g.loaded = t.loaded /\ g.expanded = t.expanded /\ g.shown = t.shown
      /\ g.slides = t.slides
      /\ g.selected = t.selected /\ g.indexes = t.indexes /\ g.breadcrumbs = t.breadcrumbs
  BY DEF GetNodes, Trees
<1>3. u = [g EXCEPT !.expanded = @ \cup S, !.shown = @ \cup S]
  BY DEF Open
<1> HIDE DEF g, u
<1>4. /\ u \in Trees
      /\ u.loaded = g.loaded /\ u.visited = g.visited /\ u.made = g.made
      /\ u.expanded = g.expanded \cup S /\ u.shown = g.shown \cup S /\ u.slides = g.slides
      /\ u.selected = g.selected /\ u.indexes = g.indexes /\ u.breadcrumbs = g.breadcrumbs
  BY <1>1, <1>3 DEF Trees
<1>5. ItemsOnce(u)
  BY <1>1, <1>4 DEF ItemsOnce
<1>6. FlagsOK(u)
  BY <1>1, <1>2, <1>4 DEF FlagsOK
<1>7. Grows(t, u) /\ Displays(t, u) /\ S \subseteq u.expanded
  BY <1>2, <1>4 DEF Grows, Displays
<1> QED
  BY <1>4, <1>5, <1>6, <1>7 DEF u

\* A step's outcome that is as it should be.
OutcomeOK(t, o) ==
  /\ o.tree \in Trees /\ ItemsOnce(o.tree) /\ FlagsOK(o.tree)
  /\ o.tree.loaded = t.loaded
  /\ o.tree.breadcrumbs = t.breadcrumbs
  /\ t.selected \subseteq o.tree.selected
  /\ \A c \in o.scripts : CallbackOK(o.tree, c)
  /\ o.scroll \in BOOLEAN /\ o.showRoot \in BOOLEAN

\* It has selected an item, or left a callback that will.
Leading(o) ==
  \/ o.tree.selected # {}
  \/ \E c \in o.scripts : Leads(o.tree, c)

LEMMA SelectOutcome ==
  ASSUME NEW t, NEW u \in Trees, ItemsOnce(u), FlagsOK(u), Grows(t, u),
         NEW N \in SUBSET Nodes, NEW h
  PROVE  LET o == SelectAndHighlight(u, h, N)
         IN  /\ OutcomeOK(t, o) /\ (N # {} => Leading(o))
             /\ Displays(u, o.tree)
<1> DEFINE a == Anchors(u, h)
           o == SelectAndHighlight(u, h, N)
<1>1. a \in SUBSET Nodes
  BY DEF Made, Anchors
<1>2. PICK S \in SUBSET Nodes :
        /\ o.tree = [u EXCEPT !.selected = @ \cup S] /\ o.scripts = {}
        /\ o.scroll \in BOOLEAN /\ o.showRoot \in BOOLEAN
        /\ N # {} => S # {}
  <2>1. CASE a # {}
    BY <1>1, <2>1 DEF SelectAndHighlight, Outcome
  <2>2. CASE a = {}
    BY <2>2 DEF SelectAndHighlight, Outcome
  <2> QED
    BY <2>1, <2>2
<1> HIDE DEF o, a
<1>3. /\ o.tree \in Trees
      /\ o.tree.loaded = u.loaded /\ o.tree.visited = u.visited /\ o.tree.made = u.made
      /\ o.tree.expanded = u.expanded /\ o.tree.shown = u.shown /\ o.tree.slides = u.slides
      /\ o.tree.selected = u.selected \cup S /\ o.tree.breadcrumbs = u.breadcrumbs
  BY <1>2 DEF Trees
<1>4. ItemsOnce(o.tree) /\ FlagsOK(o.tree) /\ Displays(u, o.tree)
  BY <1>3 DEF ItemsOnce, FlagsOK, Displays
<1>5. OutcomeOK(t, o)
  BY <1>2, <1>3, <1>4 DEF OutcomeOK, Grows
<1>6. N # {} => Leading(o)
  BY <1>2, <1>3 DEF Leading
<1> QED
  BY <1>4, <1>5, <1>6 DEF o

LEMMA AsksOutcome ==
  ASSUME NEW t, NEW u \in Trees, ItemsOnce(u), FlagsOK(u), Grows(t, u),
         NEW C, \A c \in C : CallbackOK(u, c)
  PROVE  /\ OutcomeOK(t, Asks(u, C))
         /\ (\E c \in C : Leads(u, c)) => Leading(Asks(u, C))
         /\ Asks(u, C).tree = u
<1>1. /\ Asks(u, C).tree = u /\ Asks(u, C).scripts = C
      /\ Asks(u, C).scroll = FALSE /\ Asks(u, C).showRoot = FALSE
  BY DEF Asks, Outcome
<1> QED
  BY <1>1 DEF OutcomeOK, Leading, Grows

\* A tree that has not changed.
LEMMA SelfGrows ==
  \A t : Grows(t, t) /\ Displays(t, t)
BY DEF Grows, Displays

(***************************************************************************)
(* showNode.                                                               *)
(***************************************************************************)
\* The walk: it stops at the first node that has no children here, or whose next
\* is none, or that is the last.
LEMMA WalkStops ==
  ASSUME NEW lo \in Nat, NEW last \in Nat, lo <= last, NEW stop
  PROVE  \E k \in lo..last :
           /\ \A j \in lo..(k - 1) : j \notin stop
           /\ k = last \/ k \in stop
<1> DEFINE T == {k \in lo..last : k = last \/ k \in stop}
<1>1. T \in SUBSET Nat /\ last \in T
  OBVIOUS
<1>2. PICK k \in T : \A j \in T : k <= j
  BY <1>1, LeastOf
<1>3. ASSUME NEW j \in lo..(k - 1) PROVE j \notin stop
  <2>1. j \in lo..last /\ ~ (k <= j)
    OBVIOUS
  <2> QED
    BY <1>2, <2>1
<1> QED
  BY <1>3

LEMMA ShowPath ==
  ASSUME NEW bc \in Nodes, NEW node \in Nodes, NEW index \in Nat
  PROVE  LET path == node \o IF index < Len(bc) THEN SubSeq(bc, index + 1, Len(bc)) ELSE <<-1>>
         IN  /\ path \in Seq(Int)
             /\ Len(path) - 1 \in Nat /\ Len(node) <= Len(path) - 1
             /\ SubSeq(path, 1, Len(node)) = node
             /\ index < Len(bc) /\ node = SubSeq(bc, 1, index) => path = bc
<1> DEFINE rest == IF index < Len(bc) THEN SubSeq(bc, index + 1, Len(bc)) ELSE <<-1>>
<1>1. node \in Seq(Int) /\ bc \in Seq(Int) /\ Len(bc) \in Nat /\ Len(node) \in Nat
  BY NodeSeq
<1>2. rest \in Seq(Int) /\ Len(rest) >= 1
  <2>1. CASE index < Len(bc)
    <3>1. /\ SubSeq(bc, index + 1, Len(bc)) \in Seq(Int)
          /\ Len(SubSeq(bc, index + 1, Len(bc))) = Len(bc) - (index + 1) + 1
      BY <1>1, <2>1, SubSeqProperties
    <3> QED
      BY <1>1, <2>1, <3>1
  <2>2. CASE ~ (index < Len(bc))
    BY <2>2
  <2> QED
    BY <2>1, <2>2
<1>3. index < Len(bc) /\ node = SubSeq(bc, 1, index) => node \o rest = bc
  <2> SUFFICES ASSUME index < Len(bc), node = SubSeq(bc, 1, index) PROVE node \o rest = bc
    OBVIOUS
  <2>1. rest = SubSeq(bc, index + 1, Len(bc))
    OBVIOUS
  <2>2. SubSeq(bc, 1, index) \o SubSeq(bc, index + 1, Len(bc)) = SubSeq(bc, 1, Len(bc))
    <3>1. /\ 1 \in 1..(Len(bc) + 1) /\ index \in (1 - 1)..Len(bc)
          /\ Len(bc) \in (index)..Len(bc)
      BY <1>1
    <3> QED
      BY <1>1, <3>1, ConcatAdjacentSubSeq
  <2> QED
    BY <1>1, <2>1, <2>2, SubSeqFull
<1> HIDE DEF rest
<1>4. node \o rest \in Seq(Int) /\ Len(node \o rest) = Len(node) + Len(rest)
  BY <1>1, <1>2
<1>5. SubSeq(node \o rest, 1, Len(node)) = node
  BY <1>1, <1>2, SubSeqOfConcat1, SubSeqFull
<1>6. Len(node \o rest) - 1 \in Nat /\ Len(node) <= Len(node \o rest) - 1
  BY <1>1, <1>2, <1>4
<1> QED
  BY <1>3, <1>4, <1>5, <1>6 DEF rest

\* The nodes that showNode opens on its way down the path, and at its end.
Opened(t, path, lo, hi) ==
  Open(t, {n \in {SubSeq(path, 1, j) : j \in lo..hi} : HasChildrenHere(t, n)})
Target(s, path) ==
  IF page \in IndexPages /\ HasData(path) /\ path \notin s.expanded
  THEN Open(s, {path}) ELSE s

\* The walk of showNode: down the path to a node that has no children here, or whose
\* next is none, or to the last but one.  A walk along the breadcrumbs meets no other
\* obstacle than a script.
Walk(t, node, index, h, path, top) ==
  LET bc == t.breadcrumbs
      At(k) == SubSeq(path, 1, k)
      Here(n) == HasChildrenHere(t, n)
      last == Len(path) - 1
      i == index + top - Len(node)
      s == Opened(t, path, Len(node), top)
      o == ShowNode(t, node, index, h)
  IN  /\ top \in Len(node)..last /\ last \in Nat /\ i \in Nat
      /\ At(Len(node)) = node
      /\ \A j \in Len(node)..top : At(j) \in Seq(Int)
      /\ \A j \in Len(node)..(top - 1) : Here(At(j))
      /\ At(top) \in Nodes
      /\ \/ Waits(t, At(top)) /\ o = Asks(s, {ShowCB(At(top), i, h)})
         \/ /\ ~HasData(At(top)) \/ (Here(At(top)) /\ top < last)
            /\ o = SelectAndHighlight(s, h, {})
         \/ path \notin Nodes /\ o = Asks(s, {})
         \/ /\ Here(At(top)) /\ top = last /\ Waits(t, path)
            /\ o = Asks(s, {RetryCB(path, At(top), i, h)})
         \/ /\ Here(At(top)) /\ top = last /\ path \in Nodes
            /\ o = SelectAndHighlight(Target(s, path), h, {path})
      /\ index < Len(bc) /\ node = SubSeq(bc, 1, index) =>
           /\ path = bc /\ Len(node) = index
           /\ HasData(At(top)) /\ (Here(At(top)) => top = last)

LEMMA ShowNodeWalk ==
  ASSUME NEW t \in Trees, NEW node \in Nodes, NEW index \in Nat, NEW h
  PROVE  \E path \in Seq(Int), top \in Nat : Walk(t, node, index, h, path, top)
<1> DEFINE bc == t.breadcrumbs
           path == node \o IF index < Len(bc) THEN SubSeq(bc, index + 1, Len(bc)) ELSE <<-1>>
           At(k) == SubSeq(path, 1, k)
           Loaded(n) == HasData(n) /\ ~Waits(t, n)
           last == Len(path) - 1
           Top(k) == /\ \A j \in Len(node)..(k - 1) : Loaded(At(j)) /\ At(j + 1) \in Nodes
                     /\ k = last \/ ~Loaded(At(k)) \/ At(k + 1) \notin Nodes
           top == CHOOSE k \in Len(node)..last : Top(k)
           i == index + top - Len(node)
           opened == Open(t, {n \in {At(j) : j \in Len(node)..top} : Loaded(n)})
           target == IF page \in IndexPages /\ HasData(path) /\ path \notin opened.expanded
                     THEN Open(opened, {path}) ELSE opened
           o == ShowNode(t, node, index, h)
           Consistent == index < Len(bc) /\ node = SubSeq(bc, 1, index)
<1>1. o = CASE Waits(t, At(top)) -> Asks(opened, {ShowCB(At(top), i, h)})
            [] ~HasData(At(top)) \/ (Loaded(At(top)) /\ top < last) ->
                 SelectAndHighlight(opened, h, {})
            [] Loaded(At(top)) /\ top = last /\ path \notin Nodes ->
                 Asks(opened, {})
            [] Loaded(At(top)) /\ top = last /\ Waits(t, path) ->
                 Asks(opened, {RetryCB(path, At(top), i, h)})
            [] OTHER -> SelectAndHighlight(target, h, {path})
  BY DEF ShowNode
<1>2. bc \in Nodes
  BY DEF Trees
<1>3. /\ path \in Seq(Int)
      /\ last \in Nat /\ Len(node) <= last /\ Len(node) \in Nat
      /\ At(Len(node)) = node
      /\ Consistent => path = bc
  <2> HIDE DEF bc
  <2>1. Len(node) \in Nat
    BY NodeSeq
  <2> QED
    BY <1>2, <2>1, ShowPath
<1>4. \A n : HasChildrenHere(t, n) <=> Loaded(n)
  BY DEF HasChildrenHere
<1>5. opened = Opened(t, path, Len(node), top) /\ target = Target(opened, path)
  BY DEF Opened, Target, HasChildrenHere
<1> HIDE DEF path, last, o, Consistent, bc
<1>6. top \in Len(node)..last /\ Top(top)
  <2> DEFINE stop == {k \in Nat : ~Loaded(At(k)) \/ At(k + 1) \notin Nodes}
  <2>1. PICK k \in Len(node)..last : /\ \A j \in Len(node)..(k - 1) : j \notin stop
                                     /\ k = last \/ k \in stop
    BY <1>3, WalkStops
  <2>2. \A j \in Len(node)..(k - 1) : j \in Nat
    BY <1>3
  <2>3. Top(k)
    BY <2>1, <2>2
  <2>4. \E m \in Len(node)..last : Top(m)
    BY <2>3
  <2> HIDE DEF Top
  <2> QED
    BY <2>4
<1> HIDE DEF top, opened, target
<1>7. \A j \in Len(node)..top : At(j) \in Seq(Int) /\ Len(At(j)) = j
  <2> TAKE j \in Len(node)..top
  <2>1. j \in Nat /\ j <= Len(path)
    BY <1>3, <1>6 DEF last
  <2> QED
    BY <1>3, <2>1
<1>8. top \in Nat /\ At(top) \in Nodes /\ i \in Nat
  <2>1. top \in Nat /\ i \in Nat
    BY <1>3, <1>6
  <2>2. CASE top = Len(node)
    BY <1>3, <2>1, <2>2
  <2>3. CASE top # Len(node)
    <3>1. top - 1 \in Len(node)..(top - 1) /\ (top - 1) + 1 = top
      <4>1. top \in Len(node)..last
        BY <1>6
      <4>2. Len(node) \in Nat /\ last \in Nat
        BY <1>3
      <4>3. Len(node) <= top /\ top \in Nat
        BY <2>1, <4>1, <4>2
      <4> HIDE DEF At, Top
      <4> QED
        BY <2>3, <4>2, <4>3
    <3>2. At((top - 1) + 1) \in Nodes
      BY <1>6, <3>1
    <3> QED
      BY <2>1, <3>1, <3>2
  <2> QED
    BY <2>2, <2>3
\* On its way down the path of the breadcrumbs it stops for a script or at the end.
<1>9. Consistent => /\ path = bc /\ Len(node) = index
                    /\ HasData(At(top)) /\ (Loaded(At(top)) => top = last)
  <2> SUFFICES ASSUME Consistent
               PROVE  /\ path = bc /\ Len(node) = index
                      /\ HasData(At(top)) /\ (Loaded(At(top)) => top = last)
    OBVIOUS
  <2>1. path = bc /\ path \in Nodes
    BY <1>2, <1>3
  <2>2. Len(path) \in Nat /\ top < Len(path) /\ top + 1 \in 0..Len(path)
    BY <1>3, <1>6, <1>8 DEF last
  <2>3. At(top + 1) \in Nodes
    BY <2>1, <2>2, AboveNode
  <2>4. HasData(At(top))
    <3> DEFINE m == At(top + 1)
    <3>1. m \in Seq(Int) /\ Len(m) = top + 1
      BY <1>3, <2>2
    <3>2. m # <<>>
      <4>1. Len(m) # 0
        BY <1>8, <3>1
      <4> QED
        BY <4>1, EmptySeq
    <3>3. Front(m) = At(top)
      <4>1. Front(m) = SubSeq(m, 1, top)
        BY <1>8, <3>1 DEF Front
      <4> QED
        BY <1>3, <1>8, <2>2, <4>1
    <3> HIDE DEF m
    <3>4. m \in Children(At(top))
      BY <1>8, <2>3, <3>2, <3>3, ChildrenOf, NodeSeq DEF m
    <3> QED
      BY <3>4 DEF HasData
  <2>5. Loaded(At(top)) => top = last
    BY <1>6, <2>3
  <2>6. Len(node) = index
    <3>1. index \in 0..Len(bc) /\ node = SubSeq(bc, 1, index) /\ bc \in Seq(Int)
      BY <1>2, NodeSeq DEF Consistent
    <3> QED
      BY <3>1
  <2> QED
    BY <2>1, <2>4, <2>5, <2>6
<1>10. HasData(At(top)) /\ ~Waits(t, At(top)) => Loaded(At(top))
  OBVIOUS
<1>11. top < last \/ top = last
  BY <1>3, <1>6, <1>8
<1>12. \/ Waits(t, At(top)) /\ o = Asks(opened, {ShowCB(At(top), i, h)})
       \/ /\ ~HasData(At(top)) \/ (Loaded(At(top)) /\ top < last)
          /\ o = SelectAndHighlight(opened, h, {})
       \/ path \notin Nodes /\ o = Asks(opened, {})
       \/ /\ Loaded(At(top)) /\ top = last /\ Waits(t, path)
          /\ o = Asks(opened, {RetryCB(path, At(top), i, h)})
       \/ /\ Loaded(At(top)) /\ top = last /\ path \in Nodes
          /\ o = SelectAndHighlight(target, h, {path})
  <2> HIDE DEF At, Loaded, i
  <2> QED
    BY <1>1, <1>10, <1>11
<1>13. \A j \in Len(node)..(top - 1) : Loaded(At(j))
  BY <1>6
<1>14. Walk(t, node, index, h, path, top)
  <2> HIDE DEF Top, Loaded
  <2> QED
    BY <1>3, <1>4, <1>5, <1>6, <1>7, <1>8, <1>9, <1>12, <1>13 DEF Walk, o, Consistent, bc, last
<1> HIDE DEF At, Loaded, Top
<1> QED
  BY <1>3, <1>8, <1>14

LEMMA ShowNodeOutcome ==
  ASSUME NEW t \in Trees, ItemsOnce(t), NEW node \in Nodes, NEW index \in Nat, NEW h,
         FlagsOK(t)
  PROVE  LET o == ShowNode(t, node, index, h)
             bc == t.breadcrumbs
         IN  /\ OutcomeOK(t, o)
             /\ Displays(t, o.tree)
             /\ HasChildrenHere(t, node) => node \in o.tree.expanded
             /\ index < Len(bc) /\ node = SubSeq(bc, 1, index) => Leading(o)
<1>1. PICK path \in Seq(Int), top \in Nat : Walk(t, node, index, h, path, top)
  BY ShowNodeWalk
<1> DEFINE bc == t.breadcrumbs
           At(k) == SubSeq(path, 1, k)
           Here(n) == HasChildrenHere(t, n)
           last == Len(path) - 1
           i == index + top - Len(node)
           s == Opened(t, path, Len(node), top)
           opening == {n \in {At(j) : j \in Len(node)..top} : Here(n)}
           target == Target(s, path)
           o == ShowNode(t, node, index, h)
           Consistent == index < Len(bc) /\ node = SubSeq(bc, 1, index)
<1>2. /\ top \in Len(node)..last /\ last \in Nat /\ i \in Nat
      /\ At(Len(node)) = node
      /\ \A j \in Len(node)..top : At(j) \in Seq(Int)
      /\ At(top) \in Nodes
      /\ Consistent => /\ path = bc /\ Len(node) = index
                       /\ HasData(At(top)) /\ (Here(At(top)) => top = last)
  BY <1>1 DEF Walk
<1>3. \/ Waits(t, At(top)) /\ o = Asks(s, {ShowCB(At(top), i, h)})
      \/ /\ ~HasData(At(top)) \/ (Here(At(top)) /\ top < last)
         /\ o = SelectAndHighlight(s, h, {})
      \/ path \notin Nodes /\ o = Asks(s, {})
      \/ /\ Here(At(top)) /\ top = last /\ Waits(t, path)
         /\ o = Asks(s, {RetryCB(path, At(top), i, h)})
      \/ /\ Here(At(top)) /\ top = last /\ path \in Nodes
         /\ o = SelectAndHighlight(target, h, {path})
  BY <1>1 DEF Walk
<1>4. opening \in SUBSET Nodes
  <2>1. \A j \in Len(node)..top : HasData(At(j)) => At(j) \in Nodes
    BY <1>2, HasDataNode
  <2> QED
    BY <2>1 DEF HasChildrenHere
<1>5. Here(node) => node \in opening
  <2>1. Len(node) \in Len(node)..top
    <3> HIDE DEF last, i, At, Here, Consistent
    <3>1. Len(node) \in Nat
      BY NodeSeq
    <3> QED
      BY <1>2, <3>1
  <2>2. Here(node) => At(Len(node)) \in opening
    BY <1>2, <2>1
  <2> QED
    BY <1>2, <2>2
<1>6. s = Open(t, opening)
  BY DEF Opened
<1> HIDE DEF opening, s, o, Consistent, bc, last, i, target
<1>7. /\ s \in Trees /\ ItemsOnce(s) /\ FlagsOK(s) /\ Grows(t, s)
      /\ Displays(t, s) /\ (Here(node) => node \in s.expanded)
  BY <1>4, <1>5, <1>6, OpenTree
<1>8. \A n : HasChildrenHere(s, n) <=> Here(n)
  BY <1>7 DEF HasChildrenHere, Waits, Grows
<1>9. Consistent => /\ path \in Nodes /\ At(top) = SubSeq(s.breadcrumbs, 1, i)
                    /\ i < Len(s.breadcrumbs)
  <2>1. bc \in Nodes /\ s.breadcrumbs = bc
    BY <1>7 DEF Trees, Grows, bc
  <2>2. Len(node) = index => i = top
    BY <1>2 DEF i
  <2>3. top < Len(path)
    <3> HIDE DEF At, Here
    <3>1. Len(node) \in Nat /\ Len(path) \in Nat
      BY NodeSeq
    <3> QED
      BY <1>2, <3>1 DEF last
  <2> QED
    BY <1>2, <2>1, <2>2, <2>3
<1>10. /\ target \in Trees /\ ItemsOnce(target) /\ FlagsOK(target) /\ Grows(t, target)
       /\ Displays(s, target)
  <2>1. CASE target = Open(s, {path}) /\ HasData(path)
    <3>1. {path} \in SUBSET Nodes
      BY <2>1, HasDataNode
    <3> QED
      BY <1>7, <2>1, <3>1, OpenTree DEF Grows
  <2>2. CASE target = s
    BY <1>7, <2>2, SelfGrows
  <2> QED
    BY <2>1, <2>2 DEF target, Target
\* What is opened is displayed, and the flags of what is displayed are set.
<1> DEFINE Kept(u) == Displays(t, u) /\ (Here(node) => node \in u.expanded)
<1>17. Kept(s) /\ \A u : Displays(s, u) \/ Displays(target, u) => Kept(u)
  <2>1. \A u : Displays(s, u) => Kept(u)
    BY <1>7, DisplaysMore DEF Displays
  <2>2. \A u : Displays(target, u) => Displays(s, u)
    BY <1>10, DisplaysMore
  <2> QED
    BY <1>7, <2>1, <2>2
<1>18. \A C : Asks(s, C).tree = s
  BY DEF Asks, Outcome
<1> HIDE DEF Kept
<1> SUFFICES OutcomeOK(t, o) /\ Kept(o.tree) /\ (Consistent => Leading(o))
  BY DEF Kept, o, Consistent, bc
<1>11. CASE Waits(t, At(top)) /\ o = Asks(s, {ShowCB(At(top), i, h)})
  <2> DEFINE c == ShowCB(At(top), i, h)
  <2>1. c.kind = "show" /\ c.node = At(top) /\ c.index = i
    BY DEF ShowCB
  <2>2. At(top) \in Scripted
    BY <1>11 DEF Waits
  <2> HIDE DEF c
  <2>3. CallbackOK(s, c)
    BY <1>2, <2>1, <2>2 DEF CallbackOK
  <2>4. Consistent => Leads(s, c)
    BY <1>9, <2>1 DEF Leads
  <2> QED
    BY <1>7, <1>11, <1>17, <1>18, <2>3, <2>4, AsksOutcome DEF c
<1>12. CASE /\ ~HasData(At(top)) \/ (Here(At(top)) /\ top < last)
            /\ o = SelectAndHighlight(s, h, {})
  <2>1. ~Consistent
    <3> HIDE DEF At, Here
    <3>1. ~(top < last /\ top = last)
      BY <1>2
    <3> QED
      BY <1>2, <1>12, <3>1
  <2>2. OutcomeOK(t, o) /\ Displays(s, o.tree)
    BY <1>7, <1>12, SelectOutcome
  <2> QED
    BY <1>17, <2>1, <2>2
<1>13. CASE path \notin Nodes /\ o = Asks(s, {})
  <2>1. OutcomeOK(t, o)
    BY <1>7, <1>13, AsksOutcome
  <2> QED
    BY <1>9, <1>13, <1>17, <1>18, <2>1
<1>14. CASE /\ Here(At(top)) /\ Waits(t, path)
            /\ o = Asks(s, {RetryCB(path, At(top), i, h)})
  <2> DEFINE c == RetryCB(path, At(top), i, h)
  <2>1. c.kind = "retry" /\ c.node = At(top) /\ c.index = i /\ c.child = path
    BY DEF RetryCB
  <2>2. path \in Scripted /\ HasChildrenHere(s, At(top))
    BY <1>8, <1>14 DEF Waits
  <2> HIDE DEF c
  <2>3. CallbackOK(s, c)
    BY <1>2, <2>1, <2>2 DEF CallbackOK
  <2>4. Consistent => Leads(s, c)
    BY <1>9, <2>1 DEF Leads
  <2> QED
    BY <1>7, <1>14, <1>17, <1>18, <2>3, <2>4, AsksOutcome DEF c
<1>15. CASE path \in Nodes /\ o = SelectAndHighlight(target, h, {path})
  <2>1. {path} \in SUBSET Nodes /\ {path} # {}
    BY <1>15
  <2>2. OutcomeOK(t, o) /\ Leading(o) /\ Displays(target, o.tree)
    BY <1>10, <1>15, <2>1, SelectOutcome
  <2> QED
    BY <1>17, <2>2
<1> HIDE DEF At
<1> QED
  BY <1>3, <1>11, <1>12, <1>13, <1>14, <1>15

(***************************************************************************)
(* What the handlers call.                                                 *)
(***************************************************************************)
\* What a step makes of the tree t: scripts may have come as well.
Stepped(t, o) ==
  /\ o.tree \in Trees /\ ItemsOnce(o.tree) /\ FlagsOK(o.tree)
  /\ t.loaded \subseteq o.tree.loaded
  /\ t.selected \subseteq o.tree.selected
  /\ \A c \in o.scripts : CallbackOK(o.tree, c)
  /\ o.scroll \in BOOLEAN /\ o.showRoot \in BOOLEAN
  /\ o.tree.breadcrumbs = t.breadcrumbs \/ Leading(o)
  /\ FlagsKept(t, o.tree)

LEMMA SteppedFrom ==
  ASSUME NEW t, NEW u, NEW o, OutcomeOK(u, o), t.loaded \subseteq u.loaded,
         FlagsKept(t, o.tree),
         t.selected \subseteq u.selected, u.breadcrumbs = t.breadcrumbs \/ Leading(o)
  PROVE  Stepped(t, o)
BY DEF Stepped, OutcomeOK

\* What is opened at once has its flag, and the slides go on.
LEMMA DisplaysKept ==
  ASSUME NEW t \in Trees, NEW u, Displays(t, u)
  PROVE  FlagsKept(t, u)
<1> SUFFICES ASSUME NEW n \in Nodes, ~AsFlagged(u, n), ~UpDue(t, n)
             PROVE  ~AsFlagged(t, n) /\ (n \in t.expanded <=> n \in u.expanded)
  BY DEF FlagsKept
<1>1. u.slides[n] = t.slides[n]
  BY DEF Displays
<1>2. CASE t.slides[n] = <<>>
  BY <1>1, <1>2 DEF AsFlagged, Displays
<1>3. CASE t.slides[n] # <<>>
  <2>1. t.slides[n] \in Seq({"up", "down"})
    BY DEF Trees
  <2>2. Last(t.slides[n]) \in {"up", "down"}
    <3> DEFINE q == t.slides[n]
    <3>1. q \in Seq({"up", "down"}) /\ q # <<>>
      BY <1>3, <2>1
    <3> HIDE DEF q
    <3>2. Len(q) \in 1..Len(q)
      BY <3>1, EmptySeq
    <3> QED
      BY <3>1, <3>2 DEF Last, q
  <2>3. Last(t.slides[n]) = "down"
    BY <1>3, <2>2 DEF UpDue
  <2>4. n \notin u.expanded
    BY <1>1, <1>3, <2>3 DEF AsFlagged
  <2>5. n \notin t.expanded
    BY <2>4 DEF Displays
  <2> QED
    BY <1>3, <2>3, <2>4, <2>5 DEF AsFlagged
<1> QED
  BY <1>2, <1>3

LEMMA KeptItself ==
  \A t : FlagsKept(t, t)
BY DEF FlagsKept

LEMMA SameFlags ==
  ASSUME NEW t, NEW s, NEW u, s.expanded = t.expanded, s.shown = t.shown,
         s.slides = t.slides, FlagsKept(s, u)
  PROVE  FlagsKept(t, u)
BY DEF FlagsKept, AsFlagged, UpDue

LEMMA LookupPath ==
  ASSUME NEW u
  PROVE  ItemOf(u) \in Nodes /\ Len(ItemOf(u)) > 0
<1>1. \A v \in DOMAIN Breadcrumbs : <<0>> \o Breadcrumbs[v] \in Nodes /\ Breadcrumbs[v] \in Seq(Int)
  BY IndexAssumption
<1>2. <<0>> \o <<>> = <<0>>
  OBVIOUS
<1>3. <<0>> \o Lookup(u) \in Nodes /\ Lookup(u) \in Seq(Int)
  BY <1>1, <1>2, NodeSeq, EmptySeq DEF Lookup
<1>4. Len(<<0>> \o Lookup(u)) = 1 + Len(Lookup(u))
  BY <1>3
<1> QED
  BY <1>3, <1>4 DEF ItemOf

LEMMA GotoNodeStep ==
  ASSUME NEW t \in Trees, ItemsOnce(t), FlagsOK(t), NEW u
  PROVE  LET o == GotoNode(t, u)
         IN  Stepped(t, o) /\ Leading(o) /\ Displays(t, o.tree)
<1> DEFINE bc == ItemOf(u)
           s == [t EXCEPT !.breadcrumbs = bc]
           o == ShowNode(s, <<>>, 0, u[2])
<1>1. bc \in Nodes /\ Len(bc) > 0
  BY LookupPath
<1> HIDE DEF bc
<1>2. /\ s \in Trees /\ s.loaded = t.loaded /\ s.visited = t.visited /\ s.made = t.made
      /\ s.expanded = t.expanded /\ s.shown = t.shown /\ s.selected = t.selected
      /\ s.slides = t.slides /\ s.breadcrumbs = bc
  BY <1>1 DEF Trees
<1> HIDE DEF s
<1>3. ItemsOnce(s) /\ FlagsOK(s) /\ Displays(t, s)
  BY <1>2 DEF ItemsOnce, FlagsOK, Displays
<1>4. SubSeq(bc, 1, 0) = <<>> /\ 0 < Len(bc)
  BY <1>1, SubSeqEmpty, NodeSeq
<1>5. OutcomeOK(s, o) /\ Leading(o) /\ Displays(s, o.tree)
  <2>1. <<>> \in Nodes /\ 0 \in Nat
    BY NodeSeq
  <2> QED
    BY <1>2, <1>3, <1>4, <2>1, ShowNodeOutcome
<1>6. GotoNode(t, u) = o
  BY DEF GotoNode, s, bc
<1> HIDE DEF o
<1>7. Displays(t, o.tree)
  BY <1>3, <1>5, DisplaysMore
<1>8. Stepped(t, o)
  BY <1>2, <1>5, <1>7, SteppedFrom, DisplaysKept
<1> QED
  BY <1>5, <1>6, <1>7, <1>8

(***************************************************************************)
(* The slides of a list.                                                   *)
(***************************************************************************)
Ways == {"up", "down"}

\* u is t with other slides of the list of n, which may now be displayed.
Slid(t, u, n) ==
  /\ u.loaded = t.loaded /\ u.visited = t.visited /\ u.made = t.made
  /\ u.expanded = t.expanded /\ u.selected = t.selected
  /\ u.indexes = t.indexes /\ u.breadcrumbs = t.breadcrumbs
  /\ t.shown \subseteq u.shown /\ u.shown \subseteq t.shown \cup {n}
  /\ \A m \in Nodes \ {n} : u.slides[m] = t.slides[m]

LEMMA SeqLast ==
  ASSUME NEW q \in Seq(Ways), q # <<>>
  PROVE  Len(q) \in DOMAIN q /\ Last(q) = q[Len(q)] /\ Last(q) \in Ways
<1>1. Len(q) \in 1..Len(q)
  BY EmptySeq
<1> QED
  BY <1>1 DEF Last

LEMMA GoesStep ==
  ASSUME NEW t \in Trees, NEW n \in Nodes, NEW q \in Seq(Ways)
  PROVE  LET u == Goes(t, n, q)
             way == IF Displayed(t, n) THEN "up" ELSE "down"
         IN  /\ u \in Trees /\ Slid(t, u, n)
             /\ \/ /\ u.slides[n] = <<>> /\ u.shown = t.shown
                   /\ \A j \in DOMAIN q : q[j] # way
                \/ /\ u.slides[n] # <<>> /\ n \in u.shown /\ q # <<>>
                   /\ Last(u.slides[n]) = Last(q)
<1> DEFINE u == Goes(t, n, q)
           way == IF Displayed(t, n) THEN "up" ELSE "down"
           due == {j \in DOMAIN q : q[j] = way}
           r == SubSeq(q, Min(due), Len(q))
<1>1. t.slides \in [Nodes -> Seq(Ways)] /\ t.shown \in SUBSET Nodes
  BY DEF Trees, Ways
<1>2. u = IF due = {} THEN [t EXCEPT !.slides[n] = <<>>]
          ELSE [t EXCEPT !.slides[n] = r, !.shown = @ \cup {n}]
  BY DEF Goes
<1>3. CASE due = {}
  <2>1. \A j \in DOMAIN q : q[j] # way
    BY <1>3
  <2> HIDE DEF due, way
  <2>2. <<>> \in Seq(Ways)
    BY EmptySeq
  <2>3. u = [t EXCEPT !.slides[n] = <<>>]
    BY <1>2, <1>3
  <2> HIDE DEF u
  <2>4. /\ u \in Trees /\ Slid(t, u, n)
        /\ u.slides[n] = <<>> /\ u.shown = t.shown
    BY <1>1, <2>2, <2>3 DEF Trees, Slid, Ways
  <2> QED
    BY <2>1, <2>4 DEF u, way
<1>4. CASE due # {}
  <2>1. due \in SUBSET Nat /\ DOMAIN q = 1..Len(q) /\ Len(q) \in Nat
    OBVIOUS
  <2> DEFINE k == Min(due)
  <2>2. k \in due
    <3> HIDE DEF due
    <3>1. \E i \in due : \A j \in due : i <= j
      BY <1>4, <2>1, LeastOf
    <3> QED
      BY <3>1 DEF Min
  <2>3. k \in 1..Len(q)
    BY <2>1, <2>2
  <2>4. r = SubSeq(q, k, Len(q))
    OBVIOUS
  <2> HIDE DEF k, due, way, r
  <2>5. /\ r \in Seq(Ways) /\ Len(r) = Len(q) - k + 1
        /\ r[Len(q) - k + 1] = q[k + (Len(q) - k + 1) - 1]
    BY <2>1, <2>3, <2>4
  <2>6. r # <<>> /\ q # <<>> /\ r[Len(r)] = q[Len(q)]
    <3>1. k + (Len(q) - k + 1) - 1 = Len(q) /\ Len(q) - k + 1 > 0
      BY <2>1, <2>3
    <3>2. r[Len(r)] = q[Len(q)]
      BY <2>5, <3>1
    <3>3. Len(r) # 0 /\ Len(q) # 0
      BY <2>1, <2>3, <2>5, <3>1
    <3> QED
      BY <3>2, <3>3
  <2>7. Last(r) = Last(q)
    BY <2>6 DEF Last
  <2>8. u = [t EXCEPT !.slides[n] = r, !.shown = @ \cup {n}]
    BY <1>2, <1>4
  <2> HIDE DEF u
  <2>9. /\ u \in Trees /\ Slid(t, u, n)
        /\ u.slides[n] = r /\ n \in u.shown
    BY <1>1, <2>5, <2>8 DEF Trees, Slid, Ways
  <2> QED
    BY <2>6, <2>7, <2>9 DEF u
<1> QED
  BY <1>3, <1>4

LEMMA SlideStep ==
  ASSUME NEW t \in Trees, FlagsOK(t), NEW n \in Nodes, NEW way \in Ways
  PROVE  LET u == Slide(t, n, way)
         IN  /\ u \in Trees /\ Slid(t, u, n) /\ FlagsOK(u)
             /\ \/ u.slides[n] # <<>> /\ Last(u.slides[n]) = way
                \/ /\ u.slides[n] = <<>> /\ u.shown = t.shown
                   /\ Displayed(t, n) <=> way = "down"
<1> DEFINE u == Slide(t, n, way)
<1>1. t.slides \in [Nodes -> Seq(Ways)] /\ t.slides[n] \in Seq(Ways)
  BY DEF Trees, Ways
<1>2. CASE t.slides[n] = <<>>
  <2> DEFINE q == <<way>>
  <2>1. q \in Seq(Ways) /\ q # <<>> /\ Last(q) = way /\ 1 \in DOMAIN q /\ q[1] = way
    BY DEF Last
  <2>2. u = Goes(t, n, q)
    BY <1>2 DEF Slide
  <2> HIDE DEF q, u
  <2>3. /\ u \in Trees /\ Slid(t, u, n)
        /\ \/ /\ u.slides[n] = <<>> /\ u.shown = t.shown
              /\ \A j \in DOMAIN q : q[j] # IF Displayed(t, n) THEN "up" ELSE "down"
           \/ u.slides[n] # <<>> /\ n \in u.shown /\ Last(u.slides[n]) = Last(q)
    BY <2>1, <2>2, GoesStep
  <2>4. FlagsOK(u)
    BY <2>3 DEF FlagsOK, Slid
  <2>5. CASE /\ u.slides[n] = <<>> /\ u.shown = t.shown
             /\ \A j \in DOMAIN q : q[j] # IF Displayed(t, n) THEN "up" ELSE "down"
    <3>1. way # IF Displayed(t, n) THEN "up" ELSE "down"
      BY <2>1, <2>5
    <3>2. Displayed(t, n) <=> way = "down"
      BY <3>1 DEF Ways
    <3> QED
      BY <2>3, <2>4, <2>5, <3>2 DEF u
  <2>6. CASE u.slides[n] # <<>> /\ Last(u.slides[n]) = Last(q)
    BY <2>1, <2>3, <2>4, <2>6 DEF u
  <2> QED
    BY <2>3, <2>5, <2>6
<1>3. CASE t.slides[n] # <<>>
  <2> DEFINE q == t.slides[n]
             r == Append(q, way)
  <2>1. r \in Seq(Ways) /\ r # <<>> /\ Last(r) = way
    <3>1. q \in Seq(Ways)
      BY <1>1
    <3> HIDE DEF q
    <3>2. r \in Seq(Ways) /\ Len(r) = Len(q) + 1 /\ r[Len(q) + 1] = way /\ Len(q) \in Nat
      BY <3>1
    <3>3. Len(r) # 0
      BY <3>2
    <3> QED
      BY <3>2, <3>3 DEF Last
  <2>2. u = [t EXCEPT !.slides[n] = r]
    BY <1>3 DEF Slide
  <2> HIDE DEF r, u
  <2>3. /\ u \in Trees /\ Slid(t, u, n)
        /\ u.slides[n] = r /\ u.shown = t.shown
    BY <1>1, <2>1, <2>2 DEF Trees, Slid, Ways
  <2>4. FlagsOK(u)
    BY <1>3, <2>3 DEF FlagsOK, Slid
  <2> QED
    BY <2>1, <2>3, <2>4 DEF u
<1> QED
  BY <1>2, <1>3

\* The lists of the other nodes are as they were.
LEMMA TailLast ==
  ASSUME NEW q \in Seq(Ways), q # <<>>
  PROVE  LET r == Tail(q)
         IN  /\ r \in Seq(Ways)
             /\ r # <<>> => Last(r) = Last(q)
             /\ r = <<>> => Last(q) = Head(q)
<1> DEFINE r == Tail(q)
<1>1. /\ r \in Seq(Ways) /\ Len(q) \in Nat /\ Len(q) > 0 /\ Len(r) = Len(q) - 1
      /\ \A i \in 1..Len(r) : r[i] = q[i + 1]
      /\ Head(q) = q[1]
  OBVIOUS
<1> HIDE DEF r
<1>2. ASSUME r # <<>> PROVE Last(r) = Last(q)
  <2>1. Len(r) \in 1..Len(r)
    BY <1>1, <1>2, EmptySeq
  <2>2. r[Len(r)] = q[Len(r) + 1] /\ Len(r) + 1 = Len(q)
    BY <1>1, <2>1
  <2> QED
    BY <2>2 DEF Last
<1>3. ASSUME r = <<>> PROVE Last(q) = Head(q)
  <2>1. Len(q) = 1
    BY <1>1, <1>3
  <2> QED
    BY <1>1, <2>1 DEF Last
<1> QED
  BY <1>1, <1>2, <1>3 DEF r

LEMMA OthersKept ==
  ASSUME NEW t, NEW u, NEW n, Slid(t, u, n), NEW s,
         \A m \in Nodes \ {n} : s.slides[m] = t.slides[m],
         s.shown \ {n} = t.shown \ {n}, s.expanded \ {n} = t.expanded \ {n},
         ~AsFlagged(u, n) =>
           \/ UpDue(s, n)
           \/ ~AsFlagged(s, n) /\ (n \in s.expanded <=> n \in u.expanded)
  PROVE  FlagsKept(s, u)
<1> SUFFICES ASSUME NEW m \in Nodes \ {n}, ~AsFlagged(u, m)
             PROVE  ~AsFlagged(s, m) /\ (m \in s.expanded <=> m \in u.expanded)
  BY DEF FlagsKept
<1>1. u.slides[m] = s.slides[m]
  BY DEF Slid
<1>2. u.shown \ {n} = s.shown \ {n} /\ u.expanded \ {n} = s.expanded \ {n} /\ m # n
  BY DEF Slid
<1>3. (m \in u.shown <=> m \in s.shown) /\ (m \in u.expanded <=> m \in s.expanded)
  BY <1>2
<1> QED
  BY <1>1, <1>3 DEF AsFlagged

LEMMA DisplayedItself ==
  ASSUME NEW t, NEW n \in Nodes, Displayed(t, n)
  PROVE  n \in t.shown
<1>1. n \in Seq(Int) /\ IsPrefix(n, n)
  BY NodeSeq DEF IsPrefix
<1> QED
  BY <1>1 DEF Displayed

LEMMA ExpandedTree ==
  ASSUME NEW t \in Trees, ItemsOnce(t), FlagsOK(t), NEW n \in Nodes, n \notin t.expanded
  PROVE  LET u == Slide([GetNodes(t, {n}) EXCEPT !.expanded = @ \cup {n}], n, "down")
         IN  /\ u \in Trees /\ ItemsOnce(u) /\ FlagsOK(u) /\ Grows(t, u)
             /\ u.visited = t.visited \cup {n} /\ u.expanded = t.expanded \cup {n}
             /\ u.selected = t.selected /\ FlagsKept(t, u)
<1> DEFINE g == GetNodes(t, {n})
           v == [g EXCEPT !.expanded = @ \cup {n}]
           u == Slide(v, n, "down")
<1>1. g \in Trees /\ ItemsOnce(g) /\ g.visited = t.visited \cup {n}
  BY NewItemsOnce
<1>2. /\ g.loaded = t.loaded /\ g.expanded = t.expanded /\ g.shown = t.shown
      /\ g.slides = t.slides
      /\ g.selected = t.selected /\ g.indexes = t.indexes /\ g.breadcrumbs = t.breadcrumbs
  BY DEF GetNodes, Trees
<1> HIDE DEF g
<1>3. /\ v \in Trees
      /\ v.loaded = g.loaded /\ v.visited = g.visited /\ v.made = g.made
      /\ v.expanded = g.expanded \cup {n} /\ v.shown = g.shown /\ v.slides = g.slides
      /\ v.selected = g.selected /\ v.indexes = g.indexes /\ v.breadcrumbs = g.breadcrumbs
  BY <1>1 DEF Trees
<1> HIDE DEF v
<1>4. FlagsOK(v)
  BY <1>1, <1>2, <1>3 DEF FlagsOK
<1>5. "down" \in Ways
  BY DEF Ways
<1>6. /\ u \in Trees /\ Slid(v, u, n) /\ FlagsOK(u)
      /\ \/ u.slides[n] # <<>> /\ Last(u.slides[n]) = "down"
         \/ u.slides[n] = <<>> /\ u.shown = v.shown /\ Displayed(v, n)
  BY <1>3, <1>4, <1>5, SlideStep
<1> HIDE DEF u
<1>7. n \in u.expanded /\ AsFlagged(u, n)
  <2>1. n \in u.expanded
    BY <1>3, <1>6 DEF Slid
  <2> QED
    BY <1>6, <2>1, DisplayedItself DEF AsFlagged
<1>8. FlagsKept(t, u)
  <2>1. /\ \A m \in Nodes \ {n} : t.slides[m] = v.slides[m]
        /\ t.shown \ {n} = v.shown \ {n} /\ t.expanded \ {n} = v.expanded \ {n}
    BY <1>2, <1>3
  <2> QED
    BY <1>6, <1>7, <2>1, OthersKept
<1>9. ItemsOnce(u)
  BY <1>1, <1>3, <1>6 DEF ItemsOnce, Slid
<1>10. Grows(t, u) /\ u.visited = t.visited \cup {n} /\ u.expanded = t.expanded \cup {n}
       /\ u.selected = t.selected
  BY <1>1, <1>2, <1>3, <1>6 DEF Grows, Slid
<1> QED
  BY <1>6, <1>8, <1>9, <1>10 DEF u, v, g

LEMMA ExpandNodeStep ==
  ASSUME NEW t \in Trees, ItemsOnce(t), FlagsOK(t), NEW n \in Nodes
  PROVE  Stepped(t, ExpandNode(t, n))
<1> DEFINE o == ExpandNode(t, n)
           u == Slide([GetNodes(t, {n}) EXCEPT !.expanded = @ \cup {n}], n, "down")
<1>1. CASE o = Asks(t, {})
  <2>1. OutcomeOK(t, o) /\ o.tree = t
    BY <1>1, AsksOutcome, SelfGrows
  <2> QED
    BY <2>1, SteppedFrom, SelfGrows, DisplaysKept
<1>2. CASE Waits(t, n) /\ o = Asks(t, {ExpandCB(n)})
  <2>1. CallbackOK(t, ExpandCB(n))
    BY <1>2 DEF CallbackOK, ExpandCB, Waits
  <2>2. OutcomeOK(t, o) /\ o.tree = t
    BY <1>2, <2>1, AsksOutcome, SelfGrows
  <2> QED
    BY <2>2, SteppedFrom, SelfGrows, DisplaysKept
<1>3. CASE n \notin t.expanded /\ o = Asks(u, {})
  <2>1. u \in Trees /\ ItemsOnce(u) /\ FlagsOK(u) /\ Grows(t, u) /\ FlagsKept(t, u)
    BY <1>3, ExpandedTree
  <2> HIDE DEF u
  <2>2. OutcomeOK(t, o) /\ o.tree = u
    BY <1>3, <2>1, AsksOutcome
  <2> QED
    BY <2>1, <2>2, SteppedFrom
<1> QED
  BY <1>1, <1>2, <1>3 DEF ExpandNode

LEMMA NavToStep ==
  ASSUME NEW t \in Trees, ItemsOnce(t), FlagsOK(t),
         NEW u \in URL, navpath \in URL \cup {NoLink}
  PROVE  Stepped(t, NavTo(t, u)) /\ Leading(NavTo(t, u))
<1> DEFINE v == NavTarget(u)
           o == NavTo(t, u)
<1>1. v \in Targets
  BY DEF NavTarget, Targets, cachedLink
<1> HIDE DEF v
<1>2. CASE o = GotoNode(t, v)
  BY <1>2, GotoNodeStep
<1>3. CASE o = Asks(t, {GotoCB(v)})
  <2> DEFINE c == GotoCB(v)
  <2>1. c.kind = "goto" /\ c.url = v
    BY DEF GotoCB
  <2> HIDE DEF c
  <2>2. CallbackOK(t, c) /\ Leads(t, c)
    BY <1>1, <2>1 DEF CallbackOK, Leads
  <2> DEFINE C == {c}
  <2>4. (\A d \in C : CallbackOK(t, d)) /\ \E d \in C : Leads(t, d)
    BY <2>2
  <2>5. o = Asks(t, C)
    BY <1>3 DEF c
  <2> HIDE DEF o, C
  <2>3. OutcomeOK(t, o) /\ Leading(o) /\ o.tree = t
    BY <2>4, <2>5, AsksOutcome, SelfGrows
  <2> QED
    BY <2>3, SteppedFrom, SelfGrows, DisplaysKept DEF o
<1> QED
  BY <1>2, <1>3 DEF NavTo, v

LEMMA RunStep ==
  ASSUME NEW t \in Trees, ItemsOnce(t), FlagsOK(t), NEW c, CallbackOK(t, c)
  PROVE  Stepped(t, Run(t, c)) /\ (Leads(t, c) => Leading(Run(t, c)))
<1> DEFINE o == Run(t, c)
<1>1. CASE c.kind = "goto" /\ c.url \in Targets
  <2> DEFINE s == [t EXCEPT !.indexes = @ \cup {SubIndexOf(c.url)}]
  <2>1. /\ s \in Trees /\ s.loaded = t.loaded /\ s.visited = t.visited /\ s.made = t.made
        /\ s.expanded = t.expanded /\ s.shown = t.shown /\ s.slides = t.slides
        /\ s.selected = t.selected
    BY <1>1 DEF Trees
  <2>2. o = GotoNode(s, c.url)
    BY <1>1 DEF Run
  <2> HIDE DEF s, o
  <2>3. ItemsOnce(s) /\ FlagsOK(s)
    BY <2>1 DEF ItemsOnce, FlagsOK
  <2>4. Stepped(s, o) /\ Leading(o)
    BY <2>1, <2>2, <2>3, GotoNodeStep
  <2>5. FlagsKept(t, o.tree)
    BY <2>1, <2>4, SameFlags DEF Stepped
  <2> QED
    BY <2>1, <2>4, <2>5 DEF Stepped, o
<1>2. CASE c.kind = "show" /\ c.node \in Scripted /\ c.index \in Nat
  <2> DEFINE s == [t EXCEPT !.loaded = @ \cup {c.node}]
  <2>1. /\ s \in Trees /\ s.loaded = t.loaded \cup {c.node}
        /\ s.visited = t.visited /\ s.made = t.made
        /\ s.expanded = t.expanded /\ s.shown = t.shown /\ s.slides = t.slides
        /\ s.selected = t.selected
        /\ s.breadcrumbs = t.breadcrumbs
    BY <1>2 DEF Trees
  <2>2. o = ShowNode(s, c.node, c.index, c.hash)
    BY <1>2 DEF Run
  <2> HIDE DEF s, o
  <2>3. ItemsOnce(s) /\ FlagsOK(s)
    BY <2>1 DEF ItemsOnce, FlagsOK
  <2>4. /\ OutcomeOK(s, o) /\ Displays(s, o.tree)
        /\ c.index < Len(s.breadcrumbs) /\ c.node = SubSeq(s.breadcrumbs, 1, c.index) => Leading(o)
    <3>1. c.node \in Nodes
      BY <1>2, NodeSeq
    <3> QED
      BY <1>2, <2>1, <2>2, <2>3, <3>1, ShowNodeOutcome
  <2>5. Leads(t, c) => Leading(o)
    BY <1>2, <2>1, <2>4 DEF Leads
  <2>6. FlagsKept(t, o.tree)
    BY <2>1, <2>4, DisplaysKept, SameFlags
  <2>7. Stepped(t, o)
    BY <2>1, <2>4, <2>6, SteppedFrom
  <2> QED
    BY <2>5, <2>7 DEF o
<1>3. CASE /\ c.kind = "retry" /\ c.node \in Nodes /\ c.index \in Nat
           /\ c.child \in Scripted
           /\ HasChildrenHere(t, c.node)
  <2> DEFINE s == [t EXCEPT !.loaded = @ \cup {c.child}, !.expanded = @ \ {c.node}]
  <2>1. /\ s \in Trees /\ s.loaded = t.loaded \cup {c.child}
        /\ s.visited = t.visited /\ s.made = t.made
        /\ s.expanded = t.expanded \ {c.node} /\ s.shown = t.shown /\ s.slides = t.slides
        /\ s.selected = t.selected
        /\ s.breadcrumbs = t.breadcrumbs
    BY <1>3 DEF Trees
  <2>2. o = ShowNode(s, c.node, c.index, c.hash)
    BY <1>3 DEF Run
  <2> HIDE DEF s, o
  <2>3. ItemsOnce(s) /\ FlagsOK(s)
    BY <2>1 DEF ItemsOnce, FlagsOK
  <2>4. HasChildrenHere(s, c.node)
    BY <1>3, <2>1 DEF HasChildrenHere, Waits
  <2>5. /\ OutcomeOK(s, o) /\ Displays(s, o.tree) /\ c.node \in o.tree.expanded
        /\ c.index < Len(s.breadcrumbs) /\ c.node = SubSeq(s.breadcrumbs, 1, c.index) => Leading(o)
    BY <1>3, <2>1, <2>2, <2>3, <2>4, ShowNodeOutcome
  <2>6. Leads(t, c) => Leading(o)
    BY <1>3, <2>1, <2>5 DEF Leads
  <2>7. FlagsKept(t, o.tree)
    <3>1. Displays(t, o.tree)
      BY <2>1, <2>5 DEF Displays
    <3> QED
      BY <3>1, DisplaysKept
  <2>8. Stepped(t, o)
    BY <2>1, <2>5, <2>7, SteppedFrom
  <2> QED
    BY <2>6, <2>8 DEF o
<1>4. CASE c.kind = "expand" /\ c.node \in Scripted
  <2> DEFINE s == [t EXCEPT !.loaded = @ \cup {c.node}]
  <2>1. /\ s \in Trees /\ s.loaded = t.loaded \cup {c.node}
        /\ s.visited = t.visited /\ s.made = t.made
        /\ s.expanded = t.expanded /\ s.shown = t.shown /\ s.slides = t.slides
        /\ s.selected = t.selected
        /\ s.breadcrumbs = t.breadcrumbs
    BY <1>4 DEF Trees
  <2>2. o = ExpandNode(s, c.node)
    BY <1>4 DEF Run
  <2> HIDE DEF s, o
  <2>3. ItemsOnce(s) /\ FlagsOK(s)
    BY <2>1 DEF ItemsOnce, FlagsOK
  <2>4. Stepped(s, o)
    BY <1>4, <2>1, <2>2, <2>3, ExpandNodeStep, NodeSeq
  <2>5. FlagsKept(t, o.tree)
    BY <2>1, <2>4, SameFlags DEF Stepped
  <2>6. Stepped(t, o) /\ ~Leads(t, c)
    BY <1>4, <2>1, <2>4, <2>5 DEF Stepped, Leads
  <2> QED
    BY <2>6 DEF o
<1> QED
  BY <1>1, <1>2, <1>3, <1>4 DEF CallbackOK

(***************************************************************************)
(* The scrolls that will set the location.                                 *)
(***************************************************************************)
LEMMA ClickedFinite ==
  ASSUME NEW a \in Seq(Hashes \cup {NoLink})
  PROVE  IsFiniteSet(Clicked(a)) /\ Cardinality(Clicked(a)) \in Nat
<1>1. IsFiniteSet(1..Len(a))
  BY FS_Interval
<1>2. Clicked(a) \in SUBSET (1..Len(a))
  BY DEF Clicked
<1>3. IsFiniteSet(Clicked(a))
  BY <1>1, <1>2, FS_Subset
<1> QED
  BY <1>3, FS_CardinalityType

LEMMA ClickedMore ==
  ASSUME NEW a \in Seq(Hashes \cup {NoLink}), NEW h \in Hashes \cup {NoLink}
  PROVE  LET b == Append(a, h)
         IN  /\ b \in Seq(Hashes \cup {NoLink})
             /\ \A i \in Clicked(b) : (i \in Clicked(a) /\ b[i] = a[i]) \/ (b[i] = h /\ h # NoLink)
             /\ Cardinality(Clicked(b)) <= Cardinality(Clicked(a)) + 1
             /\ h = NoLink => Cardinality(Clicked(b)) <= Cardinality(Clicked(a))
<1> DEFINE b == Append(a, h)
           n == Len(a) + 1
<1>1. /\ b \in Seq(Hashes \cup {NoLink}) /\ Len(a) \in Nat /\ Len(b) = n
      /\ \A i \in 1..Len(a) : b[i] = a[i]
      /\ b[n] = h
  OBVIOUS
<1>2. DOMAIN a = 1..Len(a) /\ DOMAIN b = 1..n
  BY <1>1
<1> HIDE DEF b
<1>3. \A i \in Clicked(b) : (i \in Clicked(a) /\ b[i] = a[i]) \/ (i = n /\ b[i] = h /\ h # NoLink)
  <2> SUFFICES ASSUME NEW i \in Clicked(b)
               PROVE  (i \in Clicked(a) /\ b[i] = a[i]) \/ (i = n /\ b[i] = h /\ h # NoLink)
    OBVIOUS
  <2>1. i \in 1..n /\ b[i] # NoLink
    BY <1>2 DEF Clicked
  <2>2. CASE i = n
    BY <1>1, <2>1, <2>2
  <2>3. CASE i # n
    <3>1. i \in 1..Len(a)
      BY <1>1, <2>1, <2>3
    <3>2. i \in DOMAIN a /\ b[i] = a[i]
      BY <1>1, <1>2, <3>1
    <3>3. a[i] # NoLink
      BY <2>1, <3>2
    <3>4. i \in Clicked(a)
      BY <3>2, <3>3, Zenon DEF Clicked
    <3> QED
      BY <3>2, <3>4
  <2> QED
    BY <2>2, <2>3
<1>4. Clicked(b) \subseteq Clicked(a) \cup {n} /\ (h = NoLink => Clicked(b) \subseteq Clicked(a))
  BY <1>3
<1>5. /\ IsFiniteSet(Clicked(a)) /\ Cardinality(Clicked(a)) \in Nat
      /\ IsFiniteSet(Clicked(b)) /\ Cardinality(Clicked(b)) \in Nat
  BY <1>1, ClickedFinite
<1>6. /\ IsFiniteSet(Clicked(a) \cup {n}) /\ Cardinality(Clicked(a) \cup {n}) \in Nat
      /\ Cardinality(Clicked(a) \cup {n}) <= Cardinality(Clicked(a)) + 1
  <2> HIDE DEF n
  <2>1. /\ IsFiniteSet(Clicked(a) \cup {n})
        /\ Cardinality(Clicked(a) \cup {n}) =
             IF n \in Clicked(a) THEN Cardinality(Clicked(a)) ELSE Cardinality(Clicked(a)) + 1
    BY <1>5, FS_AddElement
  <2> QED
    BY <1>5, <2>1
<1>7. Cardinality(Clicked(b)) <= Cardinality(Clicked(a) \cup {n})
  BY <1>4, <1>6, FS_Subset
<1>8. h = NoLink => Cardinality(Clicked(b)) <= Cardinality(Clicked(a))
  BY <1>4, <1>5, FS_Subset
<1>9. Cardinality(Clicked(b)) <= Cardinality(Clicked(a)) + 1
  BY <1>5, <1>6, <1>7
<1> QED
  BY <1>1, <1>3, <1>8, <1>9 DEF b

LEMMA ClickedTail ==
  ASSUME NEW a \in Seq(Hashes \cup {NoLink}), a # <<>>
  PROVE  LET b == Tail(a)
         IN  /\ b \in Seq(Hashes \cup {NoLink})
             /\ \A i \in Clicked(b) : i + 1 \in Clicked(a) /\ b[i] = a[i + 1]
             /\ Cardinality(Clicked(b)) <= Cardinality(Clicked(a))
             /\ Head(a) # NoLink => /\ 1 \in Clicked(a) /\ a[1] = Head(a)
                                    /\ Cardinality(Clicked(b)) + 1 <= Cardinality(Clicked(a))
             /\ Head(a) \in Hashes \cup {NoLink}
<1> DEFINE b == Tail(a)
           S == Clicked(a) \ {1}
           f == [i \in Clicked(b) |-> i + 1]
<1>1. /\ b \in Seq(Hashes \cup {NoLink}) /\ Len(a) \in Nat /\ Len(a) > 0 /\ Len(b) = Len(a) - 1
      /\ \A i \in 1..Len(b) : b[i] = a[i + 1]
      /\ Head(a) = a[1] /\ a[1] \in Hashes \cup {NoLink}
  OBVIOUS
<1>2. DOMAIN a = 1..Len(a) /\ DOMAIN b = 1..Len(b)
  BY <1>1
<1> HIDE DEF b
<1>3. \A i \in Clicked(b) : i \in Nat /\ i + 1 \in S /\ b[i] = a[i + 1]
  BY <1>1, <1>2 DEF Clicked
<1>4. /\ IsFiniteSet(Clicked(a)) /\ Cardinality(Clicked(a)) \in Nat
      /\ IsFiniteSet(Clicked(b)) /\ Cardinality(Clicked(b)) \in Nat
  BY <1>1, ClickedFinite
<1>5. /\ IsFiniteSet(S)
      /\ Cardinality(S) = IF 1 \in Clicked(a) THEN Cardinality(Clicked(a)) - 1 ELSE Cardinality(Clicked(a))
  BY <1>4, FS_RemoveElement
<1>6. f \in Injection(Clicked(b), S)
  <2>1. f \in [Clicked(b) -> S]
    BY <1>3
  <2>2. \A i, j \in Clicked(b) : f[i] = f[j] => i = j
    BY <1>3
  <2> QED
    BY <2>1, <2>2 DEF Injection, IsInjective
<1>7. Cardinality(Clicked(b)) <= Cardinality(S)
  BY <1>5, <1>6, FS_Injection
<1>8. Head(a) # NoLink => 1 \in Clicked(a)
  BY <1>1, <1>2 DEF Clicked
<1>9. /\ Cardinality(Clicked(b)) <= Cardinality(Clicked(a))
      /\ Head(a) # NoLink => Cardinality(Clicked(b)) + 1 <= Cardinality(Clicked(a))
  BY <1>4, <1>5, <1>7, <1>8
<1> QED
  BY <1>1, <1>3, <1>8, <1>9 DEF b

(***************************************************************************)
(* The invariant: initially, and after every event.                        *)
(***************************************************************************)
\* The selected item, or the callback that will select one.
Led == \/ tree.selected # {}
       \/ \E c \in BagToSet(pending) : Leads(tree, c)

\* What the invariant says of the location and its scrolls.
Browser ==
  /\ Location \in URL
  /\ navpath \in URL \cup {NoLink}
  /\ sync = (navpath = NoLink)
  /\ {ready, animationInProgress, retrying, disturbed} \subseteq BOOLEAN
  /\ lag \in Targets \cup {NoLink} /\ (lag # NoLink => ready)
  /\ events \in Nat
  /\ animation \in Seq(Hashes \cup {NoLink})
  /\ \A i \in Clicked(animation) : <<page, animation[i]>> \in URL
  /\ events + Cardinality(Clicked(animation)) <= MAX_EVENTS

\* And of the tree and its callbacks.
Panel ==
  /\ tree \in Trees /\ ItemsOnce(tree) /\ FlagsOK(tree)
  /\ IsABag(pending)
  /\ \A c \in BagToSet(pending) : CallbackOK(tree, c)

LEMMA IInvParts == IInv <=> Browser /\ Panel /\ (ready => Led)
BY DEF IInv, Browser, Panel, Led

LEMMA CallbackStays ==
  ASSUME NEW t, NEW u, t.loaded \subseteq u.loaded, NEW c, CallbackOK(t, c)
  PROVE  CallbackOK(u, c)
BY DEF CallbackOK, HasChildrenHere, Waits

LEMMA NewTreeOK ==
  NewTree \in Trees /\ ItemsOnce(NewTree) /\ FlagsOK(NewTree)
<1> DEFINE t == NewTree
<1>1. /\ t.loaded = {} /\ t.visited = {} /\ t.expanded = {} /\ t.shown = {<<>>}
      /\ t.selected = {} /\ t.indexes = {} /\ t.breadcrumbs = <<>>
      /\ t.made = [n \in Nodes |-> 0] /\ t.slides = [n \in Nodes |-> <<>>]
  BY DEF NewTree
<1>2. t \in Trees
  <2>1. <<>> \in Seq({"up", "down"})
    BY EmptySeq
  <2> QED
    BY <2>1, NodeSeq DEF NewTree, Trees
<1> HIDE DEF t
<1>3. ItemsOnce(t) /\ FlagsOK(t)
  BY <1>1 DEF ItemsOnce, FlagsOK
<1> QED
  BY <1>2, <1>3 DEF t

LEMMA NoBag == IsABag(EmptyBag) /\ BagToSet(EmptyBag) = {}
BY DEF EmptyBag, SetToBag, IsABag, BagToSet

LEMMA NoScroll ==
  /\ <<>> \in Seq(Hashes \cup {NoLink})
  /\ Clicked(<<>>) = {}
  /\ 0 + Cardinality(Clicked(<<>>)) <= MAX_EVENTS
<1>1. Clicked(<<>>) = {}
  BY DEF Clicked
<1>2. Cardinality({}) = 0 /\ 0 + 0 <= MAX_EVENTS
  BY FS_EmptySet, LocationAssumption
<1>3. <<>> \in Seq(Hashes \cup {NoLink})
  OBVIOUS
<1> QED
  BY <1>1, <1>2, <1>3, Zenon

LEMMA InitIInv == Init => IInv
<1> SUFFICES ASSUME Init PROVE IInv
  OBVIOUS
<1>1. Location \in URL
  <2>1. PICK u \in URL : page = u[1] /\ hash = u[2]
    BY DEF Init
  <2>2. u = <<u[1], u[2]>>
    BY LocationAssumption
  <2> QED
    BY <2>1, <2>2 DEF Location
<1>2. navpath \in URL \cup {NoLink}
  BY TreeAssumption DEF Init
<1>3. Browser
  BY <1>1, <1>2, NoScroll DEF Init, Browser
<1>4. Panel
  BY NewTreeOK, NoBag DEF Init, Panel
<1> QED
  BY <1>3, <1>4, IInvParts DEF Init

\* Another page.
LEMMA LoadPageStep ==
  ASSUME IInv, NEW u \in URL, NEW link \in URL \cup {NoLink}, LoadPage(u, link)
  PROVE  IInv' /\ FlagsKept(tree, tree')
<1>1. Location' \in URL
  <2>1. u = <<u[1], u[2]>>
    BY LocationAssumption
  <2> QED
    BY <2>1 DEF Location, LoadPage
<1>2. Browser'
  BY <1>1, NoScroll DEF LoadPage, Browser
<1>3. Panel'
  BY NewTreeOK, NoBag DEF LoadPage, Panel
<1>4. ~ready'
  BY DEF LoadPage
<1>5. FlagsKept(tree, tree')
  <2>1. /\ tree' = NewTree /\ NewTree.expanded = {} /\ NewTree.shown = {<<>>}
        /\ NewTree.slides = [n \in Nodes |-> <<>>]
    BY DEF LoadPage, NewTree
  <2>2. \A n \in Nodes \ {<<>>} : AsFlagged(NewTree, n)
    BY <2>1 DEF AsFlagged
  <2> QED
    BY <2>1, <2>2 DEF FlagsKept
<1> QED
  BY <1>2, <1>3, <1>4, <1>5 DEF IInv, Browser, Panel

\* A handler that ends.  t is the tree it began with, whose items may have been
\* deselected; bag holds the callbacks that still wait.
LEMMA EndsStep ==
  ASSUME IInv, NEW t, t.loaded = tree.loaded, NEW o, Stepped(t, o),
         NEW bag, IsABag(bag), BagToSet(bag) \subseteq BagToSet(pending),
         Ends(o, bag), Location' \in URL, UNCHANGED <<page, navpath, sync>>,
         ready' \in BOOLEAN, disturbed' \in BOOLEAN,
         events' \in Nat, events' <= events,
         lag' \in Targets \cup {NoLink}, lag' # NoLink => ready',
         \/ Leading(o)
         \/ /\ t.breadcrumbs = tree.breadcrumbs
            /\ tree.selected \subseteq t.selected
            /\ ready' => ready
            /\ \A c \in BagToSet(pending) : Leads(tree, c) => c \in BagToSet(bag)
  PROVE  IInv' /\ FlagsKept(t, tree')
<1> USE DEF IInv
<1>1. /\ animation' \in Seq(Hashes \cup {NoLink})
      /\ \A i \in Clicked(animation') : <<page', animation'[i]>> \in URL
      /\ Cardinality(Clicked(animation')) <= Cardinality(Clicked(animation))
      /\ Cardinality(Clicked(animation')) \in Nat
  <2>1. CASE o.scroll
    <3>1. animation' = Append(animation, NoLink)
      BY <2>1 DEF Ends
    <3>2. NoLink \in Hashes \cup {NoLink} /\ animation \in Seq(Hashes \cup {NoLink})
      OBVIOUS
    <3>3. /\ animation' \in Seq(Hashes \cup {NoLink})
          /\ \A i \in Clicked(animation') : i \in Clicked(animation) /\ animation'[i] = animation[i]
          /\ Cardinality(Clicked(animation')) <= Cardinality(Clicked(animation))
      BY <3>1, <3>2, ClickedMore
    <3> QED
      BY <3>3, ClickedFinite
  <2>2. CASE ~o.scroll
    <3>1. animation' = animation
      BY <2>2 DEF Ends
    <3> QED
      BY <3>1, ClickedFinite
  <2> QED
    BY <2>1, <2>2
<1>2. animationInProgress' \in BOOLEAN /\ retrying' \in BOOLEAN
  BY DEF Ends, Stepped
<1> HIDE DEF IInv
<1>3. Browser'
  <2>1. events' + Cardinality(Clicked(animation')) <= MAX_EVENTS
    <3>1. Cardinality(Clicked(animation)) \in Nat
      BY ClickedFinite DEF IInv
    <3> QED
      BY <1>1, <3>1, LocationAssumption DEF IInv
  <2> QED
    BY <1>1, <1>2, <2>1 DEF Browser, Location, IInv
<1>4. /\ IsABag(pending') /\ BagToSet(pending') = BagToSet(bag) \cup o.scripts
      /\ tree' = o.tree
  BY BagAdd DEF Ends
<1>5. ASSUME NEW c \in BagToSet(pending') PROVE CallbackOK(tree', c)
  <2>1. CASE c \in o.scripts
    BY <1>4, <2>1 DEF Stepped
  <2>2. CASE c \in BagToSet(bag)
    <3>1. CallbackOK(tree, c) /\ tree.loaded \subseteq tree'.loaded
      BY <1>4, <2>2 DEF Stepped, IInv
    <3> QED
      BY <3>1, CallbackStays
  <2> QED
    BY <1>4, <1>5, <2>1, <2>2
<1>6. Panel'
  BY <1>4, <1>5 DEF Panel, Stepped
<1>7. ready' => Led'
  <2>1. CASE Leading(o)
    BY <1>4, <2>1 DEF Leading, Led
  <2>2. CASE ~Leading(o) /\ ready'
    <3>1. /\ tree'.breadcrumbs = tree.breadcrumbs /\ tree.selected \subseteq tree'.selected
          /\ ready /\ \A c \in BagToSet(pending) : Leads(tree, c) => c \in BagToSet(bag)
      BY <1>4, <2>2 DEF Stepped
    <3>2. \A c : Leads(tree, c) <=> Leads(tree', c)
      BY <3>1 DEF Leads
    <3>3. CASE tree.selected # {}
      BY <3>1, <3>3 DEF Led
    <3>4. CASE \E c \in BagToSet(pending) : Leads(tree, c)
      <4>1. PICK c \in BagToSet(pending) : Leads(tree, c)
        BY <3>4
      <4>2. c \in BagToSet(pending') /\ Leads(tree', c)
        BY <1>4, <3>1, <3>2, <4>1
      <4> QED
        BY <4>2 DEF Led
    <3> QED
      BY <3>1, <3>3, <3>4 DEF IInv
  <2> QED
    BY <2>1, <2>2
<1> QED
  BY <1>3, <1>4, <1>6, <1>7 DEF IInv, Browser, Panel, Led, Stepped

LEMMA DeselectedOK ==
  ASSUME NEW t \in Trees, ItemsOnce(t), FlagsOK(t)
  PROVE  LET u == Deselected(t)
         IN  /\ u \in Trees /\ ItemsOnce(u) /\ FlagsOK(u)
             /\ u.loaded = t.loaded /\ u.breadcrumbs = t.breadcrumbs
             /\ u.expanded = t.expanded /\ u.shown = t.shown /\ u.slides = t.slides
<1> DEFINE u == Deselected(t)
<1>1. /\ u \in Trees /\ u.loaded = t.loaded /\ u.visited = t.visited /\ u.made = t.made
      /\ u.expanded = t.expanded /\ u.shown = t.shown /\ u.slides = t.slides
      /\ u.breadcrumbs = t.breadcrumbs
  BY DEF Deselected, Trees
<1> HIDE DEF u
<1>2. ItemsOnce(u) /\ FlagsOK(u)
  BY <1>1 DEF ItemsOnce, FlagsOK
<1> QED
  BY <1>1, <1>2 DEF u

LEMMA WindowLoadStep == IInv /\ WindowLoad => IInv' /\ FlagsKept(tree, tree')
<1> SUFFICES ASSUME IInv, WindowLoad PROVE IInv' /\ FlagsKept(tree, tree')
  OBVIOUS
<1> DEFINE n == NavTo(tree, Location)
           o == [n EXCEPT !.showRoot = TRUE]
<1>1. /\ tree \in Trees /\ ItemsOnce(tree) /\ FlagsOK(tree) /\ IsABag(pending)
      /\ navpath \in URL \cup {NoLink} /\ Location \in URL
      /\ events \in Nat /\ disturbed \in BOOLEAN
  BY DEF IInv
<1>2. Stepped(tree, n) /\ Leading(n)
  BY <1>1, NavToStep
<1>3. n \in [tree : {n.tree}, scripts : {n.scripts}, scroll : {n.scroll}, showRoot : {n.showRoot}]
  BY DEF NavTo, GotoNode, ShowNode, Asks, SelectAndHighlight, Outcome
<1> HIDE DEF n
<1>4. /\ o.tree = n.tree /\ o.scripts = n.scripts /\ o.scroll = n.scroll /\ o.showRoot = TRUE
  BY <1>3
<1> HIDE DEF o
<1>5. Stepped(tree, o) /\ Leading(o)
  BY <1>2, <1>4 DEF Stepped, Leading
<1>6. /\ Ends(o, pending) /\ ready' \in BOOLEAN
      /\ disturbed' \in BOOLEAN /\ lag' = NoLink
      /\ UNCHANGED <<page, hash, navpath, sync, events>>
  BY <1>1 DEF WindowLoad, o, n, Busy
<1>7. Location' \in URL /\ events' \in Nat /\ events' <= events
  BY <1>1, <1>6 DEF Location
<1> QED
  BY <1>1, <1>5, <1>6, <1>7, EndsStep

LEMMA HashChangeStep == IInv /\ HashChange => IInv' /\ FlagsKept(tree, tree')
<1> SUFFICES ASSUME IInv, HashChange PROVE IInv' /\ FlagsKept(tree, tree')
  OBVIOUS
<1>1. /\ tree \in Trees /\ ItemsOnce(tree) /\ FlagsOK(tree) /\ IsABag(pending)
      /\ navpath \in URL \cup {NoLink} /\ Location \in URL
      /\ events \in Nat /\ disturbed \in BOOLEAN /\ ready \in BOOLEAN
  BY DEF IInv
<1>2. /\ UNCHANGED <<page, hash, navpath, sync, ready>>
      /\ events > 0 /\ events' = events - 1
      /\ disturbed' \in BOOLEAN /\ lag' = NoLink
  BY <1>1 DEF HashChange, Busy
<1>3. Location' \in URL /\ events' \in Nat /\ events' <= events /\ ready' \in BOOLEAN
  BY <1>1, <1>2 DEF Location
<1>4. CASE hash # NoHash \/ ~animationInProgress
  <2>1. PICK t \in {tree, Deselected(tree)} : Ends(NavTo(t, Location), pending)
    BY <1>4 DEF HashChange
  <2>2. /\ t \in Trees /\ ItemsOnce(t) /\ FlagsOK(t) /\ t.loaded = tree.loaded
        /\ t.expanded = tree.expanded /\ t.shown = tree.shown /\ t.slides = tree.slides
    BY <1>1, DeselectedOK
  <2> DEFINE o == NavTo(t, Location)
  <2>3. Stepped(t, o) /\ Leading(o)
    BY <1>1, <2>2, NavToStep
  <2>4. Ends(o, pending)
    BY <2>1
  <2> HIDE DEF o
  <2>5. IInv' /\ FlagsKept(t, tree')
    BY <1>1, <1>2, <1>3, <2>2, <2>3, <2>4, EndsStep
  <2> QED
    BY <2>2, <2>5, SameFlags
<1>5. CASE ~(hash # NoHash \/ ~animationInProgress)
  <2>1. UNCHANGED <<tree, pending, animation, animationInProgress, retrying>>
    BY <1>5 DEF HashChange
  <2>2. Cardinality(Clicked(animation)) \in Nat
    BY ClickedFinite DEF IInv
  <2>3. events' + Cardinality(Clicked(animation)) <= MAX_EVENTS
    BY <1>2, <1>3, <2>2, LocationAssumption DEF IInv
  <2> QED
    BY <1>1, <1>2, <1>3, <2>1, <2>3, KeptItself DEF IInv, Location
<1> QED
  BY <1>4, <1>5

LEMMA ScriptArrivesStep ==
  ASSUME IInv, NEW c \in BagToSet(pending), ScriptArrives(c)
  PROVE  IInv' /\ FlagsKept(tree, tree')
<1> DEFINE o == Run(tree, c)
           bag == pending (-) SetToBag({c})
<1>1. /\ tree \in Trees /\ ItemsOnce(tree) /\ FlagsOK(tree) /\ IsABag(pending)
      /\ CallbackOK(tree, c)
      /\ events \in Nat /\ disturbed \in BOOLEAN /\ ready \in BOOLEAN /\ Location \in URL
      /\ lag \in Targets \cup {NoLink} /\ (lag # NoLink => ready)
  BY DEF IInv
<1>2. Stepped(tree, o) /\ (Leads(tree, c) => Leading(o))
  BY <1>1, RunStep
<1>3. IsABag(bag) /\ BagToSet(bag) \subseteq BagToSet(pending)
      /\ BagToSet(pending) \ {c} \subseteq BagToSet(bag)
  BY <1>1, BagRemove
<1>4. /\ Ends(o, bag)
      /\ UNCHANGED <<page, hash, navpath, sync, ready, events, disturbed, lag>>
  BY DEF ScriptArrives
<1> HIDE DEF o, bag
<1>5. /\ Location' \in URL /\ events' \in Nat /\ events' <= events
      /\ ready' \in BOOLEAN /\ disturbed' \in BOOLEAN /\ UNCHANGED <<page, navpath, sync>>
      /\ tree.loaded = tree.loaded
      /\ lag' \in Targets \cup {NoLink} /\ (lag' # NoLink => ready')
  BY <1>1, <1>4 DEF Location
<1>6. \/ Leading(o)
      \/ /\ tree.breadcrumbs = tree.breadcrumbs
         /\ tree.selected \subseteq tree.selected
         /\ ready' => ready
         /\ \A d \in BagToSet(pending) : Leads(tree, d) => d \in BagToSet(bag)
  BY <1>2, <1>3, <1>4
<1> QED
  BY <1>2, <1>3, <1>4, <1>5, <1>6, EndsStep

LEMMA AnimationEndsStep == IInv /\ AnimationEnds => IInv' /\ FlagsKept(tree, tree')
<1> SUFFICES ASSUME IInv, AnimationEnds PROVE IInv' /\ FlagsKept(tree, tree')
  OBVIOUS
<1>1. /\ animation \in Seq(Hashes \cup {NoLink}) /\ animation # <<>>
      /\ animation' = Tail(animation)
      /\ UNCHANGED <<page, navpath, sync, ready, tree, pending, retrying, disturbed, lag>>
      /\ animationInProgress' \in BOOLEAN
      /\ \A i \in Clicked(animation) : <<page, animation[i]>> \in URL
      /\ events \in Nat /\ Location \in URL
      /\ events + Cardinality(Clicked(animation)) <= MAX_EVENTS
  BY DEF IInv, AnimationEnds
<1> DEFINE b == Tail(animation)
<1>2. /\ b \in Seq(Hashes \cup {NoLink})
      /\ \A i \in Clicked(b) : i + 1 \in Clicked(animation) /\ b[i] = animation[i + 1]
      /\ Cardinality(Clicked(b)) <= Cardinality(Clicked(animation))
      /\ Head(animation) # NoLink =>
           /\ 1 \in Clicked(animation) /\ animation[1] = Head(animation)
           /\ Cardinality(Clicked(b)) + 1 <= Cardinality(Clicked(animation))
  BY <1>1, ClickedTail
<1>3. Cardinality(Clicked(b)) \in Nat /\ Cardinality(Clicked(animation)) \in Nat
  BY <1>1, <1>2, ClickedFinite
<1> HIDE DEF b
<1>4. /\ Location' \in URL /\ events' \in Nat
      /\ events' + Cardinality(Clicked(b)) <= MAX_EVENTS
  <2>1. CASE Head(animation) = NoLink
    <3>1. hash' = hash /\ events' = events
      BY <2>1 DEF AnimationEnds
    <3> QED
      BY <1>1, <1>2, <1>3, <3>1, LocationAssumption DEF Location
  <2>2. CASE Head(animation) # NoLink
    <3>1. hash' = Head(animation) /\ events' \in {events, events + 1}
      BY <2>2 DEF AnimationEnds, SetHash
    <3>2. <<page, Head(animation)>> \in URL
      BY <1>1, <1>2, <2>2
    <3>3. Location' \in URL
      BY <1>1, <3>1, <3>2 DEF Location
    <3> QED
      BY <1>1, <1>2, <1>3, <2>2, <3>1, <3>3, LocationAssumption
  <2> QED
    BY <2>1, <2>2
<1>5. \A i \in Clicked(b) : <<page, b[i]>> \in URL
  BY <1>1, <1>2
<1>6. animation' = b
  BY <1>1 DEF b
<1>7. Browser'
  BY <1>1, <1>2, <1>4, <1>5, <1>6 DEF Browser, IInv
<1>8. Panel' /\ (ready' => Led')
  BY <1>1 DEF Panel, Led, IInv
<1> QED
  BY <1>1, <1>7, <1>8, KeptItself DEF IInv, Browser, Panel, Led

LEMMA RetryStep == IInv /\ Retry => IInv' /\ FlagsKept(tree, tree')
<1> SUFFICES ASSUME IInv, Retry PROVE IInv' /\ FlagsKept(tree, tree')
  OBVIOUS
<1>1. IInv'
  BY DEF IInv, Retry, Location
<1>2. tree' = tree
  BY DEF Retry
<1> QED
  BY <1>1, <1>2, KeptItself

LEMMA ChangeHashStep ==
  ASSUME IInv, NEW h \in Hashes, ChangeHash(h)
  PROVE  IInv' /\ FlagsKept(tree, tree')
<1>1. /\ UNCHANGED <<page, navpath, sync, ready, tree, pending, animation,
                     animationInProgress, retrying, disturbed, lag>>
      /\ hash' = h /\ events' = events + 1 /\ <<page, h>> \in URL
      /\ events + Cardinality(Clicked(animation)) < MAX_EVENTS
  BY DEF ChangeHash, SetHash, Room
<1>2. events \in Nat /\ Cardinality(Clicked(animation)) \in Nat
  BY ClickedFinite DEF IInv
<1>3. events' \in Nat /\ events' + Cardinality(Clicked(animation)) <= MAX_EVENTS
  BY <1>1, <1>2, LocationAssumption
<1>4. Location' \in URL
  BY <1>1 DEF Location
<1> QED
  BY <1>1, <1>3, <1>4, KeptItself DEF IInv

LEMMA StoredLink ==
  ASSUME IInv, NEW u \in URL
  PROVE  storeLink(u) \in URL \cup {NoLink} /\ (storeLink(u) = NoLink <=> sync)
<1>1. navpath \in URL \cup {NoLink} /\ sync = (navpath = NoLink) /\ u # NoLink
  BY LocationAssumption DEF IInv
<1> QED
  BY <1>1 DEF storeLink

LEMMA ClickAnchorStep ==
  ASSUME IInv, NEW n \in Nodes, ClickAnchor(n)
  PROVE  IInv' /\ FlagsKept(tree, tree')
<1> DEFINE h == Link[n][2]
           b == Append(animation, h)
<1>1. Link[n] \in URL /\ Link[n] = <<page, h>>
  <2>1. Link[n] \in URL
    BY TreeAssumption DEF ClickAnchor
  <2>2. Link[n] = <<Link[n][1], Link[n][2]>> /\ Link[n][1] = page
    BY <2>1, LocationAssumption DEF ClickAnchor
  <2> QED
    BY <2>1, <2>2
<1>2. h \in Hashes
  BY <1>1 DEF Hashes
<1>3. /\ UNCHANGED <<page, hash, sync, ready, pending, events, retrying>>
      /\ navpath' = storeLink(Link[n])
      /\ tree' = [tree EXCEPT !.selected = IF n \in @ THEN @ ELSE {n}]
      /\ animation' = b
      /\ animationInProgress' = TRUE
      /\ disturbed' \in BOOLEAN /\ lag' = NoLink
      /\ events + Cardinality(Clicked(animation)) < MAX_EVENTS
  BY DEF ClickAnchor, Room, IInv, Busy
<1>4. /\ events \in Nat /\ animation \in Seq(Hashes \cup {NoLink}) /\ tree \in Trees
      /\ \A i \in Clicked(animation) : <<page, animation[i]>> \in URL
      /\ Location \in URL /\ sync = (navpath = NoLink)
      /\ {ready, animationInProgress, retrying, disturbed} \subseteq BOOLEAN
  BY DEF IInv
<1>5. Cardinality(Clicked(animation)) \in Nat
  BY <1>4, ClickedFinite
<1>6. /\ b \in Seq(Hashes \cup {NoLink})
      /\ \A i \in Clicked(b) : (i \in Clicked(animation) /\ b[i] = animation[i])
                                  \/ (b[i] = h /\ h # NoLink)
      /\ Cardinality(Clicked(b)) <= Cardinality(Clicked(animation)) + 1
  BY <1>2, <1>4, ClickedMore
<1>7. Cardinality(Clicked(b)) \in Nat
  BY <1>6, ClickedFinite
<1>8. navpath' \in URL \cup {NoLink} /\ (navpath' = NoLink <=> sync)
  BY <1>1, <1>3, StoredLink
<1>9. /\ tree' \in Trees
      /\ tree'.loaded = tree.loaded /\ tree'.visited = tree.visited /\ tree'.made = tree.made
      /\ tree'.expanded = tree.expanded /\ tree'.shown = tree.shown
      /\ tree'.slides = tree.slides /\ tree'.selected # {}
  BY <1>3, <1>4 DEF Trees
<1> HIDE DEF b, h
<1>10. events + Cardinality(Clicked(b)) <= MAX_EVENTS
  BY <1>3, <1>4, <1>5, <1>6, <1>7, LocationAssumption
<1>11. \A i \in Clicked(b) : <<page, b[i]>> \in URL
  BY <1>1, <1>4, <1>6
<1>12. sync' = (navpath' = NoLink)
  BY <1>3, <1>4, <1>8
<1>13. Browser'
  BY <1>3, <1>4, <1>6, <1>8, <1>10, <1>11, <1>12 DEF Browser, Location
<1>14. ASSUME NEW c \in BagToSet(pending') PROVE CallbackOK(tree', c)
  <2>1. CallbackOK(tree, c) /\ tree.loaded \subseteq tree'.loaded
    BY <1>3, <1>9 DEF IInv
  <2> QED
    BY <2>1, CallbackStays
<1>15. ItemsOnce(tree') /\ FlagsOK(tree') /\ IsABag(pending')
  BY <1>3, <1>9 DEF IInv, ItemsOnce, FlagsOK
<1>16. Panel'
  BY <1>9, <1>14, <1>15 DEF Panel
<1>17. FlagsKept(tree, tree')
  BY <1>9, KeptItself, SameFlags
<1> QED
  BY <1>9, <1>13, <1>16, <1>17 DEF IInv, Browser, Panel

LEMMA CollapseStep ==
  ASSUME NEW t \in Trees, ItemsOnce(t), FlagsOK(t), NEW n \in Nodes, n \in t.expanded,
         Visible(t, n)
  PROVE  LET o == Collapse(t, n)
         IN  /\ Stepped(t, o) /\ o.scroll = FALSE /\ o.scripts = {}
             /\ o.tree.selected = t.selected /\ o.tree.made = t.made
<1> DEFINE v == [t EXCEPT !.expanded = @ \ {n}]
           u == Slide(v, n, "up")
           o == Collapse(t, n)
<1>1. /\ v \in Trees
      /\ v.loaded = t.loaded /\ v.visited = t.visited /\ v.made = t.made
      /\ v.expanded = t.expanded \ {n} /\ v.shown = t.shown /\ v.slides = t.slides
      /\ v.selected = t.selected /\ v.indexes = t.indexes /\ v.breadcrumbs = t.breadcrumbs
  BY DEF Trees
<1>2. o = Asks(u, {})
  BY DEF Collapse
<1> HIDE DEF v
<1>3. ItemsOnce(v) /\ FlagsOK(v) /\ "up" \in Ways
  BY <1>1 DEF ItemsOnce, FlagsOK, Ways
<1>4. /\ u \in Trees /\ Slid(v, u, n) /\ FlagsOK(u)
      /\ \/ u.slides[n] # <<>> /\ Last(u.slides[n]) = "up"
         \/ u.slides[n] = <<>> /\ u.shown = v.shown /\ ~Displayed(v, n)
  BY <1>1, <1>3, SlideStep
<1> HIDE DEF u
<1>5. ItemsOnce(u) /\ Grows(t, u)
  BY <1>1, <1>3, <1>4 DEF ItemsOnce, Slid, Grows
<1> HIDE DEF o
<1>6. OutcomeOK(t, o) /\ o.tree = u
  BY <1>2, <1>4, <1>5, AsksOutcome
<1>7. AsFlagged(u, n)
  <2>1. n \notin u.expanded
    BY <1>1, <1>4 DEF Slid
  <2>2. ~Displayed(v, n) => n \notin v.shown
    BY <1>1 DEF Displayed, Visible, IsStrictPrefix
  <2> QED
    BY <1>4, <2>1, <2>2 DEF AsFlagged
<1>8. FlagsKept(t, u)
  <2>1. /\ \A m \in Nodes \ {n} : t.slides[m] = v.slides[m]
        /\ t.shown \ {n} = v.shown \ {n} /\ t.expanded \ {n} = v.expanded \ {n}
    BY <1>1
  <2> QED
    BY <1>4, <1>7, <2>1, OthersKept
<1>9. Stepped(t, o)
  BY <1>5, <1>6, <1>8, SteppedFrom DEF Grows
<1>10. u.selected = t.selected /\ u.made = t.made
  BY <1>1, <1>4 DEF Slid
<1>11. o.scroll = FALSE /\ o.scripts = {}
  BY <1>2 DEF Asks, Outcome
<1> QED
  BY <1>6, <1>9, <1>10, <1>11 DEF o

LEMMA ToggleStep ==
  ASSUME IInv, NEW n \in Nodes, Toggle(n)
  PROVE  IInv' /\ FlagsKept(tree, tree')
<1>1. /\ tree \in Trees /\ ItemsOnce(tree) /\ FlagsOK(tree) /\ IsABag(pending)
      /\ events \in Nat /\ disturbed \in BOOLEAN /\ ready \in BOOLEAN /\ Location \in URL
      /\ lag \in Targets \cup {NoLink} /\ (lag # NoLink => ready)
  BY DEF IInv
<1>2. /\ UNCHANGED <<page, hash, navpath, sync, ready, events>>
      /\ disturbed' \in BOOLEAN /\ lag' \in {lag, NoLink}
  BY <1>1 DEF Toggle, Busy
<1>3. /\ Location' \in URL /\ events' \in Nat /\ events' <= events /\ ready' \in BOOLEAN
      /\ lag' \in Targets \cup {NoLink} /\ (lag' # NoLink => ready')
  BY <1>1, <1>2 DEF Location
<1>4. PICK o : /\ Ends(o, pending) /\ Stepped(tree, o)
  <2>1. CASE n \in tree.expanded
    BY <1>1, <2>1, CollapseStep DEF Toggle
  <2>2. CASE n \notin tree.expanded
    <3>1. Ends(ExpandNode(tree, n), pending)
      BY <2>2 DEF Toggle
    <3> QED
      BY <1>1, <3>1, ExpandNodeStep
  <2> QED
    BY <2>1, <2>2
<1>5. /\ tree.loaded = tree.loaded
      /\ BagToSet(pending) \subseteq BagToSet(pending)
      /\ \/ Leading(o)
         \/ /\ tree.breadcrumbs = tree.breadcrumbs
            /\ tree.selected \subseteq tree.selected
            /\ ready' => ready
            /\ \A d \in BagToSet(pending) : Leads(tree, d) => d \in BagToSet(pending)
  BY <1>2
<1>6. UNCHANGED <<page, navpath, sync>>
  BY <1>2
<1> QED
  BY <1>1, <1>2, <1>3, <1>4, <1>5, <1>6, EndsStep

LEMMA ToggleSyncStep == IInv /\ ToggleSync => IInv' /\ FlagsKept(tree, tree')
<1> SUFFICES ASSUME IInv, ToggleSync PROVE IInv' /\ FlagsKept(tree, tree')
  OBVIOUS
<1>1. /\ UNCHANGED <<page, hash, ready, tree, pending, events, animation,
                     animationInProgress, retrying>>
      /\ sync' = ~sync /\ navpath' = IF sync THEN Location ELSE NoLink
      /\ disturbed' \in BOOLEAN
      /\ lag' \in {Goal, NoLink} /\ (lag' # NoLink => ready)
  BY DEF ToggleSync, Busy, IInv, deleteLink
<1>2. Location \in URL /\ Location # NoLink /\ sync \in BOOLEAN
  BY LocationAssumption DEF IInv
<1>3. navpath' \in URL \cup {NoLink} /\ sync' = (navpath' = NoLink)
  BY <1>1, <1>2
<1>4. Goal \in Targets
  <2>1. NavTarget(Location) \in Targets
    BY <1>2 DEF NavTarget, Targets, cachedLink, IInv
  <2> QED
    BY <2>1 DEF Goal, IInv
<1> HIDE DEF Goal
<1>5. lag' \in Targets \cup {NoLink} /\ (lag' # NoLink => ready')
  BY <1>1, <1>4
<1> QED
  BY <1>1, <1>2, <1>3, <1>5, KeptItself DEF IInv, Location

\* A slide of the list of n ends.
LEMMA SlideEndsStep ==
  ASSUME IInv, NEW n \in Nodes, SlideEnds(n)
  PROVE  /\ IInv' /\ FlagsKept(tree, tree')
         /\ tree'.expanded = tree.expanded /\ tree'.made = tree.made
         /\ tree'.selected = tree.selected /\ tree'.breadcrumbs = tree.breadcrumbs
<1> DEFINE q == tree.slides[n]
           r == Tail(q)
           t == [tree EXCEPT !.shown = IF Head(q) = "up" THEN @ \ {n} ELSE @]
           u == Goes(t, n, r)
<1>1. /\ UNCHANGED <<page, hash, navpath, sync, ready, pending, events, animation,
                     animationInProgress, retrying, disturbed, lag>>
      /\ tree' = u /\ q # <<>>
  BY DEF SlideEnds
<1>2. tree \in Trees /\ ItemsOnce(tree) /\ FlagsOK(tree) /\ q \in Seq(Ways)
  BY DEF IInv, Trees, Ways
<1>3. /\ t \in Trees
      /\ t.loaded = tree.loaded /\ t.visited = tree.visited /\ t.made = tree.made
      /\ t.expanded = tree.expanded /\ t.slides = tree.slides
      /\ t.shown = IF Head(q) = "up" THEN tree.shown \ {n} ELSE tree.shown
      /\ t.selected = tree.selected /\ t.indexes = tree.indexes
      /\ t.breadcrumbs = tree.breadcrumbs
  BY <1>2 DEF Trees
<1>4. n \in tree.shown
  BY <1>1, <1>2 DEF FlagsOK
<1> HIDE DEF t, q
<1>5. /\ r \in Seq(Ways)
      /\ r # <<>> => Last(r) = Last(q)
      /\ r = <<>> => Last(q) = Head(q)
      /\ r # <<>> => Len(r) \in DOMAIN r /\ r[Len(r)] = Last(r)
  BY <1>1, <1>2, TailLast, SeqLast
<1> DEFINE way == IF Displayed(t, n) THEN "up" ELSE "down"
<1>6. /\ u \in Trees /\ Slid(t, u, n)
      /\ \/ /\ u.slides[n] = <<>> /\ u.shown = t.shown
            /\ \A j \in DOMAIN r : r[j] # way
         \/ u.slides[n] # <<>> /\ n \in u.shown /\ r # <<>> /\ Last(u.slides[n]) = Last(r)
  BY <1>3, <1>5, GoesStep
<1> HIDE DEF u, r
<1>7. FlagsOK(u) /\ ItemsOnce(u)
  <2>1. \A m \in Nodes : u.slides[m] # <<>> => m \in u.shown
    <3>1. n \in Nodes /\ (u.slides[n] # <<>> => n \in u.shown)
      BY <1>6
    <3>2. \A m \in Nodes \ {n} : u.slides[m] # <<>> => m \in u.shown
      BY <1>2, <1>3, <1>6 DEF FlagsOK, Slid
    <3> QED
      BY <3>1, <3>2
  <2> QED
    BY <1>2, <1>3, <1>6, <2>1 DEF FlagsOK, ItemsOnce, Slid
<1>8. u.expanded = tree.expanded /\ Last(q) \in Ways
  BY <1>1, <1>2, <1>3, <1>6, SeqLast DEF Slid
<1>9. /\ ~AsFlagged(u, n) => UpDue(tree, n) \/ ~AsFlagged(tree, n)
  <2> SUFFICES ASSUME ~UpDue(tree, n), AsFlagged(tree, n) PROVE AsFlagged(u, n)
    OBVIOUS
  <2>1. Last(q) = "down" /\ n \in tree.expanded
    BY <1>1, <1>8 DEF UpDue, AsFlagged, Ways, q
  <2>2. CASE u.slides[n] # <<>> /\ r # <<>> /\ Last(u.slides[n]) = Last(r)
    BY <1>5, <1>8, <2>1, <2>2 DEF AsFlagged
  <2>3. CASE u.slides[n] = <<>> /\ u.shown = t.shown /\ \A j \in DOMAIN r : r[j] # way
    <3>1. n \in t.shown
      <4>1. CASE r = <<>>
        BY <1>3, <1>4, <1>5, <2>1, <4>1
      <4>2. CASE r # <<>>
        <5>1. way # "down"
          BY <1>5, <2>1, <2>3, <4>2
        <5>2. Displayed(t, n)
          BY <5>1
        <5> QED
          BY <5>2, DisplayedItself
      <4> QED
        BY <4>1, <4>2
    <3> QED
      BY <1>8, <2>1, <2>3, <3>1 DEF AsFlagged
  <2> QED
    BY <1>6, <2>2, <2>3
<1>10. FlagsKept(tree, u)
  <2>1. /\ \A m \in Nodes \ {n} : tree.slides[m] = t.slides[m]
        /\ tree.shown \ {n} = t.shown \ {n} /\ tree.expanded \ {n} = t.expanded \ {n}
    BY <1>3
  <2> QED
    BY <1>6, <1>8, <1>9, <2>1, OthersKept
<1>11. /\ u.loaded = tree.loaded /\ u.made = tree.made
       /\ u.selected = tree.selected /\ u.breadcrumbs = tree.breadcrumbs
  BY <1>3, <1>6 DEF Slid
<1>12. \A c : (CallbackOK(tree, c) => CallbackOK(u, c)) /\ (Leads(tree, c) => Leads(u, c))
  <2>1. \A c : CallbackOK(tree, c) => CallbackOK(u, c)
    BY <1>11, CallbackStays
  <2> QED
    BY <1>11, <2>1 DEF Leads
<1>13. IInv'
  <2>1. Browser'
    BY <1>1 DEF Browser, IInv, Location
  <2>2. Panel'
    BY <1>1, <1>6, <1>7, <1>12 DEF Panel, IInv
  <2>3. ready' => Led'
    BY <1>1, <1>11, <1>12 DEF Led, IInv
  <2> QED
    BY <2>1, <2>2, <2>3 DEF IInv, Browser, Panel, Led
<1> QED
  BY <1>1, <1>8, <1>10, <1>11, <1>13

LEMMA ClickPageStep ==
  ASSUME IInv, NEW n \in Nodes, ClickPage(n)
  PROVE  IInv' /\ FlagsKept(tree, tree')
<1>1. Link[n] \in URL
  BY TreeAssumption DEF ClickPage
<1>2. storeLink(Link[n]) \in URL \cup {NoLink}
  BY <1>1, StoredLink
<1>3. LoadPage(Link[n], storeLink(Link[n]))
  BY DEF ClickPage
<1> QED
  BY <1>1, <1>2, <1>3, LoadPageStep

LEMMA NextIInv == IInv /\ [Next]_vars => IInv' /\ FlagsKept(tree, tree')
<1> DEFINE Kept == IInv' /\ FlagsKept(tree, tree')
<1> SUFFICES ASSUME IInv, [Next]_vars PROVE Kept
  OBVIOUS
<1>1. CASE WindowLoad
  BY <1>1, WindowLoadStep
<1>2. CASE HashChange
  BY <1>2, HashChangeStep
<1>3. CASE AnimationEnds
  BY <1>3, AnimationEndsStep
<1>4. CASE Retry
  BY <1>4, RetryStep
<1>5. ASSUME NEW c \in BagToSet(pending), ScriptArrives(c) PROVE Kept
  BY <1>5, ScriptArrivesStep
<1>6. ASSUME NEW h \in Hashes, ChangeHash(h) PROVE Kept
  BY <1>6, ChangeHashStep
<1>7. ASSUME NEW u \in URL, FollowLink(u) PROVE Kept
  <2>1. LoadPage(u, navpath) /\ navpath \in URL \cup {NoLink}
    BY <1>7 DEF FollowLink, IInv
  <2> QED
    BY <2>1, LoadPageStep
<1>8. ASSUME NEW n \in Nodes, ClickAnchor(n) PROVE Kept
  BY <1>8, ClickAnchorStep
<1>9. ASSUME NEW n \in Nodes, ClickPage(n) PROVE Kept
  BY <1>9, ClickPageStep
<1>10. ASSUME NEW n \in Nodes, Toggle(n) PROVE Kept
  BY <1>10, ToggleStep
<1>11. CASE ToggleSync
  BY <1>11, ToggleSyncStep
<1>12. ASSUME NEW n \in Nodes, SlideEnds(n) PROVE Kept
  BY <1>12, SlideEndsStep
<1>13. CASE UNCHANGED vars
  BY <1>13, KeptItself DEF vars, IInv, Location
<1> HIDE DEF Kept
<1> QED
  BY <1>1, <1>2, <1>3, <1>4, <1>5, <1>6, <1>7, <1>8, <1>9, <1>10, <1>11, <1>12, <1>13
     DEF Next, User

LEMMA NavIInv == Spec => []IInv
<1>1. Init => IInv
  BY InitIInv
<1>2. IInv /\ [Next]_vars => IInv'
  BY NextIInv
<1> QED
  BY <1>1, <1>2, PTL DEF Spec

(***************************************************************************)
(* Type correctness: the handlers, callbacks and clicks of navtree.js keep *)
(* the location, the stored link and the flags of every node in their      *)
(* types, sync is what localStorage says (navtree.js:68-86), and no more   *)
(* than MAX_EVENTS hashchange events ever wait.                            *)
(***************************************************************************)
THEOREM NavTypeOK == Spec => []TypeOK
<1>1. IInv => TypeOK
  <2> SUFFICES ASSUME IInv PROVE TypeOK
    OBVIOUS
  <2>1. events \in 0..MAX_EVENTS
    <3>1. Cardinality(Clicked(animation)) \in Nat
      BY ClickedFinite DEF IInv
    <3> QED
      BY <3>1, LocationAssumption DEF IInv
  <2> QED
    BY <2>1 DEF TypeOK, IInv, Trees, Targets
<1> QED
  BY <1>1, NavIInv, PTL

(***************************************************************************)
(* For every tree, every way its branches are cut into scripts, and        *)
(* however the scripts come, getNode (navtree.js:406-417) puts the         *)
(* children of a node on the page once: several callbacks may bring the    *)
(* same script, and each finds what the others have visited.               *)
(***************************************************************************)
THEOREM NavEachItemOnce == Spec => []EachItemOnce
<1>1. IInv => EachItemOnce
  BY DEF IInv, ItemsOnce, EachItemOnce
<1> QED
  BY <1>1, NavIInv, PTL

(***************************************************************************)
(* For every tree and every order of scripts, clicks and ends of slides, a *)
(* node's flag `expanded' goes on saying whether its children are displayed*)
(* or will be at the end of their slides, also after showNode has put the  *)
(* flag down for a script to come (navtree.js:376) and opened the node     *)
(* again: but for a list whose last slide was a slideUp, which may close   *)
(* what showNode opens while it runs (navtree.js:126-128, 361-367).        *)
(***************************************************************************)
THEOREM NavFlagsMatchPage == Spec => FlagsMatchPage
<1>1. IInv /\ [Next]_vars => [FlagsKept(tree, tree')]_vars
  BY NextIInv
<1> QED
  BY <1>1, NavIInv, PTL DEF Spec, FlagsMatchPage

(***************************************************************************)
(* showRoot's timer (navtree.js:260) finds a selected item once nothing is *)
(* on its way, whatever navigations have overtaken each other: the last    *)
(* one that has set o.breadcrumbs always has a callback on their path.     *)
(***************************************************************************)
THEOREM NavRetryEnds == Spec => []RetryEnds
<1>1. IInv => RetryEnds
  <2> SUFFICES ASSUME IInv, ready, ~Busy PROVE tree.selected # {}
    BY DEF RetryEnds
  <2>1. ASSUME NEW c \in BagToSet(pending), Leads(tree, c) PROVE FALSE
    <3>1. c.kind # "expand"
      BY <2>1 DEF Leads
    <3> QED
      BY <3>1 DEF Busy, NavCB
  <2> QED
    BY <2>1 DEF IInv
<1> QED
  BY <1>1, NavIInv, PTL

(***************************************************************************)
(* What a navigation selects.                                              *)
(***************************************************************************)
LEMMA BagAddOne ==
  ASSUME NEW B, IsABag(B), NEW S, NEW d, d \in S, d \notin BagToSet(B)
  PROVE  (B (+) SetToBag(S))[d] = 1
BY DEF (+), IsABag, SetToBag, BagToSet

LEMMA BagAddKeeps ==
  ASSUME NEW B, IsABag(B), NEW S, NEW d, d \in BagToSet(B), d \notin S
  PROVE  (B (+) SetToBag(S))[d] = B[d]
BY DEF (+), IsABag, SetToBag, BagToSet

LEMMA BagRemoveKeeps ==
  ASSUME NEW B, IsABag(B), NEW c, NEW d, d \in BagToSet(B), d # c
  PROVE  (B (-) SetToBag({c}))[d] = B[d]
BY DEF (-), BagToSet, SetToBag, IsABag

LEMMA BagRemoveOne ==
  ASSUME NEW B, IsABag(B), NEW c, c \in BagToSet(B), B[c] = 1
  PROVE  BagToSet(B (-) SetToBag({c})) = BagToSet(B) \ {c}
<1>1. c \notin BagToSet(B (-) SetToBag({c}))
  BY DEF (-), BagToSet, SetToBag, IsABag
<1>2. /\ BagToSet(B (-) SetToBag({c})) \subseteq BagToSet(B)
      /\ BagToSet(B) \ {c} \subseteq BagToSet(B (-) SetToBag({c}))
  BY BagRemove
<1> QED
  BY <1>1, <1>2, Zenon

LEMMA OpenFields ==
  ASSUME NEW t \in Trees, ItemsOnce(t), NEW S \in SUBSET Nodes
  PROVE  LET u == Open(t, S)
         IN  /\ u \in Trees /\ ItemsOnce(u)
             /\ u.visited = t.visited \cup S /\ u.shown = t.shown \cup S
             /\ u.expanded = t.expanded \cup S
             /\ u.selected = t.selected /\ u.breadcrumbs = t.breadcrumbs
<1> DEFINE g == GetNodes(t, S)
           u == Open(t, S)
<1>1. g \in Trees /\ ItemsOnce(g) /\ g.visited = t.visited \cup S
  BY NewItemsOnce
<1>2. g.shown = t.shown /\ g.expanded = t.expanded /\ g.selected = t.selected /\ g.breadcrumbs = t.breadcrumbs
  BY DEF GetNodes, Trees
<1>3. u = [g EXCEPT !.expanded = @ \cup S, !.shown = @ \cup S]
  BY DEF Open
<1> HIDE DEF g, u
<1>4. /\ u \in Trees
      /\ u.visited = g.visited /\ u.made = g.made /\ u.shown = g.shown \cup S
      /\ u.expanded = g.expanded \cup S /\ u.selected = g.selected /\ u.breadcrumbs = g.breadcrumbs
  BY <1>1, <1>3 DEF Trees
<1>5. ItemsOnce(u)
  BY <1>1, <1>4 DEF ItemsOnce
<1> QED
  BY <1>1, <1>2, <1>4, <1>5 DEF u

LEMMA MadeOf ==
  ASSUME NEW t, ItemsOnce(t)
  PROVE  Made(t) = {n \in Nodes : n # <<>> /\ Front(n) \in t.visited}
BY DEF Made, ItemsOnce

\* The reader can see n, but for lists of torn.
InSight(t, torn, n) ==
  n \in Made(t) /\ \A a \in Nodes : IsStrictPrefix(a, n) => a \in t.shown \cup torn

\* The lists whose flag is wrong: the panel takes them for open.
Torn(t) == t.expanded \ t.shown

\* The outcome o of a navigation to u that began with the items of sel selected, and
\* with no other wrong flags than those of torn.
Reaches(sel, torn, o, u) ==
  /\ o.tree.selected \subseteq Made(o.tree)
  /\ o.scroll \in BOOLEAN
  /\ \/ /\ o.scripts = {}
        /\ Shows(o.tree, u)
        /\ InSight(o.tree, torn, ItemOf(u))
        /\ ItemOf(u) \in Carriers(u[2]) => ItemOf(u) \in o.tree.selected
     \/ \E c : /\ o.scripts = {c} /\ c.kind # "expand" /\ OnTheWay(o.tree, c, u)
               /\ o.tree.selected = sel /\ sel \subseteq Carriers(u[2])
               /\ ~o.scroll

LEMMA AsksReaches ==
  ASSUME NEW s, NEW torn, NEW u, NEW c, c.kind # "expand", OnTheWay(s, c, u),
         s.selected \subseteq Carriers(u[2]), s.selected \subseteq Made(s),
         NEW C, C = {c}, NEW o, o = Asks(s, C)
  PROVE  Reaches(s.selected, torn, o, u)
<1>1. o.tree = s /\ o.scripts = {c} /\ o.scroll = FALSE
  BY DEF Asks, Outcome
<1> QED
  BY <1>1 DEF Reaches

LEMMA ShowNodeReaches ==
  ASSUME NEW t \in Trees, ItemsOnce(t), NEW u, NEW index \in Nat,
         t.breadcrumbs = ItemOf(u), index < Len(t.breadcrumbs),
         \A k \in 0..(index - 1) : SubSeq(t.breadcrumbs, 1, k) \in t.expanded,
         NEW torn, Torn(t) \subseteq torn,
         t.selected \subseteq Carriers(u[2]), t.selected \subseteq Made(t)
  PROVE  Reaches(t.selected, torn, ShowNode(t, SubSeq(t.breadcrumbs, 1, index), index, u[2]), u)
<1> DEFINE bc == t.breadcrumbs
           node == SubSeq(bc, 1, index)
           h == u[2]
           last == Len(bc) - 1
           o == ShowNode(t, node, index, h)
           At(k) == SubSeq(bc, 1, k)
<1> SUFFICES Reaches(t.selected, torn, o, u)
  OBVIOUS
<1>1. bc \in Nodes /\ bc \in Seq(Int) /\ Len(bc) \in Nat
  BY NodeSeq DEF Trees
<1>2. node \in Nodes
  BY <1>1, AboveNode
<1>3. PICK path \in Seq(Int), top \in Nat : Walk(t, node, index, h, path, top)
  BY <1>2, ShowNodeWalk
<1>4. path = bc /\ Len(node) = index
  BY <1>3 DEF Walk
<1> DEFINE s == Opened(t, bc, index, top)
           opening == {n \in {At(j) : j \in index..top} : HasChildrenHere(t, n)}
           target == Target(s, bc)
<1> HIDE DEF node, o, last
<1>5. /\ top \in index..last
      /\ \A j \in index..(top - 1) : HasChildrenHere(t, At(j))
      /\ At(top) \in Nodes
      /\ HasData(At(top)) /\ (HasChildrenHere(t, At(top)) => top = last)
  BY <1>3, <1>4 DEF Walk, node, last
<1>6. index + top - Len(node) = top
  BY <1>4
<1>7. \/ Waits(t, At(top)) /\ o = Asks(s, {ShowCB(At(top), top, h)})
      \/ /\ HasChildrenHere(t, At(top)) /\ top < last
         /\ o = SelectAndHighlight(s, h, {})
      \/ /\ HasChildrenHere(t, At(top)) /\ top = last /\ Waits(t, bc)
         /\ o = Asks(s, {RetryCB(bc, At(top), top, h)})
      \/ /\ HasChildrenHere(t, At(top)) /\ top = last
         /\ o = SelectAndHighlight(target, h, {bc})
  BY <1>1, <1>3, <1>4, <1>5, <1>6 DEF Walk, o, last
<1>8. opening \in SUBSET Nodes
  <2>1. \A j \in index..top : At(j) \in Nodes
    <3> SUFFICES ASSUME NEW j \in index..top PROVE At(j) \in Nodes
      OBVIOUS
    <3>1. j \in 0..Len(bc)
      BY <1>1, <1>5 DEF last
    <3> QED
      BY <1>1, <3>1, AboveNode
  <2> QED
    BY <2>1
<1>9. /\ s \in Trees /\ ItemsOnce(s)
      /\ s.visited = t.visited \cup opening /\ s.shown = t.shown \cup opening
      /\ s.expanded = t.expanded \cup opening
      /\ s.selected = t.selected /\ s.breadcrumbs = bc
  <2>1. s = Open(t, opening)
    BY DEF Opened
  <2> HIDE DEF opening, s
  <2> QED
    BY <1>8, <2>1, OpenFields
\* Down to the node where it stops the path is open.
<1>10. \A k \in 0..(top - 1) : At(k) \in s.expanded
  <2> SUFFICES ASSUME NEW k \in 0..(top - 1) PROVE At(k) \in s.expanded
    OBVIOUS
  <2>1. CASE k < index
    <3>1. k \in 0..(index - 1)
      BY <2>1
    <3> QED
      BY <1>9, <3>1
  <2>2. CASE ~(k < index)
    <3>1. k \in index..(top - 1) /\ k \in index..top
      BY <2>2
    <3>2. At(k) \in opening
      BY <1>5, <3>1
    <3> QED
      BY <1>9, <3>2
  <2> QED
    BY <2>1, <2>2
<1>11. Made(t) \subseteq Made(s) /\ s.expanded \subseteq s.shown \cup torn
  BY <1>9, MadeOf DEF Torn
<1> HIDE DEF s, opening, target, bc
<1>12. top < Len(bc) /\ top \in Nat
  BY <1>1, <1>5 DEF last
<1>13. CASE o = Asks(s, {ShowCB(At(top), top, h)})
  <2> DEFINE c == ShowCB(At(top), top, h)
  <2>1. c.kind \in {"show", "retry"} /\ c.hash = h /\ c.index = top /\ c.node = At(top)
    BY DEF ShowCB
  <2>2. o = Asks(s, {c})
    BY <1>13
  <2> HIDE DEF c
  <2>3. OnTheWay(s, c, u)
    BY <1>9, <1>10, <1>12, <2>1 DEF OnTheWay, Leads, bc
  <2>4. s.selected \subseteq Carriers(u[2]) /\ s.selected \subseteq Made(s)
    BY <1>9, <1>11
  <2> DEFINE C == {c}
  <2>5. o = Asks(s, C) /\ C = {c} /\ c.kind # "expand"
    BY <2>1, <2>2
  <2> HIDE DEF C
  <2>6. Reaches(s.selected, torn, o, u)
    BY <2>3, <2>4, <2>5, AsksReaches
  <2> QED
    BY <1>9, <2>6
<1>14. CASE o = Asks(s, {RetryCB(bc, At(top), top, h)})
  <2> DEFINE c == RetryCB(bc, At(top), top, h)
  <2>1. c.kind \in {"show", "retry"} /\ c.hash = h /\ c.index = top /\ c.node = At(top)
    BY DEF RetryCB
  <2>2. o = Asks(s, {c})
    BY <1>14
  <2> HIDE DEF c
  <2>3. OnTheWay(s, c, u)
    BY <1>9, <1>10, <1>12, <2>1 DEF OnTheWay, Leads, bc
  <2>4. s.selected \subseteq Carriers(u[2]) /\ s.selected \subseteq Made(s)
    BY <1>9, <1>11
  <2> DEFINE C == {c}
  <2>5. o = Asks(s, C) /\ C = {c} /\ c.kind # "expand"
    BY <2>1, <2>2
  <2> HIDE DEF C
  <2>6. Reaches(s.selected, torn, o, u)
    BY <2>3, <2>4, <2>5, AsksReaches
  <2> QED
    BY <1>9, <2>6
<1>15. CASE /\ HasChildrenHere(t, At(top)) /\ top = last
            /\ o = SelectAndHighlight(target, h, {bc})
  <2>1. At(last) \in opening /\ last \in Nat
    <3>1. last \in index..top
      BY <1>5, <1>12, <1>15
    <3> QED
      BY <1>5, <1>12, <1>15, <3>1 DEF opening
  <2>2. /\ target \in Trees /\ ItemsOnce(target)
        /\ s.visited \subseteq target.visited /\ s.shown \subseteq target.shown
        /\ target.selected = t.selected
    <3>1. CASE page \in IndexPages /\ HasData(bc) /\ bc \notin s.expanded
      <4>1. target = Open(s, {bc}) /\ {bc} \in SUBSET Nodes
        BY <1>1, <3>1 DEF target, Target
      <4> QED
        BY <1>9, <4>1, OpenFields
    <3>2. CASE ~(page \in IndexPages /\ HasData(bc) /\ bc \notin s.expanded)
      BY <1>9, <3>2 DEF target, Target
    <3> QED
      BY <3>1, <3>2
  <2>3. bc # <<>> /\ Front(bc) = At(last)
    BY <1>1, <1>12, EmptySeq DEF Front, last
  <2>4. bc \in Made(target) /\ Made(t) \subseteq Made(target)
    BY <1>1, <1>9, <2>1, <2>2, <2>3, MadeOf
  <2>5. InSight(target, torn, bc)
    <3> SUFFICES ASSUME NEW a \in Nodes, IsStrictPrefix(a, bc) PROVE a \in target.shown \cup torn
      BY <2>4 DEF InSight
    <3>1. a \in Seq(Int) /\ Len(a) \in Nat
      BY NodeSeq
    <3>2. Len(a) <= Len(bc) /\ a = SubSeq(bc, 1, Len(a)) /\ a # bc
      BY <3>1, SubSeqFull DEF IsStrictPrefix, IsPrefix
    <3>3. Len(a) # Len(bc)
      BY <1>1, <3>2, SubSeqFull
    <3>4. Len(a) \in 0..last
      BY <1>1, <3>1, <3>2, <3>3 DEF last
    <3>5. CASE Len(a) = last
      BY <1>9, <2>1, <2>2, <3>2, <3>5
    <3>6. CASE Len(a) # last
      <4>1. Len(a) \in 0..(top - 1)
        BY <1>15, <2>1, <3>4, <3>6
      <4> QED
        BY <1>10, <1>11, <2>2, <3>2, <4>1
    <3> QED
      BY <3>5, <3>6
  <2> DEFINE a == Anchors(target, h)
  <2>6. a = Carriers(h) \cap Made(target)
    BY DEF Anchors, Carriers, Made
  <2>7. PICK N : /\ o.tree = [target EXCEPT !.selected = @ \cup N] /\ o.scripts = {}
                 /\ o.scroll \in BOOLEAN
                 /\ N = IF a # {} THEN a ELSE {bc}
    BY <1>15 DEF SelectAndHighlight, Outcome
  <2> HIDE DEF a
  <2>8. /\ o.tree.selected = t.selected \cup N /\ o.tree.made = target.made
        /\ o.tree.shown = target.shown
    BY <2>2, <2>7 DEF Trees
  <2>9. Made(o.tree) = Made(target) /\ InSight(o.tree, torn, bc)
    BY <2>5, <2>8 DEF Made, InSight
  <2>10. bc = ItemOf(u) /\ u[2] = h
    BY DEF bc
  <2>11. N \subseteq Made(target) /\ N # {}
    BY <2>4, <2>6, <2>7
  <2>12. o.tree.selected # {} /\ o.tree.selected \subseteq Made(o.tree)
    BY <2>4, <2>8, <2>9, <2>11
  <2>13. CASE a # {}
    <3>1. o.tree.selected \subseteq Carriers(h)
      BY <2>6, <2>7, <2>8, <2>10, <2>13
    <3>2. bc \in Carriers(h) => bc \in o.tree.selected
      BY <2>4, <2>6, <2>7, <2>8, <2>13
    <3> QED
      BY <2>7, <2>9, <2>10, <2>12, <3>1, <3>2 DEF Reaches, Shows
  <2>14. CASE a = {}
    <3>1. t.selected = {}
      BY <2>4, <2>6, <2>10, <2>14
    <3>2. o.tree.selected = {bc}
      BY <2>7, <2>8, <2>14, <3>1
    <3> QED
      BY <2>7, <2>9, <2>10, <2>12, <3>2 DEF Reaches, Shows
  <2> QED
    BY <2>13, <2>14
<1> HIDE DEF At, h
<1>16. ~(HasChildrenHere(t, At(top)) /\ top < last)
  BY <1>5, <1>12
<1> QED
  BY <1>7, <1>13, <1>14, <1>15, <1>16

LEMMA GotoReaches ==
  ASSUME NEW t \in Trees, ItemsOnce(t), NEW u, NEW torn, Torn(t) \subseteq torn,
         t.selected \subseteq Carriers(u[2]), t.selected \subseteq Made(t)
  PROVE  Reaches(t.selected, torn, GotoNode(t, u), u)
<1> DEFINE bc == ItemOf(u)
           s == [t EXCEPT !.breadcrumbs = bc]
<1>1. bc \in Nodes /\ Len(bc) > 0
  BY LookupPath
<1>2. SubSeq(bc, 1, 0) = <<>> /\ 0 < Len(bc)
  BY <1>1, SubSeqEmpty, NodeSeq
<1>3. GotoNode(t, u) = ShowNode(s, SubSeq(bc, 1, 0), 0, u[2])
  BY <1>2 DEF GotoNode
<1> HIDE DEF bc
<1>4. /\ s \in Trees /\ s.visited = t.visited /\ s.made = t.made
      /\ s.expanded = t.expanded /\ s.shown = t.shown
      /\ s.selected = t.selected /\ s.breadcrumbs = bc
  BY <1>1 DEF Trees
<1> HIDE DEF s
<1>5. ItemsOnce(s) /\ Made(s) = Made(t) /\ Torn(s) \subseteq torn
  BY <1>4 DEF ItemsOnce, Made, Torn
<1>6. s.breadcrumbs = ItemOf(u) /\ 0 \in Nat /\ 0 < Len(s.breadcrumbs)
  BY <1>2, <1>4 DEF bc
<1>7. \A k \in 0..(0 - 1) : SubSeq(s.breadcrumbs, 1, k) \in s.expanded
  OBVIOUS
<1>8. Reaches(s.selected, torn, ShowNode(s, SubSeq(s.breadcrumbs, 1, 0), 0, u[2]), u)
  BY <1>4, <1>5, <1>6, <1>7, ShowNodeReaches
<1> QED
  BY <1>3, <1>4, <1>8

LEMMA NavToReaches ==
  ASSUME NEW t \in Trees, ItemsOnce(t), NEW w, NEW torn, Torn(t) \subseteq torn,
         t.selected \subseteq Carriers(NavTarget(w)[2]), t.selected \subseteq Made(t)
  PROVE  Reaches(t.selected, torn, NavTo(t, w), NavTarget(w))
<1> DEFINE v == NavTarget(w)
<1> HIDE DEF v
<1>1. CASE NavTo(t, w) = GotoNode(t, v)
  BY <1>1, GotoReaches DEF v
<1>2. CASE NavTo(t, w) = Asks(t, {GotoCB(v)})
  <2> DEFINE c == GotoCB(v)
             C == {c}
             o == NavTo(t, w)
  <2>1. c.kind # "expand" /\ OnTheWay(t, c, v) /\ C = {c} /\ o = Asks(t, C)
    BY <1>2 DEF GotoCB, OnTheWay
  <2> HIDE DEF c, C, o
  <2>2. Reaches(t.selected, torn, o, v)
    BY <2>1, AsksReaches DEF v
  <2> QED
    BY <2>2 DEF o, v
<1> QED
  BY <1>1, <1>2 DEF NavTo, v

LEMMA RunReaches ==
  ASSUME NEW t \in Trees, ItemsOnce(t), NEW u, NEW c, CallbackOK(t, c), OnTheWay(t, c, u),
         t.selected \subseteq Carriers(u[2]), t.selected \subseteq Made(t)
  PROVE  Reaches(t.selected, Torn(t), Run(t, c), u)
<1> DEFINE torn == Torn(t)
<1> SUFFICES Reaches(t.selected, torn, Run(t, c), u)
  OBVIOUS
<1>0. Torn(t) \subseteq torn
  OBVIOUS
<1> HIDE DEF torn
<1>1. CASE c = GotoCB(u)
  <2>1. c.kind = "goto" /\ c.url = u
    BY <1>1 DEF GotoCB
  <2>2. u \in Targets
    BY <2>1 DEF CallbackOK
  <2> DEFINE s == [t EXCEPT !.indexes = @ \cup {SubIndexOf(u)}]
  <2>3. /\ s \in Trees /\ s.visited = t.visited /\ s.made = t.made /\ s.selected = t.selected
        /\ s.expanded = t.expanded /\ s.shown = t.shown
    BY <2>2 DEF Trees
  <2>4. Run(t, c) = GotoNode(s, u)
    BY <2>1 DEF Run
  <2> HIDE DEF s
  <2>5. ItemsOnce(s) /\ Made(s) = Made(t) /\ Torn(s) \subseteq torn
    BY <1>0, <2>3 DEF ItemsOnce, Made, Torn
  <2>6. Reaches(s.selected, torn, GotoNode(s, u), u)
    BY <2>3, <2>5, GotoReaches
  <2> QED
    BY <2>3, <2>4, <2>6
<1>2. CASE c # GotoCB(u)
  <2>1. /\ c.kind \in {"show", "retry"} /\ c.hash = u[2]
        /\ t.breadcrumbs = ItemOf(u)
        /\ c.index < Len(t.breadcrumbs) /\ c.node = SubSeq(t.breadcrumbs, 1, c.index)
        /\ \A k \in 0..(c.index - 1) : SubSeq(t.breadcrumbs, 1, k) \in t.expanded
    BY <1>2 DEF OnTheWay, Leads
  <2>2. c.index \in Nat
    BY <2>1 DEF CallbackOK
  <2>3. PICK s \in Trees :
          /\ s.visited = t.visited /\ s.made = t.made /\ s.selected = t.selected
          /\ s.shown = t.shown /\ s.breadcrumbs = t.breadcrumbs
          /\ s.expanded \subseteq t.expanded
          /\ \A k \in 0..(c.index - 1) : SubSeq(t.breadcrumbs, 1, k) \in s.expanded
          /\ Run(t, c) = ShowNode(s, c.node, c.index, c.hash)
    <3>1. CASE c.kind = "show"
      <4> DEFINE s == [t EXCEPT !.loaded = @ \cup {c.node}]
      <4>1. c.node \in Scripted
        BY <3>1 DEF CallbackOK
      <4>2. /\ s \in Trees
            /\ s.visited = t.visited /\ s.made = t.made /\ s.selected = t.selected
            /\ s.shown = t.shown /\ s.breadcrumbs = t.breadcrumbs
            /\ s.expanded = t.expanded
        BY <4>1 DEF Trees
      <4>3. Run(t, c) = ShowNode(s, c.node, c.index, c.hash)
        BY <3>1 DEF Run
      <4> HIDE DEF s
      <4> QED
        BY <2>1, <4>2, <4>3
    <3>2. CASE c.kind = "retry"
      <4> DEFINE s == [t EXCEPT !.loaded = @ \cup {c.child}, !.expanded = @ \ {c.node}]
      <4>1. c.child \in Scripted
        BY <3>2 DEF CallbackOK
      <4>2. /\ s \in Trees
            /\ s.visited = t.visited /\ s.made = t.made /\ s.selected = t.selected
            /\ s.shown = t.shown /\ s.breadcrumbs = t.breadcrumbs
            /\ s.expanded = t.expanded \ {c.node}
        BY <4>1 DEF Trees
      <4>3. Run(t, c) = ShowNode(s, c.node, c.index, c.hash)
        BY <3>2 DEF Run
      <4> HIDE DEF s
      <4>4. \A k \in 0..(c.index - 1) : SubSeq(t.breadcrumbs, 1, k) # c.node
        <5> DEFINE i == c.index
                   b == t.breadcrumbs
        <5>1. b \in Seq(Int) /\ i \in Nat /\ i < Len(b)
          BY <2>1, <2>2, NodeSeq DEF Trees
        <5> HIDE DEF i, b
        <5>2. \A k \in 0..(i - 1) : Len(SubSeq(b, 1, k)) = k /\ Len(SubSeq(b, 1, i)) = i /\ k # i
          BY <5>1
        <5>3. \A k \in 0..(i - 1) : SubSeq(b, 1, k) # SubSeq(b, 1, i)
          BY <5>2
        <5> QED
          BY <2>1, <5>3 DEF i, b
      <4> QED
        BY <2>1, <4>2, <4>3, <4>4
    <3> QED
      BY <2>1, <3>1, <3>2
  <2>4. ItemsOnce(s) /\ Made(s) = Made(t) /\ Torn(s) \subseteq torn
    BY <1>0, <2>3 DEF ItemsOnce, Made, Torn
  <2>5. Reaches(s.selected, torn,
                ShowNode(s, SubSeq(s.breadcrumbs, 1, c.index), c.index, u[2]), u)
    <3> DEFINE i == c.index
    <3>1. /\ i \in Nat /\ s.breadcrumbs = ItemOf(u) /\ i < Len(s.breadcrumbs)
          /\ \A k \in 0..(i - 1) : SubSeq(s.breadcrumbs, 1, k) \in s.expanded
      BY <2>1, <2>2, <2>3
    <3> HIDE DEF i
    <3>2. Reaches(s.selected, torn, ShowNode(s, SubSeq(s.breadcrumbs, 1, i), i, u[2]), u)
      BY <2>3, <2>4, <3>1, ShowNodeReaches
    <3> QED
      BY <3>2 DEF i
  <2> QED
    BY <2>1, <2>3, <2>5
<1> QED
  BY <1>1, <1>2

\* A handler that has navigated ends.
LEMMA EndsReaches ==
  ASSUME NEW o, NEW u, NEW sel, NEW torn, Reaches(sel, torn, o, u),
         NEW bag, IsABag(bag), \A c \in BagToSet(bag) : c.kind = "expand",
         Ends(o, bag), animation = <<>>, ~animationInProgress, page' = page
  PROVE  /\ Follows(u)'
         /\ tree'.selected \subseteq Made(tree')
         /\ animationInProgress' => animation' # <<>>
<1>1. /\ tree' = o.tree /\ pending' = bag (+) SetToBag(o.scripts)
      /\ animation' = IF o.scroll THEN <<NoLink>> ELSE <<>>
      /\ animationInProgress' = o.scroll
  BY DEF Ends, Reaches
<1>2. BagToSet(pending') = BagToSet(bag) \cup o.scripts
  BY <1>1, BagAdd
<1>3. tree'.selected \subseteq Made(tree')
  BY <1>1 DEF Reaches
<1>4. animationInProgress' => animation' # <<>>
  BY <1>1
<1>5. CASE o.scripts = {} /\ Shows(o.tree, u)
  <2>1. NavCB' = {}
    BY <1>2, <1>5 DEF NavCB
  <2>2. Shows(tree, u)'
    BY <1>1, <1>5 DEF Shows, Carriers
  <2> QED
    BY <1>1, <1>3, <1>4, <2>1, <2>2 DEF Follows
<1>6. ASSUME NEW c, o.scripts = {c}, c.kind # "expand", OnTheWay(o.tree, c, u),
             o.tree.selected \subseteq Carriers(u[2]), ~o.scroll
      PROVE  Follows(u)'
  <2>1. NavCB' = {c}
    BY <1>2, <1>6 DEF NavCB
  <2>2. c \in {c} \ BagToSet(bag)
    BY <1>6
  <2>3. pending'[c] = 1
    <3>1. c \in o.scripts /\ c \notin BagToSet(bag)
      BY <1>6
    <3>2. (bag (+) SetToBag(o.scripts))[c] = 1
      BY <3>1, BagAddOne
    <3> QED
      BY <1>1, <3>2
  <2>4. OnTheWay(tree, c, u)'
    BY <1>1, <1>6 DEF OnTheWay, Leads
  <2>5. tree'.selected \subseteq Carriers(u[2])' /\ animation' = <<>>
    BY <1>1, <1>6 DEF Carriers
  <2> QED
    BY <2>1, <2>3, <2>4, <2>5 DEF Follows
<1>7. Follows(u)'
  BY <1>1, <1>5, <1>6 DEF Reaches
<1> QED
  BY <1>3, <1>4, <1>7

(***************************************************************************)
(* Where the panel is going.                                               *)
(***************************************************************************)
LEMMA HashedItem ==
  ASSUME NEW n \in Nodes, Hashed(n)
  PROVE  /\ Link[n] \in URL /\ Link[n][2] \in Hashes \ (LineHashes \cup {NoHash})
         /\ Link[ItemOf(Link[n])] = Link[n]
<1>1. Link[n] \in URL /\ Link[n][2] # NoHash
  BY TreeAssumption DEF Hashed
<1>2. /\ Link[n][2] \notin LineHashes /\ Link[n] \in DOMAIN Breadcrumbs
      /\ Link[<<0>> \o Breadcrumbs[Link[n]]] = Link[n]
  BY AnchorsAssumption
<1>3. Lookup(Link[n]) = Breadcrumbs[Link[n]]
  BY <1>2 DEF Lookup
<1>4. Link[n][2] \in Hashes
  BY <1>1 DEF Hashes
<1> QED
  BY <1>1, <1>2, <1>3, <1>4 DEF ItemOf

LEMMA ItemHashed ==
  ASSUME NEW u, Hashed(ItemOf(u))
  PROVE  Link[ItemOf(u)] = u
<1> DEFINE p == <<u[1], NoHash>>
<1>1. CASE u \in DOMAIN Breadcrumbs /\ Lookup(u) = Breadcrumbs[u]
  BY <1>1, AnchorsAssumption DEF ItemOf
<1>2. CASE p \in DOMAIN Breadcrumbs /\ Lookup(u) = Breadcrumbs[p]
  <2>1. Link[ItemOf(u)] = p
    BY <1>2, AnchorsAssumption DEF ItemOf
  <2> QED
    BY <2>1 DEF Hashed
<1>3. CASE Lookup(u) = <<>>
  <2>1. ItemOf(u) = <<0>>
    BY <1>3 DEF ItemOf
  <2> QED
    BY <2>1, AnchorsAssumption
<1> QED
  BY <1>1, <1>2, <1>3 DEF Lookup

LEMMA CarrierHashed ==
  ASSUME NEW h \in Hashes, page \in Pages, NEW n \in Carriers(h)
  PROVE  n \in Nodes /\ Hashed(n) /\ Link[n][2] = h
<1>1. n \in Nodes /\ h # NoHash /\ Link[n] \in Namesakes[page] \X {h}
  BY DEF Carriers
<1>2. Namesakes[page] \subseteq Pages
  BY AnchorsAssumption
<1>3. Link[n] \in Pages \X Hashes /\ Link[n][2] = h
  BY <1>1, <1>2
<1>4. Link[n] # NoLink
  BY <1>3, LocationAssumption
<1> QED
  BY <1>1, <1>3, <1>4 DEF Hashed

LEMMA TargetHash ==
  ASSUME NEW u, u[2] \in Hashes
  PROVE  /\ Listed(Stripped(u))[2] \in Hashes
         /\ u[2] \notin LineHashes => Listed(Stripped(u))[2] = u[2]
BY LocationAssumption DEF Listed, Stripped

LEMMA URLPair ==
  ASSUME NEW u \in URL
  PROVE  u[1] \in Pages /\ u[2] \in Hashes /\ u = <<u[1], u[2]>> /\ u # NoLink
BY LocationAssumption

LEMMA TargetsOK ==
  ASSUME NEW v \in Targets
  PROVE  v[2] \in Hashes /\ v # NoLink
<1>1. PICK u \in URL : v = Listed(Stripped(u))
  BY DEF Targets
<1>2. /\ u = <<u[1], u[2]>> /\ u[1] \in Pages /\ u[2] \in Hashes
      /\ Link[<<0>>] \in URL /\ NoHash \in Hashes
  BY URLPair, NodeSeq, TreeAssumption, AnchorsAssumption, LocationAssumption
<1>3. Link[<<0>>][1] \in Pages
  BY <1>2, URLPair
<1>4. \E p \in Pages, h \in Hashes : v = <<p, h>>
  BY <1>1, <1>2, <1>3 DEF Listed, Stripped
<1>5. v \in Pages \X Hashes /\ v[2] \in Hashes
  BY <1>4
<1> QED
  BY <1>5, LocationAssumption

LEMMA GoalOf ==
  IInv => /\ page \in Pages /\ hash \in Hashes
          /\ Goal[2] \in Hashes /\ NavTarget(Location)[2] \in Hashes
          /\ Goal # NoLink /\ Goal \in Aims
          /\ NavTarget(Location) = Listed(Stripped(IF sync THEN Location ELSE navpath))
<1> SUFFICES ASSUME IInv
             PROVE  /\ page \in Pages /\ hash \in Hashes
                    /\ Goal[2] \in Hashes /\ NavTarget(Location)[2] \in Hashes
                    /\ Goal # NoLink /\ Goal \in Aims
                    /\ NavTarget(Location) = Listed(Stripped(IF sync THEN Location ELSE navpath))
  OBVIOUS
<1>1. /\ Location \in URL /\ navpath \in URL \cup {NoLink} /\ sync = (navpath = NoLink)
      /\ lag \in Targets \cup {NoLink}
  BY DEF IInv
<1>2. page \in Pages /\ hash \in Hashes
  BY <1>1, URLPair DEF Location
<1>3. NavTarget(Location) = Listed(Stripped(IF sync THEN Location ELSE navpath))
  BY <1>1 DEF NavTarget, cachedLink
<1>4. (IF sync THEN Location ELSE navpath) \in URL
  BY <1>1
<1>5. NavTarget(Location) \in Targets
  BY <1>3, <1>4 DEF Targets
<1>6. Goal \in Targets
  BY <1>1, <1>5 DEF Goal
<1>7. Goal \in Aims
  BY DEF Aims
<1> HIDE DEF Goal
<1> QED
  BY <1>2, <1>3, <1>5, <1>6, <1>7, TargetsOK

\* If an item of the hash is selected, what is selected bears the hash of the
\* navigation that comes now.
LEMMA KeptOnAim ==
  ASSUME IInv, sync \/ lag = NoLink, NEW u \in Aims, Shows(tree, u), Anchors(tree, hash) \cap tree.selected # {}
  PROVE  tree.selected \subseteq Carriers(NavTarget(Location)[2])
<1> DEFINE v == NavTarget(Location)
<1>1. /\ page \in Pages /\ hash \in Hashes
      /\ v = Listed(Stripped(IF sync THEN Location ELSE navpath))
  BY GoalOf
<1>2. PICK m \in Nodes : m \in tree.selected /\ m \in Carriers(hash)
  BY DEF Anchors, Carriers, Made
<1>3. Hashed(m) /\ Link[m][2] = hash /\ hash \notin LineHashes
  BY <1>1, <1>2, CarrierHashed, HashedItem
<1>4. sync => v[2] = hash
  BY <1>1, <1>3, TargetHash DEF Location
<1>5. ~sync => u = v
  BY DEF Aims, Goal
<1> HIDE DEF v
<1>6. CASE tree.selected = {ItemOf(u)}
  <2>1. m = ItemOf(u) /\ tree.selected = {m}
    BY <1>2, <1>6
  <2>2. u[2] = hash
    BY <1>3, <2>1, ItemHashed
  <2>3. v[2] = hash
    BY <1>4, <1>5, <2>2
  <2> QED
    BY <1>2, <2>1, <2>3 DEF v
<1>7. CASE tree.selected \subseteq Carriers(u[2])
  <2>1. u[2] = hash
    BY <1>2, <1>7 DEF Carriers
  <2>2. v[2] = hash
    BY <1>4, <1>5, <2>1
  <2> QED
    BY <1>7, <2>1, <2>2 DEF v
<1> QED
  BY <1>6, <1>7 DEF Shows, v

(***************************************************************************)
(* The invariant of Synced: initially, and after every event.              *)
(***************************************************************************)
LEMMA ReachesSight ==
  ASSUME page \in Pages, NEW sel, NEW torn, NEW o, NEW u, Reaches(sel, torn, o, u), u[2] \in Hashes,
         \A m \in Carriers(u[2]) : Link[m] = u, NEW n \in o.tree.selected, n \notin sel
  PROVE  \E m \in o.tree.selected :
           InSight(o.tree, torn, m) /\ (m = n \/ (Hashed(n) /\ Link[m] = Link[n]))
<1> DEFINE i == ItemOf(u)
<1>1. /\ InSight(o.tree, torn, i)
      /\ i \in Carriers(u[2]) => i \in o.tree.selected
      /\ o.tree.selected = {i} \/ o.tree.selected \subseteq Carriers(u[2])
  BY DEF Reaches, Shows
<1> HIDE DEF i
<1>2. CASE o.tree.selected = {i}
  BY <1>1, <1>2
<1>3. CASE o.tree.selected \subseteq Carriers(u[2])
  <2>1. n \in Carriers(u[2])
    BY <1>3
  <2>2. n \in Nodes /\ Hashed(n) /\ Link[n] = u
    BY <2>1, CarrierHashed
  <2>3. Link[i] = u
    BY <2>2, HashedItem DEF i
  <2>4. i \in Nodes
    BY <1>1 DEF InSight, Made
  <2>5. i \in Carriers(u[2])
    BY <2>1, <2>2, <2>3, <2>4 DEF Carriers
  <2> QED
    BY <1>1, <2>2, <2>3, <2>5
<1> QED
  BY <1>1, <1>2, <1>3

\* A navigation to u: of a handler, or of a callback that goes on with it.
LEMMA SyncNavigates ==
  ASSUME IInv, NEW u \in Aims', u[2] \in Hashes, events' = 0 => u = Goal',
         NEW sel, sel \subseteq tree.selected, NEW o, Reaches(sel, Torn(tree), o, u),
         NEW bag, IsABag(bag), \A c \in BagToSet(bag) : c.kind = "expand",
         Ends(o, bag), animation = <<>>, ~animationInProgress, page' = page, ready'
  PROVE  SyncIInv' /\ Sighted
<1>1. /\ Follows(u)'
      /\ tree'.selected \subseteq Made(tree')
      /\ animationInProgress' => animation' # <<>>
  BY EndsReaches
<1>2. SyncIInv'
  BY <1>1 DEF SyncIInv, Made
<1>3. Sighted
  <2> SUFFICES ASSUME events' = 0, ~Confused', NEW n \in tree'.selected, n \notin tree.selected
               PROVE  \E m \in tree'.selected :
                        InSight(tree', Torn(tree), m) /\ (m = n \/ (Hashed(n) /\ Link[m] = Link[n]))
    BY DEF Sighted, InSight, Torn
  <2>1. page \in Pages
    BY GoalOf
  <2>2. \A m \in Carriers(u[2]) : Link[m] = u
    BY DEF Confused, Carriers
  <2>3. tree' = o.tree
    BY DEF Ends
  <2>4. n \in o.tree.selected /\ n \notin sel
    BY <2>3
  <2>5. \E m \in o.tree.selected :
          InSight(o.tree, Torn(tree), m) /\ (m = n \/ (Hashed(n) /\ Link[m] = Link[n]))
    BY <2>1, <2>2, <2>4, ReachesSight
  <2> QED
    BY <2>3, <2>5
<1> QED
  BY <1>2, <1>3

\* An event after which nothing is promised but that a scroll has its end.
LEMMA SyncDisturbed ==
  ASSUME disturbed', animationInProgress' => animation' # <<>>
  PROVE  SyncIInv' /\ Sighted
BY DEF SyncIInv, Sighted

\* An event that leaves alone what a navigation needs and what is selected.
LEMMA SyncStays ==
  ASSUME IInv, SyncIInv, page' = page, ready' = ready, animation' = animation,
         animationInProgress' = animationInProgress, tree'.selected = tree.selected,
         ~disturbed' =>
           /\ ~disturbed
           /\ ready \/ UNCHANGED <<tree, pending>>
           /\ Made(tree) \subseteq Made(tree')
           /\ NavCB' = NavCB
           /\ \A c \in NavCB : pending'[c] = pending[c] /\ tree.expanded \subseteq tree'.expanded
                               /\ tree'.breadcrumbs = tree.breadcrumbs
           /\ ready => Aims \subseteq Aims'
           /\ Busy => /\ sync' = sync /\ (sync \/ Goal' = Goal)
                      /\ lag = NoLink => lag' = NoLink
  PROVE  SyncIInv' /\ Sighted
<1>1. Sighted
  BY DEF Sighted
<1>2. animationInProgress' => animation' # <<>>
  BY DEF SyncIInv
<1>3. SUFFICES ASSUME ~disturbed' PROVE SyncIInv'
  BY <1>1, <1>2, SyncDisturbed
<1>4. tree'.selected \subseteq Made(tree')
  BY <1>3 DEF SyncIInv
<1>5. ~ready' => tree' = NewTree /\ pending' = EmptyBag /\ animation' = <<>>
  BY <1>3 DEF SyncIInv
<1>6. ASSUME ready, NEW u \in Aims, Follows(u) PROVE u \in Aims' /\ Follows(u)'
  <2>1. CASE NavCB = {} /\ animation \in {<<>>, <<NoLink>>} /\ Shows(tree, u)
    BY <1>3, <1>6, <2>1 DEF Follows, Shows, Carriers
  <2>2. ASSUME NEW c \in NavCB, NavCB = {c}, pending[c] = 1, animation = <<>>,
               tree.selected \subseteq Carriers(u[2]), OnTheWay(tree, c, u)
        PROVE  Follows(u)'
    <3>1. c \in NavCB' /\ NavCB' = {c} /\ pending'[c] = 1 /\ animation' = <<>>
      BY <1>3, <2>2
    <3>2. tree'.selected \subseteq Carriers(u[2])'
      BY <2>2 DEF Carriers
    <3>3. OnTheWay(tree, c, u)'
      BY <1>3, <2>2 DEF OnTheWay, Leads
    <3> QED
      BY <3>1, <3>2, <3>3 DEF Follows
  <2> QED
    BY <1>3, <1>6, <2>1, <2>2 DEF Follows
<1>7. ASSUME NEW h \in Hashes, Scrolls(h) PROVE Scrolls(h)'
  <2>1. Busy
    BY <1>7 DEF Scrolls, Busy
  <2>2. (sync' \/ Goal'[2] = h) /\ lag' = NoLink
    BY <1>3, <1>7, <2>1 DEF Scrolls
  <2> QED
    BY <1>3, <1>7, <2>2 DEF Scrolls, Carriers
<1>8. ready' => (\E u \in Aims' : Follows(u)') \/ (\E h \in Hashes : Scrolls(h)')
  BY <1>3, <1>6, <1>7 DEF SyncIInv
<1> QED
  BY <1>2, <1>4, <1>5, <1>8 DEF SyncIInv, Made

LEMMA EndsScroll ==
  ASSUME IInv, SyncIInv, NEW o, o.scroll \in BOOLEAN, NEW bag, Ends(o, bag)
  PROVE  animationInProgress' => animation' # <<>>
<1>1. animation \in Seq(Hashes \cup {NoLink}) /\ animationInProgress \in BOOLEAN
  BY DEF IInv
<1>2. CASE o.scroll
  <2>1. animation' = Append(animation, NoLink)
    BY <1>2 DEF Ends
  <2>2. Len(animation') = Len(animation) + 1 /\ Len(animation) \in Nat
    BY <1>1, <2>1
  <2>3. Len(animation') # 0
    BY <2>2
  <2> QED
    BY <2>3
<1>3. CASE ~o.scroll
  BY <1>1, <1>3 DEF Ends, SyncIInv
<1> QED
  BY <1>2, <1>3

LEMMA InitSync == Init => SyncIInv
BY DEF Init, SyncIInv, NewTree

LEMMA LoadPageSync ==
  ASSUME NEW u, NEW link, LoadPage(u, link)
  PROVE  SyncIInv' /\ Sighted
BY DEF LoadPage, SyncIInv, Sighted, NewTree

LEMMA WindowLoadSync == IInv /\ SyncIInv /\ WindowLoad => SyncIInv' /\ Sighted
<1> SUFFICES ASSUME IInv, SyncIInv, WindowLoad PROVE SyncIInv' /\ Sighted
  OBVIOUS
<1> DEFINE n == NavTo(tree, Location)
           o == [n EXCEPT !.showRoot = TRUE]
<1>1. /\ Ends(o, pending) /\ ready' /\ ~ready /\ disturbed' = (disturbed \/ Busy)
      /\ lag' = NoLink /\ UNCHANGED <<page, hash, navpath, sync, events>>
  BY DEF WindowLoad
<1>2. /\ tree \in Trees /\ ItemsOnce(tree) /\ FlagsOK(tree) /\ IsABag(pending)
      /\ navpath \in URL \cup {NoLink} /\ Location \in URL
  BY DEF IInv
<1>3. Stepped(tree, n)
  BY <1>2, NavToStep
<1>4. n \in [tree : {n.tree}, scripts : {n.scripts}, scroll : {n.scroll}, showRoot : {n.showRoot}]
  BY DEF NavTo, GotoNode, ShowNode, Asks, SelectAndHighlight, Outcome
<1> HIDE DEF n
<1>5. o.tree = n.tree /\ o.scripts = n.scripts /\ o.scroll = n.scroll
  BY <1>4
<1> HIDE DEF o
<1> DEFINE v == NavTarget(Location)
<1>6. CASE disturbed'
  <2>1. o.scroll \in BOOLEAN
    BY <1>3, <1>5 DEF Stepped
  <2>2. animationInProgress' => animation' # <<>>
    BY <1>1, <2>1, EndsScroll
  <2> QED
    BY <1>6, <2>2, SyncDisturbed
<1>7. CASE ~disturbed'
  <2>1. tree = NewTree /\ pending = EmptyBag /\ animation = <<>> /\ ~animationInProgress
    BY <1>1, <1>2, <1>7 DEF SyncIInv, IInv
  <2>2. tree.selected = {}
    BY <2>1 DEF NewTree
  <2>3. Reaches({}, Torn(tree), n, v)
    <3>1. tree.selected \subseteq Carriers(NavTarget(Location)[2]) /\ tree.selected \subseteq Made(tree)
      BY <2>2
    <3>2. Reaches(tree.selected, Torn(tree), NavTo(tree, Location), NavTarget(Location))
      BY <1>2, <3>1, NavToReaches
    <3> QED
      BY <2>2, <3>2 DEF n
  <2>4. Reaches({}, Torn(tree), o, v)
    BY <1>5, <2>3 DEF Reaches
  <2>5. Goal' = v /\ v \in Aims' /\ v[2] \in Hashes
    <3>1. Goal' = v
      BY <1>1 DEF Goal, NavTarget, Location, cachedLink
    <3>2. Goal' \in Aims'
      BY DEF Aims
    <3> HIDE DEF v
    <3> QED
      BY <3>1, <3>2, GoalOf DEF v
  <2> HIDE DEF v
  <2>6. BagToSet(pending) = {} /\ {} \subseteq tree.selected /\ page' = page
    BY <1>1, <2>1, NoBag
  <2> QED
    BY <1>1, <1>2, <2>1, <2>4, <2>5, <2>6, SyncNavigates
<1> QED
  BY <1>6, <1>7

LEMMA HashChangeSync == IInv /\ SyncIInv /\ HashChange => SyncIInv' /\ Sighted
<1> SUFFICES ASSUME IInv, SyncIInv, HashChange PROVE SyncIInv' /\ Sighted
  OBVIOUS
<1>1. /\ events > 0 /\ events' = events - 1
      /\ disturbed' = \/ disturbed \/ Busy \/ ~ready
                      \/ Anchors(tree, hash) \cap tree.selected # {} /\ ~sync /\ lag # NoLink
      /\ lag' = NoLink
      /\ UNCHANGED <<page, hash, navpath, sync, ready>>
  BY DEF HashChange
<1>2. /\ tree \in Trees /\ ItemsOnce(tree) /\ FlagsOK(tree) /\ IsABag(pending)
      /\ navpath \in URL \cup {NoLink} /\ Location \in URL
      /\ animationInProgress \in BOOLEAN /\ ready \in BOOLEAN
  BY DEF IInv
<1> DEFINE v == NavTarget(Location)
<1>3. CASE disturbed'
  <2>1. CASE UNCHANGED <<animation, animationInProgress>>
    BY <1>3, <2>1, SyncDisturbed DEF SyncIInv
  <2>2. CASE \E t \in {tree, Deselected(tree)} : Ends(NavTo(t, Location), pending)
    <3>1. PICK t \in {tree, Deselected(tree)} : Ends(NavTo(t, Location), pending)
      BY <2>2
    <3>2. t \in Trees /\ ItemsOnce(t) /\ FlagsOK(t)
      BY <1>2, DeselectedOK
    <3>3. Stepped(t, NavTo(t, Location))
      BY <1>2, <3>2, NavToStep
    <3> DEFINE o == NavTo(t, Location)
    <3>4. Ends(o, pending) /\ o.scroll \in BOOLEAN
      BY <3>1, <3>3 DEF Stepped
    <3> HIDE DEF o
    <3>5. animationInProgress' => animation' # <<>>
      BY <3>4, EndsScroll
    <3> QED
      BY <1>3, <3>5, SyncDisturbed
  <2> QED
    BY <2>1, <2>2 DEF HashChange
<1>4. CASE ~disturbed'
  <2>1. /\ NavCB = {} /\ animation = <<>> /\ ~animationInProgress /\ ready
        /\ tree.selected \subseteq Made(tree)
    BY <1>1, <1>2, <1>4 DEF SyncIInv, Busy
  <2>2. PICK u \in Aims : Shows(tree, u)
    BY <1>1, <1>4, <2>1 DEF SyncIInv, Follows, Scrolls
  <2>3. PICK t \in {tree, Deselected(tree)} :
          /\ Ends(NavTo(t, Location), pending)
          /\ \/ t = tree /\ Anchors(tree, hash) \cap tree.selected # {}
             \/ t = Deselected(tree)
    <3> DEFINE kept == Anchors(tree, hash) \cap tree.selected # {}
    <3>1. Ends(NavTo(IF kept THEN tree ELSE Deselected(tree), Location), pending)
      BY <2>1 DEF HashChange
    <3>2. CASE kept
      BY <3>1, <3>2
    <3>3. CASE ~kept
      BY <3>1, <3>3
    <3> QED
      BY <3>2, <3>3
  <2>4. t \in Trees /\ ItemsOnce(t) /\ t.selected \subseteq tree.selected
        /\ t.selected \subseteq Made(t) /\ t.selected \subseteq Carriers(v[2])
    <3>1. CASE t = tree /\ Anchors(tree, hash) \cap tree.selected # {}
      <4>1. tree.selected \subseteq Carriers(v[2])
        BY <1>1, <1>4, <1>2, <2>2, <3>1, KeptOnAim DEF IInv
      <4> QED
        BY <1>2, <2>1, <3>1, <4>1
    <3>2. CASE t = Deselected(tree)
      <4>1. t.selected = {}
        BY <1>2, <3>2 DEF Deselected, Trees
      <4> QED
        BY <1>2, <3>2, <4>1, DeselectedOK
    <3> QED
      BY <2>3, <3>1, <3>2
  <2> DEFINE o == NavTo(t, Location)
  <2>5. Reaches(t.selected, Torn(tree), o, v)
    <3>1. Torn(t) \subseteq Torn(tree)
      BY <1>2, <2>3, DeselectedOK DEF Torn
    <3> QED
      BY <2>4, <3>1, NavToReaches
  <2>6. Ends(o, pending)
    BY <2>3
  <2> HIDE DEF o
  <2>7. \A c \in BagToSet(pending) : c.kind = "expand"
    BY <2>1 DEF NavCB
  <2>8. Goal' = v /\ v \in Aims' /\ v[2] \in Hashes
    <3>1. Goal' = v
      BY <1>1 DEF Goal, NavTarget, Location, cachedLink
    <3>2. Goal' \in Aims'
      BY DEF Aims
    <3> HIDE DEF v
    <3> QED
      BY <3>1, <3>2, GoalOf DEF v
  <2> HIDE DEF v
  <2> QED
    BY <1>1, <1>2, <2>1, <2>4, <2>5, <2>6, <2>7, <2>8, SyncNavigates
<1> QED
  BY <1>3, <1>4

\* expandNode selects nothing, and asks for no script of a navigation.
LEMMA ExpandFields ==
  ASSUME NEW t \in Trees, ItemsOnce(t), FlagsOK(t), NEW n \in Nodes
  PROVE  LET o == ExpandNode(t, n)
         IN  /\ o.scroll = FALSE
             /\ \A c \in o.scripts : c.kind = "expand"
             /\ o.tree.selected = t.selected /\ o.tree.breadcrumbs = t.breadcrumbs
             /\ t.expanded \subseteq o.tree.expanded /\ Made(t) \subseteq Made(o.tree)
<1> DEFINE o == ExpandNode(t, n)
           u == Slide([GetNodes(t, {n}) EXCEPT !.expanded = @ \cup {n}], n, "down")
<1>1. n \notin t.expanded =>
        /\ u.selected = t.selected /\ u.breadcrumbs = t.breadcrumbs
        /\ t.expanded \subseteq u.expanded /\ Made(t) \subseteq Made(u)
  <2> SUFFICES ASSUME n \notin t.expanded
               PROVE  /\ u.selected = t.selected /\ u.breadcrumbs = t.breadcrumbs
                      /\ t.expanded \subseteq u.expanded /\ Made(t) \subseteq Made(u)
    OBVIOUS
  <2>1. /\ ItemsOnce(u) /\ Grows(t, u) /\ u.selected = t.selected
        /\ u.visited = t.visited \cup {n} /\ u.expanded = t.expanded \cup {n}
    BY ExpandedTree
  <2> HIDE DEF u
  <2>2. Made(t) \subseteq Made(u)
    BY <2>1, MadeOf
  <2> QED
    BY <2>1, <2>2 DEF Grows
<1> HIDE DEF u
<1>2. /\ o.tree = t \/ (n \notin t.expanded /\ o.tree = u)
      /\ o.scripts \subseteq {ExpandCB(n)}
  BY DEF ExpandNode, Asks, Outcome, u
<1>3. ExpandCB(n).kind = "expand" /\ o.scroll = FALSE
  BY DEF ExpandCB, ExpandNode, Asks, Outcome
<1> HIDE DEF o
<1> QED
  BY <1>1, <1>2, <1>3 DEF o

\* Scripts of branches that the reader opens are added to those of a navigation.
LEMMA ExpandPending ==
  ASSUME NEW bag, IsABag(bag), NEW S, \A c \in S : c.kind = "expand",
         NEW c, c.kind # "expand"
  PROVE  LET b == bag (+) SetToBag(S)
         IN  /\ c \in BagToSet(b) <=> c \in BagToSet(bag)
             /\ c \in BagToSet(bag) => b[c] = bag[c]
<1>1. c \notin S
  OBVIOUS
<1> QED
  BY <1>1, BagAdd, BagAddKeeps

LEMMA ScriptArrivesSync ==
  ASSUME IInv, SyncIInv, NEW c \in BagToSet(pending), ScriptArrives(c)
  PROVE  SyncIInv' /\ Sighted
<1> DEFINE o == Run(tree, c)
           bag == pending (-) SetToBag({c})
<1>1. /\ Ends(o, bag)
      /\ UNCHANGED <<page, hash, navpath, sync, ready, events, disturbed, lag>>
  BY DEF ScriptArrives
<1>2. /\ tree \in Trees /\ ItemsOnce(tree) /\ FlagsOK(tree) /\ IsABag(pending)
      /\ CallbackOK(tree, c) /\ animationInProgress \in BOOLEAN
  BY DEF IInv
<1>3. Stepped(tree, o)
  BY <1>2, RunStep
<1>4. /\ IsABag(bag) /\ BagToSet(bag) \subseteq BagToSet(pending)
      /\ BagToSet(pending) \ {c} \subseteq BagToSet(bag)
  BY <1>2, BagRemove
<1>5. Goal' = Goal /\ Aims' = Aims
  BY <1>1 DEF Goal, NavTarget, Aims, Location, cachedLink
<1>6. CASE disturbed'
  <2>1. o.scroll \in BOOLEAN
    BY <1>3 DEF Stepped
  <2> HIDE DEF o, bag
  <2>2. animationInProgress' => animation' # <<>>
    BY <1>1, <2>1, EndsScroll
  <2> QED
    BY <1>6, <2>2, SyncDisturbed
<1>7. CASE ~disturbed' /\ c.kind = "expand"
  <2>1. ready
    BY <1>1, <1>7, NoBag DEF SyncIInv
  <2> DEFINE s == [tree EXCEPT !.loaded = @ \cup {c.node}]
  <2>2. c.node \in Scripted /\ c.node \in Nodes
    BY <1>2, <1>7, NodeSeq DEF CallbackOK
  <2>3. /\ s \in Trees /\ s.visited = tree.visited /\ s.made = tree.made
        /\ s.shown = tree.shown /\ s.expanded = tree.expanded
        /\ s.slides = tree.slides /\ s.selected = tree.selected
        /\ s.breadcrumbs = tree.breadcrumbs
    BY <1>2, <2>2 DEF Trees
  <2>4. o = ExpandNode(s, c.node)
    BY <1>7 DEF Run
  <2> HIDE DEF s, o
  <2>5. ItemsOnce(s) /\ FlagsOK(s) /\ Made(s) = Made(tree)
    BY <1>2, <2>3 DEF ItemsOnce, FlagsOK, Made
  <2>6. /\ o.scroll = FALSE
        /\ \A d \in o.scripts : d.kind = "expand"
        /\ o.tree.selected = tree.selected /\ o.tree.breadcrumbs = tree.breadcrumbs
        /\ tree.expanded \subseteq o.tree.expanded /\ Made(tree) \subseteq Made(o.tree)
    BY <2>2, <2>3, <2>4, <2>5, ExpandFields
  <2>7. /\ tree' = o.tree /\ pending' = bag (+) SetToBag(o.scripts)
        /\ animation' = animation /\ animationInProgress' = animationInProgress
    BY <1>1, <1>2, <2>6 DEF Ends
  <2>8. ASSUME NEW d, d.kind # "expand"
        PROVE  /\ d \in BagToSet(pending') <=> d \in BagToSet(pending)
               /\ d \in BagToSet(pending) => pending'[d] = pending[d]
    <3>1. d # c
      BY <1>7, <2>8
    <3>2. /\ d \in BagToSet(bag) <=> d \in BagToSet(pending)
          /\ d \in BagToSet(pending) => bag[d] = pending[d]
      BY <1>2, <1>4, <3>1, BagRemoveKeeps
    <3> HIDE DEF bag
    <3>3. /\ d \in BagToSet(pending') <=> d \in BagToSet(bag)
          /\ d \in BagToSet(bag) => pending'[d] = bag[d]
      BY <1>4, <2>6, <2>7, <2>8, ExpandPending
    <3> QED
      BY <3>2, <3>3
  <2>9. NavCB' = NavCB /\ \A d \in NavCB : pending'[d] = pending[d]
    BY <2>8 DEF NavCB
  <2> HIDE DEF bag
  <2>10. Busy => /\ sync' = sync /\ (sync \/ Goal' = Goal)
                  /\ lag = NoLink => lag' = NoLink
    BY <1>1, <1>5
  <2> QED
    BY <1>1, <1>5, <1>7, <2>1, <2>6, <2>7, <2>9, <2>10, SyncStays
<1>8. CASE ~disturbed' /\ c.kind # "expand"
  <2>1. ready /\ c \in NavCB /\ tree.selected \subseteq Made(tree)
    BY <1>1, <1>8, NoBag DEF SyncIInv, NavCB
  <2>2. PICK u \in Aims : Follows(u)
    BY <1>1, <1>8, <2>1 DEF SyncIInv, Scrolls
  <2>3. /\ NavCB = {c} /\ pending[c] = 1 /\ animation = <<>>
        /\ tree.selected \subseteq Carriers(u[2]) /\ OnTheWay(tree, c, u)
    BY <2>1, <2>2 DEF Follows
  <2>4. Reaches(tree.selected, Torn(tree), o, u)
    BY <1>2, <2>1, <2>3, RunReaches
  <2>5. \A d \in BagToSet(bag) : d.kind = "expand"
    <3>1. BagToSet(bag) = BagToSet(pending) \ {c}
      BY <1>2, <2>3, BagRemoveOne
    <3> QED
      BY <2>3, <3>1 DEF NavCB
  <2> HIDE DEF o, bag
  <2>6. u \in Aims' /\ u[2] \in Hashes /\ (events' = 0 => u = Goal')
    <3>1. events' = 0 => u = Goal'
      BY <1>1, <1>5 DEF Aims
    <3>2. CASE u = Goal
      BY <1>5, <3>1, <3>2, GoalOf
    <3>3. CASE u # Goal
      <4>1. PICK h \in Hashes : u = Listed(Stripped(<<page, h>>))
        BY <3>3 DEF Aims
      <4> DEFINE w == <<page, h>>
      <4>2. w[2] \in Hashes
        OBVIOUS
      <4> HIDE DEF w
      <4>3. Listed(Stripped(w))[2] \in Hashes
        BY <4>2, TargetHash
      <4> QED
        BY <1>5, <3>1, <4>1, <4>3 DEF w
    <3> QED
      BY <3>2, <3>3
  <2>7. ~animationInProgress
    BY <1>2, <2>3 DEF SyncIInv
  <2>8. page' = page /\ ready'
    BY <1>1, <2>1
  <2> QED
    BY <1>1, <1>4, <2>3, <2>4, <2>5, <2>6, <2>7, <2>8, SyncNavigates
<1> QED
  BY <1>6, <1>7, <1>8

\* GoalOf, after a step.
LEMMA GoalNext ==
  ASSUME IInv'
  PROVE  /\ lag' = NoLink =>
              Goal' = Listed(Stripped(IF sync' THEN Location' ELSE navpath'))
         /\ lag' # NoLink => Goal' = lag'
         /\ Goal' \in Aims'
<1>1. sync' = (navpath' = NoLink)
  BY DEF IInv
<1>2. lag' = NoLink => Goal' = Listed(Stripped(IF sync' THEN Location' ELSE navpath'))
  BY <1>1 DEF Goal, NavTarget, cachedLink
<1>3. lag' # NoLink => Goal' = lag'
  BY DEF Goal
<1>4. Goal' \in Aims'
  BY DEF Aims
<1> QED
  BY <1>2, <1>3, <1>4

LEMMA AnimationEndsSync == IInv /\ SyncIInv /\ AnimationEnds => SyncIInv' /\ Sighted
<1> SUFFICES ASSUME IInv, SyncIInv, AnimationEnds PROVE SyncIInv' /\ Sighted
  OBVIOUS
<1>1. /\ animation # <<>> /\ animation' = Tail(animation) /\ animationInProgress' = FALSE
      /\ UNCHANGED <<page, navpath, sync, ready, tree, pending, retrying, disturbed, lag>>
  BY DEF AnimationEnds
<1>2. Sighted
  BY <1>1 DEF Sighted
<1>3. SUFFICES ASSUME ~disturbed' PROVE SyncIInv'
  BY <1>1, <1>2, SyncDisturbed
<1>4. ready /\ tree.selected \subseteq Made(tree)
  BY <1>1, <1>3 DEF SyncIInv
<1>5. NavCB' = NavCB
  BY <1>1 DEF NavCB
<1>6. ASSUME NEW u \in Aims, Follows(u) PROVE SyncIInv'
  <2>1. NavCB = {} /\ animation = <<NoLink>> /\ Shows(tree, u)
    BY <1>1, <1>6 DEF Follows
  <2>2. animation' = <<>> /\ UNCHANGED <<hash, events>>
    BY <1>1, <2>1 DEF AnimationEnds
  <2>3. Aims' = Aims
    BY <1>1, <2>2 DEF Aims, Goal, NavTarget, Location, cachedLink
  <2>4. Follows(u)'
    BY <1>1, <1>5, <2>1, <2>2 DEF Follows, Shows, Carriers
  <2>5. \E v \in Aims' : Follows(v)'
    BY <1>6, <2>3, <2>4
  <2> QED
    BY <1>1, <1>4, <2>5 DEF SyncIInv, Made
<1>7. ASSUME NEW h \in Hashes, Scrolls(h) PROVE SyncIInv'
  <2>1. /\ NavCB = {} /\ animation = <<h>> /\ h \notin LineHashes
        /\ tree.selected # {} /\ tree.selected \subseteq Carriers(h)
        /\ sync \/ Goal[2] = h
        /\ lag = NoLink /\ lag' = NoLink
    BY <1>1, <1>7 DEF Scrolls
  <2>2. h # NoLink
    BY LocationAssumption
  <2>3. animation' = <<>> /\ hash' = h
    BY <1>1, <2>1, <2>2 DEF AnimationEnds, SetHash
  <2>4. IInv'
    BY AnimationEndsStep
  <2>5. Goal = Listed(Stripped(IF sync THEN Location ELSE navpath))
    BY <2>1, GoalOf DEF Goal
  <2>6. /\ Goal' \in Aims'
        /\ Goal' = Listed(Stripped(IF sync' THEN Location' ELSE navpath'))
    BY <2>1, <2>4, GoalNext
  <2>7. Goal'[2] = h
    <3>1. CASE sync
      <4>1. Location' = <<page, h>>
        BY <1>1, <2>3 DEF Location
      <4>2. Location'[2] \in Hashes /\ Location'[2] \notin LineHashes /\ Location'[2] = h
        BY <2>1, <4>1
      <4>3. Listed(Stripped(Location'))[2] = h
        BY <4>2, TargetHash
      <4> QED
        BY <1>1, <2>6, <3>1, <4>3
    <3>2. CASE ~sync
      <4>1. Goal' = Goal
        BY <1>1, <2>5, <2>6, <3>2
      <4> QED
        BY <2>1, <3>2, <4>1
    <3> QED
      BY <3>1, <3>2
  <2>8. tree'.selected # {} /\ tree'.selected \subseteq Carriers(h)'
    BY <1>1, <2>1 DEF Carriers
  <2>9. Follows(Goal)'
    BY <1>5, <2>1, <2>3, <2>7, <2>8 DEF Follows, Shows, Carriers
  <2>10. \E v \in Aims' : Follows(v)'
    BY <2>6, <2>9
  <2> QED
    BY <1>1, <1>4, <2>10 DEF SyncIInv, Made
<1> QED
  BY <1>1, <1>3, <1>4, <1>6, <1>7 DEF SyncIInv

LEMMA RetrySync == IInv /\ SyncIInv /\ Retry => SyncIInv' /\ Sighted
<1> SUFFICES ASSUME IInv, SyncIInv, Retry PROVE SyncIInv' /\ Sighted
  OBVIOUS
<1>1. UNCHANGED <<page, hash, navpath, sync, ready, tree, pending, events, animation,
                  animationInProgress, disturbed, lag>>
  BY DEF Retry
<1>2. NavCB' = NavCB /\ Aims' = Aims /\ Goal' = Goal
  BY <1>1 DEF NavCB, Aims, Goal, NavTarget, Location, cachedLink
<1>3. sync = TRUE \/ Goal' = Goal
  BY <1>2
<1> QED
  BY <1>1, <1>2, <1>3, SyncStays DEF Made

LEMMA ChangeHashSync ==
  ASSUME IInv, SyncIInv, NEW h \in Hashes, ChangeHash(h)
  PROVE  SyncIInv' /\ Sighted
<1>1. /\ UNCHANGED <<page, navpath, sync, ready, tree, pending, animation,
                     animationInProgress, disturbed, lag>>
      /\ events' = events + 1 /\ events \in Nat
  BY DEF ChangeHash, SetHash, IInv
<1>2. NavCB' = NavCB
  BY <1>1 DEF NavCB
<1>3. /\ hash \in Hashes
      /\ NavTarget(Location) = Listed(Stripped(IF sync THEN Location ELSE navpath))
  BY GoalOf
<1>4. IInv'
  BY ChangeHashStep
<1>5. /\ lag' = NoLink =>
           Goal' = Listed(Stripped(IF sync' THEN Location' ELSE navpath'))
      /\ lag' # NoLink => Goal' = lag'
      /\ Goal' \in Aims'
  BY <1>4, GoalNext
<1>6. ~sync \/ lag # NoLink => Goal' = Goal
  BY <1>1, <1>3, <1>5 DEF Goal
<1>7. Aims \subseteq Aims'
  <2>1. Goal \in Aims'
    <3>1. CASE Goal' = Goal
      BY <1>5, <3>1
    <3>2. CASE sync /\ lag = NoLink
      <4>1. Goal = Listed(Stripped(<<page, hash>>)) /\ hash \in Hashes
        BY <1>3, <3>2 DEF Goal, Location
      <4>2. events' > 0 /\ sync' /\ page' = page
        BY <1>1, <3>2
      <4> HIDE DEF Goal
      <4> QED
        BY <4>1, <4>2 DEF Aims
    <3> QED
      BY <1>6, <3>1, <3>2
  <2>2. Aims \ {Goal} \subseteq Aims'
    <3>1. events > 0 => events' > 0
      BY <1>1
    <3> QED
      BY <1>1, <3>1 DEF Aims
  <2> QED
    BY <2>1, <2>2
<1>8. sync \in BOOLEAN
  BY DEF IInv
<1> QED
  BY <1>1, <1>2, <1>6, <1>7, <1>8, SyncStays DEF Made

LEMMA ClickAnchorSync ==
  ASSUME IInv, SyncIInv, NEW n \in Nodes, ClickAnchor(n)
  PROVE  SyncIInv' /\ Sighted
<1> DEFINE h == Link[n][2]
<1>1. /\ UNCHANGED <<page, hash, sync, ready, pending, events>>
      /\ Visible(tree, n) /\ Link[n] # NoLink /\ Link[n][1] = page /\ h # NoHash
      /\ navpath' = storeLink(Link[n])
      /\ tree' = [tree EXCEPT !.selected = IF n \in @ THEN @ ELSE {n}]
      /\ animation' = Append(animation, h)
      /\ disturbed' = (disturbed \/ Busy \/ events > 0) /\ lag' = NoLink
  BY DEF ClickAnchor
<1>2. /\ tree'.selected = IF n \in tree.selected THEN tree.selected ELSE {n}
      /\ tree'.made = tree.made /\ tree'.shown = tree.shown
  BY <1>1 DEF IInv, Trees
<1>3. Made(tree') = Made(tree) /\ Visible(tree', n) /\ n \in Made(tree')
  BY <1>1, <1>2 DEF Made, Visible
<1>4. Sighted
  BY <1>2, <1>3 DEF Sighted, Visible
<1>5. animation' # <<>>
  <2>1. animation \in Seq(Hashes \cup {NoLink})
    BY DEF IInv
  <2>2. Len(animation') = Len(animation) + 1 /\ Len(animation) \in Nat
    BY <1>1, <2>1
  <2>3. Len(animation') # 0
    BY <2>2
  <2> QED
    BY <2>3
<1>6. SUFFICES ASSUME ~disturbed' PROVE SyncIInv'
  BY <1>4, <1>5, SyncDisturbed
<1>7. NavCB = {} /\ animation = <<>> /\ events = 0 /\ tree.selected \subseteq Made(tree)
  <2>1. ~disturbed /\ ~Busy /\ ~(events > 0)
    BY <1>1, <1>6
  <2>2. events \in Nat /\ tree.selected \subseteq Made(tree)
    BY <2>1 DEF IInv, SyncIInv
  <2> QED
    BY <2>1, <2>2 DEF Busy
<1>8. ready
  <2>1. Made(NewTree) = {}
    BY DEF Made, NewTree
  <2>2. n \in Made(tree)
    BY <1>1 DEF Visible
  <2> QED
    BY <1>1, <1>6, <2>1, <2>2 DEF SyncIInv
<1>9. Shows(tree, Goal)
  BY <1>1, <1>6, <1>7, <1>8 DEF SyncIInv, Follows, Scrolls, Aims
<1>10. Hashed(n) /\ Link[n] \in URL /\ h \in Hashes \ (LineHashes \cup {NoHash})
  BY <1>1, HashedItem DEF Hashed
<1>11. Link[n] = <<page, h>> /\ page \in Pages
  BY <1>1, <1>10, URLPair
<1>12. n \in Carriers(h)
  <2>1. page \in Namesakes[page] /\ h # NoHash
    BY <1>10, <1>11, AnchorsAssumption
  <2> HIDE DEF h
  <2> QED
    BY <1>11, <2>1 DEF Carriers
<1> HIDE DEF h
<1>13. tree'.selected # {} /\ tree'.selected \subseteq Carriers(h)
  <2>1. CASE n \in tree.selected
    <3>1. CASE tree.selected = {ItemOf(Goal)}
      BY <1>2, <1>12, <2>1, <3>1
    <3>2. CASE tree.selected \subseteq Carriers(Goal[2])
      <4>1. Goal[2] = h
        BY <1>12, <2>1, <3>2 DEF Carriers
      <4> QED
        BY <1>2, <2>1, <3>2, <4>1
    <3> QED
      BY <1>9, <3>1, <3>2 DEF Shows
  <2>2. CASE n \notin tree.selected
    BY <1>2, <1>12, <2>2
  <2> QED
    BY <2>1, <2>2
<1>14. sync' \/ Goal'[2] = h
  <2> SUFFICES ASSUME ~sync PROVE Goal'[2] = h
    BY <1>1
  <2>1. navpath' = Link[n] /\ ~sync'
    BY <1>1 DEF storeLink
  <2>2. IInv'
    BY ClickAnchorStep
  <2>3. Goal' = Listed(Stripped(IF sync' THEN Location' ELSE navpath'))
    BY <1>1, <2>2, GoalNext
  <2>4. Link[n][2] = h
    BY DEF h
  <2> QED
    BY <1>10, <2>1, <2>3, <2>4, TargetHash
<1>15. Scrolls(h)'
  <2>1. animation' = <<h>> /\ NavCB' = {}
    BY <1>1, <1>7 DEF NavCB, h
  <2> QED
    BY <1>1, <1>10, <1>13, <1>14, <2>1 DEF Scrolls, Carriers
<1>16. tree'.selected \subseteq Made(tree')
  BY <1>2, <1>3, <1>7
<1>17. \E g \in Hashes : Scrolls(g)'
  BY <1>10, <1>15
<1> QED
  BY <1>1, <1>5, <1>8, <1>16, <1>17 DEF SyncIInv, Made

LEMMA ToggleBranchSync ==
  ASSUME IInv, SyncIInv, NEW n \in Nodes, Toggle(n)
  PROVE  SyncIInv' /\ Sighted
<1> DEFINE o == IF n \in tree.expanded THEN Collapse(tree, n) ELSE ExpandNode(tree, n)
<1>1. /\ Ends(o, pending) /\ Visible(tree, n)
      /\ disturbed' = (disturbed \/ Busy) /\ lag' = IF disturbed' THEN NoLink ELSE lag
      /\ UNCHANGED <<page, hash, navpath, sync, ready, events>>
  BY DEF Toggle
<1>2. /\ tree \in Trees /\ ItemsOnce(tree) /\ FlagsOK(tree) /\ IsABag(pending)
      /\ animationInProgress \in BOOLEAN
  BY DEF IInv
<1>3. /\ o.scroll = FALSE
      /\ \A c \in o.scripts : c.kind = "expand"
      /\ o.tree.selected = tree.selected /\ Made(tree) \subseteq Made(o.tree)
  <2>1. CASE n \in tree.expanded
    <3>1. o = Collapse(tree, n)
      BY <2>1
    <3> HIDE DEF o
    <3>2. /\ o.scroll = FALSE /\ o.scripts = {}
          /\ o.tree.selected = tree.selected /\ o.tree.made = tree.made
      BY <1>1, <1>2, <2>1, <3>1, CollapseStep
    <3> QED
      BY <3>2 DEF Made
  <2>2. CASE n \notin tree.expanded
    <3>1. o = ExpandNode(tree, n)
      BY <2>2
    <3> HIDE DEF o
    <3> QED
      BY <1>2, <3>1, ExpandFields
  <2> QED
    BY <2>1, <2>2
<1> HIDE DEF o
<1>4. /\ tree' = o.tree /\ pending' = pending (+) SetToBag(o.scripts)
      /\ animation' = animation /\ animationInProgress' = animationInProgress
  BY <1>1, <1>2, <1>3 DEF Ends
<1>5. CASE disturbed'
  <2>1. animationInProgress' => animation' # <<>>
    BY <1>4 DEF SyncIInv
  <2> QED
    BY <1>5, <2>1, SyncDisturbed
<1>6. CASE ~disturbed'
  <2>1. ~disturbed /\ ~Busy
    BY <1>1, <1>6
  <2>2. ready
    <3>1. Made(NewTree) = {}
      BY DEF Made, NewTree
    <3>2. n \in Made(tree)
      BY <1>1 DEF Visible
    <3> QED
      BY <2>1, <3>1, <3>2 DEF SyncIInv
  <2>3. NavCB' = NavCB /\ NavCB = {}
    <3>1. ASSUME NEW c, c.kind # "expand"
          PROVE  c \in BagToSet(pending') <=> c \in BagToSet(pending)
      BY <1>2, <1>3, <1>4, <3>1, ExpandPending
    <3> QED
      BY <2>1, <3>1 DEF NavCB, Busy
  <2>4. Aims' = Aims /\ lag' = lag
    BY <1>1, <1>6 DEF Aims, Goal, NavTarget, Location, cachedLink
  <2> QED
    BY <1>1, <1>3, <1>4, <2>1, <2>2, <2>3, <2>4, SyncStays
<1> QED
  BY <1>5, <1>6

LEMMA ToggleSyncSync == IInv /\ SyncIInv /\ ToggleSync => SyncIInv' /\ Sighted
<1> SUFFICES ASSUME IInv, SyncIInv, ToggleSync PROVE SyncIInv' /\ Sighted
  OBVIOUS
<1>1. /\ sync' = ~sync /\ navpath' = (IF sync THEN Location ELSE NoLink)
      /\ disturbed' = (disturbed \/ Busy \/ events > 0)
      /\ lag' = IF ready /\ ~disturbed' /\ Listed(Stripped(Location)) # Goal THEN Goal ELSE NoLink
      /\ UNCHANGED <<page, hash, ready, tree, pending, events, animation,
                     animationInProgress>>
  BY DEF ToggleSync, deleteLink
<1>2. NavCB' = NavCB
  BY <1>1 DEF NavCB
<1>3. ~disturbed' => ~Busy /\ (ready => Aims \subseteq Aims')
  <2> SUFFICES ASSUME ~disturbed', ready PROVE Aims \subseteq Aims'
    BY <1>1
  <2>1. ~(events > 0) /\ Location' = Location
    BY <1>1 DEF Location
  <2>2. IInv'
    BY ToggleSyncStep
  <2>3. /\ lag' = NoLink =>
             Goal' = Listed(Stripped(IF sync' THEN Location' ELSE navpath'))
        /\ lag' # NoLink => Goal' = lag'
        /\ Goal' \in Aims'
    BY <2>2, GoalNext
  <2>4. Aims = {Goal} /\ Goal # NoLink
    BY <2>1, GoalOf DEF Aims
  <2> DEFINE g == Goal
  <2>5. lag' = IF Listed(Stripped(Location)) # g THEN g ELSE NoLink
    BY <1>1
  <2>6. Goal' = Goal
    <3>1. CASE Listed(Stripped(Location)) # g
      BY <2>3, <2>4, <2>5, <3>1
    <3>2. CASE Listed(Stripped(Location)) = g
      <4>1. (IF sync' THEN Location' ELSE navpath') = Location
        BY <1>1, <2>1
      <4>2. lag' = NoLink
        BY <2>5, <3>2
      <4> QED
        BY <2>3, <3>2, <4>1, <4>2
    <3> QED
      BY <3>1, <3>2
  <2> QED
    BY <2>3, <2>4, <2>6
<1> QED
  BY <1>1, <1>2, <1>3, SyncStays DEF Made

LEMMA SlideEndsSync ==
  ASSUME IInv, SyncIInv, NEW n \in Nodes, SlideEnds(n)
  PROVE  SyncIInv' /\ Sighted
<1>1. /\ UNCHANGED <<page, hash, navpath, sync, ready, pending, events, animation,
                     animationInProgress, disturbed, lag>>
      /\ tree.slides[n] # <<>>
  BY DEF SlideEnds
<1>2. /\ tree'.expanded = tree.expanded /\ tree'.made = tree.made
      /\ tree'.selected = tree.selected /\ tree'.breadcrumbs = tree.breadcrumbs
  BY SlideEndsStep
<1>3. NavCB' = NavCB /\ Aims' = Aims /\ Goal' = Goal /\ Made(tree') = Made(tree)
  BY <1>1, <1>2 DEF NavCB, Aims, Goal, NavTarget, Location, cachedLink, Made
<1>4. ~disturbed => ready
  BY <1>1 DEF SyncIInv, NewTree
<1> QED
  BY <1>1, <1>2, <1>3, <1>4, SyncStays

LEMMA NextSync == IInv /\ SyncIInv /\ [Next]_vars => SyncIInv' /\ Sighted
<1> SUFFICES ASSUME IInv, SyncIInv, [Next]_vars PROVE SyncIInv' /\ Sighted
  OBVIOUS
<1>1. CASE WindowLoad
  BY <1>1, WindowLoadSync
<1>2. CASE HashChange
  BY <1>2, HashChangeSync
<1>3. CASE AnimationEnds
  BY <1>3, AnimationEndsSync
<1>4. CASE Retry
  BY <1>4, RetrySync
<1>5. ASSUME NEW c \in BagToSet(pending), ScriptArrives(c) PROVE SyncIInv' /\ Sighted
  BY <1>5, ScriptArrivesSync
<1>6. CASE User
  <2>1. ASSUME NEW h \in Hashes, ChangeHash(h) PROVE SyncIInv' /\ Sighted
    BY <2>1, ChangeHashSync
  <2>2. ASSUME NEW u \in URL, FollowLink(u) PROVE SyncIInv' /\ Sighted
    BY <2>2, LoadPageSync DEF FollowLink
  <2>3. ASSUME NEW n \in Nodes, ClickAnchor(n) PROVE SyncIInv' /\ Sighted
    BY <2>3, ClickAnchorSync
  <2>4. ASSUME NEW n \in Nodes, ClickPage(n) PROVE SyncIInv' /\ Sighted
    BY <2>4, LoadPageSync DEF ClickPage
  <2>5. ASSUME NEW n \in Nodes, Toggle(n) PROVE SyncIInv' /\ Sighted
    BY <2>5, ToggleBranchSync
  <2>6. CASE ToggleSync
    BY <2>6, ToggleSyncSync
  <2> QED
    BY <1>6, <2>1, <2>2, <2>3, <2>4, <2>5, <2>6 DEF User
<1>7. ASSUME NEW n \in Nodes, SlideEnds(n) PROVE SyncIInv' /\ Sighted
  BY <1>7, SlideEndsSync
<1>8. CASE UNCHANGED vars
  <2>1. UNCHANGED <<page, hash, navpath, sync, ready, tree, pending, events, animation,
                    animationInProgress, disturbed, lag>>
    BY <1>8 DEF vars
  <2>2. NavCB' = NavCB /\ Aims' = Aims /\ Goal' = Goal
    BY <2>1 DEF NavCB, Aims, Goal, NavTarget, Location, cachedLink
  <2>3. sync = TRUE \/ Goal' = Goal
    BY <2>2
  <2> QED
    BY <2>1, <2>2, <2>3, SyncStays DEF Made
<1> QED
  BY <1>1, <1>2, <1>3, <1>4, <1>5, <1>6, <1>7, <1>8 DEF Next

LEMMA NavSyncIInv == Spec => [](IInv /\ SyncIInv)
<1>1. Init => IInv /\ SyncIInv
  BY InitIInv, InitSync
<1>2. IInv /\ SyncIInv /\ [Next]_vars => (IInv /\ SyncIInv)'
  BY NextIInv, NextSync
<1> QED
  BY <1>1, <1>2, PTL DEF Spec

\* What the panel shows is where the reader is.
LEMMA SyncIInvSynced == IInv /\ SyncIInv => Synced
<1> SUFFICES ASSUME IInv, SyncIInv, ready, events = 0, ~Busy, ~disturbed
             PROVE  Shows(tree, Goal)
  BY DEF Synced
<1>1. NavCB = {} /\ animation = <<>>
  BY DEF Busy
<1>2. Aims = {Goal}
  BY DEF Aims
<1> QED
  BY <1>1, <1>2 DEF SyncIInv, Follows, Scrolls

(***************************************************************************)
(* When nothing is on its way, what is selected is the item that the index *)
(* has for the place the panel follows, or items that the page takes for   *)
(* those of its hash (gotoNode, showNode, selectAndHighlight,              *)
(* navtree.js:305-499), however the scripts, the events and the scrolls of *)
(* navigations came.  It supposes of the page that nothing was done in it  *)
(* while a navigation was under way (see Synced for the whole list); the   *)
(* button of the synchronisation leaves the panel where it was.            *)
(***************************************************************************)
THEOREM NavSynced == Spec => []Synced
BY NavSyncIInv, SyncIInvSynced, PTL

(***************************************************************************)
(* No step of such a page selects an item of a list that it leaves closed, *)
(* unless a double of the item is selected and can be seen, or the flag of *)
(* that list was wrong before (showNode opens the path before it selects,  *)
(* navtree.js:467-499), if all items taken for those of the goal's hash    *)
(* lead to the goal.                                                       *)
(***************************************************************************)
THEOREM NavSelectedInSight == Spec => SelectedInSight
<1>1. IInv /\ SyncIInv /\ [Next]_vars => [Sighted]_vars
  BY NextSync
<1> QED
  BY <1>1, NavSyncIInv, PTL DEF Spec, SelectedInSight
=============================================================================
