-------------------------- MODULE SearchPageProofs --------------------------
(***************************************************************************)
(* Theorems about SearchPage: the keyboard stays where the reader can see  *)
(* it, the filter window stays while the mouse is over it, a key moves     *)
(* once, and the results are those of the field.                           *)
(***************************************************************************)
EXTENDS SearchPage, SequenceTheorems, WellFoundedInduction, TLAPS

(***************************************************************************)
(* Numbers and texts.                                                      *)
(***************************************************************************)
LEMMA LeastOf ==
  ASSUME NEW T \in SUBSET Nat, T # {}
  PROVE  \E k \in T : \A j \in T : k <= j
<1>1. PICK k \in T : \A j \in T : <<j, k>> \notin OpToRel(<, Nat)
  BY NatLessThanWellFounded, WFMin, Zenon
<1>2. \A j \in T : ~ (j < k)
  BY <1>1, Zenon DEF OpToRel
<1>3. k \in Nat /\ \A j \in T : j \in Nat
  OBVIOUS
<1>4. \A j \in T : k <= j
  BY <1>2, <1>3
<1> QED
  BY <1>4

LEMMA GreatestOf ==
  ASSUME NEW n \in Nat, NEW T \in SUBSET (0..n), T # {}
  PROVE  \E k \in T : \A j \in T : j <= k
<1> DEFINE R == {n - j : j \in T}
<1>1. R \in SUBSET Nat /\ R # {}
  <2>1. \A j \in T : j \in 0..n
    OBVIOUS
  <2>2. \A j \in T : n - j \in Nat
    BY <2>1
  <2> QED
    BY <2>2
<1>2. PICK k \in R : \A j \in R : k <= j
  BY <1>1, LeastOf
<1>3. PICK m \in T : k = n - m
  OBVIOUS
<1>4. \A j \in T : n - j \in R
  OBVIOUS
<1>5. \A j \in T : j <= m
  BY <1>2, <1>3, <1>4
<1> QED
  BY <1>5

\* StripLeading drops what is before the first character that is no space.
LEMMA LeadingSpaces ==
  ASSUME NEW S, NEW v \in Seq(S)
  PROVE  \E k \in 0..Len(v) :
           /\ StripLeading(v) = SubSeq(v, k + 1, Len(v))
           /\ \A j \in 1..k : v[j] = Space
           /\ k < Len(v) => v[k + 1] # Space
<1> DEFINE P(k) == /\ \A j \in 1..k : v[j] = Space
                   /\ k < Len(v) => v[k + 1] # Space
           B == {k \in 0..Len(v) : k < Len(v) => v[k + 1] # Space}
<1>0. Len(v) \in Nat
  OBVIOUS
<1>1. B \in SUBSET Nat /\ Len(v) \in B
  BY <1>0
<1>2. PICK k \in B : \A j \in B : k <= j
  BY <1>1, LeastOf
<1>3. k \in 0..Len(v) /\ (k < Len(v) => v[k + 1] # Space)
  OBVIOUS
<1>4. ASSUME NEW j \in 1..k PROVE v[j] = Space
  <2>1. j - 1 \in 0..Len(v) /\ ~ k <= j - 1 /\ j - 1 < Len(v) /\ (j - 1) + 1 = j
    BY <1>0, <1>3
  <2>2. j - 1 \notin B
    BY <1>2, <2>1
  <2> QED
    BY <2>1, <2>2
<1>5. \E m \in 0..Len(v) : P(m)
  BY <1>3, <1>4
<1>6. StripLeading(v) =
        LET m == CHOOSE m \in 0..Len(v) : P(m) IN SubSeq(v, m + 1, Len(v))
  BY DEF StripLeading
<1> HIDE DEF P
<1> QED
  BY <1>5, <1>6 DEF P

LEMMA StripLeadingSeq ==
  ASSUME NEW S, NEW v \in Seq(S)
  PROVE  StripLeading(v) \in Seq(S) /\ Len(StripLeading(v)) <= Len(v)
<1>1. PICK k \in 0..Len(v) : StripLeading(v) = SubSeq(v, k + 1, Len(v))
  BY LeadingSpaces
<1> QED
  BY <1>1, SubSeqProperties

LEMMA ReverseSeq ==
  ASSUME NEW S, NEW v \in Seq(S)
  PROVE  Reverse(v) \in Seq(S)
BY DEF Reverse

LEMMA StripSeq ==
  ASSUME NEW S, NEW v \in Seq(S)
  PROVE  Strip(v) \in Seq(S)
BY StripLeadingSeq, ReverseSeq DEF Strip

LEMMA TypedSeq ==
  \A v : v \in Typed <=> v \in Seq(Chars) /\ Len(v) <= MAX_LEN
<1>1. ASSUME NEW v \in Typed PROVE v \in Seq(Chars) /\ Len(v) <= MAX_LEN
  <2>1. PICK n \in 0..MAX_LEN : v \in [1..n -> Chars]
    BY DEF Typed
  <2> QED
    BY <2>1, TextAssumption
<1>2. ASSUME NEW v \in Seq(Chars), Len(v) <= MAX_LEN PROVE v \in Typed
  <2>1. Len(v) \in 0..MAX_LEN /\ v \in [1..Len(v) -> Chars]
    BY <1>2, TextAssumption
  <2> QED
    BY <2>1 DEF Typed
<1> QED
  BY <1>1, <1>2

\* The label is no text with spaces before it, so that a text that is stripped is
\* one that the page may have.
LEMMA StripLeadingText ==
  ASSUME NEW v \in Text
  PROVE  StripLeading(v) \in Text
<1>1. CASE v \in Typed
  <2>1. v \in Seq(Chars) /\ Len(v) <= MAX_LEN
    BY <1>1, TypedSeq
  <2>2. StripLeading(v) \in Seq(Chars) /\ Len(StripLeading(v)) <= Len(v)
    BY <2>1, StripLeadingSeq
  <2>3. Len(StripLeading(v)) <= MAX_LEN
    BY <2>1, <2>2, TextAssumption
  <2> QED
    BY <2>2, <2>3, TypedSeq DEF Text
<1>2. CASE v = Label
  <2>1. v \in Seq(DOMAIN Lower) /\ v # <<>> /\ v[1] # Space
    BY <1>2, TextAssumption
  <2>2. PICK k \in 0..Len(v) : /\ StripLeading(v) = SubSeq(v, k + 1, Len(v))
                               /\ \A j \in 1..k : v[j] = Space
    BY <2>1, LeadingSpaces
  <2>3. k = 0
    BY <2>1, <2>2
  <2>4. StripLeading(v) = v
    BY <2>1, <2>2, <2>3, SubSeqFull
  <2> QED
    BY <2>4
<1> QED
  BY <1>1, <1>2 DEF Text

LEMMA TextSeq == Text \subseteq Seq(DOMAIN Lower)
<1>1. Seq(Chars) \subseteq Seq(DOMAIN Lower)
  BY TextAssumption, SeqMonotonic
<1> QED
  BY <1>1, TypedSeq, TextAssumption DEF Text

LEMMA NoText == <<>> \in Typed
<1>1. <<>> \in Seq(Chars) /\ Len(<<>>) = 0
  BY EmptySeq
<1>2. MAX_LEN \in Nat
  BY TextAssumption
<1>3. 0 <= MAX_LEN
  BY <1>2
<1>4. <<>> \in Seq(Chars) /\ Len(<<>>) <= MAX_LEN => <<>> \in Typed
  BY TypedSeq, Zenon
<1> QED
  BY <1>1, <1>3, <1>4

(***************************************************************************)
(* The rows.                                                               *)
(***************************************************************************)
LEMMA RowTypes ==
  ASSUME NEW r \in Results
  PROVE  /\ Items(r) \in SUBSET Nat
         /\ \A e \in Items(r) : /\ r.page \in DOMAIN Rows
                                /\ e + 1 \in DOMAIN Rows[r.page]
                                /\ Row(r, e) \in [name : Seq(Range(Lower)), children : Nat]
         /\ \A e \in Items(r) : \A i \in 0..e : i \in Items(r)
<1>1. CASE r.page = NoPage
  BY <1>1 DEF Items
<1>2. CASE r.page # NoPage
  <2>1. r.page \in DOMAIN Rows
    BY <1>2 DEF Results, Pages
  <2>2. Rows[r.page] \in Seq([name : Seq(Range(Lower)), children : Nat])
    BY <2>1, PagesAssumption
  <2>3. Items(r) = 0..(Len(Rows[r.page]) - 1)
    BY <1>2 DEF Items
  <2> HIDE DEF Items
  <2>4. ASSUME NEW e \in Items(r) PROVE e + 1 \in DOMAIN Rows[r.page]
    BY <2>2, <2>3
  <2>5. ASSUME NEW e \in Items(r)
        PROVE  Row(r, e) \in [name : Seq(Range(Lower)), children : Nat]
    <3>1. e + 1 \in 1..Len(Rows[r.page])
      BY <2>2, <2>3
    <3>2. Rows[r.page][e + 1] \in [name : Seq(Range(Lower)), children : Nat]
      BY <2>2, <3>1, ElementOfSeq
    <3> QED
      BY <3>2 DEF Row
  <2>6. ASSUME NEW e \in Items(r), NEW i \in 0..e PROVE i \in Items(r)
    BY <2>2, <2>3
  <2> QED
    BY <2>1, <2>2, <2>3, <2>4, <2>5, <2>6
<1> QED
  BY <1>1, <1>2

LEMMA NavNextItem ==
  ASSUME NEW r \in Results, NEW i
  PROVE  \/ NavNext(r, i) = Nothing
         \/ \E e \in Items(r) : NavNext(r, i) = Item(e) /\ Shown(r, e)
<1> DEFINE E == {e \in Items(r) : e >= i /\ Shown(r, e)}
           P(e) == \A d \in E : e <= d
<1>1. CASE E = {}
  BY <1>1 DEF NavNext
<1>2. CASE E # {}
  <2>1. E \in SUBSET Nat
    BY RowTypes
  <2>2. \E e \in E : P(e)
    BY <1>2, <2>1, LeastOf
  <2>3. NavNext(r, i) = Item(CHOOSE e \in E : P(e))
    BY <1>2 DEF NavNext
  <2>4. \A e \in E : e \in Items(r) /\ Shown(r, e)
    OBVIOUS
  <2> HIDE DEF E, P
  <2> QED
    BY <2>2, <2>3, <2>4
<1> QED
  BY <1>1, <1>2

LEMMA NavPrevItem ==
  ASSUME NEW r \in Results, NEW i
  PROVE  \/ NavPrev(r, i) = Nothing
         \/ /\ i \in Items(r)
            /\ \E e \in Items(r) :
                 /\ NavPrev(r, i) = Item(e)
                 /\ Shown(r, e)
                 /\ e <= i
                 /\ \A d \in Items(r) : d <= i /\ Shown(r, d) => d <= e
<1> DEFINE E == {e \in Items(r) : e <= i /\ Shown(r, e)}
           P(e) == \A d \in E : e >= d
<1>1. CASE i \notin Items(r) \/ E = {}
  BY <1>1 DEF NavPrev
<1>2. CASE i \in Items(r) /\ E # {}
  <2>1. i \in Nat /\ E \in SUBSET (0..i)
    BY <1>2, RowTypes
  <2>2. PICK m \in E : \A j \in E : j <= m
    BY <1>2, <2>1, GreatestOf
  <2>3. P(m)
    BY <2>1, <2>2
  <2>4. NavPrev(r, i) = Item(CHOOSE e \in E : P(e))
    BY <1>2 DEF NavPrev
  <2>5. \A e \in E : e \in Items(r) /\ e <= i /\ Shown(r, e)
    OBVIOUS
  <2>6. \A e \in E : P(e) => \A d \in Items(r) : d <= i /\ Shown(r, d) => e >= d
    OBVIOUS
  <2>7. \A e, d \in Items(r) : e >= d => d <= e
    BY RowTypes
  <2> HIDE DEF E, P
  <2>8. PICK e \in E : NavPrev(r, i) = Item(e) /\ P(e)
    BY <2>3, <2>4
  <2> QED
    BY <1>2, <2>5, <2>6, <2>7, <2>8
<1> QED
  BY <1>1, <1>2

\* The rows that are displayed stand together, as the page is sorted.
LEMMA ShownTogether ==
  ASSUME NEW r \in Results, NEW d \in Items(r), NEW j \in Items(r), NEW e \in Items(r),
         d < j, j < e, Shown(r, d), Shown(r, e)
  PROVE  Shown(r, j)
<1> DEFINE n == Strip(r.query)
           s == [i \in DOMAIN n |-> Lower[n[i]]]
<1>1. r.query \in Seq(DOMAIN Lower)
  BY TextSeq DEF Results
<1>2. n \in Seq(DOMAIN Lower)
  BY <1>1, StripSeq
<1>3. s \in Seq(Range(Lower)) /\ Len(s) \in Nat
  BY <1>2 DEF Range
<1>4. /\ r.page \in DOMAIN Rows
      /\ d + 1 \in DOMAIN Rows[r.page]
      /\ j + 1 \in DOMAIN Rows[r.page]
      /\ e + 1 \in DOMAIN Rows[r.page]
      /\ d \in Nat /\ j \in Nat /\ e \in Nat
      /\ Row(r, d).name \in Seq(Range(Lower))
  BY RowTypes
<1> HIDE DEF s
<1>5. IsPrefix(s, Row(r, d).name) /\ IsPrefix(s, Row(r, e).name)
  BY DEF Shown, s
<1>6. s = SubSeq(Row(r, d).name, 1, Len(s)) /\ Len(s) \in 0..Len(Row(r, d).name)
  <2>1. SubSeq(s, 1, Len(s)) = s
    BY <1>3, SubSeqFull
  <2> QED
    BY <1>3, <1>4, <1>5, <2>1 DEF IsPrefix
<1>7. s \in Prefixes(Rows[r.page][d + 1].name)
  BY <1>6 DEF Prefixes, Row
<1>8. d + 1 < j + 1 /\ j + 1 < e + 1
  BY <1>4
<1>9. IsPrefix(s, Rows[r.page][j + 1].name)
  BY <1>4, <1>5, <1>7, <1>8, RowsAssumption DEF Row
<1> QED
  BY <1>9 DEF Shown, Row, s

\* The row before one that is displayed, when there is one to go to.
LEMMA PreviousRow ==
  ASSUME NEW r \in Results, NEW e \in Items(r), Shown(r, e), NavPrev(r, e - 1) # Nothing
  PROVE  /\ e - 1 \in Items(r)
         /\ Shown(r, e - 1)
         /\ NavPrev(r, e - 1) = Item(e - 1)
<1>1. e - 1 \in Items(r)
  BY NavPrevItem
<1>2. PICK d \in Items(r) :
        /\ NavPrev(r, e - 1) = Item(d)
        /\ Shown(r, d)
        /\ d <= e - 1
        /\ \A i \in Items(r) : i <= e - 1 /\ Shown(r, i) => i <= d
  BY NavPrevItem
<1>3. e \in Nat /\ d \in Nat
  BY RowTypes
<1>4. Shown(r, e - 1)
  <2>1. CASE d = e - 1
    BY <1>2, <2>1
  <2>2. CASE d # e - 1
    <3>1. d < e - 1 /\ e - 1 < e
      BY <1>2, <1>3, <2>2
    <3> QED
      BY <1>1, <1>2, <3>1, ShownTogether
  <2> QED
    BY <2>1, <2>2
<1>5. e - 1 <= d
  BY <1>1, <1>2, <1>3, <1>4
<1>6. d = e - 1
  BY <1>2, <1>3, <1>5
<1> QED
  BY <1>1, <1>2, <1>4, <1>6

\* f is a link of a row or child that the page displays.
Displayed(r, f) ==
  /\ f \in Places(r)
  /\ InFrame(f)
  /\ Shown(r, f[2])
  /\ f[1] = "child" => f[2] \in r.open

LEMMA DisplayedItem ==
  ASSUME NEW r, NEW e \in Items(r), Shown(r, e)
  PROVE  Displayed(r, Item(e))
<1>1. Item(e) \in Places(r)
  BY DEF Places
<1> QED
  BY <1>1 DEF Displayed, InFrame, Item

LEMMA DisplayedChild ==
  ASSUME NEW r \in Results, r.open \subseteq Parents(r), NEW e \in r.open, Shown(r, e),
         NEW c \in Int, 0 <= c, c < Row(r, e).children
  PROVE  Displayed(r, Child(e, c))
<1>1. e \in Parents(r) /\ Row(r, e).children \in Nat
  BY RowTypes DEF Parents
<1>2. c \in 0..(Row(r, e).children - 1)
  BY <1>1
<1>3. Child(e, c) \in Places(r)
  BY <1>1, <1>2 DEF Places
<1> QED
  BY <1>3 DEF Displayed, InFrame, Child

LEMMA FramePlaces ==
  ASSUME NEW r \in Results, NEW f, Displayed(r, f)
  PROVE  \/ \E e \in Items(r) : f = Item(e) /\ Shown(r, e)
         \/ \E e \in Items(r) : \E c \in 0..(Row(r, e).children - 1) :
              f = Child(e, c) /\ e \in r.open /\ Shown(r, e)
<1>1. f \in Places(r) /\ InFrame(f)
  BY DEF Displayed
<1>2. f \notin {Nothing, Field, Filter}
  BY <1>1 DEF InFrame, Nothing, Field, Filter
<1>3. CASE \E e \in Items(r) : f = Item(e)
  BY <1>3 DEF Displayed, Item
<1>4. CASE \E e \in Parents(r) : \E c \in 0..(Row(r, e).children - 1) : f = Child(e, c)
  <2>0. PICK e \in Parents(r) : \E c \in 0..(Row(r, e).children - 1) : f = Child(e, c)
    BY <1>4
  <2>1. PICK c \in 0..(Row(r, e).children - 1) : f = Child(e, c)
    BY <2>0
  <2>2. f[1] = "child" /\ f[2] = e
    BY <2>1 DEF Child
  <2> QED
    BY <2>1, <2>2 DEF Displayed, Parents
<1> QED
  BY <1>1, <1>2, <1>3, <1>4 DEF Places

(***************************************************************************)
(* The keys lead from a link that is displayed to one that is, to the      *)
(* field, or nowhere.                                                      *)
(***************************************************************************)
LEMMA TargetDisplayed ==
  ASSUME NEW r \in Results, r.open \subseteq Parents(r),
         NEW f, Displayed(r, f), NEW k
  PROVE  Target(r, f, k) \in {Nothing, Field} \/ Displayed(r, Target(r, f, k))
<1> DEFINE Fine(g) == g \in {Nothing, Field} \/ Displayed(r, g)
<1>0. \A i : Fine(NavNext(r, i))
  BY NavNextItem, DisplayedItem
<1>1. ASSUME NEW e \in Items(r), Shown(r, e)
      PROVE  Fine(NavUp(r, e)) /\ Fine(NavDown(r, e))
  <2>1. Fine(NavUp(r, e))
    <3>1. CASE NavPrev(r, e - 1) = Nothing
      BY <3>1 DEF NavUp
    <3>2. CASE NavPrev(r, e - 1) # Nothing
      <4>1. /\ e - 1 \in Items(r) /\ Shown(r, e - 1)
            /\ NavPrev(r, e - 1) = Item(e - 1) /\ NavPrev(r, e - 1)[2] = e - 1
        BY <1>1, <3>2, PreviousRow DEF Item
      <4>2. Displayed(r, NavPrev(r, e - 1))
        BY <4>1, DisplayedItem
      <4>3. ASSUME e - 1 \in r.open, HasChildren(r, e - 1)
            PROVE  Displayed(r, LastChild(r, e - 1))
        <5>1. Row(r, e - 1).children \in Nat /\ Row(r, e - 1).children > 0
          BY <4>1, <4>3, RowTypes DEF HasChildren
        <5>2. /\ Row(r, e - 1).children - 1 \in Int
              /\ 0 <= Row(r, e - 1).children - 1
              /\ Row(r, e - 1).children - 1 < Row(r, e - 1).children
          BY <5>1
        <5> QED
          BY <4>1, <4>3, <5>2, DisplayedChild DEF LastChild
      <4> QED
        BY <3>2, <4>1, <4>2, <4>3 DEF NavUp
    <3> QED
      BY <3>1, <3>2
  <2>3. CASE e \in r.open
    <3>1. Row(r, e).children \in Nat /\ Row(r, e).children > 0
      BY <2>3, RowTypes DEF Parents, HasChildren
    <3>2. 0 < Row(r, e).children
      BY <3>1
    <3> QED
      BY <1>1, <2>1, <2>3, <3>2, DisplayedChild DEF NavDown
  <2>4. CASE e \notin r.open
    BY <1>0, <2>1, <2>4 DEF NavDown
  <2> QED
    BY <2>3, <2>4
<1>2. ASSUME NEW e \in Items(r), NEW c \in 0..(Row(r, e).children - 1),
             e \in r.open, Shown(r, e)
      PROVE  Fine(NavChildUp(e, c)) /\ Fine(NavChildDown(r, e, c))
  <2>0. Row(r, e).children \in Nat /\ c \in Nat /\ c < Row(r, e).children
    BY RowTypes
  <2>1. Fine(NavChildUp(e, c))
    <3>1. CASE c > 0
      <4>1. c - 1 \in Int /\ 0 <= c - 1 /\ c - 1 < Row(r, e).children
        BY <2>0, <3>1
      <4> QED
        BY <1>2, <3>1, <4>1, DisplayedChild DEF NavChildUp
    <3>2. CASE ~ (c > 0)
      BY <1>2, <3>2, DisplayedItem DEF NavChildUp
    <3> QED
      BY <3>1, <3>2
  <2>2. Fine(NavChildDown(r, e, c))
    <3>1. CASE c + 1 < Row(r, e).children
      <4>1. c + 1 \in Int /\ 0 <= c + 1
        BY <2>0
      <4> QED
        BY <1>2, <3>1, <4>1, DisplayedChild DEF NavChildDown
    <3>2. CASE ~ (c + 1 < Row(r, e).children)
      BY <1>0, <3>2 DEF NavChildDown
    <3> QED
      BY <3>1, <3>2
  <2> QED
    BY <2>1, <2>2
<1>3. CASE \E e \in Items(r) : f = Item(e) /\ Shown(r, e)
  <2>1. PICK e \in Items(r) : f = Item(e) /\ Shown(r, e)
    BY <1>3
  <2>2. f[1] = "item" /\ f[2] = e
    BY <2>1 DEF Item
  <2>3. Target(r, f, k) \in {NavUp(r, e), NavDown(r, e), f}
    BY <2>2 DEF Target
  <2> QED
    BY <1>1, <2>1, <2>3
<1>4. CASE \E e \in Items(r) : \E c \in 0..(Row(r, e).children - 1) :
             f = Child(e, c) /\ e \in r.open /\ Shown(r, e)
  <2>0. PICK e \in Items(r) : \E c \in 0..(Row(r, e).children - 1) :
          f = Child(e, c) /\ e \in r.open /\ Shown(r, e)
    BY <1>4
  <2>1. PICK c \in 0..(Row(r, e).children - 1) :
          f = Child(e, c) /\ e \in r.open /\ Shown(r, e)
    BY <2>0
  <2>2. f[1] = "child" /\ f[2] = e /\ f[3] = c
    BY <2>1 DEF Child
  <2>3. Target(r, f, k) \in {NavChildUp(e, c), NavChildDown(r, e, c), f}
    BY <2>2 DEF Target
  <2> QED
    BY <1>2, <2>1, <2>3
<1> QED
  BY <1>3, <1>4, FramePlaces

(***************************************************************************)
(* The panel: what each of its functions keeps.                            *)
(***************************************************************************)
\* q has the timers of p.
SameTimers(q, p) ==
  /\ q.hideTimer = p.hideTimer
  /\ q.timers = p.timers
  /\ q.keyTimeout = p.keyTimeout

LEMMA ActivatePanel ==
  ASSUME NEW r, NEW p, PanelOK(p, r), NEW isActive \in BOOLEAN
  PROVE  LET q == Activate(p, isActive)
         IN  /\ PanelOK(q, r)
             /\ SameTimers(q, p)
             /\ q.focus = p.focus /\ q.shown = p.shown /\ q.selectShown = p.selectShown
             /\ isActive \/ p.shown => q.value \in Typed
<1> DEFINE q == Activate(p, isActive)
<1>1. p \in Panels(r)
  BY DEF PanelOK
<1>2. p.value \in {Label} \cup Typed /\ <<>> \in Typed /\ Label \in Text /\ Typed \subseteq Text
  BY <1>1, NoText DEF Panels, Text
<1>3. q \in Panels(r)
  BY <1>1, <1>2 DEF Activate, Panels
<1>4. /\ SameTimers(q, p)
      /\ q.focus = p.focus /\ q.shown = p.shown /\ q.selectShown = p.selectShown
  BY <1>1 DEF Activate, Panels, SameTimers
<1>5. isActive \/ p.shown => q.value \in Typed
  BY <1>1, <1>2 DEF Activate, Panels
<1> HIDE DEF q
<1>6. PanelOK(q, r)
  BY <1>3, <1>4 DEF PanelOK, InSight, SameTimers
<1> QED
  BY <1>4, <1>5, <1>6 DEF q

LEMMA FocusPanel ==
  ASSUME NEW r, NEW p, PanelOK(p, r), FieldOK(p),
         NEW f \in Places(r), InSight(p, r, f)
  PROVE  LET q == Focus(p, f)
         IN  /\ PanelOK(q, r)
             /\ FieldOK(q)
             /\ SameTimers(q, p)
             /\ q.focus = f /\ q.shown = p.shown /\ q.selectShown = p.selectShown
<1> DEFINE s == [p EXCEPT !.focus = f]
<1>1. p \in Panels(r)
  BY DEF PanelOK
<1>2. /\ s \in Panels(r)
      /\ SameTimers(s, p)
      /\ s.focus = f /\ s.shown = p.shown /\ s.selectShown = p.selectShown
  BY <1>1 DEF Panels, SameTimers
<1> HIDE DEF s
<1>3. PanelOK(s, r)
  BY <1>2 DEF PanelOK, InSight, SameTimers
<1>4. CASE f = p.focus
  BY <1>4 DEF Focus, SameTimers
<1>5. CASE f # p.focus /\ p.focus = Field
  <2>1. Focus(p, f) = Activate(s, FALSE)
    BY <1>5 DEF Focus, s
  <2> QED
    BY <1>2, <1>3, <1>5, <2>1, ActivatePanel DEF FieldOK, SameTimers
<1>6. CASE f # p.focus /\ p.focus # Field /\ f = Field
  <2>1. Focus(p, f) = Activate(s, TRUE)
    BY <1>6 DEF Focus, s
  <2> DEFINE q == Activate(s, TRUE)
  <2>2. /\ PanelOK(q, r) /\ SameTimers(q, s)
        /\ q.focus = s.focus /\ q.shown = s.shown /\ q.selectShown = s.selectShown
        /\ q.value \in Typed
    BY <1>3, ActivatePanel
  <2> HIDE DEF q
  <2> QED
    BY <1>2, <1>6, <2>1, <2>2 DEF FieldOK, SameTimers, q
<1>7. CASE f # p.focus /\ p.focus # Field /\ f # Field
  <2>1. Focus(p, f) = s
    BY <1>7 DEF Focus, s
  <2> QED
    BY <1>2, <1>3, <1>7, <2>1 DEF FieldOK, SameTimers
<1> QED
  BY <1>4, <1>5, <1>6, <1>7

LEMMA FixedPlaces ==
  \A r : /\ {Nothing, Field, Filter} \subseteq Places(r)
         /\ ~InFrame(Nothing) /\ ~InFrame(Field) /\ ~InFrame(Filter)
         /\ Nothing # Field /\ Nothing # Filter /\ Field # Filter
         /\ Nothing[1] # "child" /\ Field[1] # "child" /\ Filter[1] # "child"
BY DEF Places, InFrame, Nothing, Field, Filter

LEMMA HidePanel ==
  ASSUME NEW r, NEW p, PanelOK(p, r)
  PROVE  LET q == Hide(p)
         IN  /\ PanelOK(q, r)
             /\ SameTimers(q, p)
             /\ q.focus = IF InFrame(p.focus) THEN Nothing ELSE p.focus
             /\ q.value = p.value /\ ~q.shown /\ q.selectShown = p.selectShown
             /\ FieldOK(p) => FieldOK(q)
<1> DEFINE q == Hide(p)
<1>1. p \in Panels(r)
  BY DEF PanelOK
<1>2. /\ q \in Panels(r)
      /\ SameTimers(q, p)
      /\ q.focus = IF InFrame(p.focus) THEN Nothing ELSE p.focus
      /\ q.value = p.value /\ ~q.shown /\ q.selectShown = p.selectShown
  BY <1>1, FixedPlaces DEF Hide, Panels, SameTimers
<1> HIDE DEF q
<1>3. PanelOK(q, r)
  BY <1>2, FixedPlaces DEF PanelOK, InSight, SameTimers, InFrame
<1>4. FieldOK(p) => FieldOK(q)
  BY <1>2, FixedPlaces DEF FieldOK
<1> QED
  BY <1>2, <1>3, <1>4 DEF q

LEMMA CloseSelectionPanel ==
  ASSUME NEW r, NEW p, PanelOK(p, r)
  PROVE  LET q == CloseSelectionWindow(p)
         IN  /\ PanelOK(q, r)
             /\ SameTimers(q, p)
             /\ q.focus = IF p.focus = Filter THEN Nothing ELSE p.focus
             /\ q.value = p.value /\ q.shown = p.shown
             /\ FieldOK(p) => FieldOK(q)
<1> DEFINE q == CloseSelectionWindow(p)
<1>1. p \in Panels(r)
  BY DEF PanelOK
<1>2. /\ q \in Panels(r)
      /\ SameTimers(q, p)
      /\ q.focus = IF p.focus = Filter THEN Nothing ELSE p.focus
      /\ q.value = p.value /\ q.shown = p.shown
  BY <1>1, FixedPlaces DEF CloseSelectionWindow, Panels, SameTimers
<1> HIDE DEF q
<1>3. PanelOK(q, r)
  BY <1>2, FixedPlaces DEF PanelOK, InSight, SameTimers
<1>4. FieldOK(p) => FieldOK(q)
  BY <1>2, FixedPlaces DEF FieldOK
<1> QED
  BY <1>2, <1>3, <1>4 DEF q

LEMMA CloseResultsPanel ==
  ASSUME NEW r, NEW p, PanelOK(p, r), p.focus # Field
  PROVE  LET q == CloseResultsWindow(p)
         IN  /\ PanelOK(q, r)
             /\ FieldOK(q)
             /\ SameTimers(q, p)
             /\ q.focus = IF InFrame(p.focus) THEN Nothing ELSE p.focus
             /\ q.selectShown = p.selectShown
<1>1. PanelOK(Hide(p), r) /\ SameTimers(Hide(p), p)
  BY HidePanel
<1>2. /\ Hide(p).focus = IF InFrame(p.focus) THEN Nothing ELSE p.focus
      /\ Hide(p).selectShown = p.selectShown
  BY HidePanel
<1>3. Hide(p).focus # Field
  BY <1>2, FixedPlaces
<1> QED
  BY <1>1, <1>2, <1>3, ActivatePanel DEF CloseResultsWindow, SameTimers, FieldOK

LEMMA LocationType ==
  ASSUME NEW i \in Filters, NEW text \in Text
  PROVE  Location(i, text) \in [page : Pages, query : Text]
<1>1. <<>> \in Text
  BY NoText DEF Text
<1>2. FirstPage(i) \in DOMAIN Rows
  <2>1. Sections \in Seq(Seq(Range(Lower)) \ {<<>>}) /\ i + 1 \in 1..Len(Sections)
    BY PagesAssumption DEF Filters
  <2>2. Sections[i + 1] \in Seq(Range(Lower)) /\ Sections[i + 1] # <<>>
    BY <2>1
  <2>3. Head(Sections[i + 1]) \in Range(Sections[i + 1])
    BY <2>2 DEF Range
  <2>4. <<i, Head(Sections[i + 1])>> \in {<<i, c>> : c \in Range(Sections[i + 1])}
    BY <2>3
  <2> QED
    BY <2>4, PagesAssumption DEF FirstPage
<1> QED
  BY <1>1, <1>2 DEF Location, Pages

LEMMA SearchPanel ==
  ASSUME NEW r, NEW p \in Panels(r), InSight(p, r, p.focus)
  PROVE  LET q == Search(p)
         IN  /\ PanelOK(q, r)
             /\ FieldOK(p) => FieldOK(q)
             /\ q.hideTimer = p.hideTimer /\ q.timers = p.timers /\ ~q.keyTimeout
             /\ q.focus = p.focus /\ q.selectShown = p.selectShown
             /\ q.value = p.value /\ q.searchActive = p.searchActive
<1> DEFINE q == Search(p)
           text == StripLeading(p.value)
<1>1. text \in Text
  BY StripLeadingText DEF Panels
<1>2. p.searchIndex \in Filters => Location(p.searchIndex, text) \in [page : Pages, query : Text]
  BY <1>1, LocationType
<1>3. /\ q \in Panels(r)
      /\ q.hideTimer = p.hideTimer /\ q.timers = p.timers /\ ~q.keyTimeout
      /\ q.focus = p.focus /\ q.selectShown = p.selectShown
      /\ q.value = p.value /\ q.searchActive = p.searchActive
      /\ p.shown => q.shown
  <2> HIDE DEF text
  <2> QED
    BY <1>1, <1>2 DEF Search, Panels, text
<1> HIDE DEF q
<1>4. PanelOK(q, r)
  BY <1>3 DEF PanelOK, InSight
<1>5. FieldOK(p) => FieldOK(q)
  BY <1>3 DEF FieldOK
<1> QED
  BY <1>3, <1>4, <1>5 DEF q

LEMMA SelectPanel ==
  ASSUME NEW r, NEW p, PanelOK(p, r), NEW id \in 0..Len(Sections)
  PROVE  LET q == OnSelectItem(p, id)
         IN  /\ PanelOK(q, r)
             /\ FieldOK(p) => FieldOK(q)
             /\ q.hideTimer = p.hideTimer /\ q.timers = p.timers
             /\ q.keyTimeout = (p.keyTimeout /\ ~Searches(p))
             /\ Searches(q) = Searches(p)
             /\ q.focus = p.focus /\ q.selectShown = p.selectShown
<1> DEFINE s == [p EXCEPT !.searchIndex = id]
           q == OnSelectItem(p, id)
<1>1. p \in Panels(r)
  BY DEF PanelOK
<1>2. /\ s \in Panels(r)
      /\ SameTimers(s, p)
      /\ s.focus = p.focus /\ s.shown = p.shown /\ s.selectShown = p.selectShown
      /\ s.value = p.value /\ s.searchActive = p.searchActive
  BY <1>1 DEF Panels, SameTimers
<1>3. q = IF Searches(s) THEN Search(s) ELSE s
  BY DEF OnSelectItem
<1> HIDE DEF s, q
<1>4. PanelOK(s, r)
  BY <1>2 DEF PanelOK, InSight, SameTimers
<1>5. Searches(s) = Searches(p)
  BY <1>2 DEF Searches
<1>6. FieldOK(p) => FieldOK(s)
  BY <1>2 DEF FieldOK
<1>7. p.keyTimeout \in BOOLEAN
  BY <1>1 DEF Panels
<1>8. CASE Searches(s)
  <2>1. q = Search(s)
    BY <1>3, <1>8
  <2>2. InSight(s, r, s.focus)
    BY <1>4 DEF PanelOK
  <2>3. /\ PanelOK(q, r)
        /\ FieldOK(s) => FieldOK(q)
        /\ q.hideTimer = s.hideTimer /\ q.timers = s.timers /\ ~q.keyTimeout
        /\ q.focus = s.focus /\ q.selectShown = s.selectShown
        /\ q.value = s.value /\ q.searchActive = s.searchActive
    BY <1>2, <2>1, <2>2, SearchPanel
  <2>4. q.keyTimeout \in BOOLEAN
    BY <2>3 DEF PanelOK, Panels
  <2>5. Searches(q) = Searches(s)
    BY <2>3 DEF Searches
  <2> QED
    BY <1>2, <1>5, <1>6, <1>8, <2>3, <2>4, <2>5 DEF q, SameTimers
<1>9. CASE ~Searches(s)
  <2>1. q = s
    BY <1>3, <1>9
  <2> QED
    BY <1>2, <1>4, <1>5, <1>6, <1>7, <1>9, <2>1 DEF q, SameTimers
<1> QED
  BY <1>8, <1>9

LEMMA SelectKeyPanel ==
  ASSUME NEW r, NEW p, PanelOK(p, r), FieldOK(p), FilterOK(p), p.focus = Filter, NEW k
  PROVE  LET q == OnSearchSelectKey(p, k)
         IN  PanelOK(q, r) /\ FieldOK(q) /\ FilterOK(q) /\ SameTimers(q, p) /\ ~InFrame(q.focus)
<1>0. p \in Panels(r) /\ p.searchIndex \in 0..Len(Sections) /\ Len(Sections) \in Nat
  BY PagesAssumption DEF PanelOK, Panels
<1>1. ASSUME NEW id \in 0..Len(Sections)
      PROVE  LET q == OnSelectItem(p, id)
             IN  /\ PanelOK(q, r) /\ FieldOK(q) /\ FilterOK(q) /\ SameTimers(q, p)
                 /\ q.focus = Filter
  <2> DEFINE q == OnSelectItem(p, id)
  <2>1. /\ PanelOK(q, r)
        /\ FieldOK(q)
        /\ q.hideTimer = p.hideTimer /\ q.timers = p.timers
        /\ q.keyTimeout = (p.keyTimeout /\ ~Searches(p))
        /\ Searches(q) = Searches(p)
        /\ q.focus = p.focus
    BY SelectPanel
  <2>2. p.keyTimeout \in BOOLEAN
    BY <1>0 DEF Panels
  <2> HIDE DEF q
  <2> QED
    BY <2>1, <2>2 DEF FilterOK, SameTimers, q
<1> DEFINE i == p.searchIndex
           e == IF SelectFails(p, i) THEN OnSelectItem(p, i)
                ELSE Focus(CloseSelectionWindow(OnSelectItem(p, i)), Field)
           q == OnSearchSelectKey(p, k)
           Fine(s) == /\ PanelOK(s, r) /\ FieldOK(s) /\ FilterOK(s) /\ SameTimers(s, p)
                      /\ ~InFrame(s.focus)
<1>2. \/ k = Down /\ i < Len(Sections) /\ q = OnSelectItem(p, i + 1)
      \/ k = Up /\ i > 0 /\ q = OnSelectItem(p, i - 1)
      \/ q = e
      \/ q = p
  BY DEF OnSearchSelectKey
<1>3. ASSUME NEW id \in 0..Len(Sections) PROVE Fine(OnSelectItem(p, id))
  BY <1>1, FixedPlaces
<1>4. Fine(e)
  <2> DEFINE s == OnSelectItem(p, i)
             t == CloseSelectionWindow(s)
             u == Focus(t, Field)
  <2>1. /\ PanelOK(s, r) /\ FieldOK(s) /\ FilterOK(s) /\ SameTimers(s, p) /\ s.focus = Filter
    BY <1>0, <1>1
  <2> HIDE DEF s
  <2>2. PanelOK(t, r) /\ FieldOK(t) /\ SameTimers(t, s)
    BY <2>1, CloseSelectionPanel
  <2> HIDE DEF t
  <2>3. Field \in Places(r) /\ InSight(t, r, Field)
    BY FixedPlaces DEF InSight
  <2>4. PanelOK(u, r) /\ FieldOK(u) /\ SameTimers(u, t) /\ u.focus = Field
    BY <2>2, <2>3, FocusPanel
  <2> HIDE DEF u
  <2>5. Fine(u)
    BY <2>1, <2>2, <2>4, FixedPlaces DEF SameTimers, FilterOK
  <2>6. Fine(s)
    BY <2>1, FixedPlaces
  <2> QED
    BY <2>5, <2>6 DEF s, t, u
<1>5. Fine(p)
  BY FixedPlaces DEF SameTimers
<1>6. (i < Len(Sections) => i + 1 \in 0..Len(Sections)) /\ (i > 0 => i - 1 \in 0..Len(Sections))
  BY <1>0
<1> HIDE DEF e, q, Fine
<1>7. Fine(q)
  BY <1>2, <1>3, <1>4, <1>5, <1>6
<1> QED
  BY <1>7 DEF Fine, q

LEMMA FieldChangedPanel ==
  ASSUME NEW r, NEW p, PanelOK(p, r), FieldOK(p)
  PROVE  LET q == FieldChanged(p)
         IN  /\ PanelOK(q, r)
             /\ FieldOK(q)
             /\ q.hideTimer = p.hideTimer
             /\ q.timers <= p.timers + 1
             /\ q.focus = Filter => p.focus = Filter
<1> DEFINE q == FieldChanged(p)
           a == [p EXCEPT !.keyTimeout = TRUE, !.timers = @ + 1]
           h == Hide(p)
           b == [h EXCEPT !.lastSearchValue = <<>>]
<1>0. p \in Panels(r)
  BY DEF PanelOK
<1>1. q \in {p, a, b}
  BY DEF FieldChanged
<1>2. p.timers \in Nat /\ p.timers + 1 \in Nat /\ p.timers <= p.timers + 1
  BY <1>0 DEF Panels
<1>3. /\ a \in Panels(r)
      /\ a.timers = p.timers + 1 /\ a.hideTimer = p.hideTimer
      /\ a.focus = p.focus /\ a.shown = p.shown /\ a.selectShown = p.selectShown
      /\ a.value = p.value
  BY <1>0, <1>2 DEF Panels
<1>4. a.timers <= p.timers + 1 /\ a.timers > 0
  BY <1>2, <1>3
<1>5. PanelOK(a, r) /\ FieldOK(a)
  <2> HIDE DEF a
  <2> QED
    BY <1>3, <1>4 DEF PanelOK, InSight, FieldOK
<1>6. /\ PanelOK(h, r) /\ FieldOK(h) /\ SameTimers(h, p)
      /\ h.focus = IF InFrame(p.focus) THEN Nothing ELSE p.focus
  BY HidePanel
<1> HIDE DEF h
<1>7. h \in Panels(r) /\ <<>> \in Text
  BY <1>6, NoText DEF PanelOK, Text
<1>8. /\ b \in Panels(r) /\ SameTimers(b, h)
      /\ b.focus = h.focus /\ b.shown = h.shown /\ b.selectShown = h.selectShown
      /\ b.value = h.value
  BY <1>7 DEF Panels, SameTimers
<1> HIDE DEF b
<1>9. PanelOK(b, r) /\ FieldOK(b)
  BY <1>6, <1>8 DEF PanelOK, InSight, FieldOK, SameTimers
<1>10. b.focus = Filter => p.focus = Filter
  BY <1>6, <1>8, FixedPlaces
<1> HIDE DEF a, q
<1> QED
  BY <1>1, <1>2, <1>3, <1>4, <1>5, <1>6, <1>8, <1>9, <1>10 DEF SameTimers, q

LEMMA KillTimerPanel ==
  ASSUME NEW r, NEW p, PanelOK(p, r), TimersOK(p)
  PROVE  LET q == KillTimer(p)
         IN  /\ PanelOK(q, r)
             /\ FieldOK(p) => FieldOK(q)
             /\ q.hideTimer = p.hideTimer
             /\ ~q.keyTimeout /\ q.timers <= MAX_FORGOTTEN
             /\ q.focus = p.focus /\ q.shown = p.shown
<1> DEFINE q == KillTimer(p)
<1>0. p \in Panels(r) /\ MAX_FORGOTTEN \in Nat
  BY TextAssumption DEF PanelOK
<1>1. p.timers \in Nat /\ (p.keyTimeout => p.timers > 0)
  BY <1>0 DEF PanelOK, Panels
<1>2. p.keyTimeout => p.timers - 1 \in Nat
  BY <1>1
<1>3. /\ q \in Panels(r)
      /\ q.hideTimer = p.hideTimer
      /\ ~q.keyTimeout /\ q.timers = IF p.keyTimeout THEN p.timers - 1 ELSE p.timers
      /\ q.focus = p.focus /\ q.shown = p.shown /\ q.selectShown = p.selectShown
      /\ q.value = p.value
  BY <1>0, <1>2 DEF KillTimer, Panels
<1>4. q.timers <= MAX_FORGOTTEN
  BY <1>0, <1>1, <1>3 DEF TimersOK
<1> HIDE DEF q
<1>5. PanelOK(q, r)
  BY <1>3 DEF PanelOK, InSight
<1>6. FieldOK(p) => FieldOK(q)
  BY <1>3 DEF FieldOK
<1> QED
  BY <1>3, <1>4, <1>5, <1>6 DEF q

LEMMA FieldChangePanel ==
  ASSUME NEW r, NEW p, PanelOK(p, r), FieldOK(p), TimersOK(p), p.focus = Field,
         NEW first, first = Nothing \/ Displayed(r, first), NEW k
  PROVE  LET q == OnSearchFieldChange(p, k, first)
         IN  /\ PanelOK(q, r) /\ FieldOK(q) /\ FilterOK(q)
             /\ q.hideTimer => p.hideTimer
             /\ q.timers <= MAX_FORGOTTEN + 1
<1> DEFINE q == KillTimer(p)
           s == Focus(OnSearchSelectShow(q), Filter)
           n == Hide(Focus(q, Nothing))
           e == Activate([n EXCEPT !.lastSearchValue = <<>>], FALSE)
           d == FieldChanged(Focus(q, first))
           c == FieldChanged(q)
           Fine(t) == /\ PanelOK(t, r) /\ FieldOK(t) /\ FilterOK(t)
                      /\ t.hideTimer => p.hideTimer
                      /\ t.timers <= MAX_FORGOTTEN + 1
<1>0. MAX_FORGOTTEN \in Nat
  BY TextAssumption
<1>1. \/ OnSearchFieldChange(p, k, first) \in {s, e, c}
      \/ q.shown /\ first # Nothing /\ OnSearchFieldChange(p, k, first) = d
  <2>1. q.shown = p.shown
    BY KillTimerPanel
  <2>2. OnSearchFieldChange(p, k, first) =
          CASE k = ShiftEnter -> s
            [] k = Escape -> e
            [] k \in {Down, Enter} /\ p.shown /\ first # Nothing -> d
            [] OTHER -> c
    BY DEF OnSearchFieldChange
  <2> HIDE DEF q, s, e, d, c
  <2> QED
    BY <2>1, <2>2
<1>2. /\ PanelOK(q, r) /\ FieldOK(q)
      /\ q.hideTimer = p.hideTimer
      /\ ~q.keyTimeout /\ q.timers <= MAX_FORGOTTEN
      /\ q.focus = Field
  BY KillTimerPanel
<1> HIDE DEF q
<1>3. q \in Panels(r) /\ q.timers \in Nat /\ q.hideTimer \in BOOLEAN
  BY <1>2 DEF PanelOK, Panels
<1>4. Fine(s)
  <2> DEFINE o == OnSearchSelectShow(q)
  <2>1. /\ o \in Panels(r) /\ o.selectShown /\ ~o.hideTimer
        /\ o.timers = q.timers /\ o.keyTimeout = q.keyTimeout /\ o.focus = Field
        /\ o.value = q.value /\ o.shown = q.shown
    BY <1>2, <1>3 DEF OnSearchSelectShow, Panels
  <2> HIDE DEF o
  <2>2. PanelOK(o, r) /\ FieldOK(o)
    BY <1>2, <2>1, FixedPlaces DEF PanelOK, InSight, FieldOK
  <2>3. Filter \in Places(r) /\ InSight(o, r, Filter)
    BY <2>1, FixedPlaces DEF InSight
  <2>4. PanelOK(s, r) /\ FieldOK(s) /\ SameTimers(s, o)
    BY <2>2, <2>3, FocusPanel DEF o
  <2> HIDE DEF s
  <2> QED
    BY <1>0, <1>2, <1>3, <2>1, <2>4 DEF FilterOK, SameTimers
<1>5. Fine(e)
  <2> DEFINE f == Focus(q, Nothing)
             m == [n EXCEPT !.lastSearchValue = <<>>]
  <2>1. Nothing \in Places(r) /\ InSight(q, r, Nothing)
    BY FixedPlaces DEF InSight
  <2>2. PanelOK(f, r) /\ FieldOK(f) /\ SameTimers(f, q) /\ f.focus = Nothing
    BY <1>2, <2>1, FocusPanel
  <2> HIDE DEF f
  <2>3. PanelOK(n, r) /\ SameTimers(n, f) /\ n.focus = Nothing
    BY <2>2, HidePanel, FixedPlaces DEF f
  <2> HIDE DEF n
  <2>4. n \in Panels(r) /\ <<>> \in Text
    BY <2>3, NoText DEF PanelOK, Text
  <2>5. /\ m \in Panels(r) /\ SameTimers(m, n)
        /\ m.focus = n.focus /\ m.shown = n.shown /\ m.selectShown = n.selectShown
    BY <2>4 DEF Panels, SameTimers
  <2>6. PanelOK(m, r)
    <3> HIDE DEF m
    <3> QED
      BY <2>3, <2>5 DEF PanelOK, InSight, SameTimers
  <2>7. PanelOK(e, r) /\ SameTimers(e, m) /\ e.focus = m.focus
    <3> HIDE DEF m
    <3>1. \A x \in {m} : PanelOK(Activate(x, FALSE), r) /\ SameTimers(Activate(x, FALSE), x)
                          /\ Activate(x, FALSE).focus = x.focus
      BY <2>6, ActivatePanel
    <3> QED
      BY <3>1 DEF m
  <2> HIDE DEF e, m
  <2> QED
    BY <1>0, <1>2, <1>3, <2>2, <2>3, <2>5, <2>7, FixedPlaces DEF FilterOK, FieldOK, SameTimers
<1>6. ASSUME NEW x, PanelOK(x, r), FieldOK(x), SameTimers(x, q), x.focus # Filter
      PROVE  Fine(FieldChanged(x))
  <2> DEFINE y == FieldChanged(x)
  <2>1. /\ PanelOK(y, r) /\ FieldOK(y) /\ y.hideTimer = x.hideTimer
        /\ y.timers <= x.timers + 1 /\ (y.focus = Filter => x.focus = Filter)
    BY <1>6, FieldChangedPanel
  <2> HIDE DEF y
  <2>2. y.timers \in Nat
    BY <2>1 DEF PanelOK, Panels
  <2>3. y.timers <= MAX_FORGOTTEN + 1
    BY <1>0, <1>2, <1>3, <1>6, <2>1, <2>2 DEF SameTimers
  <2> QED
    BY <1>2, <1>6, <2>1, <2>3 DEF FilterOK, SameTimers, y
<1>7. Fine(c)
  BY <1>2, <1>6, FixedPlaces DEF SameTimers
<1>8. ASSUME q.shown, first # Nothing PROVE Fine(d)
  <2> DEFINE f == Focus(q, first)
  <2>1. Displayed(r, first) /\ first # Filter /\ first \in Places(r)
    BY <1>8, FixedPlaces DEF Displayed
  <2>2. InSight(q, r, first)
    BY <1>8, <2>1 DEF InSight, Displayed
  <2>3. PanelOK(f, r) /\ FieldOK(f) /\ SameTimers(f, q) /\ f.focus = first
    BY <1>2, <2>1, <2>2, FocusPanel
  <2> HIDE DEF f
  <2> QED
    BY <1>6, <2>1, <2>3 DEF f
<1> HIDE DEF s, e, d, c, Fine
<1>9. Fine(OnSearchFieldChange(p, k, first))
  BY <1>1, <1>4, <1>5, <1>7, <1>8
<1> QED
  BY <1>9 DEF Fine

LEMMA KeysDiffer == Left \notin {Up, Down, Enter, Escape}
<1> DEFINE c == <<Down, Up, Left, Right, Enter, ShiftEnter, Escape, Backspace>>
<1>1. \A i, j \in DOMAIN c : c[i] = c[j] => i = j
  BY KeysAssumption DEF IsInjective
<1>2. DOMAIN c = 1..8 /\ c[1] = Down /\ c[2] = Up /\ c[3] = Left /\ c[5] = Enter /\ c[7] = Escape
  OBVIOUS
<1> HIDE DEF c
<1> QED
  BY <1>1, <1>2

\* The same page: other children may be displayed.
LEMMA SamePage ==
  ASSUME NEW r, NEW s, s.page = r.page, s.query = r.query
  PROVE  /\ Parents(s) = Parents(r)
         /\ \A e : Shown(s, e) = Shown(r, e)
         /\ Panels(s) = Panels(r)
<1>1. Items(s) = Items(r)
  BY DEF Items
<1>2. \A e : Row(s, e) = Row(r, e)
  BY DEF Row
<1>3. Parents(s) = Parents(r)
  BY <1>1, <1>2 DEF Parents, HasChildren
<1>4. \A e : Shown(s, e) = Shown(r, e)
  BY <1>2 DEF Shown
<1>5. Places(s) = Places(r)
  BY <1>1, <1>2, <1>3 DEF Places
<1> QED
  BY <1>3, <1>4, <1>5 DEF Panels

LEMMA OtherChildren ==
  ASSUME NEW r, NEW s, s.page = r.page, s.query = r.query,
         NEW p, PanelOK(p, r), p.focus[1] = "child" => p.focus[2] \in s.open
  PROVE  PanelOK(p, s)
<1>1. p \in Panels(s)
  BY SamePage DEF PanelOK
<1>2. InSight(p, s, p.focus)
  BY SamePage DEF PanelOK, InSight
<1> QED
  BY <1>1, <1>2 DEF PanelOK

(***************************************************************************)
(* A key event in the frame.                                               *)
(***************************************************************************)
LEMMA FocusDisplayed ==
  ASSUME PanelOK(panel, results), InFrame(panel.focus)
  PROVE  Displayed(results, panel.focus)
BY DEF PanelOK, Panels, InSight, Displayed

LEMMA ProcessKeysResults ==
  ASSUME NEW r \in Results, NEW k \in Keys \cup {NoKey}, NEW type \in {"keydown", "keypress", "keyup"}
  PROVE  LET s == ProcessKeys(r, type, k)
         IN  /\ s \in Results
             /\ s.page = r.page /\ s.query = r.query /\ s.open = r.open
             /\ type = "keydown" => ~s.repeatOn
<1>1. CASE type = "keydown"
  BY <1>1 DEF ProcessKeys, Results
<1>2. CASE type = "keypress"
  BY <1>2 DEF ProcessKeys, Results
<1>3. CASE type = "keyup"
  BY <1>3 DEF ProcessKeys, Results
<1> QED
  BY <1>1, <1>2, <1>3

\* Where the focus goes.
LEMMA FrameKeyPanel ==
  ASSUME NEW r \in Results, r.open \subseteq Parents(r), PanelOK(panel, r), FieldOK(panel),
         InFrame(panel.focus), NEW k,
         panel' = IF k = Escape THEN Focus(CloseResultsWindow(panel), Field)
                  ELSE IF Target(r, panel.focus, k) = Nothing THEN panel
                  ELSE Focus(panel, Target(r, panel.focus, k))
  PROVE  PanelOK(panel', r) /\ FieldOK(panel') /\ SameTimers(panel', panel) /\ panel'.focus # Filter
<1>0. panel.focus # Field /\ panel.focus # Filter
  BY FixedPlaces
<1>1. CASE k = Escape
  <2> DEFINE c == CloseResultsWindow(panel)
  <2>1. PanelOK(c, r) /\ FieldOK(c) /\ SameTimers(c, panel)
    BY <1>0, CloseResultsPanel
  <2> HIDE DEF c
  <2>2. Field \in Places(r) /\ InSight(c, r, Field)
    BY FixedPlaces DEF InSight
  <2>3. PanelOK(Focus(c, Field), r) /\ FieldOK(Focus(c, Field)) /\ SameTimers(Focus(c, Field), c)
        /\ Focus(c, Field).focus = Field
    BY <2>1, <2>2, FocusPanel
  <2>4. panel' = Focus(c, Field)
    BY <1>1 DEF c
  <2> QED
    BY <2>1, <2>3, <2>4, FixedPlaces DEF SameTimers
<1>2. CASE k # Escape /\ Target(r, panel.focus, k) = Nothing
  BY <1>0, <1>2 DEF SameTimers
<1>3. CASE k # Escape /\ Target(r, panel.focus, k) # Nothing
  <2> DEFINE g == Target(r, panel.focus, k)
  <2>1. Displayed(r, panel.focus)
    BY DEF PanelOK, Panels, InSight, Displayed
  <2>2. g = Field \/ Displayed(r, g)
    BY <1>3, <2>1, TargetDisplayed
  <2> HIDE DEF g
  <2>3. panel.shown
    BY DEF PanelOK, InSight
  <2>4. g \in Places(r) /\ InSight(panel, r, g) /\ g # Filter
    BY <2>2, <2>3, FixedPlaces DEF InSight, Displayed
  <2>5. panel' = Focus(panel, g)
    BY <1>3 DEF g
  <2> QED
    BY <2>4, <2>5, FocusPanel
<1> QED
  BY <1>1, <1>2, <1>3

LEMMA FrameKeyStep ==
  ASSUME results \in Results, results.open \subseteq Parents(results),
         PanelOK(panel, results), FieldOK(panel), InFrame(panel.focus),
         NEW k \in Keys, NEW type \in {"keydown", "keypress", "keyup"},
         FrameKey(type, k)
  PROVE  /\ results' \in Results
         /\ results'.open \subseteq Parents(results')
         /\ PanelOK(panel', results') /\ FieldOK(panel') /\ SameTimers(panel', panel)
         /\ panel'.focus # Filter
         /\ type = "keydown" /\ k # Enter => ~results'.repeatOn
<1> DEFINE f == panel.focus
           e == f[2]
           r == ProcessKeys(results, type, k)
<1>0. Displayed(results, f) /\ f # Filter
  BY FocusDisplayed, FixedPlaces
<1>1. f[1] = "item" /\ HasChildren(results, e) => e \in Parents(results) /\ e \in Nat
  <2>1. CASE \E i \in Items(results) : f = Item(i) /\ Shown(results, i)
    BY <2>1, RowTypes DEF Item, Parents
  <2>2. CASE \E i \in Items(results) : \E c \in 0..(Row(results, i).children - 1) :
               f = Child(i, c) /\ i \in results.open /\ Shown(results, i)
    BY <2>2 DEF Child
  <2> QED
    BY <1>0, <2>1, <2>2, FramePlaces
<1>2. CASE k = Enter
  <2>1. panel' = panel
    BY <1>2 DEF FrameKey
  <2>2. CASE type = "keydown" /\ f[1] = "item" /\ HasChildren(results, e)
    <3>1. results' = Toggle(results, e)
      BY <1>2, <2>2 DEF FrameKey
    <3>2. /\ results' \in Results
          /\ results'.page = results.page /\ results'.query = results.query
          /\ results'.open \subseteq results.open \cup {e}
      BY <1>1, <2>2, <3>1 DEF Toggle, Results
    <3>3. f[1] # "child"
      BY <2>2
    <3>4. PanelOK(panel, results')
      BY <3>2, <3>3, OtherChildren
    <3>5. Parents(results') = Parents(results)
      BY <3>2, SamePage
    <3> QED
      BY <1>0, <1>1, <1>2, <2>1, <2>2, <3>2, <3>4, <3>5 DEF SameTimers
  <2>3. CASE ~(type = "keydown" /\ f[1] = "item" /\ HasChildren(results, e))
    <3>1. results' = results
      BY <1>2, <2>3 DEF FrameKey
    <3> QED
      BY <1>0, <1>2, <2>1, <3>1 DEF SameTimers
  <2> QED
    BY <2>2, <2>3
<1>3. /\ r \in Results
      /\ r.page = results.page /\ r.query = results.query /\ r.open = results.open
      /\ type = "keydown" => ~r.repeatOn
  BY ProcessKeysResults
<1>4. r.open \subseteq Parents(r) /\ Parents(r) = Parents(results)
  BY <1>3, SamePage
<1>5. PanelOK(panel, r)
  BY <1>3, OtherChildren DEF PanelOK, InSight
<1>6. CASE k # Enter /\ ~Accepts(results, type)
  <2>1. results' = r /\ panel' = panel
    BY <1>6 DEF FrameKey
  <2> HIDE DEF r
  <2> QED
    BY <1>0, <1>3, <1>4, <1>5, <2>1 DEF SameTimers
<1>7. CASE k # Enter /\ Accepts(results, type)
  <2> DEFINE o == CASE k = Right -> r.open \cup {e}
                    [] k = Left -> r.open \ {e}
                    [] OTHER -> r.open
  <2>1. /\ results' = IF f[1] = "item" /\ HasChildren(r, e) THEN [r EXCEPT !.open = o] ELSE r
        /\ panel' = IF k = Escape THEN Focus(CloseResultsWindow(panel), Field)
                    ELSE IF Target(r, f, k) = Nothing THEN panel
                    ELSE Focus(panel, Target(r, f, k))
    BY <1>7 DEF FrameKey
  <2>2. o \subseteq r.open \cup {e} /\ (k # Left => r.open \subseteq o)
    OBVIOUS
  <2>3. HasChildren(r, e) = HasChildren(results, e)
    BY <1>3 DEF HasChildren, Row
  <2> HIDE DEF r, o
  <2>4. /\ results' \in Results
        /\ results'.page = r.page /\ results'.query = r.query
        /\ results'.open \subseteq Parents(r)
        /\ results'.repeatOn = r.repeatOn
        /\ results'.open = r.open \/ (results'.open = o /\ f[1] = "item")
    BY <1>1, <1>3, <1>4, <2>1, <2>2, <2>3 DEF Results
  <2>5. Parents(results') = Parents(r)
    BY <2>4, SamePage
  <2>6. PanelOK(panel', r) /\ FieldOK(panel') /\ SameTimers(panel', panel) /\ panel'.focus # Filter
    BY <1>3, <1>4, <1>5, <2>1, FrameKeyPanel
  <2>7. panel'.focus[1] = "child" => panel'.focus[2] \in results'.open
    <3>1. CASE k # Left \/ results'.open = r.open
      BY <2>2, <2>4, <2>6, <3>1 DEF PanelOK, InSight
    <3>2. CASE k = Left /\ results'.open = o /\ f[1] = "item"
      <4>1. Target(r, f, k) = f /\ k # Escape
        BY <3>2, KeysDiffer DEF Target
      <4>2. panel' = panel
        BY <2>1, <4>1 DEF Focus
      <4> QED
        BY <3>2, <4>2
    <3> QED
      BY <2>4, <3>1, <3>2
  <2>8. PanelOK(panel', results')
    BY <2>4, <2>6, <2>7, OtherChildren
  <2> QED
    BY <1>3, <2>4, <2>5, <2>6, <2>8
<1> QED
  BY <1>2, <1>6, <1>7

(***************************************************************************)
(* The invariant: initially, and after every event.                        *)
(***************************************************************************)
LEMMA InitIInv == Init => IInv
<1> SUFFICES ASSUME Init PROVE IInv
  OBVIOUS
<1>1. <<>> \in Text /\ Label \in Text /\ MAX_FORGOTTEN \in Nat
  BY NoText, TextAssumption DEF Text
<1>2. results \in Results /\ results.open = {}
  BY <1>1 DEF Init, LoadedResults, Results, Pages
<1>3. 0 \in 0..Len(Sections)
  BY PagesAssumption
<1>4. panel \in Panels(results)
  BY <1>1, <1>3, FixedPlaces DEF Init, NewPanel, Panels
<1>5. /\ panel.focus = Nothing /\ ~panel.keyTimeout /\ ~panel.hideTimer /\ panel.timers = 0
      /\ held = NoKey /\ mouse = FALSE /\ typed = FALSE /\ astray = FALSE
  BY DEF Init, NewPanel
<1>6. PanelOK(panel, results) /\ FieldOK(panel) /\ FilterOK(panel)
  BY <1>4, <1>5, FixedPlaces DEF PanelOK, InSight, FieldOK, FilterOK
<1>7. panel.timers <= MAX_FORGOTTEN + 1
  BY <1>1, <1>5
<1>8. KeyOK /\ HoverKeepsFilter
  BY <1>5 DEF KeyOK, HoverKeepsFilter
<1>9. held \in Keys \cup {NoKey} /\ {mouse, typed, astray} \subseteq BOOLEAN
  BY <1>5
<1> QED
  BY <1>2, <1>5, <1>6, <1>7, <1>8, <1>9 DEF IInv

\* What a step must keep of the panel, when the mouse and the results stay.
LEMMA PanelStep ==
  ASSUME IInv, UNCHANGED <<results, mouse>>,
         PanelOK(panel', results), FieldOK(panel'), FilterOK(panel'),
         panel'.timers <= MAX_FORGOTTEN + 1, held' # NoKey => TimersOK(panel'),
         panel'.hideTimer => panel.hideTimer,
         held' \in Keys \cup {NoKey}, {typed', astray'} \subseteq BOOLEAN,
         held' = NoKey \/ ~InFrame(panel'.focus)
  PROVE  IInv'
BY DEF IInv, KeyOK, HoverKeepsFilter

LEMMA EditedTyped ==
  ASSUME NEW v \in Typed, NEW k, Len(Edited(v, k)) <= MAX_LEN
  PROVE  Edited(v, k) \in Typed
<1>1. v \in Seq(Chars)
  BY TypedSeq
<1>2. v # <<>> => Front(v) \in Seq(Chars)
  <2> SUFFICES ASSUME v # <<>> PROVE Front(v) \in Seq(Chars)
    OBVIOUS
  <2>1. Len(v) \in Nat \ {0}
    BY <1>1, EmptySeq
  <2> QED
    BY <1>1, <2>1 DEF Front
<1>3. k \in Chars => Append(v, k) \in Seq(Chars)
  BY <1>1
<1>4. Edited(v, k) \in Seq(Chars)
  BY <1>1, <1>2, <1>3 DEF Edited
<1> QED
  BY <1>4, TypedSeq

LEMMA KeyDownStep ==
  ASSUME IInv, NEW k \in Keys, KeyDown(k)
  PROVE  IInv' /\ ~typed'
<1>0. /\ results \in Results /\ results.open \subseteq Parents(results)
      /\ PanelOK(panel, results) /\ FieldOK(panel) /\ FilterOK(panel)
      /\ panel.timers <= MAX_FORGOTTEN + 1 /\ MAX_FORGOTTEN \in Nat
      /\ {mouse, typed, astray} \subseteq BOOLEAN
  BY TextAssumption DEF IInv
<1>1. /\ held = NoKey /\ held' = k /\ typed' = FALSE /\ UNCHANGED <<mouse, astray>>
      /\ TimersOK(panel)
  BY DEF KeyDown, TimersOK
<1>2. CASE /\ panel.focus = Field
           /\ Len(Edited(panel.value, k)) <= MAX_LEN
           /\ panel' = [panel EXCEPT !.value = Edited(@, k)]
           /\ UNCHANGED results
  <2>1. Edited(panel.value, k) \in Typed /\ panel \in Panels(results)
    BY <1>0, <1>2, EditedTyped DEF FieldOK, PanelOK
  <2>2. /\ panel' \in Panels(results)
        /\ SameTimers(panel', panel)
        /\ panel'.focus = Field /\ panel'.shown = panel.shown
        /\ panel'.selectShown = panel.selectShown
        /\ panel'.value \in Typed
    BY <1>2, <2>1 DEF Panels, SameTimers, Text
  <2>3. PanelOK(panel', results) /\ FieldOK(panel') /\ FilterOK(panel') /\ TimersOK(panel')
    BY <1>0, <1>1, <1>2, <2>2, FixedPlaces
    DEF PanelOK, InSight, FieldOK, FilterOK, SameTimers, TimersOK
  <2> QED
    BY <1>0, <1>1, <1>2, <2>2, <2>3, PanelStep, FixedPlaces DEF SameTimers
<1>3. CASE /\ panel.focus = Filter
           /\ panel' = OnSearchSelectKey(panel, k)
           /\ UNCHANGED results
  <2>1. /\ PanelOK(panel', results) /\ FieldOK(panel') /\ FilterOK(panel')
        /\ SameTimers(panel', panel) /\ ~InFrame(panel'.focus)
    BY <1>0, <1>3, SelectKeyPanel
  <2>2. TimersOK(panel')
    BY <1>1, <2>1 DEF TimersOK, SameTimers
  <2> QED
    BY <1>0, <1>1, <1>3, <2>1, <2>2, PanelStep DEF SameTimers
<1>4. CASE InFrame(panel.focus) /\ FrameKey("keydown", k)
  <2>1. /\ results' \in Results
        /\ results'.open \subseteq Parents(results')
        /\ PanelOK(panel', results') /\ FieldOK(panel') /\ SameTimers(panel', panel)
        /\ panel'.focus # Filter
        /\ k # Enter => ~results'.repeatOn
    BY <1>0, <1>4, FrameKeyStep
  <2>2. FilterOK(panel') /\ TimersOK(panel')
    BY <1>1, <2>1 DEF FilterOK, TimersOK, SameTimers
  <2> QED
    BY <1>0, <1>1, <2>1, <2>2 DEF IInv, KeyOK, HoverKeepsFilter, SameTimers
<1> QED
  BY <1>1, <1>2, <1>3, <1>4 DEF KeyDown

LEMMA KeyPressStep ==
  ASSUME IInv, KeyPress
  PROVE  IInv' /\ (~typed => UNCHANGED <<panel, results.open>>)
<1>0. /\ results \in Results /\ results.open \subseteq Parents(results)
      /\ PanelOK(panel, results) /\ FieldOK(panel)
      /\ panel.timers <= MAX_FORGOTTEN + 1 /\ TimersOK(panel)
      /\ held \in Keys
  BY DEF IInv, KeyPress
<1>1. /\ InFrame(panel.focus) /\ typed' = TRUE
      /\ FrameKey("keypress", held) /\ UNCHANGED <<mouse, held, astray>>
  BY DEF KeyPress
<1>2. IInv'
  <2>1. /\ results' \in Results
        /\ results'.open \subseteq Parents(results')
        /\ PanelOK(panel', results') /\ FieldOK(panel') /\ SameTimers(panel', panel)
        /\ panel'.focus # Filter
    BY <1>0, <1>1, FrameKeyStep
  <2>2. FilterOK(panel') /\ TimersOK(panel')
    BY <1>0, <2>1 DEF FilterOK, TimersOK, SameTimers
  <2> QED
    BY <1>0, <1>1, <2>1, <2>2 DEF IInv, KeyOK, HoverKeepsFilter, SameTimers
<1>3. ASSUME ~typed PROVE UNCHANGED <<panel, results.open>>
  <2>1. CASE held = Enter
    BY <1>1, <2>1 DEF FrameKey
  <2>2. CASE held # Enter
    <3>1. ~results.repeatOn
      BY <1>1, <1>3, <2>2 DEF IInv, KeyOK, KeyPress
    <3>2. ~Accepts(results, "keypress")
      BY <3>1 DEF Accepts
    <3>3. /\ results' = ProcessKeys(results, "keypress", held)
          /\ panel' = panel
      BY <1>1, <2>2, <3>2 DEF FrameKey
    <3>4. results'.open = results.open
      BY <1>0, <3>3, ProcessKeysResults
    <3> QED
      BY <3>3, <3>4
  <2> QED
    BY <2>1, <2>2
<1> QED
  BY <1>2, <1>3

LEMMA KeyUpStep ==
  ASSUME IInv, KeyUp
  PROVE  IInv' /\ ~typed'
<1>0. /\ results \in Results /\ results.open \subseteq Parents(results)
      /\ PanelOK(panel, results) /\ FieldOK(panel) /\ FilterOK(panel)
      /\ panel.timers <= MAX_FORGOTTEN + 1 /\ TimersOK(panel)
      /\ {mouse, typed, astray} \subseteq BOOLEAN
      /\ held \in Keys
  BY DEF IInv, KeyUp
<1>1. held' = NoKey /\ typed' = FALSE /\ mouse' = mouse /\ astray' \in BOOLEAN
  BY <1>0 DEF KeyUp
<1>2. CASE panel.focus = Field
  <2> DEFINE first == NavNext(results, 0)
  <2>1. panel' = OnSearchFieldChange(panel, held, first) /\ UNCHANGED results
    BY <1>2, FixedPlaces DEF KeyUp
  <2>2. first = Nothing \/ Displayed(results, first)
    BY <1>0, NavNextItem, DisplayedItem
  <2> HIDE DEF first
  <2>3. /\ PanelOK(panel', results) /\ FieldOK(panel') /\ FilterOK(panel')
        /\ panel'.hideTimer => panel.hideTimer
        /\ panel'.timers <= MAX_FORGOTTEN + 1
    BY <1>0, <1>2, <2>1, <2>2, FieldChangePanel
  <2> QED
    BY <1>1, <2>1, <2>3, PanelStep
<1>3. CASE panel.focus # Field /\ InFrame(panel.focus)
  <2>1. FrameKey("keyup", held)
    BY <1>3 DEF KeyUp
  <2>2. /\ results' \in Results
        /\ results'.open \subseteq Parents(results')
        /\ PanelOK(panel', results') /\ FieldOK(panel') /\ SameTimers(panel', panel)
        /\ panel'.focus # Filter
    BY <1>0, <1>3, <2>1, FrameKeyStep
  <2> QED
    BY <1>0, <1>1, <2>2 DEF IInv, KeyOK, HoverKeepsFilter, SameTimers, FilterOK
<1>4. CASE panel.focus # Field /\ ~InFrame(panel.focus)
  <2>1. UNCHANGED <<panel, results>>
    BY <1>4 DEF KeyUp
  <2> QED
    BY <1>0, <1>1, <2>1, PanelStep
<1> QED
  BY <1>2, <1>3, <1>4

LEMMA ClickStep ==
  ASSUME IInv, Click
  PROVE  IInv'
<1>0. /\ results \in Results /\ results.open \subseteq Parents(results)
      /\ PanelOK(panel, results) /\ FieldOK(panel) /\ FilterOK(panel)
      /\ panel.timers <= MAX_FORGOTTEN + 1
      /\ {mouse, typed, astray} \subseteq BOOLEAN
  BY DEF IInv
<1>1. held = NoKey /\ UNCHANGED <<mouse, held, typed, astray>>
  BY DEF Click
<1>2. ASSUME NEW f \in {Nothing, Field, Filter}, f = Filter => panel.selectShown
      PROVE  LET q == Focus(panel, f)
             IN  PanelOK(q, results) /\ FieldOK(q) /\ SameTimers(q, panel) /\ q.focus = f
  <2>1. f \in Places(results) /\ InSight(panel, results, f)
    BY <1>2, FixedPlaces DEF InSight
  <2> QED
    BY <1>0, <2>1, FocusPanel
<1>3. ASSUME UNCHANGED results, PanelOK(panel', results), FieldOK(panel'), FilterOK(panel'),
             panel'.hideTimer = panel.hideTimer, panel'.timers = panel.timers
      PROVE  IInv'
  BY <1>0, <1>1, <1>3, PanelStep
<1>4. CASE ClickAway
  <2>1. PanelOK(panel', results) /\ FieldOK(panel') /\ SameTimers(panel', panel) /\ panel'.focus = Nothing
    BY <1>2, <1>4, FixedPlaces DEF ClickAway
  <2> QED
    BY <1>3, <1>4, <2>1, FixedPlaces DEF ClickAway, FilterOK, SameTimers
<1>5. CASE ClickField
  <2>1. PanelOK(panel', results) /\ FieldOK(panel') /\ SameTimers(panel', panel) /\ panel'.focus = Field
    BY <1>2, <1>5, FixedPlaces DEF ClickField
  <2> QED
    BY <1>3, <1>5, <2>1, FixedPlaces DEF ClickField, FilterOK, SameTimers
<1>6. CASE ClickClose
  <2> DEFINE q == Focus(panel, Nothing)
  <2>1. PanelOK(q, results) /\ SameTimers(q, panel) /\ q.focus = Nothing
    BY <1>2, FixedPlaces
  <2>2. panel' = CloseResultsWindow(q) /\ UNCHANGED results
    BY <1>6 DEF ClickClose
  <2> HIDE DEF q
  <2>3. PanelOK(panel', results) /\ FieldOK(panel') /\ SameTimers(panel', q) /\ panel'.focus = Nothing
    BY <2>1, <2>2, CloseResultsPanel, FixedPlaces
  <2> QED
    BY <1>3, <2>1, <2>2, <2>3, FixedPlaces DEF FilterOK, SameTimers
<1>7. ASSUME NEW i \in Filters, ClickFilter(i) PROVE IInv'
  <2> DEFINE q == Focus(panel, Filter)
  <2>1. PanelOK(q, results) /\ FieldOK(q) /\ SameTimers(q, panel) /\ q.focus = Filter
    BY <1>2, <1>7 DEF ClickFilter
  <2>2. panel' = OnSelectItem(q, i) /\ UNCHANGED results
    BY <1>7 DEF ClickFilter
  <2>3. i \in 0..Len(Sections)
    BY PagesAssumption DEF Filters
  <2> HIDE DEF q
  <2>4. /\ PanelOK(panel', results) /\ FieldOK(panel')
        /\ panel'.hideTimer = q.hideTimer /\ panel'.timers = q.timers
        /\ panel'.keyTimeout = (q.keyTimeout /\ ~Searches(q))
        /\ Searches(panel') = Searches(q)
    BY <2>1, <2>2, <2>3, SelectPanel
  <2> QED
    BY <1>3, <2>1, <2>2, <2>4 DEF FilterOK, SameTimers
<1>8. ASSUME NEW e \in Items(results), ClickItem(e) PROVE IInv'
  <2>1. /\ panel.shown /\ Shown(results, e) /\ HasChildren(results, e)
        /\ panel' = Focus(panel, Item(e)) /\ results' = Toggle(results, e)
    BY <1>8 DEF ClickItem
  <2>2. /\ Item(e) \in Places(results) /\ InSight(panel, results, Item(e))
        /\ Item(e) # Filter /\ Item(e)[1] # "child"
    BY <2>1 DEF InSight, Places, Item, Filter
  <2>3. PanelOK(panel', results) /\ FieldOK(panel') /\ SameTimers(panel', panel) /\ panel'.focus = Item(e)
    BY <1>0, <2>1, <2>2, FocusPanel
  <2>4. e \in Nat /\ e \in Parents(results)
    BY <1>0, <2>1, RowTypes DEF Parents
  <2>5. /\ results' \in Results
        /\ results'.page = results.page /\ results'.query = results.query
        /\ results'.open \subseteq Parents(results)
    BY <1>0, <2>1, <2>4 DEF Toggle, Results
  <2>6. PanelOK(panel', results') /\ Parents(results') = Parents(results)
    BY <2>2, <2>3, <2>5, OtherChildren, SamePage
  <2> QED
    BY <1>0, <1>1, <2>2, <2>3, <2>5, <2>6
    DEF IInv, KeyOK, HoverKeepsFilter, SameTimers, FilterOK
<1> QED
  BY <1>4, <1>5, <1>6, <1>7, <1>8 DEF Click

LEMMA MouseStep ==
  ASSUME IInv, MouseOver \/ MouseOut
  PROVE  IInv'
<1>0. /\ PanelOK(panel, results) /\ FieldOK(panel) /\ FilterOK(panel)
      /\ panel \in Panels(results)
  BY DEF IInv, PanelOK
<1>1. /\ held = NoKey /\ UNCHANGED <<results, held, typed, astray>> /\ mouse' \in BOOLEAN
  BY DEF MouseOver, MouseOut
<1>2. /\ panel' \in Panels(results)
      /\ panel'.focus = panel.focus /\ panel'.shown = panel.shown
      /\ panel.selectShown => panel'.selectShown
      /\ panel'.value = panel.value /\ panel'.searchActive = panel.searchActive
      /\ panel'.timers = panel.timers /\ panel'.keyTimeout = panel.keyTimeout
      /\ mouse' => ~panel'.hideTimer
  <2>1. CASE MouseOver
    BY <1>0, <2>1 DEF MouseOver, OnSearchSelectShow, Panels
  <2>2. CASE MouseOut
    BY <1>0, <2>2 DEF MouseOut, OnSearchSelectHide, Panels
  <2> QED
    BY <2>1, <2>2
<1>3. PanelOK(panel', results) /\ FieldOK(panel') /\ FilterOK(panel')
  BY <1>0, <1>2 DEF PanelOK, InSight, FieldOK, FilterOK, Searches
<1> QED
  BY <1>1, <1>2, <1>3 DEF IInv, KeyOK, HoverKeepsFilter

LEMMA HideTimerStep ==
  ASSUME IInv, HideTimer
  PROVE  IInv'
<1> DEFINE q == CloseSelectionWindow(panel)
<1>0. /\ PanelOK(panel, results) /\ FieldOK(panel)
      /\ panel.timers <= MAX_FORGOTTEN + 1 /\ (held # NoKey => TimersOK(panel))
  BY DEF IInv
<1>1. /\ PanelOK(q, results) /\ FieldOK(q) /\ SameTimers(q, panel)
      /\ q.focus = IF panel.focus = Filter THEN Nothing ELSE panel.focus
  BY <1>0, CloseSelectionPanel
<1>2. /\ panel' = [q EXCEPT !.hideTimer = FALSE]
      /\ UNCHANGED <<results, mouse, held, typed, astray>>
  BY DEF HideTimer
<1> HIDE DEF q
<1>3. q \in Panels(results)
  BY <1>1 DEF PanelOK
<1>4. /\ panel' \in Panels(results) /\ ~panel'.hideTimer
      /\ panel'.focus = q.focus /\ panel'.shown = q.shown
      /\ panel'.selectShown = q.selectShown /\ panel'.value = q.value
      /\ panel'.timers = q.timers /\ panel'.keyTimeout = q.keyTimeout
  BY <1>2, <1>3 DEF Panels
<1>5. PanelOK(panel', results) /\ FieldOK(panel') /\ FilterOK(panel') /\ (held # NoKey => TimersOK(panel'))
  BY <1>0, <1>1, <1>4, FixedPlaces
  DEF PanelOK, InSight, FieldOK, FilterOK, TimersOK, SameTimers
<1>6. InFrame(panel'.focus) => panel'.focus = panel.focus
  BY <1>1, <1>4, FixedPlaces
<1> QED
  BY <1>0, <1>1, <1>2, <1>4, <1>5, <1>6 DEF IInv, KeyOK, HoverKeepsFilter, SameTimers

LEMMA KeyTimerStep ==
  ASSUME IInv, KeyTimer
  PROVE  IInv'
<1> DEFINE q == [panel EXCEPT !.timers = @ - 1]
<1>0. /\ PanelOK(panel, results) /\ FieldOK(panel) /\ panel \in Panels(results)
      /\ panel.timers <= MAX_FORGOTTEN + 1 /\ (held # NoKey => TimersOK(panel))
      /\ MAX_FORGOTTEN \in Nat /\ astray \in BOOLEAN
  BY TextAssumption DEF IInv, PanelOK
<1>1. /\ panel' = Search(q) /\ panel.timers > 0
      /\ UNCHANGED <<results, mouse, held, typed>> /\ astray' \in BOOLEAN
  BY <1>0 DEF KeyTimer, Searches
<1>2. panel.timers \in Nat /\ panel.timers - 1 \in Nat
  BY <1>0, <1>1 DEF Panels
<1>3. /\ q \in Panels(results) /\ q.timers = panel.timers - 1
      /\ q.hideTimer = panel.hideTimer
      /\ q.focus = panel.focus /\ q.shown = panel.shown /\ q.selectShown = panel.selectShown
      /\ q.value = panel.value
  BY <1>0, <1>2 DEF Panels
<1> HIDE DEF q
<1>4. InSight(q, results, q.focus) /\ FieldOK(q)
  BY <1>0, <1>3 DEF PanelOK, InSight, FieldOK
<1>5. /\ PanelOK(panel', results) /\ FieldOK(panel')
      /\ panel'.hideTimer = q.hideTimer /\ panel'.timers = q.timers /\ ~panel'.keyTimeout
      /\ panel'.focus = q.focus
  BY <1>1, <1>3, <1>4, SearchPanel
<1>6. panel'.timers <= MAX_FORGOTTEN /\ panel'.timers <= MAX_FORGOTTEN + 1
  BY <1>0, <1>2, <1>3, <1>5
<1>7. FilterOK(panel') /\ TimersOK(panel')
  BY <1>0, <1>5, <1>6 DEF FilterOK, TimersOK
<1> QED
  BY <1>0, <1>1, <1>3, <1>5, <1>6, <1>7 DEF IInv, KeyOK, HoverKeepsFilter

LEMMA FrameLoadsStep ==
  ASSUME IInv, FrameLoads
  PROVE  IInv'
<1>0. /\ PanelOK(panel, results) /\ FieldOK(panel) /\ FilterOK(panel)
      /\ panel \in Panels(results)
  BY DEF IInv, PanelOK
<1>1. panel.next \in [page : Pages, query : Text]
  BY <1>0 DEF FrameLoads, Panels
<1>2. results' \in Results /\ results'.open = {}
  BY <1>1 DEF FrameLoads, LoadedResults, Results
<1>3. (IF InFrame(panel.focus) THEN Nothing ELSE panel.focus) \in Places(results')
  <2>1. CASE InFrame(panel.focus)
    BY <2>1, FixedPlaces
  <2>2. CASE ~InFrame(panel.focus)
    <3>1. panel.focus \in Places(results)
      BY <1>0 DEF Panels
    <3>2. panel.focus \in {Nothing, Field, Filter}
      BY <2>2, <3>1 DEF Places, InFrame, Item, Child
    <3> QED
      BY <2>2, <3>2, FixedPlaces
  <2> QED
    BY <2>1, <2>2
<1>4. /\ panel' \in Panels(results')
      /\ SameTimers(panel', panel)
      /\ panel'.focus = IF InFrame(panel.focus) THEN Nothing ELSE panel.focus
      /\ panel'.selectShown = panel.selectShown
      /\ panel'.value = panel.value /\ panel'.searchActive = panel.searchActive
  BY <1>0, <1>3 DEF FrameLoads, Panels, SameTimers
<1>5. ~InFrame(panel'.focus)
  BY <1>4, FixedPlaces
<1>6. PanelOK(panel', results')
  BY <1>0, <1>4, <1>5, FixedPlaces DEF PanelOK, InSight, SameTimers, InFrame
<1>7. FieldOK(panel') /\ FilterOK(panel')
  BY <1>0, <1>4, FixedPlaces DEF FieldOK, FilterOK, Searches, SameTimers
<1> QED
  BY <1>2, <1>4, <1>5, <1>6, <1>7
  DEF IInv, KeyOK, HoverKeepsFilter, FrameLoads, SameTimers, TimersOK

LEMMA NextIInv ==
  ASSUME IInv, [Next]_vars
  PROVE  IInv'
<1>1. CASE Next
  BY <1>1, KeyDownStep, KeyPressStep, KeyUpStep, ClickStep, MouseStep,
     HideTimerStep, KeyTimerStep, FrameLoadsStep DEF Next
<1>2. CASE UNCHANGED vars
  BY <1>2 DEF vars, IInv, KeyOK, HoverKeepsFilter
<1> QED
  BY <1>1, <1>2

LEMMA SearchIInv == Spec => []IInv
<1>1. Init => IInv
  BY InitIInv
<1>2. IInv /\ [Next]_vars => IInv'
  BY NextIInv
<1> QED
  BY <1>1, <1>2, PTL DEF Spec

(***************************************************************************)
(* Type correctness: whatever is typed and clicked, the field holds a text *)
(* that can be typed or its label, no handler moves the filter more than   *)
(* one past the last (OnSearchSelectKey, search.js:296-316), the focus is  *)
(* on a row the page has, and keyTimeout forgets at most MAX_FORGOTTEN     *)
(* timers beside the one it names.                                         *)
(***************************************************************************)
THEOREM SearchTypeOK == Spec => []TypeOK
<1>1. IInv => TypeOK
  <2> SUFFICES ASSUME IInv PROVE TypeOK
    OBVIOUS
  <2>1. panel \in Panels(results) /\ results \in Results /\ MAX_FORGOTTEN \in Nat
    BY TextAssumption DEF IInv, PanelOK
  <2>2. panel.timers \in 0..(MAX_FORGOTTEN + 1)
    BY <2>1 DEF IInv, Panels
  <2>3. panel.focus \in {Nothing, Field, Filter}
          \/ (InFrame(panel.focus) /\ panel.focus[2] \in Items(results))
    <3>1. CASE InFrame(panel.focus)
      <4>1. Displayed(results, panel.focus)
        BY <3>1, FocusDisplayed DEF IInv
      <4> QED
        BY <2>1, <3>1, <4>1, FramePlaces DEF Item, Child
    <3>2. CASE ~InFrame(panel.focus)
      BY <2>1, <3>2 DEF Panels, Places, InFrame, Item, Child
    <3> QED
      BY <3>1, <3>2
  <2>4. panel.keyTimeout => panel.timers > 0
    BY DEF IInv, PanelOK
  <2> QED
    BY <2>1, <2>2, <2>3, <2>4 DEF TypeOK, IInv, Panels, Results, Pages
<1> QED
  BY <1>1, SearchIInv, PTL

(***************************************************************************)
(* However the mouse goes in and out of the filter icon and its window, no *)
(* timer will close the window while the mouse is over it: to show it      *)
(* again kills the timer (OnSearchSelectShow, search.js:167-172).          *)
(***************************************************************************)
THEOREM SearchHoverKeepsFilter == Spec => []HoverKeepsFilter
<1>1. IInv => HoverKeepsFilter
  BY DEF IInv
<1> QED
  BY <1>1, SearchIInv, PTL

(***************************************************************************)
(* For every index whose pages are sorted, the keyboard is in nothing that *)
(* is not displayed: the rows NavUp, NavDown and the children's handlers   *)
(* go to match the search and have their children open (search.js:609-735),*)
(* and what hides the results or loads others takes the focus from them.   *)
(***************************************************************************)
THEOREM SearchFocusInSight == Spec => []FocusInSight
<1>1. IInv => FocusInSight
  BY DEF IInv, PanelOK, InSight, FocusInSight
<1> QED
  BY <1>1, SearchIInv, PTL

\* The first keypress of a key that is down.
LEMMA NextOnePress ==
  ASSUME IInv, [Next]_vars, ~typed, typed'
  PROVE  UNCHANGED <<panel, results.open>>
<1>1. CASE UNCHANGED vars
  BY <1>1 DEF vars
<1>2. CASE \E k \in Keys : KeyDown(k)
  BY <1>2, KeyDownStep
<1>3. CASE KeyPress
  BY <1>3, KeyPressStep
<1>4. CASE KeyUp
  BY <1>4, KeyUpStep
<1>5. CASE Click \/ MouseOver \/ MouseOut \/ HideTimer \/ KeyTimer \/ FrameLoads
  BY <1>5 DEF Click, MouseOver, MouseOut, HideTimer, KeyTimer, FrameLoads
<1> QED
  BY <1>1, <1>2, <1>3, <1>4, <1>5 DEF Next

(***************************************************************************)
(* The first keypress event of a key moves nothing: lastKey and repeatOn   *)
(* of ProcessKeys (search.js:593-614) are as the key's own keydown has     *)
(* left them, also when the key before it came up somewhere else.          *)
(***************************************************************************)
THEOREM SearchOnePressOneMove == Spec => OnePressOneMove
<1>1. IInv /\ [Next]_vars => [~typed /\ typed' => UNCHANGED <<panel, results.open>>]_vars
  BY NextOnePress
<1> QED
  BY <1>1, SearchIInv, PTL DEF Spec, OnePressOneMove

(***************************************************************************)
(* StripAll keeps the characters that are no spaces.                       *)
(***************************************************************************)
\* f[n] is what is kept of the first n characters of v.
Keeps(v, f) ==
  f = [n \in 0..Len(v) |->
         IF n = 0 THEN <<>>
         ELSE IF v[n] = Space THEN f[n - 1] ELSE Append(f[n - 1], v[n])]

LEMMA KeepsSomething ==
  ASSUME NEW S, NEW v \in Seq(S)
  PROVE  \E f : Keeps(v, f)
<1> DEFINE Step(f, n) == IF n = 0 THEN <<>>
                         ELSE IF v[n] = Space THEN f[n - 1] ELSE Append(f[n - 1], v[n])
           Upto(m, f) == f = [n \in 0..m |-> Step(f, n)]
           T == {m \in 0..Len(v) : ~ \E f : Upto(m, f)}
<1>0. Len(v) \in Nat
  OBVIOUS
<1>1. SUFFICES ASSUME T # {} PROVE FALSE
  <2>1. Len(v) \notin T
    BY <1>1
  <2> QED
    BY <1>0, <2>1 DEF Keeps
<1>2. PICK m \in T : \A j \in T : m <= j
  <2>1. T \in SUBSET Nat
    BY <1>0
  <2> HIDE DEF T
  <2> QED
    BY <1>1, <2>1, LeastOf
<1>3. m \in 0..Len(v) /\ ~ \E f : Upto(m, f)
  OBVIOUS
<1>4. CASE m = 0
  <2> DEFINE f == [n \in 0..0 |-> <<>>]
  <2>1. Upto(0, f)
    OBVIOUS
  <2> HIDE DEF Upto, f
  <2> QED
    BY <1>3, <1>4, <2>1
<1>5. CASE m # 0
  <2>1. m - 1 \in 0..Len(v) /\ ~ m <= m - 1
    BY <1>0, <1>3, <1>5
  <2>2. m - 1 \notin T
    BY <1>2, <2>1
  <2>3. PICK g : Upto(m - 1, g)
    BY <2>1, <2>2
  <2> DEFINE f == [n \in 0..m |-> IF n = m THEN Step(g, m) ELSE g[n]]
  <2>4. \A n \in 0..m : f[n] = IF n = m THEN Step(g, m) ELSE g[n]
    OBVIOUS
  <2>5. \A n \in 0..(m - 1) : g[n] = Step(g, n)
    BY <2>3
  <2>6. \A n \in 0..m : f[n] = Step(f, n)
    <3> SUFFICES ASSUME NEW n \in 0..m PROVE f[n] = Step(f, n)
      OBVIOUS
    <3> HIDE DEF f
    <3>1. n # 0 => n - 1 \in 0..m /\ n - 1 # m
      BY <1>0, <1>3
    <3>2. n # 0 => f[n - 1] = g[n - 1]
      BY <2>4, <3>1
    <3>3. Step(f, n) = Step(g, n)
      BY <3>2
    <3>4. n # m => n \in 0..(m - 1)
      BY <1>0, <1>3
    <3> QED
      BY <2>4, <2>5, <3>3, <3>4
  <2>7. f = [n \in 0..m |-> f[n]]
    OBVIOUS
  <2> HIDE DEF f
  <2>8. Upto(m, f)
    BY <2>6, <2>7
  <2> HIDE DEF Upto
  <2> QED
    BY <1>3, <2>8
<1> QED
  BY <1>4, <1>5

LEMMA StripAllKeeps ==
  ASSUME NEW S, NEW v \in Seq(S)
  PROVE  \E f : Keeps(v, f) /\ StripAll(v) = f[Len(v)]
<1>1. \E f : Keeps(v, f)
  BY KeepsSomething
<1>2. StripAll(v) = (CHOOSE f : Keeps(v, f))[Len(v)]
  BY DEF StripAll, Keeps
<1>3. PICK f : Keeps(v, f) /\ StripAll(v) = f[Len(v)]
  BY <1>1, <1>2, Zenon
<1> QED
  BY <1>3

\* What one character adds.
LEMMA KeepsStep ==
  ASSUME NEW S, NEW v \in Seq(S), NEW f, Keeps(v, f)
  PROVE  /\ f[0] = <<>>
         /\ \A n \in 1..Len(v) :
              /\ n - 1 \in 0..Len(v)
              /\ f[n] = IF v[n] = Space THEN f[n - 1] ELSE Append(f[n - 1], v[n])
<1>1. Len(v) \in Nat
  OBVIOUS
<1>2. \A n \in 0..Len(v) :
        f[n] = IF n = 0 THEN <<>>
               ELSE IF v[n] = Space THEN f[n - 1] ELSE Append(f[n - 1], v[n])
  BY Zenon DEF Keeps
<1>3. \A n \in 1..Len(v) : n \in 0..Len(v) /\ n # 0 /\ n - 1 \in 0..Len(v)
  BY <1>1
<1>4. 0 \in 0..Len(v)
  BY <1>1
<1> QED
  BY <1>2, <1>3, <1>4

\* It is a text without spaces.
LEMMA KeepsNoSpace ==
  ASSUME NEW S, NEW v \in Seq(S), NEW f, Keeps(v, f), NEW n \in 0..Len(v)
  PROVE  f[n] \in Seq(S \ {Space})
<1> DEFINE T == {m \in 0..Len(v) : f[m] \notin Seq(S \ {Space})}
<1>0. Len(v) \in Nat
  OBVIOUS
<1>1. SUFFICES ASSUME T # {} PROVE FALSE
  BY <1>1
<1>2. PICK m \in T : \A j \in T : m <= j
  <2>1. T \in SUBSET Nat
    BY <1>0
  <2> HIDE DEF T
  <2> QED
    BY <1>1, <2>1, LeastOf
<1>3. m \in 0..Len(v) /\ f[m] \notin Seq(S \ {Space})
  OBVIOUS
<1>4. m # 0
  <2>1. f[0] = <<>>
    BY KeepsStep
  <2> QED
    BY <1>3, <2>1, EmptySeq
<1>5. m \in 1..Len(v) /\ m - 1 \in 0..Len(v) /\ ~ m <= m - 1
  BY <1>0, <1>3, <1>4
<1>6. f[m - 1] \in Seq(S \ {Space})
  BY <1>2, <1>5
<1>7. f[m] = IF v[m] = Space THEN f[m - 1] ELSE Append(f[m - 1], v[m])
  BY <1>5, KeepsStep
<1>8. v[m] \in S
  BY <1>5
<1>9. f[m] \in Seq(S \ {Space})
  BY <1>6, <1>7, <1>8
<1> QED
  BY <1>3, <1>9

LEMMA StripAllNoSpace ==
  ASSUME NEW S, NEW v \in Seq(S)
  PROVE  StripAll(v) \in Seq(S \ {Space})
<1>1. PICK f : Keeps(v, f) /\ StripAll(v) = f[Len(v)]
  BY StripAllKeeps
<1>2. Len(v) \in 0..Len(v)
  OBVIOUS
<1> QED
  BY <1>1, <1>2, KeepsNoSpace

LEMMA NothingToStrip ==
  ASSUME NEW S, NEW v \in Seq(S \ {Space})
  PROVE  StripAll(v) = v
<1>1. PICK f : Keeps(v, f) /\ StripAll(v) = f[Len(v)]
  BY StripAllKeeps
<1> DEFINE T == {m \in 0..Len(v) : f[m] # SubSeq(v, 1, m)}
<1>0. Len(v) \in Nat /\ SubSeq(v, 1, 0) = <<>> /\ SubSeq(v, 1, Len(v)) = v
  BY SubSeqFull, SubSeqEmpty
<1>2. SUFFICES ASSUME T # {} PROVE FALSE
  <2>1. Len(v) \notin T
    BY <1>2
  <2>2. Len(v) \in 0..Len(v)
    BY <1>0
  <2> QED
    BY <1>0, <1>1, <2>1, <2>2
<1>3. PICK m \in T : \A j \in T : m <= j
  <2>1. T \in SUBSET Nat
    BY <1>0
  <2> HIDE DEF T
  <2> QED
    BY <1>2, <2>1, LeastOf
<1>4. m \in 0..Len(v) /\ f[m] # SubSeq(v, 1, m)
  OBVIOUS
<1>5. m # 0
  <2>1. f[0] = <<>>
    BY <1>1, KeepsStep
  <2> QED
    BY <1>0, <1>4, <2>1
<1>6. m \in 1..Len(v) /\ m - 1 \in 0..Len(v) /\ ~ m <= m - 1
  BY <1>0, <1>4, <1>5
<1>7. f[m - 1] = SubSeq(v, 1, m - 1)
  BY <1>3, <1>6
<1>8. v[m] # Space
  BY <1>6
<1>9. f[m] = Append(SubSeq(v, 1, m - 1), v[m])
  BY <1>1, <1>6, <1>7, <1>8, KeepsStep
<1>10. SubSeq(v, 1, m) = Append(SubSeq(v, 1, m - 1), v[m])
  BY <1>6
<1> QED
  BY <1>4, <1>9, <1>10

\* Stripped twice is stripped once.
LEMMA StripAllTwice ==
  ASSUME NEW S, NEW v \in Seq(S)
  PROVE  StripAll(StripAll(v)) = StripAll(v)
BY StripAllNoSpace, NothingToStrip

\* A text that begins with a character that is no space still does.
LEMMA StripAllHead ==
  ASSUME NEW S, NEW v \in Seq(S), v # <<>>, Head(v) # Space
  PROVE  StripAll(v) # <<>> /\ Head(StripAll(v)) = Head(v)
<1>1. PICK f : Keeps(v, f) /\ StripAll(v) = f[Len(v)]
  BY StripAllKeeps
<1> DEFINE Begins(w) == w # <<>> /\ Head(w) = Head(v)
           T == {m \in 1..Len(v) : ~ Begins(f[m])}
<1>0. Len(v) \in Nat /\ Len(v) > 0 /\ Head(v) = v[1] /\ v[1] \in S
  BY EmptySeq
<1>2. SUFFICES ASSUME T # {} PROVE FALSE
  <2>1. Len(v) \notin T
    BY <1>2
  <2>2. Len(v) \in 1..Len(v)
    BY <1>0
  <2> QED
    BY <1>1, <2>1, <2>2
<1>3. PICK m \in T : \A j \in T : m <= j
  <2>1. T \in SUBSET Nat
    BY <1>0
  <2> HIDE DEF T
  <2> QED
    BY <1>2, <2>1, LeastOf
<1>4. m \in 1..Len(v) /\ ~ Begins(f[m])
  OBVIOUS
<1> HIDE DEF T
<1>5. f[m] = IF v[m] = Space THEN f[m - 1] ELSE Append(f[m - 1], v[m])
  BY <1>1, <1>4, KeepsStep
<1>6. m # 1
  <2>1. SUFFICES ASSUME m = 1 PROVE FALSE
    OBVIOUS
  <2>2. f[0] = <<>> /\ m - 1 = 0
    BY <1>1, <2>1, KeepsStep
  <2>3. f[m] = Append(<<>>, v[1])
    BY <1>0, <1>5, <2>1, <2>2
  <2>4. Append(<<>>, v[1]) = <<v[1]>> /\ <<v[1]>> # <<>> /\ Head(<<v[1]>>) = v[1]
    OBVIOUS
  <2> QED
    BY <1>0, <1>4, <2>3, <2>4
<1>7. m - 1 \in 1..Len(v) /\ m - 1 \in 0..Len(v) /\ ~ m <= m - 1
  BY <1>0, <1>4, <1>6
<1>8. Begins(f[m - 1])
  BY <1>3, <1>7 DEF T
<1>9. f[m - 1] \in Seq(S \ {Space})
  BY <1>1, <1>7, KeepsNoSpace
<1>10. v[m] \in S
  BY <1>4
<1>11. Begins(Append(f[m - 1], v[m]))
  BY <1>8, <1>9, <1>10
<1> QED
  BY <1>4, <1>5, <1>8, <1>11

\* The spaces a text begins with are some of those that go.
LEMMA StripAllLeading ==
  ASSUME NEW S, NEW v \in Seq(S)
  PROVE  StripAll(StripLeading(v)) = StripAll(v)
<1>1. PICK k \in 0..Len(v) :
        /\ StripLeading(v) = SubSeq(v, k + 1, Len(v))
        /\ \A j \in 1..k : v[j] = Space
  BY LeadingSpaces
<1> DEFINE w == SubSeq(v, k + 1, Len(v))
<1>2. /\ w \in Seq(S) /\ Len(v) \in Nat /\ Len(w) = Len(v) - k /\ Len(w) \in Nat
      /\ \A n \in 1..Len(w) : w[n] = v[n + k]
  BY SubSeqProperties
<1> HIDE DEF w
<1>3. PICK f : Keeps(v, f) /\ StripAll(v) = f[Len(v)]
  BY StripAllKeeps
<1>4. PICK g : Keeps(w, g) /\ StripAll(w) = g[Len(w)]
  BY <1>2, StripAllKeeps
<1>5. f[k] = <<>>
  <2> DEFINE T == {m \in 0..k : f[m] # <<>>}
  <2>1. SUFFICES ASSUME T # {} PROVE FALSE
    BY <1>2, <2>1
  <2>2. PICK m \in T : \A j \in T : m <= j
    <3>1. T \in SUBSET Nat
      BY <1>2
    <3> HIDE DEF T
    <3> QED
      BY <2>1, <3>1, LeastOf
  <2>3. m \in 0..k /\ f[m] # <<>>
    OBVIOUS
  <2>4. m # 0
    BY <1>3, <2>3, KeepsStep
  <2>5. m - 1 \in 0..k /\ ~ m <= m - 1 /\ m \in 1..k /\ m \in 1..Len(v)
    BY <1>2, <2>3, <2>4
  <2>6. f[m - 1] = <<>>
    BY <2>2, <2>5
  <2>7. f[m] = f[m - 1]
    BY <1>1, <1>3, <2>5, KeepsStep
  <2> QED
    BY <2>3, <2>6, <2>7
<1> DEFINE U == {m \in 0..Len(w) : g[m] # f[m + k]}
<1>6. SUFFICES ASSUME U # {} PROVE FALSE
  <2>1. Len(w) \notin U
    BY <1>6
  <2>2. Len(w) \in 0..Len(w) /\ Len(w) + k = Len(v)
    BY <1>2
  <2> QED
    BY <1>1, <1>3, <1>4, <2>1, <2>2 DEF w
<1>7. PICK m \in U : \A j \in U : m <= j
  <2>1. U \in SUBSET Nat
    BY <1>2
  <2> HIDE DEF U
  <2> QED
    BY <1>6, <2>1, LeastOf
<1>8. m \in 0..Len(w) /\ g[m] # f[m + k]
  OBVIOUS
<1> HIDE DEF U
<1>9. m # 0
  <2>1. g[0] = <<>>
    BY <1>2, <1>4, KeepsStep
  <2>2. 0 + k = k
    BY <1>2
  <2> QED
    BY <1>5, <1>8, <2>1, <2>2
<1>10. /\ m \in 1..Len(w) /\ m - 1 \in 0..Len(w) /\ ~ m <= m - 1
       /\ m + k \in 1..Len(v) /\ (m + k) - 1 = (m - 1) + k
  BY <1>2, <1>8, <1>9
<1>11. g[m - 1] = f[(m - 1) + k]
  BY <1>7, <1>10 DEF U
<1>12. g[m] = IF w[m] = Space THEN g[m - 1] ELSE Append(g[m - 1], w[m])
  BY <1>2, <1>4, <1>10, KeepsStep
<1>13. f[m + k] = IF v[m + k] = Space THEN f[(m + k) - 1] ELSE Append(f[(m + k) - 1], v[m + k])
  BY <1>3, <1>10, KeepsStep
<1> QED
  BY <1>2, <1>8, <1>10, <1>11, <1>12, <1>13

\* What StripLeading leaves begins with no space, and is empty when StripAll leaves
\* nothing.
LEMMA StripLeadingHead ==
  ASSUME NEW S, NEW v \in Seq(S)
  PROVE  LET w == StripLeading(v)
         IN  /\ w # <<>> => Head(w) # Space
             /\ StripAll(v) # <<>> => w # <<>>
<1> DEFINE w == StripLeading(v)
<1>1. PICK k \in 0..Len(v) :
        /\ w = SubSeq(v, k + 1, Len(v))
        /\ k < Len(v) => v[k + 1] # Space
  BY LeadingSpaces
<1>2. w \in Seq(S) /\ StripAll(w) = StripAll(v)
  BY StripLeadingSeq, StripAllLeading
<1> HIDE DEF w
<1>3. ASSUME w # <<>> PROVE Head(w) # Space
  <2>1. Len(v) \in Nat /\ Len(w) = Len(v) - k /\ \A n \in 1..Len(w) : w[n] = v[n + k]
    BY <1>1, SubSeqProperties
  <2>2. Len(w) # 0 /\ Head(w) = w[1]
    BY <1>2, <1>3, EmptySeq
  <2>3. k < Len(v) /\ 1 \in 1..Len(w)
    BY <1>2, <2>1, <2>2
  <2> QED
    BY <1>1, <2>1, <2>2, <2>3
<1>4. StripAll(<<>>) = <<>>
  <2>1. <<>> \in Seq(S \ {Space})
    OBVIOUS
  <2> QED
    BY <2>1, NothingToStrip
<1> QED
  BY <1>2, <1>3, <1>4 DEF w

(***************************************************************************)
(* The results and the field.                                              *)
(***************************************************************************)
\* Nothing has happened that the results depend on.
SameSearch(q, p) ==
  /\ q.value = p.value /\ q.searchActive = p.searchActive /\ q.shown = p.shown
  /\ q.timers = p.timers /\ q.searchIndex = p.searchIndex
  /\ q.lastSearchValue = p.lastSearchValue /\ q.next = p.next

LEMMA SameMatched ==
  ASSUME NEW p, NEW q, SameSearch(q, p), NEW r, NEW ed, Matched(p, r, ed)
  PROVE  Matched(q, r, ed)
<1>1. Loading(q, r) = Loading(p, r)
  BY DEF Loading, SameSearch
<1> QED
  BY <1>1 DEF SameSearch, Matched

LEMMA MatchedPage ==
  ASSUME NEW p, NEW r, NEW s, s.page = r.page, s.query = r.query,
         NEW ed, Matched(p, r, ed)
  PROVE  Matched(p, s, ed)
<1>1. Loading(p, s) = Loading(p, r)
  BY DEF Loading
<1> QED
  BY <1>1 DEF Matched

LEMMA MatchedEditing ==
  ASSUME NEW p, NEW r, NEW ed \in BOOLEAN, Matched(p, r, FALSE)
  PROVE  Matched(p, r, ed)
BY DEF Matched

LEMMA HideMatched ==
  ASSUME NEW r, NEW p, PanelOK(p, r), NEW ed, Matched(p, r, ed)
  PROVE  Matched(Hide(p), r, ed)
<1> DEFINE q == Hide(p)
<1>1. p \in Panels(r)
  BY DEF PanelOK
<1>2. /\ ~q.shown /\ q.value = p.value /\ q.searchActive = p.searchActive
      /\ q.lastSearchValue = p.lastSearchValue
  BY <1>1 DEF Hide, Panels
<1> HIDE DEF q
<1>3. Matched(q, r, ed)
  BY <1>2 DEF Matched
<1> QED
  BY <1>3 DEF q

\* Where the label is, nothing is displayed.
LEMMA ActivateMatched ==
  ASSUME NEW r, NEW p \in Panels(r), NEW a \in BOOLEAN, NEW ed, Matched(p, r, ed)
  PROVE  Matched(Activate(p, a), r, ed)
<1> DEFINE q == Activate(p, a)
<1>0. <<>> # Label
  BY TextAssumption
<1>1. CASE (a \/ p.shown) /\ p.value # Label
  <2>1. SameSearch(q, p)
    BY <1>1 DEF Activate, Panels, SameSearch
  <2> QED
    BY <2>1, SameMatched
<1>2. CASE (a \/ p.shown) /\ p.value = Label
  <2>1. ~p.shown
    BY <1>2 DEF Matched
  <2>2. q.value = <<>> /\ q.shown = p.shown /\ q.lastSearchValue = p.lastSearchValue
    BY <1>2 DEF Activate, Panels
  <2> HIDE DEF q
  <2>3. Matched(q, r, ed)
    BY <1>0, <2>1, <2>2 DEF Matched
  <2> QED
    BY <2>3 DEF q
<1>3. CASE ~(a \/ p.shown)
  <2>1. ~q.shown /\ q.lastSearchValue = <<>> /\ ~q.searchActive
    BY <1>3 DEF Activate, Panels
  <2> HIDE DEF q
  <2>2. Matched(q, r, ed)
    BY <2>1 DEF Matched
  <2> QED
    BY <2>2 DEF q
<1> QED
  BY <1>1, <1>2, <1>3

LEMMA FocusMatched ==
  ASSUME NEW r, NEW p, PanelOK(p, r), NEW f \in Places(r), NEW ed, Matched(p, r, ed)
  PROVE  Matched(Focus(p, f), r, ed)
<1> DEFINE s == [p EXCEPT !.focus = f]
<1>1. s \in Panels(r) /\ SameSearch(s, p)
  BY DEF PanelOK, Panels, SameSearch
<1>2. Focus(p, f) \in {p, s, Activate(s, FALSE), Activate(s, TRUE)}
  BY DEF Focus
<1> HIDE DEF s
<1>3. Matched(s, r, ed)
  BY <1>1, SameMatched
<1>4. Matched(Activate(s, FALSE), r, ed) /\ Matched(Activate(s, TRUE), r, ed)
  BY <1>1, <1>3, ActivateMatched
<1> QED
  BY <1>2, <1>3, <1>4

LEMMA CloseResultsMatched ==
  ASSUME NEW r, NEW p, PanelOK(p, r), NEW ed, Matched(p, r, ed)
  PROVE  Matched(CloseResultsWindow(p), r, ed)
<1>1. Hide(p) \in Panels(r)
  BY HidePanel DEF PanelOK
<1>2. Matched(Hide(p), r, ed)
  BY HideMatched
<1> QED
  BY <1>1, <1>2, ActivateMatched DEF CloseResultsWindow

LEMMA CloseSelectionSame ==
  ASSUME NEW r, NEW p \in Panels(r)
  PROVE  SameSearch(CloseSelectionWindow(p), p)
BY DEF CloseSelectionWindow, Panels, SameSearch

\* What Activate has made a field the reader searches with, but for the results.
Searching(p) ==
  /\ p.lastSearchValue # <<>> => Head(p.lastSearchValue) # Space
  /\ p.searchActive => p.value # Label
  /\ p.shown => p.lastSearchValue # <<>>

LEMMA SearchMatched ==
  ASSUME NEW r, NEW p \in Panels(r), Searching(p), Searches(p), NEW ed
  PROVE  Matched(Search(p), r, ed)
<1> DEFINE q == Search(p)
           text == StripLeading(p.value)
<1>1. p.value \in Text /\ p.value \in Seq(DOMAIN Lower)
  BY TextSeq DEF Panels
<1>2. StripAll(p.value) # <<>> /\ p.searchActive
  BY DEF Searches
<1>3. text \in Text /\ text # <<>> /\ Head(text) # Space /\ StripAll(text) = StripAll(p.value)
  BY <1>1, <1>2, StripLeadingText, StripLeadingHead, StripAllLeading
<1> HIDE DEF text
<1>4. CASE p.searchIndex \notin Filters
  <2>1. /\ q.value = p.value /\ q.searchActive = p.searchActive /\ q.shown = p.shown
        /\ q.searchIndex = p.searchIndex /\ q.lastSearchValue = p.lastSearchValue
    BY <1>4 DEF Search, Panels
  <2> HIDE DEF q
  <2>2. Matched(q, r, ed)
    BY <1>2, <1>4, <2>1 DEF Searching, Matched
  <2> QED
    BY <2>2 DEF q
<1>5. CASE p.searchIndex \in Filters
  <2> DEFINE l == Location(p.searchIndex, text)
  <2>1. l # NoPage
    <3>1. l \in [page : Pages, query : Text]
      BY <1>3, <1>5, LocationType
    <3> HIDE DEF l
    <3>2. l \in [page : DOMAIN Rows \cup {NoPage}, query : Seq(DOMAIN Lower)]
      BY <3>1, TextSeq DEF Pages
    <3> QED
      BY <3>2, PagesAssumption
  <2> HIDE DEF l
  <2>2. /\ q.value = p.value /\ q.searchActive = p.searchActive
        /\ q.searchIndex = p.searchIndex /\ q.lastSearchValue = text /\ q.next = l
    BY <1>5 DEF Search, Panels, l, text
  <2> HIDE DEF q
  <2>3. Loading(q, r) = Location(q.searchIndex, q.lastSearchValue)
    BY <2>1, <2>2 DEF Loading, l
  <2>4. Matched(q, r, ed)
    BY <1>2, <1>3, <2>2, <2>3 DEF Searching, Matched
  <2> QED
    BY <2>4 DEF q
<1> QED
  BY <1>4, <1>5

LEMMA SelectMatched ==
  ASSUME NEW r, NEW p, PanelOK(p, r), Matched(p, r, FALSE), NEW id \in 0..Len(Sections)
  PROVE  Matched(OnSelectItem(p, id), r, FALSE)
<1> DEFINE s == [p EXCEPT !.searchIndex = id]
<1>1. /\ s \in Panels(r)
      /\ s.value = p.value /\ s.searchActive = p.searchActive /\ s.shown = p.shown
      /\ s.lastSearchValue = p.lastSearchValue
  BY DEF PanelOK, Panels
<1>2. OnSelectItem(p, id) = IF Searches(s) THEN Search(s) ELSE s
  BY DEF OnSelectItem
<1> HIDE DEF s
<1>3. Searching(s)
  BY <1>1 DEF Matched, Searching
<1>4. CASE Searches(s)
  BY <1>1, <1>2, <1>3, <1>4, SearchMatched
<1>5. CASE ~Searches(s)
  <2>1. ~s.shown
    BY <1>1, <1>5 DEF Matched, Searches
  <2>2. Matched(s, r, FALSE)
    BY <1>3, <2>1 DEF Matched, Searching
  <2> QED
    BY <1>2, <1>5, <2>2
<1> QED
  BY <1>4, <1>5

LEMMA SelectKeyMatched ==
  ASSUME NEW r, NEW p, PanelOK(p, r), Matched(p, r, FALSE), NEW k
  PROVE  Matched(OnSearchSelectKey(p, k), r, FALSE)
<1> DEFINE i == p.searchIndex
           s == OnSelectItem(p, i)
           t == CloseSelectionWindow(s)
           q == OnSearchSelectKey(p, k)
<1>0. i \in 0..Len(Sections) /\ Len(Sections) \in Nat
  BY PagesAssumption DEF PanelOK, Panels
<1>1. \/ i < Len(Sections) /\ q = OnSelectItem(p, i + 1)
      \/ i > 0 /\ q = OnSelectItem(p, i - 1)
      \/ q \in {s, Focus(t, Field), p}
  BY DEF OnSearchSelectKey
<1> HIDE DEF q
<1>2. (i < Len(Sections) => i + 1 \in 0..Len(Sections)) /\ (i > 0 => i - 1 \in 0..Len(Sections))
  BY <1>0
<1>3. PanelOK(s, r) /\ Matched(s, r, FALSE)
  BY <1>0, SelectPanel, SelectMatched
<1> HIDE DEF s
<1>4. PanelOK(t, r) /\ Matched(t, r, FALSE)
  <2>1. s \in Panels(r)
    BY <1>3 DEF PanelOK
  <2>2. SameSearch(t, s)
    BY <2>1, CloseSelectionSame
  <2> QED
    BY <1>3, <2>2, CloseSelectionPanel, SameMatched
<1> HIDE DEF t
<1>5. Matched(Focus(t, Field), r, FALSE)
  BY <1>4, FocusMatched, FixedPlaces
<1>6. ASSUME NEW j \in 0..Len(Sections) PROVE Matched(OnSelectItem(p, j), r, FALSE)
  BY SelectMatched
<1>7. q \in {s, Focus(t, Field), p} => Matched(q, r, FALSE)
  BY <1>3, <1>5
<1> HIDE DEF i
<1> QED
  BY <1>1, <1>2, <1>6, <1>7 DEF q

\* A key that comes up in the field asks for a new search when it must.
LEMMA FieldChangedMatched ==
  ASSUME NEW r, NEW p, PanelOK(p, r), Matched(p, r, TRUE)
  PROVE  Matched(FieldChanged(p), r, FALSE)
<1> DEFINE q == FieldChanged(p)
           text == StripAll(p.value)
           a == [p EXCEPT !.keyTimeout = TRUE, !.timers = @ + 1]
           h == Hide(p)
           b == [h EXCEPT !.lastSearchValue = <<>>]
<1>0. p \in Panels(r) /\ p.value \in Seq(DOMAIN Lower) /\ p.timers \in Nat
  BY TextSeq DEF PanelOK, Panels
<1>1. StripAll(text) = text
  BY <1>0, StripAllTwice
<1>2. q = IF text = p.lastSearchValue THEN p ELSE IF text # <<>> THEN a ELSE b
  BY DEF FieldChanged
<1>3. CASE text = p.lastSearchValue
  <2>1. q = p
    BY <1>2, <1>3
  <2> HIDE DEF q
  <2>2. p.shown => StripAll(p.value) # <<>> /\ StripAll(p.lastSearchValue) = StripAll(p.value)
    BY <1>1, <1>3 DEF Matched
  <2>3. Matched(p, r, FALSE)
    BY <2>2 DEF Matched
  <2> QED
    BY <2>1, <2>3 DEF q
<1>4. CASE text # p.lastSearchValue /\ text # <<>>
  <2>1. q = a
    BY <1>2, <1>4
  <2>2. /\ a.value = p.value /\ a.searchActive = p.searchActive /\ a.shown = p.shown
        /\ a.timers = p.timers + 1 /\ a.searchIndex = p.searchIndex
        /\ a.lastSearchValue = p.lastSearchValue /\ a.next = p.next
    BY <1>0 DEF Panels
  <2> HIDE DEF q, a
  <2>3. a.timers > 0
    BY <1>0, <2>2
  <2>4. Loading(a, r) = Loading(p, r)
    BY <2>2 DEF Loading
  <2>5. Matched(a, r, FALSE)
    BY <1>4, <2>2, <2>3, <2>4 DEF Matched
  <2> QED
    BY <2>1, <2>5 DEF q
<1>5. CASE text # p.lastSearchValue /\ text = <<>>
  <2>1. q = b
    BY <1>2, <1>5
  <2>2. h \in Panels(r) /\ ~h.shown /\ h.value = p.value
    BY HidePanel DEF PanelOK
  <2>3. Matched(h, r, TRUE)
    BY HideMatched
  <2> HIDE DEF h
  <2>4. /\ ~b.shown /\ b.lastSearchValue = <<>>
        /\ b.value = h.value /\ b.searchActive = h.searchActive
    BY <2>2 DEF Panels
  <2> HIDE DEF b, q
  <2>5. Matched(b, r, FALSE)
    BY <2>3, <2>4 DEF Matched
  <2> QED
    BY <2>1, <2>5 DEF q
<1> QED
  BY <1>3, <1>4, <1>5

LEMMA KillTimerMatched ==
  ASSUME NEW r, NEW p \in Panels(r)
  PROVE  /\ Matched(p, r, TRUE) => Matched(KillTimer(p), r, TRUE)
         /\ ~p.keyTimeout => KillTimer(p) = p
<1> DEFINE q == KillTimer(p)
<1>1. /\ q.value = p.value /\ q.searchActive = p.searchActive /\ q.shown = p.shown
      /\ q.searchIndex = p.searchIndex
      /\ q.lastSearchValue = p.lastSearchValue /\ q.next = p.next
  BY DEF KillTimer, Panels
<1>2. ~p.keyTimeout => q = p
  BY DEF KillTimer
<1> HIDE DEF q
<1>3. Loading(q, r) = Loading(p, r)
  BY <1>1 DEF Loading
<1>4. Matched(p, r, TRUE) => Matched(q, r, TRUE)
  BY <1>1, <1>3 DEF Matched
<1> QED
  BY <1>2, <1>4 DEF q

LEMMA EditKeys ==
  /\ ShiftEnter \notin Chars \cup {Backspace}
  /\ {Up, Down, Left, Right, Enter, Escape} \cap (Chars \cup {Backspace}) = {}
<1> DEFINE c == <<Down, Up, Left, Right, Enter, ShiftEnter, Escape, Backspace>>
<1>1. \A i, j \in DOMAIN c : c[i] = c[j] => i = j
  BY KeysAssumption DEF IsInjective
<1>2. /\ DOMAIN c = 1..8 /\ c[1] = Down /\ c[2] = Up /\ c[3] = Left /\ c[4] = Right
      /\ c[5] = Enter /\ c[6] = ShiftEnter /\ c[7] = Escape /\ c[8] = Backspace
  OBVIOUS
<1> HIDE DEF c
<1>3. Backspace \notin {Down, Up, Left, Right, Enter, ShiftEnter, Escape}
  BY <1>1, <1>2
<1> QED
  BY <1>3, KeysAssumption DEF Commands

LEMMA FieldChangeMatched ==
  ASSUME NEW r, NEW p, PanelOK(p, r), FieldOK(p), TimersOK(p), p.focus = Field,
         NEW first, first = Nothing \/ Displayed(r, first), NEW k,
         Matched(p, r, k \in Chars \cup {Backspace}),
         ~ (k = ShiftEnter /\ p.keyTimeout)
  PROVE  Matched(OnSearchFieldChange(p, k, first), r, FALSE)
<1> DEFINE q == KillTimer(p)
           o == OnSearchSelectShow(q)
           s == Focus(o, Filter)
           f == Focus(q, Nothing)
           n == Hide(f)
           m == [n EXCEPT !.lastSearchValue = <<>>]
           e == Activate(m, FALSE)
           g == Focus(q, first)
           d == FieldChanged(g)
           c == FieldChanged(q)
<1>0. p \in Panels(r)
  BY DEF PanelOK
<1>1. Matched(p, r, TRUE) /\ (k = ShiftEnter => Matched(p, r, FALSE))
  BY EditKeys DEF Matched
<1>2. PanelOK(q, r) /\ FieldOK(q) /\ q.shown = p.shown /\ q.focus = Field
  BY KillTimerPanel
<1>3. Matched(q, r, TRUE) /\ (k = ShiftEnter => q = p)
  BY <1>0, <1>1, KillTimerMatched
<1>4. OnSearchFieldChange(p, k, first) =
        CASE k = ShiftEnter -> s
          [] k = Escape -> e
          [] k \in {Down, Enter} /\ p.shown /\ first # Nothing -> d
          [] OTHER -> c
  BY DEF OnSearchFieldChange
<1> HIDE DEF q
<1>5. q \in Panels(r)
  BY <1>2 DEF PanelOK
<1>6. k = ShiftEnter => Matched(s, r, FALSE)
  <2> SUFFICES ASSUME k = ShiftEnter PROVE Matched(s, r, FALSE)
    OBVIOUS
  <2>1. /\ o \in Panels(r) /\ SameSearch(o, q) /\ o.keyTimeout = q.keyTimeout
        /\ o.focus = Field /\ o.shown = q.shown /\ o.selectShown
    BY <1>2, <1>5 DEF OnSearchSelectShow, Panels, SameSearch
  <2> HIDE DEF o
  <2>2. PanelOK(o, r)
    BY <1>2, <2>1, FixedPlaces DEF PanelOK, InSight, SameSearch
  <2>3. Matched(o, r, FALSE)
    BY <1>1, <1>3, <2>1, SameMatched
  <2>4. Filter \in Places(r)
    BY FixedPlaces
  <2> QED
    BY <2>2, <2>3, <2>4, FocusMatched
<1>7. Matched(e, r, FALSE)
  <2>1. Nothing \in Places(r) /\ InSight(q, r, Nothing)
    BY FixedPlaces DEF InSight
  <2>2. PanelOK(f, r)
    BY <1>2, <2>1, FocusPanel
  <2>3. Matched(f, r, TRUE)
    BY <1>2, <1>3, <2>1, FocusMatched
  <2> HIDE DEF f
  <2>4. PanelOK(n, r) /\ ~n.shown
    BY <2>2, HidePanel
  <2>5. Matched(n, r, TRUE)
    BY <2>2, <2>3, HideMatched
  <2> HIDE DEF n
  <2>6. n \in Panels(r) /\ <<>> \in Text
    BY <2>4, NoText DEF PanelOK, Text
  <2>7. /\ m \in Panels(r) /\ ~m.shown /\ m.lastSearchValue = <<>>
        /\ m.value = n.value /\ m.searchActive = n.searchActive
    BY <2>4, <2>6 DEF Panels
  <2> HIDE DEF m
  <2>8. Matched(m, r, FALSE)
    BY <2>5, <2>7 DEF Matched
  <2> QED
    BY <2>7, <2>8, ActivateMatched
<1>8. Matched(c, r, FALSE)
  BY <1>2, <1>3, FieldChangedMatched
<1>9. p.shown /\ first # Nothing => Matched(d, r, FALSE)
  <2> SUFFICES ASSUME p.shown, first # Nothing PROVE Matched(d, r, FALSE)
    OBVIOUS
  <2>1. Displayed(r, first) /\ first # Filter /\ first \in Places(r)
    BY FixedPlaces DEF Displayed
  <2>2. InSight(q, r, first)
    BY <1>2, <2>1 DEF InSight, Displayed
  <2>3. PanelOK(g, r)
    BY <1>2, <2>1, <2>2, FocusPanel
  <2>4. Matched(g, r, TRUE)
    BY <1>2, <1>3, <2>1, FocusMatched
  <2> HIDE DEF g
  <2> QED
    BY <2>3, <2>4, FieldChangedMatched
<1> HIDE DEF s, e, d, c
<1> QED
  BY <1>4, <1>6, <1>7, <1>8, <1>9

LEMMA NotAnEdit == NoKey \notin Chars \cup {Backspace}
BY KeysAssumption DEF Commands

\* The events of the frame leave its page.
LEMMA FrameKeyMatched ==
  ASSUME results \in Results, results.open \subseteq Parents(results),
         PanelOK(panel, results), FieldOK(panel), InFrame(panel.focus),
         NEW k \in Keys, NEW type \in {"keydown", "keypress", "keyup"},
         FrameKey(type, k), Matched(panel, results, FALSE)
  PROVE  Matched(panel', results', FALSE)
<1> DEFINE f == panel.focus
           e == f[2]
           r == ProcessKeys(results, type, k)
           c == CloseResultsWindow(panel)
           g == Target(r, f, k)
<1>1. /\ r \in Results
      /\ r.page = results.page /\ r.query = results.query /\ r.open = results.open
  BY ProcessKeysResults
<1>2. r.open \subseteq Parents(r)
  BY <1>1, SamePage
<1>3. PanelOK(panel, r)
  BY <1>1, OtherChildren DEF PanelOK, InSight
<1>4. Matched(panel, r, FALSE)
  BY <1>1, MatchedPage
<1>5. CASE k = Enter
  <2>1. panel' = panel /\ results' \in {results, Toggle(results, e)}
    BY <1>5 DEF FrameKey
  <2>2. /\ Toggle(results, e).page = results.page
        /\ Toggle(results, e).query = results.query
    BY DEF Toggle, Results
  <2> QED
    BY <2>1, <2>2, MatchedPage
<1>6. CASE k # Enter /\ ~Accepts(results, type)
  BY <1>4, <1>6 DEF FrameKey
<1>7. CASE k # Enter /\ Accepts(results, type)
  <2> DEFINE o == CASE k = Right -> r.open \cup {e}
                    [] k = Left -> r.open \ {e}
                    [] OTHER -> r.open
  <2>1. /\ results' = IF f[1] = "item" /\ HasChildren(r, e) THEN [r EXCEPT !.open = o] ELSE r
        /\ panel' = IF k = Escape THEN Focus(c, Field)
                    ELSE IF g = Nothing THEN panel
                    ELSE Focus(panel, g)
    BY <1>7 DEF FrameKey
  <2> HIDE DEF r, o
  <2>2. results'.page = r.page /\ results'.query = r.query
    BY <1>1, <2>1 DEF Results
  <2>3. Matched(Focus(c, Field), r, FALSE)
    <3>1. f # Field /\ Field \in Places(r)
      BY FixedPlaces
    <3>2. PanelOK(c, r)
      BY <1>1, <1>2, <1>3, <3>1, CloseResultsPanel
    <3>3. Matched(c, r, FALSE)
      BY <1>3, <1>4, CloseResultsMatched
    <3> HIDE DEF c
    <3> QED
      BY <3>1, <3>2, <3>3, FocusMatched
  <2>4. g # Nothing => Matched(Focus(panel, g), r, FALSE)
    <3> SUFFICES ASSUME g # Nothing PROVE Matched(Focus(panel, g), r, FALSE)
      OBVIOUS
    <3>1. Displayed(r, f)
      BY <1>3 DEF PanelOK, Panels, InSight, Displayed
    <3>2. g = Field \/ Displayed(r, g)
      BY <1>1, <1>2, <3>1, TargetDisplayed
    <3> HIDE DEF g
    <3>3. g \in Places(r)
      BY <3>2, FixedPlaces DEF Displayed
    <3> QED
      BY <1>3, <1>4, <3>3, FocusMatched
  <2> HIDE DEF c, g
  <2>5. Matched(panel', r, FALSE)
    BY <1>4, <2>1, <2>3, <2>4
  <2> QED
    BY <2>2, <2>5, MatchedPage
<1> QED
  BY <1>5, <1>6, <1>7

LEMMA KeyDownMatched ==
  ASSUME IInv, Label \notin Typed, NEW k \in Keys, KeyDown(k), Matched(panel, results, FALSE)
  PROVE  Matched(panel', results', Editing')
<1>0. /\ results \in Results /\ results.open \subseteq Parents(results)
      /\ PanelOK(panel, results) /\ FieldOK(panel) /\ panel \in Panels(results)
  BY DEF IInv, PanelOK
<1>1. held' = k /\ Editing' \in BOOLEAN
  BY DEF KeyDown, Editing
<1>2. CASE /\ panel.focus = Field
           /\ Len(Edited(panel.value, k)) <= MAX_LEN
           /\ panel' = [panel EXCEPT !.value = Edited(@, k)]
           /\ UNCHANGED results
  <2>1. Edited(panel.value, k) \in Typed
    BY <1>0, <1>2, EditedTyped DEF FieldOK
  <2>2. /\ panel'.value = Edited(panel.value, k) /\ panel'.focus = Field
        /\ panel'.searchActive = panel.searchActive /\ panel'.shown = panel.shown
        /\ panel'.timers = panel.timers /\ panel'.searchIndex = panel.searchIndex
        /\ panel'.lastSearchValue = panel.lastSearchValue /\ panel'.next = panel.next
    BY <1>0, <1>2 DEF Panels
  <2>3. CASE k \in Chars \cup {Backspace}
    <3>1. Editing'
      BY <1>1, <2>2, <2>3 DEF Editing
    <3>2. Loading(panel', results') = Loading(panel, results)
      BY <1>2, <2>2 DEF Loading
    <3> QED
      BY <2>1, <2>2, <3>1, <3>2 DEF Matched
  <2>4. CASE k \notin Chars \cup {Backspace}
    <3>1. Edited(panel.value, k) = panel.value
      BY <2>4 DEF Edited
    <3>2. SameSearch(panel', panel)
      BY <2>2, <3>1 DEF SameSearch
    <3>3. Matched(panel', results', FALSE)
      BY <1>2, <3>2, SameMatched
    <3> QED
      BY <1>1, <3>3, MatchedEditing
  <2> QED
    BY <2>3, <2>4
<1>3. CASE panel' = OnSearchSelectKey(panel, k) /\ UNCHANGED results
  <2>1. Matched(panel', results', FALSE)
    BY <1>0, <1>3, SelectKeyMatched
  <2> QED
    BY <1>1, <2>1, MatchedEditing
<1>4. CASE InFrame(panel.focus) /\ FrameKey("keydown", k)
  <2>1. Matched(panel', results', FALSE)
    BY <1>0, <1>4, FrameKeyMatched
  <2> QED
    BY <1>1, <2>1, MatchedEditing
<1> QED
  BY <1>2, <1>3, <1>4 DEF KeyDown

LEMMA KeyPressMatched ==
  ASSUME IInv, KeyPress, Matched(panel, results, FALSE)
  PROVE  Matched(panel', results', Editing')
<1>1. Editing' \in BOOLEAN
  BY DEF Editing
<1>2. held \in Keys /\ InFrame(panel.focus) /\ FrameKey("keypress", held)
  BY DEF IInv, KeyPress
<1>3. Matched(panel', results', FALSE)
  BY <1>2, FrameKeyMatched DEF IInv
<1> QED
  BY <1>1, <1>3, MatchedEditing

LEMMA KeyUpMatched ==
  ASSUME IInv, KeyUp, ~astray', Matched(panel, results, Editing)
  PROVE  Matched(panel', results', FALSE)
<1>0. /\ results \in Results /\ PanelOK(panel, results) /\ FieldOK(panel)
      /\ TimersOK(panel) /\ held \in Keys
  BY DEF IInv, KeyUp
<1>1. CASE panel.focus = Field
  <2> DEFINE first == NavNext(results, 0)
  <2>1. panel' = OnSearchFieldChange(panel, held, first) /\ UNCHANGED results
    BY <1>1, FixedPlaces DEF KeyUp
  <2>2. first = Nothing \/ Displayed(results, first)
    BY <1>0, NavNextItem, DisplayedItem
  <2>3. ~ (held = ShiftEnter /\ panel.keyTimeout)
    BY <1>1 DEF KeyUp
  <2>4. Matched(panel, results, held \in Chars \cup {Backspace})
    BY <1>1 DEF Editing
  <2> HIDE DEF first
  <2>5. Matched(OnSearchFieldChange(panel, held, first), results, FALSE)
    BY <1>0, <1>1, <2>2, <2>3, <2>4, FieldChangeMatched
  <2> QED
    BY <2>1, <2>5
<1>2. CASE panel.focus # Field
  <2>1. Matched(panel, results, FALSE)
    BY <1>2 DEF Editing
  <2>2. CASE InFrame(panel.focus)
    <3>1. FrameKey("keyup", held)
      BY <1>2, <2>2 DEF KeyUp
    <3> QED
      BY <1>0, <2>1, <2>2, <3>1, FrameKeyMatched DEF IInv
  <2>3. CASE ~InFrame(panel.focus)
    BY <1>2, <2>1, <2>3 DEF KeyUp
  <2> QED
    BY <2>2, <2>3
<1> QED
  BY <1>1, <1>2

LEMMA ClickMatched ==
  ASSUME IInv, Click, Matched(panel, results, FALSE)
  PROVE  Matched(panel', results', FALSE)
<1>0. /\ results \in Results /\ PanelOK(panel, results) /\ FieldOK(panel)
  BY DEF IInv
<1>1. ASSUME NEW f \in Places(results) PROVE Matched(Focus(panel, f), results, FALSE)
  BY <1>0, FocusMatched
<1>2. CASE ClickAway \/ ClickField
  BY <1>1, <1>2, FixedPlaces DEF ClickAway, ClickField
<1>3. ASSUME NEW f \in {Nothing, Filter}, f = Filter => panel.selectShown
      PROVE  PanelOK(Focus(panel, f), results)
  <2>1. f \in Places(results) /\ InSight(panel, results, f)
    BY <1>3, FixedPlaces DEF InSight
  <2> QED
    BY <1>0, <2>1, FocusPanel
<1>4. CASE ClickClose
  <2> DEFINE q == Focus(panel, Nothing)
  <2>1. PanelOK(q, results) /\ Matched(q, results, FALSE)
    BY <1>1, <1>3, FixedPlaces
  <2>2. panel' = CloseResultsWindow(q) /\ results' = results
    BY <1>4 DEF ClickClose
  <2> HIDE DEF q
  <2> QED
    BY <2>1, <2>2, CloseResultsMatched
<1>5. ASSUME NEW i \in Filters, ClickFilter(i) PROVE Matched(panel', results', FALSE)
  <2> DEFINE q == Focus(panel, Filter)
  <2>1. PanelOK(q, results) /\ Matched(q, results, FALSE)
    BY <1>1, <1>3, <1>5, FixedPlaces DEF ClickFilter
  <2>2. panel' = OnSelectItem(q, i) /\ results' = results
    BY <1>5 DEF ClickFilter
  <2>3. i \in 0..Len(Sections)
    BY PagesAssumption DEF Filters
  <2> HIDE DEF q
  <2> QED
    BY <2>1, <2>2, <2>3, SelectMatched
<1>6. ASSUME NEW e \in Items(results), ClickItem(e) PROVE Matched(panel', results', FALSE)
  <2>1. Matched(Focus(panel, Item(e)), results, FALSE)
    BY <1>1 DEF Places
  <2>2. panel' = Focus(panel, Item(e)) /\ results' = Toggle(results, e)
    BY <1>6 DEF ClickItem
  <2>3. results'.page = results.page /\ results'.query = results.query
    BY <1>0, <2>2 DEF Toggle, Results
  <2>4. Matched(panel', results, FALSE)
    BY <2>1, <2>2
  <2> QED
    BY <2>3, <2>4, MatchedPage
<1> QED
  BY <1>2, <1>4, <1>5, <1>6 DEF Click

LEMMA MouseMatched ==
  ASSUME IInv, MouseOver \/ MouseOut, NEW ed, Matched(panel, results, ed)
  PROVE  Matched(panel', results', ed)
<1>1. panel \in Panels(results)
  BY DEF IInv, PanelOK
<1>2. SameSearch(panel', panel)
  BY <1>1 DEF MouseOver, MouseOut, OnSearchSelectShow, OnSearchSelectHide, Panels, SameSearch
<1> QED
  BY <1>2, SameMatched DEF MouseOver, MouseOut

LEMMA HideTimerMatched ==
  ASSUME IInv, HideTimer, Matched(panel, results, Editing)
  PROVE  Matched(panel', results', Editing')
<1> DEFINE q == CloseSelectionWindow(panel)
<1>0. PanelOK(panel, results) /\ panel \in Panels(results) /\ FieldOK(panel)
  BY DEF IInv, PanelOK
<1>1. SameSearch(q, panel)
  BY <1>0, CloseSelectionSame
<1>2. q \in Panels(results) /\ q.focus = IF panel.focus = Filter THEN Nothing ELSE panel.focus
  BY <1>0, CloseSelectionPanel DEF PanelOK
<1>3. /\ panel' = [q EXCEPT !.hideTimer = FALSE]
      /\ UNCHANGED <<results, held>>
  BY DEF HideTimer
<1> HIDE DEF q
<1>4. SameSearch(panel', q) /\ panel'.focus = q.focus
  BY <1>2, <1>3 DEF Panels, SameSearch
<1>5. SameSearch(panel', panel)
  BY <1>1, <1>4 DEF SameSearch
<1>6. Editing' = Editing
  BY <1>2, <1>3, <1>4, FixedPlaces DEF Editing
<1>7. Matched(panel', results, Editing)
  BY <1>5, SameMatched
<1> QED
  BY <1>3, <1>6, <1>7

LEMMA KeyTimerMatched ==
  ASSUME IInv, KeyTimer, ~astray', Matched(panel, results, Editing)
  PROVE  Matched(panel', results', Editing')
<1> DEFINE q == [panel EXCEPT !.timers = @ - 1]
<1>0. panel \in Panels(results) /\ panel.timers > 0
  BY DEF IInv, PanelOK, KeyTimer
<1>1. panel.timers - 1 \in Nat
  BY <1>0 DEF Panels
<1>2. /\ q \in Panels(results)
      /\ q.value = panel.value /\ q.searchActive = panel.searchActive
      /\ q.shown = panel.shown /\ q.lastSearchValue = panel.lastSearchValue
  BY <1>0, <1>1 DEF Panels
<1>3. panel' = Search(q) /\ results' = results /\ Searches(panel)
  BY DEF KeyTimer
<1> HIDE DEF q
<1>4. Searching(q) /\ Searches(q)
  BY <1>2, <1>3 DEF Searching, Searches, Matched
<1> QED
  BY <1>2, <1>3, <1>4, SearchMatched

\* What was on its way arrives.
LEMMA FrameLoadsMatched ==
  ASSUME IInv, FrameLoads, Matched(panel, results, Editing)
  PROVE  Matched(panel', results', Editing')
<1>0. panel \in Panels(results) /\ panel.next # NoPage
  BY DEF IInv, PanelOK, FrameLoads
<1>1. /\ panel'.value = panel.value /\ panel'.searchActive = panel.searchActive
      /\ panel'.shown = panel.shown /\ panel'.timers = panel.timers
      /\ panel'.searchIndex = panel.searchIndex
      /\ panel'.lastSearchValue = panel.lastSearchValue /\ panel'.next = NoPage
      /\ panel'.focus = IF InFrame(panel.focus) THEN Nothing ELSE panel.focus
  BY <1>0 DEF FrameLoads, Panels
<1>2. Editing' = Editing
  BY <1>1, FixedPlaces DEF Editing, FrameLoads
<1>3. panel.next \in [page : Pages, query : Text]
  BY <1>0 DEF Panels
<1>4. results'.page = panel.next.page /\ results'.query = panel.next.query
  BY DEF FrameLoads, LoadedResults
<1>5. Loading(panel', results') = Loading(panel, results)
  BY <1>0, <1>1, <1>3, <1>4 DEF Loading
<1> QED
  BY <1>1, <1>2, <1>5 DEF Matched

LEMMA InitMatchIInv == Init => MatchIInv
<1> SUFFICES ASSUME Init PROVE MatchIInv
  OBVIOUS
<1>1. ~panel.shown /\ panel.lastSearchValue = <<>> /\ ~panel.searchActive
  BY DEF Init, NewPanel
<1> QED
  BY <1>1 DEF MatchIInv, Matched

LEMMA NextMatchIInv ==
  ASSUME Label \notin Typed, IInv, MatchIInv, [Next]_vars
  PROVE  MatchIInv'
<1>1. CASE UNCHANGED vars
  BY <1>1 DEF vars, MatchIInv, Editing, Matched, Loading
<1>2. CASE Next
  <2> SUFFICES ASSUME ~astray' PROVE Matched(panel', results', Editing')
    BY DEF MatchIInv
  <2>1. ~astray
    BY <1>2 DEF Next, KeyDown, KeyPress, KeyUp, Click, MouseOver, MouseOut,
                HideTimer, KeyTimer, FrameLoads
  <2>2. Matched(panel, results, Editing)
    BY <2>1 DEF MatchIInv
  <2>3. held = NoKey \/ InFrame(panel.focus) => Matched(panel, results, FALSE)
    BY <2>2, NotAnEdit, FixedPlaces DEF Editing
  <2>4. Editing' \in BOOLEAN
    BY DEF Editing
  <2>5. CASE \E k \in Keys : KeyDown(k)
    BY <2>3, <2>5, KeyDownMatched DEF KeyDown
  <2>6. CASE KeyPress
    BY <2>3, <2>6, KeyPressMatched DEF KeyPress
  <2>7. CASE KeyUp
    BY <2>2, <2>4, <2>7, KeyUpMatched, MatchedEditing
  <2>8. CASE Click
    <3>1. Matched(panel, results, FALSE)
      BY <2>3, <2>8 DEF Click
    <3> QED
      BY <2>4, <2>8, <3>1, ClickMatched, MatchedEditing
  <2>9. CASE MouseOver \/ MouseOut
    <3>1. Matched(panel, results, FALSE)
      BY <2>3, <2>9 DEF MouseOver, MouseOut
    <3> QED
      BY <2>4, <2>9, <3>1, MouseMatched, MatchedEditing
  <2>10. CASE HideTimer
    BY <2>2, <2>10, HideTimerMatched
  <2>11. CASE KeyTimer
    BY <2>2, <2>11, KeyTimerMatched
  <2>12. CASE FrameLoads
    BY <2>2, <2>12, FrameLoadsMatched
  <2> QED
    BY <1>2, <2>5, <2>6, <2>7, <2>8, <2>9, <2>10, <2>11, <2>12 DEF Next
<1> QED
  BY <1>1, <1>2

\* The page of a text, whatever its spaces.
LEMMA MatchedResults == IInv /\ MatchIInv => ResultsMatchField
<1> SUFFICES ASSUME IInv, MatchIInv, Settled, ~astray, panel.shown,
                    panel.searchIndex \in Filters
             PROVE  /\ results.page = Location(panel.searchIndex, StripAll(panel.value)).page
                    /\ results.page # NoPage => StripAll(results.query) = StripAll(panel.value)
  BY DEF ResultsMatchField
<1> DEFINE i == panel.searchIndex
           last == panel.lastSearchValue
<1>1. Matched(panel, results, FALSE)
  BY NotAnEdit DEF MatchIInv, Editing, Settled
<1>2. /\ last # <<>> /\ Head(last) # Space
      /\ Loading(panel, results) = Location(i, last)
      /\ StripAll(last) = StripAll(panel.value)
  <2>1. ~ panel.timers > 0
    BY DEF Settled
  <2> QED
    BY <1>1, <2>1 DEF Matched
<1>3. results.page = Location(i, last).page /\ results.query = Location(i, last).query
  BY <1>2 DEF Loading, Settled
<1>4. last \in Seq(DOMAIN Lower)
  BY TextSeq DEF IInv, PanelOK, Panels
<1>5. StripAll(last) # <<>> /\ Head(StripAll(last)) = Head(last)
  BY <1>2, <1>4, StripAllHead
<1> HIDE DEF i, last
<1>6. Location(i, StripAll(last)).page = Location(i, last).page
  BY <1>2, <1>5 DEF Location
<1>7. Location(i, last).page # NoPage => Location(i, last).query = last
  BY <1>2 DEF Location
<1> QED
  BY <1>2, <1>3, <1>6, <1>7 DEF i

(***************************************************************************)
(* When nothing is on its way, the page that is displayed is that of the   *)
(* field's text and the filter, unless a running search was dropped or one *)
(* came too late (astray): OnSearchFieldChange (search.js:183-245) misses  *)
(* no change that matters though it compares without spaces what Search    *)
(* (search.js:334-396) has only stripped, and the filter window and the    *)
(* frame leave no stale page behind.  For a label that nobody types.       *)
(***************************************************************************)
THEOREM SearchResultsMatchField == Label \notin Typed => (Spec => []ResultsMatchField)
<1> SUFFICES ASSUME Label \notin Typed PROVE Spec => []ResultsMatchField
  OBVIOUS
<1>1. IInv /\ MatchIInv /\ [Next]_vars => MatchIInv'
  BY NextMatchIInv
<1>2. Spec => []MatchIInv
  BY <1>1, InitMatchIInv, SearchIInv, PTL DEF Spec
<1> QED
  BY <1>2, MatchedResults, SearchIInv, PTL
=============================================================================
