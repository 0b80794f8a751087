------------------------------ MODULE NavTree ------------------------------
(***************************************************************************)
(* The navigation panel of the generated documentation                     *)
(* (doc/html/navtree.js): a tree of links whose branches are scripts that  *)
(* are loaded when they are first opened, and whose selected item follows  *)
(* the location of the browser, or a link kept in localStorage.            *)
(*                                                                         *)
(* A step is one event handler, timer or onload callback of the page.      *)
(* A node is the path of its indices from the top (<<>>, the list NAVTREE);*)
(* a URL is a pair of a page and a hash.                                   *)
(***************************************************************************)
EXTENDS Integers, Sequences, FiniteSets, SequencesExt

CONSTANTS
  Nodes,         \* the nodes of the whole tree, the top included
  Scripted,      \* those whose children come with a script of their own
  Link,          \* Link[n]: the URL n leads to, or NoLink
  Breadcrumbs,   \* the path below NAVTREE[0] of every URL in the index
  Namesakes,     \* Namesakes[p]: the pages whose names end with that of p
  SubIndexOf(_), \* the index file that would list a URL; -1 before the first
  URL,           \* the locations the browser may be at
  LineHashes,    \* those that name a line of a source file (#l12)
  IndexPages,    \* the pages index, pages and search
  NoHash, NoLink,
  MAX_EVENTS,    \* bound: hashchange events and scrolls waiting when the user acts
  MAX_PENDING,   \* bound: scripts asked for at once when the user acts
  MAX_SLIDES,    \* bound: slides that run or wait when the user clicks on a toggle
  Toggled        \* bound: the nodes whose toggles the user clicks on

Pages == {u[1] : u \in URL}
Hashes == {u[2] : u \in URL}

ASSUME TreeAssumption ==
  /\ Nodes \subseteq Seq(Int)
  /\ {<<>>, <<0>>} \subseteq Nodes
  /\ \A n \in Nodes \ {<<>>} : Front(n) \in Nodes
  /\ Scripted \subseteq Nodes \ {<<>>}
  /\ Link \in [Nodes -> URL \cup {NoLink}]
ASSUME IndexAssumption ==
  /\ DOMAIN Breadcrumbs \subseteq URL
  /\ \A u \in DOMAIN Breadcrumbs : Breadcrumbs[u] \in Seq(Int)
  /\ \A u \in DOMAIN Breadcrumbs : <<0>> \o Breadcrumbs[u] \in Nodes
  /\ \A u \in URL : SubIndexOf(u) \in Int
ASSUME LocationAssumption ==
  /\ URL \subseteq Pages \X Hashes
  /\ NoHash \in Hashes
  /\ \A u \in URL : <<u[1], NoHash>> \in URL
  /\ LineHashes \subseteq Hashes \ {NoHash}
  /\ IndexPages \subseteq Pages
  /\ NoLink \notin Hashes /\ NoLink \notin Pages \X Hashes
  /\ MAX_EVENTS \in Nat
  /\ MAX_PENDING \in Nat
  /\ MAX_SLIDES \in Nat

\* An item of a hash stands where the index says that its URL is, or is a double of
\* the one that does, and nothing else is said to be there.
Hashed(n) == Link[n] # NoLink /\ Link[n][2] # NoHash
ASSUME AnchorsAssumption ==
  /\ Namesakes \in [Pages -> SUBSET Pages]
  /\ \A p \in Pages : p \in Namesakes[p]
  /\ Link[<<0>>] # NoLink /\ ~Hashed(<<0>>)
  /\ \A n \in Nodes : Hashed(n) =>
       /\ Link[n][2] \notin LineHashes
       /\ Link[n] \in DOMAIN Breadcrumbs
       /\ Link[<<0>> \o Breadcrumbs[Link[n]]] = Link[n]
  /\ \A u \in DOMAIN Breadcrumbs :
       Hashed(<<0>> \o Breadcrumbs[u]) => Link[<<0>> \o Breadcrumbs[u]] = u

VARIABLES
  page, hash,  \* the location
  navpath,     \* the link in localStorage, or NoLink; it outlives the page
  sync,        \* the panel follows the location: #nav-sync has class sync
  ready,       \* the load event of the window has been handled
  tree,        \* what the page has of the tree, see NewTree
  pending,     \* the callbacks of scripts that are being loaded, a bag
  events,      \* hashchange events that wait to be handled
  animation,   \* the scroll animations of #doc-content: the hash to set after, or NoLink
  animationInProgress,
  retrying,    \* showRoot has a timer to try again
  disturbed,   \* history: something was done in this page that Synced excludes
  lag          \* history: the link the panel was on when the button of the
               \* synchronisation was pressed, and still is, or NoLink

vars == <<page, hash, navpath, sync, ready, tree, pending, events, animation,
          animationInProgress, retrying, disturbed, lag>>

-----------------------------------------------------------------------------
(***************************************************************************)
(* The tree as the page has it.                                            *)
(***************************************************************************)
Children(n) == {m \in Nodes : Len(m) = Len(n) + 1 /\ IsPrefix(n, m)}
HasData(n) == n \in Scripted \/ Children(n) # {}

NewTree == [
  loaded |-> {},                    \* nodes whose script has come
  visited |-> {},                   \* childrenVisited
  made |-> [n \in Nodes |-> 0],     \* how many list items the page has for n
  expanded |-> {},                  \* expanded
  shown |-> {<<>>},                 \* childrenUL is not display:none
  slides |-> [n \in Nodes |-> <<>>],  \* the slides of childrenUL: one runs, more wait
  selected |-> {},                  \* items of class selected
  indexes |-> {},                   \* navTreeSubIndices
  breadcrumbs |-> <<>>]             \* o.breadcrumbs

Waits(t, n) == n \in Scripted \ t.loaded
Made(t) == {n \in Nodes : t.made[n] > 0}
Visible(t, n) == n \in Made(t) /\ \A a \in Nodes : IsStrictPrefix(a, n) => a \in t.shown
Displayed(t, n) == \A a \in Nodes : IsPrefix(a, n) => a \in t.shown

\* newNode: one more item for each child of the nodes of S.
NewItems(made, S) ==
  [m \in Nodes |-> IF \E n \in S : m \in Children(n) THEN made[m] + 1 ELSE made[m]]

\* getNode, for the nodes of S that need it.
\* Slip: childrenVisited is not looked at.
GetNodesAgain(t, S) == [t EXCEPT !.visited = @ \cup S, !.made = NewItems(@, S)]
GetNodes(t, S) == [t EXCEPT !.visited = @ \cup S, !.made = NewItems(@, S \ t.visited)]

\* The nodes of S, whose data are there, are opened.
\* Slips: node.expanded is not set; the list is left hidden.
OpenUnflagged(t, S) == [GetNodes(t, S) EXCEPT !.shown = @ \cup S]
OpenHidden(t, S) == [GetNodes(t, S) EXCEPT !.expanded = @ \cup S]
Open(t, S) ==
  [GetNodes(t, S) EXCEPT !.expanded = @ \cup S, !.shown = @ \cup S]

\* jQuery goes on with the slides q of the list of n.  One that finds nothing to do,
\* the list being hidden already or displayed already, is over at once.
Goes(t, n, q) ==
  LET way == IF Displayed(t, n) THEN "up" ELSE "down"
      due == {j \in DOMAIN q : q[j] = way}
  IN  IF due = {} THEN [t EXCEPT !.slides[n] = <<>>]
      ELSE [t EXCEPT !.slides[n] = SubSeq(q, Min(due), Len(q)), !.shown = @ \cup {n}]

\* slideUp("fast"), slideDown("fast"): after those of this list that have not ended.
Slide(t, n, way) ==
  IF t.slides[n] = <<>> THEN Goes(t, n, <<way>>)
  ELSE [t EXCEPT !.slides[n] = Append(@, way)]

-----------------------------------------------------------------------------
(***************************************************************************)
(* Callbacks: what getScript will call, with the values it has captured.   *)
(* o.breadcrumbs is not one of them: it is read when the script has come.  *)
(***************************************************************************)
GotoCB(u) == [kind |-> "goto", url |-> u]
ShowCB(n, i, h) == [kind |-> "show", node |-> n, index |-> i, hash |-> h]
RetryCB(child, n, i, h) ==
  [kind |-> "retry", child |-> child, node |-> n, index |-> i, hash |-> h]
ExpandCB(n) == [kind |-> "expand", node |-> n]

\* A step's outcome: the tree, the scripts asked for, whether highlightAnchor has
\* started to scroll, and whether showRoot has looked for a selected item.
Outcome(t, scripts, scroll, showRoot) ==
  [tree |-> t, scripts |-> scripts, scroll |-> scroll, showRoot |-> showRoot]
Asks(t, scripts) == Outcome(t, scripts, FALSE, FALSE)

\* $('.item a[class$="page:hash"]'): the items of a hash, in this page or in one whose
\* name ends with that of this page.
Anchors(t, h) == {m \in Made(t) : h # NoHash /\ Link[m] \in Namesakes[page] \X {h}}

\* selectAndHighlight: the items of the hash, else the nodes of N.  highlightAnchor
\* scrolls to the anchor of the location, which lines have not.
SelectAndHighlight(t, h, N) ==
  LET a == Anchors(t, h)
  IN  IF a # {}
      THEN Outcome([t EXCEPT !.selected = @ \cup a], {},
                   hash \notin LineHashes \cup {NoHash}, TRUE)
      ELSE Outcome([t EXCEPT !.selected = @ \cup N], {}, FALSE, TRUE)

(***************************************************************************)
(* showNode: open the nodes from node down the path that the breadcrumbs   *)
(* give from index on, until the last one is selected or a script must     *)
(* come first.  An index that is not there leads to undefined: the data of *)
(* an undefined child are a TypeError, which ends the callback.            *)
(***************************************************************************)
ShowNode(t, node, index, h) ==
  LET bc == t.breadcrumbs
      path == node \o IF index < Len(bc) THEN SubSeq(bc, index + 1, Len(bc)) ELSE <<-1>>
      At(k) == SubSeq(path, 1, k)
      Loaded(n) == HasData(n) /\ ~Waits(t, n)
      last == Len(path) - 1
      top == CHOOSE k \in Len(node)..last :
               /\ \A j \in Len(node)..(k - 1) : Loaded(At(j)) /\ At(j + 1) \in Nodes
               /\ k = last \/ ~Loaded(At(k)) \/ At(k + 1) \notin Nodes
      i == index + top - Len(node)
      opened == Open(t, {n \in {At(j) : j \in Len(node)..top} : Loaded(n)})
      target == IF page \in IndexPages /\ HasData(path) /\ path \notin opened.expanded
                THEN Open(opened, {path}) ELSE opened
  IN  CASE Waits(t, At(top)) -> Asks(opened, {ShowCB(At(top), i, h)})
        [] ~HasData(At(top)) \/ (Loaded(At(top)) /\ top < last) ->
             SelectAndHighlight(opened, h, {})
        [] Loaded(At(top)) /\ top = last /\ path \notin Nodes ->
             Asks(opened, {})
        [] Loaded(At(top)) /\ top = last /\ Waits(t, path) ->
             Asks(opened, {RetryCB(path, At(top), i, h)})
        [] OTHER -> SelectAndHighlight(target, h, {path})

\* expandNode, with imm = false.
ExpandNode(t, n) ==
  IF n \in t.expanded THEN Asks(t, {})
  ELSE IF Waits(t, n) THEN Asks(t, {ExpandCB(n)})
  ELSE Asks(Slide([GetNodes(t, {n}) EXCEPT !.expanded = @ \cup {n}], n, "down"), {})

\* The click on the toggle of an open branch.
Collapse(t, n) == Asks(Slide([t EXCEPT !.expanded = @ \ {n}], n, "up"), {})

\* What the index file that lists u has for it: its path, or else the page's.
Lookup(u) ==
  LET listed == {v \in DOMAIN Breadcrumbs : SubIndexOf(v) = SubIndexOf(u)}
      p == <<u[1], NoHash>>
  IN  IF u \in listed THEN Breadcrumbs[u]
      ELSE IF p \in listed THEN Breadcrumbs[p]
      ELSE <<>>

\* gotoNode.  $.extend makes [] of a missing entry, so the fallback is the root.
ItemOf(u) == <<0>> \o Lookup(u)
GotoNode(t, u) == ShowNode([t EXCEPT !.breadcrumbs = ItemOf(u)], <<>>, 0, u[2])

\* The link in localStorage, which is '' (NoLink) when there is none.
cachedLink == navpath
deleteLink == NoLink

\* navTo: the stored link goes before the location.
\* Slip: the location goes first.
Stripped(u) == IF u[2] \in LineHashes THEN <<u[1], NoHash>> ELSE u
Listed(u) == IF SubIndexOf(u) = -1 THEN <<Link[<<0>>][1], u[2]>> ELSE u
NavTargetUnlinked(u) == Listed(Stripped(u))
NavTarget(u) == Listed(Stripped(IF cachedLink # NoLink THEN cachedLink ELSE u))
NavTo(t, u) ==
  LET v == NavTarget(u)
  IN  IF SubIndexOf(v) \in t.indexes THEN GotoNode(t, v)
      ELSE Asks(t, {GotoCB(v)})

\* A callback runs: the data of its script are there now.
Run(t, c) ==
  CASE c.kind = "goto" ->
         GotoNode([t EXCEPT !.indexes = @ \cup {SubIndexOf(c.url)}], c.url)
    [] c.kind = "show" ->
         ShowNode([t EXCEPT !.loaded = @ \cup {c.node}], c.node, c.index, c.hash)
    [] c.kind = "retry" ->
         ShowNode([t EXCEPT !.loaded = @ \cup {c.child}, !.expanded = @ \ {c.node}],
                  c.node, c.index, c.hash)
    [] c.kind = "expand" ->
         ExpandNode([t EXCEPT !.loaded = @ \cup {c.node}], c.node)

-----------------------------------------------------------------------------
(***************************************************************************)
(* Events.                                                                 *)
(***************************************************************************)
Location == <<page, hash>>

\* A navigation is on its way: a callback that will select, or a scroll.
NavCB == {c \in BagToSet(pending) : c.kind # "expand"}
Busy == NavCB # {} \/ animation # <<>>

\* A handler ends with this outcome, its scripts added to those of bag.
Ends(o, bag) ==
  /\ tree' = o.tree
  /\ pending' = bag (+) SetToBag(o.scripts)
  /\ animation' = IF o.scroll THEN Append(animation, NoLink) ELSE animation
  /\ animationInProgress' = (animationInProgress \/ o.scroll)
  /\ retrying' = (retrying \/ (o.showRoot /\ o.tree.selected = {}))

\* initNavTree, with what localStorage has.
Init ==
  /\ \E u \in URL : page = u[1] /\ hash = u[2]
  /\ navpath \in {Link[n] : n \in Nodes} \cup {NoLink}
  /\ sync = (navpath = NoLink)
  /\ ready = FALSE
  /\ tree = NewTree
  /\ pending = EmptyBag
  /\ events = 0
  /\ animation = <<>>
  /\ animationInProgress = FALSE
  /\ retrying = FALSE
  /\ disturbed = FALSE
  /\ lag = NoLink

\* The browser goes to another page, and initNavTree runs there.
LoadPage(u, link) ==
  /\ page' = u[1]
  /\ hash' = u[2]
  /\ navpath' = link
  /\ sync' = (link = NoLink)
  /\ ready' = FALSE
  /\ tree' = NewTree
  /\ pending' = EmptyBag
  /\ events' = 0
  /\ animation' = <<>>
  /\ animationInProgress' = FALSE
  /\ retrying' = FALSE
  /\ disturbed' = FALSE
  /\ lag' = NoLink

\* The load event: navTo(toroot, hash), then showRoot.
WindowLoad ==
  /\ ~ready
  /\ ready' = TRUE
  /\ Ends([NavTo(tree, Location) EXCEPT !.showRoot = TRUE], pending)
  /\ disturbed' = (disturbed \/ Busy)
  /\ lag' = NoLink
  /\ UNCHANGED <<page, hash, navpath, sync, events>>

Deselected(t) == [t EXCEPT !.selected = {}]

\* The hashchange handler.  If an item of the hash is selected, all that are stay so:
\* where the panel was left behind, next to the item of the stored link.
\* Slip: what was selected stays so as well.
HashChangeKeeping ==
  /\ events > 0
  /\ events' = events - 1
  /\ Ends(NavTo(tree, Location), pending)
  /\ disturbed' = (disturbed \/ Busy \/ ~ready)
  /\ lag' = NoLink
  /\ UNCHANGED <<page, hash, navpath, sync, ready>>
\* Slip: the items are deselected though the handler will then do nothing.
HashChangeDeselecting ==
  /\ events > 0
  /\ events' = events - 1
  /\ IF hash # NoHash \/ ~animationInProgress
     THEN Ends(NavTo(Deselected(tree), Location), pending)
     ELSE Ends(Asks(Deselected(tree), {}), pending)
  /\ disturbed' = (disturbed \/ Busy \/ ~ready)
  /\ lag' = NoLink
  /\ UNCHANGED <<page, hash, navpath, sync, ready>>
HashChange ==
  LET kept == Anchors(tree, hash) \cap tree.selected # {}
  IN  /\ events > 0
      /\ events' = events - 1
      /\ IF hash # NoHash \/ ~animationInProgress
         THEN Ends(NavTo(IF kept THEN tree ELSE Deselected(tree), Location), pending)
         ELSE UNCHANGED <<tree, pending, animation, animationInProgress, retrying>>
      /\ disturbed' = (disturbed \/ Busy \/ ~ready \/ (kept /\ ~sync /\ lag # NoLink))
      /\ lag' = NoLink
      /\ UNCHANGED <<page, hash, navpath, sync, ready>>

\* A script has come, and its callback runs.
ScriptArrives(c) ==
  /\ BagIn(c, pending)
  /\ Ends(Run(tree, c), pending (-) SetToBag({c}))
  /\ UNCHANGED <<page, hash, navpath, sync, ready, events, disturbed, lag>>

\* The location gets the hash h, by a link of the page or by the history.
SetHash(h) ==
  /\ hash' = h
  /\ events' = IF h = hash THEN events ELSE events + 1

\* A scroll ends.  One that a click has started sets the location.
AnimationEnds ==
  /\ animation # <<>>
  /\ animation' = Tail(animation)
  /\ animationInProgress' = FALSE
  /\ IF Head(animation) = NoLink THEN UNCHANGED <<hash, events>>
     ELSE SetHash(Head(animation))
  /\ UNCHANGED <<page, navpath, sync, ready, tree, pending, retrying, disturbed, lag>>

\* A slide of the list of n ends: slideUp hides it now, whatever was done to it since.
SlideEnds(n) ==
  /\ tree.slides[n] # <<>>
  /\ tree' = Goes([tree EXCEPT !.shown = IF Head(tree.slides[n]) = "up" THEN @ \ {n} ELSE @],
                  n, Tail(tree.slides[n]))
  /\ UNCHANGED <<page, hash, navpath, sync, ready, pending, events, animation,
                 animationInProgress, retrying, disturbed, lag>>

\* showRoot's timer: it stops when it finds a selected item, else it tries again.
Retry ==
  /\ retrying
  /\ tree.selected # {}
  /\ retrying' = FALSE
  /\ UNCHANGED <<page, hash, navpath, sync, ready, tree, pending, events, animation,
                 animationInProgress, disturbed, lag>>

-----------------------------------------------------------------------------
(***************************************************************************)
(* The user.                                                               *)
(***************************************************************************)
\* The scrolls that will set the location.
Clicked(a) == {i \in DOMAIN a : a[i] # NoLink}
Room ==
  /\ events + Cardinality(Clicked(animation)) < MAX_EVENTS
  /\ Len(animation) <= MAX_EVENTS
  /\ BagCardinality(pending) < MAX_PENDING

ChangeHash(h) ==
  /\ Room
  /\ h # hash
  /\ <<page, h>> \in URL
  /\ SetHash(h)
  /\ UNCHANGED <<page, navpath, sync, ready, tree, pending, animation,
                 animationInProgress, retrying, disturbed, lag>>

\* A link outside the panel leads to another page.
FollowLink(u) ==
  /\ u[1] # page
  /\ LoadPage(u, navpath)

\* Slip: the link is stored while the panel is in sync as well.
storeLinkAlways(u) == u
storeLink(u) == IF sync THEN navpath ELSE u

\* An item of this page: select it and scroll to it.
ClickAnchor(n) ==
  /\ Room
  /\ Link[n] # NoLink
  /\ Link[n][1] = page
  /\ Link[n][2] # NoHash
  /\ Visible(tree, n)
  /\ navpath' = storeLink(Link[n])
  /\ tree' = [tree EXCEPT !.selected = IF n \in @ THEN @ ELSE {n}]
  /\ animation' = Append(animation, Link[n][2])
  /\ animationInProgress' = TRUE
  /\ disturbed' = (disturbed \/ Busy \/ events > 0)
  /\ lag' = NoLink
  /\ UNCHANGED <<page, hash, sync, ready, pending, events, retrying>>

\* Any other item leads to its page.
ClickPage(n) ==
  /\ Link[n] # NoLink
  /\ Link[n][1] # page \/ Link[n][2] = NoHash
  /\ Visible(tree, n)
  /\ LoadPage(Link[n], storeLink(Link[n]))

\* The toggle of a branch.
Slides(t) == UNION {{n} \X DOMAIN t.slides[n] : n \in Nodes}
Toggle(n) ==
  /\ Room
  /\ n \in Toggled
  /\ Cardinality(Slides(tree)) < MAX_SLIDES
  /\ HasData(n)
  /\ Visible(tree, n)
  /\ Ends(IF n \in tree.expanded THEN Collapse(tree, n) ELSE ExpandNode(tree, n), pending)
  /\ disturbed' = (disturbed \/ Busy)
  /\ lag' = IF disturbed' THEN NoLink ELSE lag
  /\ UNCHANGED <<page, hash, navpath, sync, ready, events>>

\* Where the panel has to be: the location, or the stored link while synchronisation
\* is off; or else where the button of the synchronisation has left it.
Goal == IF lag # NoLink THEN lag ELSE NavTarget(Location)

\* toggleSyncButton, which does not call navTo.
ToggleSync ==
  /\ sync' = ~sync
  /\ navpath' = IF sync THEN Location ELSE deleteLink
  /\ disturbed' = (disturbed \/ Busy \/ events > 0)
  /\ lag' = IF ready /\ ~disturbed' /\ Listed(Stripped(Location)) # Goal THEN Goal ELSE NoLink
  /\ UNCHANGED <<page, hash, ready, tree, pending, events, animation,
                 animationInProgress, retrying>>

User ==
  \/ \E h \in Hashes : ChangeHash(h)
  \/ \E u \in URL : FollowLink(u)
  \/ \E n \in Nodes : ClickAnchor(n) \/ ClickPage(n) \/ Toggle(n)
  \/ ToggleSync

Next ==
  \/ WindowLoad \/ HashChange \/ AnimationEnds \/ Retry
  \/ \E c \in BagToSet(pending) : ScriptArrives(c)
  \/ \E n \in Nodes : SlideEnds(n)
  \/ User

Spec == Init /\ [][Next]_vars

-----------------------------------------------------------------------------
\* The types of the page's variables.
TypeOK ==
  /\ Location \in URL
  /\ navpath \in URL \cup {NoLink}
  /\ sync = (navpath = NoLink)
  /\ ready \in BOOLEAN
  /\ tree.loaded \subseteq Scripted
  /\ tree.visited \cup tree.expanded \cup tree.shown \cup tree.selected \subseteq Nodes
  /\ tree.made \in [Nodes -> Nat]
  /\ events \in 0..MAX_EVENTS
  /\ animation \in Seq(Hashes \cup {NoLink})
  /\ animationInProgress \in BOOLEAN
  /\ retrying \in BOOLEAN
  /\ disturbed \in BOOLEAN
  /\ lag \in {Listed(Stripped(u)) : u \in URL} \cup {NoLink}

\* The items that selectAndHighlight may take for those of the hash h: it looks at
\* the hash and at the end of the name of the page that is displayed.
Carriers(h) == {n \in Nodes : h # NoHash /\ Link[n] \in Namesakes[page] \X {h}}
Confused == \E n \in Carriers(Goal[2]) : Link[n] # Goal

\* What is selected is the item that the index has for u, or items of its hash.
Shows(t, u) ==
  /\ t.selected # {}
  /\ t.selected = {ItemOf(u)} \/ t.selected \subseteq Carriers(u[2])

(***************************************************************************)
(* The panel shows where the reader is: when nothing is on its way, what   *)
(* is selected is the item of the goal, or items that are taken for it.    *)
(* It supposes of this page that:                                          *)
(*  - nothing was done in it while a navigation or a scroll was under way: *)
(*    no load or hashchange handler, click on an item, toggle of a branch  *)
(*    or press of the synchronisation button, and no such click or press   *)
(*    while a hashchange event waited;                                     *)
(*  - no hashchange event was handled before the load event;               *)
(*  - where that button had left the panel behind with synchronisation     *)
(*    off, no hashchange event came for the hash of what was selected: the *)
(*    handler then keeps it selected (navtree.js:533-536), and selects the *)
(*    item of the stored link too.                                         *)
(* The button alone moves nothing (navtree.js:482-486): the panel stays    *)
(* where it was until the next navigation, though it says that it is       *)
(* synchronised (SYNCONMSG, navtree.js:33-34), and the goal stays too.     *)
(***************************************************************************)
Synced == ready /\ events = 0 /\ ~Busy /\ ~disturbed => Shows(tree, Goal)

(***************************************************************************)
(* However the scripts come, a node's children are put on the page once    *)
(* (getNode, navtree.js:406-417), though two callbacks may bring them.     *)
(***************************************************************************)
EachItemOnce ==
  \A n \in Nodes : tree.made[n] = IF n # <<>> /\ Front(n) \in tree.visited THEN 1 ELSE 0

(***************************************************************************)
(* The flag of a node says whether its children are displayed, or will be  *)
(* at the end of the slides of their list, so that a click on the toggle   *)
(* does the opposite of what the reader sees.  Once so, it stays so, and   *)
(* a change of the flag makes it so again: but for a list whose last slide *)
(* was a slideUp, as only a slide closes what showNode has opened in the   *)
(* meantime (navtree.js:126-128 and 361-367), or does not close what the   *)
(* slide of a list above it has hidden.                                    *)
(***************************************************************************)
AsFlagged(t, n) ==
  n \in t.expanded <=>
    IF t.slides[n] = <<>> THEN n \in t.shown ELSE Last(t.slides[n]) = "down"
UpDue(t, n) == t.slides[n] # <<>> /\ Last(t.slides[n]) = "up"
FlagsKept(t, u) ==
  \A n \in Nodes \ {<<>>} : ~AsFlagged(u, n) =>
    \/ UpDue(t, n)
    \/ ~AsFlagged(t, n) /\ (n \in t.expanded <=> n \in u.expanded)
FlagsMatchPage == [][FlagsKept(tree, tree')]_vars

\* What a step may select, if no navigation is disturbed and no hash confused.  The
\* flag of a list above it may have been wrong before.
Sighted ==
  \A n \in tree'.selected \ tree.selected :
    events' = 0 /\ ~disturbed' /\ ~Confused' =>
      \E m \in tree'.selected :
        /\ m \in Made(tree') /\ (m = n \/ (Hashed(n) /\ Link[m] = Link[n]))
        /\ \A a \in Nodes : IsStrictPrefix(a, m) =>
             a \in tree'.shown \cup (tree.expanded \ tree.shown)

(***************************************************************************)
(* An item that gets selected is one the reader can see, or a double of    *)
(* one that is selected and that the reader can see: in a page where       *)
(* Synced promises something, that has no other item of the goal's hash.   *)
(***************************************************************************)
SelectedInSight == [][Sighted]_vars

(***************************************************************************)
(* showRoot's timer "retries until we can scroll to the selected item"     *)
(* (navtree.js:260).  It does not fire for ever: when nothing is on its    *)
(* way that could select an item there is one, though navigations share    *)
(* o.breadcrumbs and a callback may find those of a later one there, where *)
(* its own child is undefined (a TypeError, which ends it).                *)
(***************************************************************************)
RetryEnds == ready /\ events = 0 /\ ~Busy /\ retrying => tree.selected # {}

-----------------------------------------------------------------------------
(***************************************************************************)
(* The inductive invariant of TypeOK, EachItemOnce and RetryEnds, from     *)
(* which FlagsMatchPage follows as well (NavTreeProofs).                   *)
(***************************************************************************)
Targets == {Listed(Stripped(u)) : u \in URL}
Trees == [
  loaded : SUBSET Scripted, visited : SUBSET Nodes, made : [Nodes -> Nat],
  expanded : SUBSET Nodes, shown : SUBSET Nodes,
  slides : [Nodes -> Seq({"up", "down"})], selected : SUBSET Nodes,
  indexes : SUBSET {SubIndexOf(v) : v \in Targets}, breadcrumbs : Nodes]

ItemsOnce(t) ==
  \A n \in Nodes : t.made[n] = IF n # <<>> /\ Front(n) \in t.visited THEN 1 ELSE 0

\* A list that was opened has its items, and a slide hides its list at its end only.
FlagsOK(t) ==
  /\ t.expanded \subseteq t.visited
  /\ \A n \in Nodes : t.slides[n] # <<>> => n \in t.shown

\* The data of n are there.
HasChildrenHere(t, n) == HasData(n) /\ ~Waits(t, n)

\* A callback that waits for a script.  The node of a retry has its children, so
\* that showNode opens it again.
CallbackOK(t, c) ==
  \/ c.kind = "goto" /\ c.url \in Targets
  \/ c.kind = "show" /\ c.node \in Scripted /\ c.index \in Nat
  \/ /\ c.kind = "retry" /\ c.node \in Nodes /\ c.index \in Nat
     /\ c.child \in Scripted
     /\ HasChildrenHere(t, c.node)
  \/ c.kind = "expand" /\ c.node \in Scripted

\* A callback that is on the path the breadcrumbs give now: it will select an item,
\* or leave another such callback.
Leads(t, c) ==
  \/ c.kind = "goto"
  \/ /\ c.kind \in {"show", "retry"}
     /\ c.index < Len(t.breadcrumbs)
     /\ c.node = SubSeq(t.breadcrumbs, 1, c.index)

IInv ==
  /\ Location \in URL
  /\ navpath \in URL \cup {NoLink}
  /\ sync = (navpath = NoLink)
  /\ {ready, animationInProgress, retrying, disturbed} \subseteq BOOLEAN
  /\ tree \in Trees /\ ItemsOnce(tree) /\ FlagsOK(tree)
  /\ IsABag(pending)
  /\ \A c \in BagToSet(pending) : CallbackOK(tree, c)
  /\ lag \in Targets \cup {NoLink} /\ (lag # NoLink => ready)
  /\ events \in Nat
  /\ animation \in Seq(Hashes \cup {NoLink})
  /\ \A i \in Clicked(animation) : <<page, animation[i]>> \in URL
  /\ events + Cardinality(Clicked(animation)) <= MAX_EVENTS
  /\ ready => \/ tree.selected # {}
              \/ \E c \in BagToSet(pending) : Leads(tree, c)

-----------------------------------------------------------------------------
(***************************************************************************)
(* The inductive invariant of Synced and SelectedInSight, with IInv: it    *)
(* promises something as long as no navigation has been overtaken.         *)
(***************************************************************************)
\* Where the navigation that began last was going: the goal, unless the location
\* has changed since and its event waits.
Aims == {Goal} \cup
  IF sync /\ events > 0 THEN {Listed(Stripped(<<page, h>>)) : h \in Hashes} ELSE {}

\* The callback of a navigation to u: down to its node the path to u is open.
OnTheWay(t, c, u) ==
  \/ c = GotoCB(u)
  \/ /\ c.kind \in {"show", "retry"}
     /\ c.hash = u[2]
     /\ t.breadcrumbs = ItemOf(u)
     /\ Leads(t, c)
     /\ \A k \in 0..(c.index - 1) : SubSeq(t.breadcrumbs, 1, k) \in t.expanded

Follows(u) ==
  \/ /\ NavCB = {}
     /\ animation \in {<<>>, <<NoLink>>}
     /\ Shows(tree, u)
  \/ \E c \in NavCB :
       /\ NavCB = {c} /\ pending[c] = 1
       /\ animation = <<>>
       /\ tree.selected \subseteq Carriers(u[2])
       /\ OnTheWay(tree, c, u)

\* A click on an anchor scrolls: its end sets the location.
Scrolls(h) ==
  /\ NavCB = {}
  /\ animation = <<h>>
  /\ lag = NoLink
  /\ h \in Hashes \ (LineHashes \cup {NoHash})
  /\ tree.selected # {} /\ tree.selected \subseteq Carriers(h)
  /\ sync \/ Goal[2] = h

SyncIInv ==
  /\ animationInProgress => animation # <<>>
  /\ ~disturbed =>
       /\ tree.selected \subseteq Made(tree)
       /\ ~ready => tree = NewTree /\ pending = EmptyBag /\ animation = <<>>
       /\ ready => (\E u \in Aims : Follows(u)) \/ (\E h \in Hashes : Scrolls(h))
=============================================================================
