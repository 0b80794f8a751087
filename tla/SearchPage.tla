----------------------------- MODULE SearchPage -----------------------------
(***************************************************************************)
(* The search of the generated documentation (doc/html/search/search.js):  *)
(* a SearchBox in the page and a SearchResults in the frame MSearchResults *)
(* of the results.  They share the keyboard: a key that goes down in one   *)
(* may come up in the other.                                               *)
(*                                                                         *)
(* A step is one event of the browser with the handlers it calls, those of *)
(* the focus events that a handler causes included.  A text is a sequence  *)
(* of characters; the rows of a results page are counted from 0.  Where    *)
(* the windows are placed is left out.                                     *)
(***************************************************************************)
EXTENDS Integers, Sequences, FiniteSets, SequencesExt

CONSTANTS
  Chars,         \* the characters the user types, Space among them
  Space,
  Label,         \* the text of the field that nobody uses ("Search")
  Lower,         \* Lower[c]: the lower case of c
  Sections,      \* indexSectionsWithContent: the characters of each filter
  Rows,          \* searchData: the rows of the page of a filter and a character
  Keys,          \* the characters, and these:
  Down, Up, Left, Right, Enter, ShiftEnter, Escape, Backspace,
  NoKey, NoPage,
  MAX_LEN,       \* bound: characters in the field
  MAX_FORGOTTEN  \* bound: timers that keyTimeout has forgotten when a key is pressed

Filters == 0..(Len(Sections) - 1)
FirstPage(i) == <<i, Head(Sections[i + 1])>>
Commands == {Down, Up, Left, Right, Enter, ShiftEnter, Escape, Backspace}

ASSUME KeysAssumption ==
  /\ Space \in Chars
  /\ Keys \subseteq Chars \cup Commands
  /\ NoKey \notin Chars \cup Commands
  /\ Commands \cap Chars = {}
  /\ IsInjective(<<Down, Up, Left, Right, Enter, ShiftEnter, Escape, Backspace>>)
ASSUME TextAssumption ==
  /\ Chars \subseteq DOMAIN Lower
  /\ Label \in Seq(DOMAIN Lower) \ {<<>>}
  /\ Head(Label) # Space
  /\ MAX_LEN \in Nat
  /\ MAX_FORGOTTEN \in Nat
ASSUME PagesAssumption ==
  /\ Sections \in Seq(Seq(Range(Lower)) \ {<<>>}) \ {<<>>}
  /\ DOMAIN Rows = UNION {{<<i, c>> : c \in Range(Sections[i + 1])} : i \in Filters}
  /\ NoPage \notin DOMAIN Rows
  /\ NoPage \notin [page : DOMAIN Rows \cup {NoPage}, query : Seq(DOMAIN Lower)]
  /\ \A p \in DOMAIN Rows :
       Rows[p] \in Seq([name : Seq(Range(Lower)), children : Nat])

\* The pages are sorted: the rows whose names begin alike stand together.  NavUp
\* relies on it (search.js:626-644), see LastChild.
ASSUME RowsAssumption ==
  \A p \in DOMAIN Rows : \A i, j, k \in DOMAIN Rows[p] :
    i < j /\ j < k =>
      \A s \in Prefixes(Rows[p][i].name) :
        IsPrefix(s, Rows[p][k].name) => IsPrefix(s, Rows[p][j].name)

VARIABLES
  panel,    \* the SearchBox and what it displays, see NewPanel
  results,  \* the SearchResults in the frame and its page, see LoadedResults
  mouse,    \* the mouse is over the filter icon or its window
  held,     \* the key that is down, or NoKey
  typed,    \* it has sent its first keypress event
  astray    \* history: a search was dropped, or one has run that nobody wants

vars == <<panel, results, mouse, held, typed, astray>>

-----------------------------------------------------------------------------
\* What has the keyboard.
Nothing == <<"nothing">>
Field == <<"field">>
Filter == <<"filter">>
Item(e) == <<"item", e>>
Child(e, c) == <<"child", e, c>>
InFrame(f) == f[1] \in {"item", "child"}

\* new SearchBox; what the page calls when it is ready selects filter 0.
NewPanel == [
  value |-> Label,          \* the field
  active |-> FALSE,         \* class MSearchBoxActive
  searchActive |-> FALSE,
  shown |-> FALSE,          \* the results window and its close button
  selectShown |-> FALSE,    \* the filter window
  keyTimeout |-> FALSE,     \* keyTimeout is not 0
  timers |-> 0,             \* timers that will call Search
  hideTimer |-> FALSE,      \* a timer that will call CloseSelectionWindow
  searchIndex |-> 0,
  lastSearchValue |-> <<>>,
  focus |-> Nothing,
  next |-> NoPage]          \* the location the frame is loading

StripAll(v) ==
  LET kept[n \in 0..Len(v)] ==
        IF n = 0 THEN <<>>
        ELSE IF v[n] = Space THEN kept[n - 1] ELSE Append(kept[n - 1], v[n])
  IN  kept[Len(v)]
StripLeading(v) ==
  LET k == CHOOSE k \in 0..Len(v) :
             /\ \A j \in 1..k : v[j] = Space
             /\ k < Len(v) => v[k + 1] # Space
  IN  SubSeq(v, k + 1, Len(v))
Strip(v) == Reverse(StripLeading(Reverse(StripLeading(v))))

-----------------------------------------------------------------------------
(***************************************************************************)
(* The panel.                                                              *)
(***************************************************************************)
Activate(p, isActive) ==
  IF isActive \/ p.shown
  THEN [p EXCEPT !.active = TRUE,
                 !.value = IF @ = Label THEN <<>> ELSE @,
                 !.searchActive = @ \/ p.value = Label]
  ELSE [p EXCEPT !.active = FALSE, !.value = Label, !.searchActive = FALSE,
                 !.lastSearchValue = <<>>]

\* The focus moves to f: OnSearchFieldFocus, when the field gets or loses it.
Focus(p, f) ==
  LET q == [p EXCEPT !.focus = f]
  IN  IF f = p.focus THEN p
      ELSE IF p.focus = Field THEN Activate(q, FALSE)
      ELSE IF f = Field THEN Activate(q, TRUE)
      ELSE q

\* What is not displayed cannot have the focus.
Hide(p) == [p EXCEPT !.shown = FALSE, !.focus = IF InFrame(@) THEN Nothing ELSE @]
CloseSelectionWindow(p) ==
  [p EXCEPT !.selectShown = FALSE, !.focus = IF @ = Filter THEN Nothing ELSE @]
CloseResultsWindow(p) == Activate(Hide(p), FALSE)

\* Slip: the timer that hides the window stays.
OnSearchSelectShowOnly(p) == [p EXCEPT !.selectShown = TRUE]
OnSearchSelectShow(p) == [p EXCEPT !.selectShown = TRUE, !.hideTimer = FALSE]
OnSearchSelectHide(p) == [p EXCEPT !.hideTimer = TRUE]

\* The page of a filter for a text.  The empty text is found at place 0 of any
\* index, so that it gets the filter's first page, all of it.
Location(i, text) ==
  IF text = <<>> THEN [page |-> FirstPage(i), query |-> <<>>]
  ELSE IF <<i, Lower[Head(text)]>> \in DOMAIN Rows
  THEN [page |-> <<i, Lower[Head(text)]>>, query |-> text]
  ELSE [page |-> NoPage, query |-> <<>>]

\* Search.  searchIndex may be one past the filters, which is a TypeError.
Search(p) ==
  LET q == [p EXCEPT !.keyTimeout = FALSE]
      text == StripLeading(p.value)
  IN  IF p.searchIndex \notin Filters THEN q
      ELSE [q EXCEPT !.next = Location(p.searchIndex, text), !.shown = TRUE,
                     !.lastSearchValue = text]

\* OnSelectItem, and whether the search it starts fails.
\* Slip: a new filter does not search.
Searches(p) == StripAll(p.value) # <<>> /\ p.searchActive
OnSelectItemOnly(p, id) == [p EXCEPT !.searchIndex = id]
OnSelectItem(p, id) ==
  LET q == [p EXCEPT !.searchIndex = id] IN IF Searches(q) THEN Search(q) ELSE q
SelectFails(p, id) == Searches(p) /\ id \notin Filters

OnSearchSelectKey(p, k) ==
  CASE k = Down /\ p.searchIndex < Len(Sections) -> OnSelectItem(p, p.searchIndex + 1)
    [] k = Up /\ p.searchIndex > 0 -> OnSelectItem(p, p.searchIndex - 1)
    [] k \in {Enter, Escape} ->
         LET q == OnSelectItem(p, p.searchIndex)
         IN  IF SelectFails(p, p.searchIndex) THEN q
             ELSE Focus(CloseSelectionWindow(q), Field)
    [] OTHER -> p

\* OnSearchFieldChange, when k comes up in the field; first is NavNext(0).
FieldChanged(p) ==
  LET text == StripAll(p.value)
  IN  IF text = p.lastSearchValue THEN p
      ELSE IF text # <<>>
      THEN [p EXCEPT !.keyTimeout = TRUE, !.timers = @ + 1]
      ELSE [Hide(p) EXCEPT !.lastSearchValue = <<>>]
\* Slip: the running timer is forgotten, not killed.
ForgetTimer(p) == [p EXCEPT !.keyTimeout = FALSE]
KillTimer(p) ==
  IF p.keyTimeout THEN [p EXCEPT !.keyTimeout = FALSE, !.timers = @ - 1] ELSE p
OnSearchFieldChange(p, k, first) ==
  LET q == KillTimer(p)
  IN  CASE k = ShiftEnter -> Focus(OnSearchSelectShow(q), Filter)
        [] k = Escape ->
             Activate([Hide(Focus(q, Nothing)) EXCEPT !.lastSearchValue = <<>>], FALSE)
        [] k \in {Down, Enter} /\ p.shown /\ first # Nothing ->
             FieldChanged(Focus(q, first))
        [] OTHER -> FieldChanged(q)

-----------------------------------------------------------------------------
(***************************************************************************)
(* The results.                                                            *)
(***************************************************************************)
\* createResults, and Search with the text of the location: only its rows are
\* displayed, their children closed.
LoadedResults(location) == [
  page |-> location.page,
  query |-> location.query,
  open |-> {},         \* the rows whose children are displayed
  lastKey |-> NoKey,
  repeatOn |-> FALSE]

Items(r) == IF r.page = NoPage THEN {} ELSE 0..(Len(Rows[r.page]) - 1)
Row(r, e) == Rows[r.page][e + 1]
Shown(r, e) ==
  IsPrefix([j \in DOMAIN Strip(r.query) |-> Lower[Strip(r.query)[j]]], Row(r, e).name)

ItemAt(E, e) == IF e \in E THEN Item(e) ELSE Nothing
NavNext(r, i) ==
  LET E == {e \in Items(r) : e >= i /\ Shown(r, e)}
  IN  IF E = {} THEN Nothing ELSE Item(CHOOSE e \in E : \A d \in E : e <= d)
NavPrev(r, i) ==
  LET E == {e \in Items(r) : e <= i /\ Shown(r, e)}
  IN  IF i \notin Items(r) \/ E = {} THEN Nothing
      ELSE Item(CHOOSE e \in E : \A d \in E : e >= d)

\* ProcessKeys: what an event of the key k makes of lastKey and repeatOn.
\* The event is handled when lastKey is a key and it is not the first keypress.
ProcessKeys(r, type, k) ==
  CASE type = "keydown" -> [r EXCEPT !.lastKey = k, !.repeatOn = FALSE]
    [] type = "keypress" -> [r EXCEPT !.repeatOn = @ \/ r.lastKey # NoKey]
    [] type = "keyup" -> [r EXCEPT !.lastKey = NoKey, !.repeatOn = FALSE]
\* Slip: the first keypress counts.
AcceptsEvery(r, type) ==
  type = "keydown" \/ (type = "keypress" /\ r.lastKey # NoKey)
Accepts(r, type) ==
  CASE type = "keydown" -> TRUE
    [] type = "keypress" -> r.repeatOn /\ r.lastKey # NoKey
    [] type = "keyup" -> FALSE

\* Nav and NavChild: where the focus goes; Field is that of the page.  The children
\* that are looked at are those of the row before, the last one those of row e - 1.
\* Slip: Up enters the children of a row though they are not displayed.
LastChild(r, e) == Child(e, Row(r, e).children - 1)
HasChildren(r, e) == Row(r, e).children > 0
NavUpAnyway(r, e) ==
  IF NavPrev(r, e - 1) = Nothing THEN Field
  ELSE IF HasChildren(r, e - 1) THEN LastChild(r, e - 1)
  ELSE NavPrev(r, e - 1)
NavUp(r, e) ==
  IF NavPrev(r, e - 1) = Nothing THEN Field
  ELSE IF NavPrev(r, e - 1)[2] \in r.open /\ HasChildren(r, e - 1)
  THEN LastChild(r, e - 1)
  ELSE NavPrev(r, e - 1)
NavDown(r, e) == IF e \in r.open THEN Child(e, 0) ELSE NavNext(r, e + 1)
NavChildUp(e, c) == IF c > 0 THEN Child(e, c - 1) ELSE Item(e)
NavChildDown(r, e, c) ==
  IF c + 1 < Row(r, e).children THEN Child(e, c + 1) ELSE NavNext(r, e + 1)
Target(r, f, k) ==
  CASE k = Up /\ f[1] = "item" -> NavUp(r, f[2])
    [] k = Down /\ f[1] = "item" -> NavDown(r, f[2])
    [] k = Up /\ f[1] = "child" -> NavChildUp(f[2], f[3])
    [] k = Down /\ f[1] = "child" -> NavChildDown(r, f[2], f[3])
    [] OTHER -> f

-----------------------------------------------------------------------------
Init ==
  /\ panel = NewPanel
  /\ results = LoadedResults([page |-> NoPage, query |-> <<>>])
  /\ mouse = FALSE
  /\ held = NoKey
  /\ typed = FALSE
  /\ astray = FALSE

Toggle(r, e) == [r EXCEPT !.open = IF e \in @ THEN @ \ {e} ELSE @ \cup {e}]

\* A key event reaches a link of the frame.  Enter follows it, which toggles a row
\* with children; the others lead out of the search.
FrameKey(type, k) ==
  LET r == ProcessKeys(results, type, k)
      f == panel.focus
      e == f[2]
  IN  IF k = Enter
      THEN /\ results' = IF type = "keydown" /\ f[1] = "item" /\ HasChildren(results, e)
                         THEN Toggle(results, e) ELSE results
           /\ UNCHANGED panel
      ELSE IF ~Accepts(results, type) THEN results' = r /\ UNCHANGED panel
      ELSE /\ results' = IF f[1] = "item" /\ HasChildren(r, e)
                         THEN [r EXCEPT !.open = CASE k = Right -> @ \cup {e}
                                                   [] k = Left -> @ \ {e}
                                                   [] OTHER -> @]
                         ELSE r
           /\ panel' = IF k = Escape THEN Focus(CloseResultsWindow(panel), Field)
                       ELSE IF Target(r, f, k) = Nothing THEN panel
                       ELSE Focus(panel, Target(r, f, k))

\* The user presses a key.  In the field a character is entered at once.  The
\* keys that have no effect of their own in a place are left out there.
Edited(v, k) ==
  IF k = Backspace THEN IF v = <<>> THEN v ELSE Front(v)
  ELSE IF k \in Chars THEN Append(v, k) ELSE v
KeyDown(k) ==
  /\ held = NoKey
  /\ panel.timers <= MAX_FORGOTTEN + IF panel.keyTimeout THEN 1 ELSE 0
  /\ held' = k
  /\ typed' = FALSE
  /\ \/ /\ panel.focus = Field
        /\ k \notin {Up, Left, Right}
        /\ Len(Edited(panel.value, k)) <= MAX_LEN
        /\ panel' = [panel EXCEPT !.value = Edited(@, k)]
        /\ UNCHANGED results
     \/ /\ panel.focus = Filter
        /\ k \in {Down, Up, Enter, Escape}
        /\ panel' = OnSearchSelectKey(panel, k)
        /\ UNCHANGED results
     \/ /\ InFrame(panel.focus)
        /\ k \in {Down, Up, Left, Right, Enter, Escape}
        /\ FrameKey("keydown", k)
  /\ UNCHANGED <<mouse, astray>>

\* A keypress event follows, and more of them while the key stays down.  Only
\* the links of the frame handle it.
KeyPress ==
  /\ held # NoKey
  /\ InFrame(panel.focus)
  /\ typed' = TRUE
  /\ FrameKey("keypress", held)
  /\ UNCHANGED <<mouse, held, astray>>

KeyUp ==
  /\ held # NoKey
  /\ held' = NoKey
  /\ typed' = FALSE
  /\ CASE panel.focus = Field ->
            panel' = OnSearchFieldChange(panel, held, NavNext(results, 0)) /\ UNCHANGED results
       [] InFrame(panel.focus) -> FrameKey("keyup", held)
       [] OTHER -> UNCHANGED <<panel, results>>
  /\ astray' = (astray \/ (panel.focus = Field /\ held = ShiftEnter /\ panel.keyTimeout))
  /\ UNCHANGED mouse

\* The mouse, which the user does not touch while a key is down.  A click on what
\* has no part in the search, on the field, and on the X.
ClickAway == panel' = Focus(panel, Nothing) /\ UNCHANGED results
ClickField == panel' = Focus(panel, Field) /\ UNCHANGED results
ClickClose ==
  /\ panel.shown
  /\ panel' = CloseResultsWindow(Focus(panel, Nothing))
  /\ UNCHANGED results
ClickFilter(i) ==
  /\ panel.selectShown
  /\ panel' = OnSelectItem(Focus(panel, Filter), i)
  /\ UNCHANGED results

\* A click on a row with children toggles them.
ClickItem(e) ==
  /\ panel.shown
  /\ Shown(results, e)
  /\ HasChildren(results, e)
  /\ panel' = Focus(panel, Item(e))
  /\ results' = Toggle(results, e)

Click ==
  /\ held = NoKey
  /\ \/ ClickAway \/ ClickField \/ ClickClose
     \/ \E i \in Filters : ClickFilter(i)
     \/ \E e \in Items(results) : ClickItem(e)
  /\ UNCHANGED <<mouse, held, typed, astray>>

MouseOver ==
  /\ held = NoKey
  /\ ~mouse
  /\ mouse' = TRUE
  /\ panel' = OnSearchSelectShow(panel)
  /\ UNCHANGED <<results, held, typed, astray>>

MouseOut ==
  /\ held = NoKey
  /\ mouse
  /\ mouse' = FALSE
  /\ panel' = OnSearchSelectHide(panel)
  /\ UNCHANGED <<results, held, typed, astray>>

HideTimer ==
  /\ panel.hideTimer
  /\ panel' = [CloseSelectionWindow(panel) EXCEPT !.hideTimer = FALSE]
  /\ UNCHANGED <<results, mouse, held, typed, astray>>

\* A timer calls Search.  A Search that a new filter has started has forgotten it.
KeyTimer ==
  /\ panel.timers > 0
  /\ panel' = Search([panel EXCEPT !.timers = @ - 1])
  /\ astray' = (astray \/ ~Searches(panel))
  /\ UNCHANGED <<results, mouse, held, typed>>

\* The frame has loaded its page.
FrameLoads ==
  /\ panel.next # NoPage
  /\ results' = LoadedResults(panel.next)
  /\ panel' = [panel EXCEPT !.next = NoPage,
                            !.focus = IF InFrame(@) THEN Nothing ELSE @]
  /\ UNCHANGED <<mouse, held, typed, astray>>

Next ==
  \/ \E k \in Keys : KeyDown(k)
  \/ KeyPress \/ KeyUp \/ Click \/ MouseOver \/ MouseOut
  \/ HideTimer \/ KeyTimer \/ FrameLoads

Spec == Init /\ [][Next]_vars

-----------------------------------------------------------------------------
\* The types of the page's variables.
Typed == UNION {[1..n -> Chars] : n \in 0..MAX_LEN}
Text == {Label} \cup Typed
TypeOK ==
  /\ panel.value \in Text
  /\ panel.lastSearchValue \in Text
  /\ panel.timers \in 0..(MAX_FORGOTTEN + 1)
  /\ panel.keyTimeout => panel.timers > 0
  /\ panel.searchIndex \in 0..Len(Sections)
  /\ panel.focus \in {Nothing, Field, Filter}
       \/ (InFrame(panel.focus) /\ panel.focus[2] \in Items(results))
  /\ results.page \in DOMAIN Rows \cup {NoPage}
  /\ results.lastKey \in Keys \cup {NoKey}
  /\ held \in Keys \cup {NoKey}
  /\ {mouse, typed, astray} \subseteq BOOLEAN

(***************************************************************************)
(* The results are those of the field: when nothing is on its way, they    *)
(* show the page of the selected filter for the text, but for its spaces   *)
(* (OnSearchFieldChange compares without them).                            *)
(***************************************************************************)
Settled == held = NoKey /\ panel.timers = 0 /\ panel.next = NoPage
ResultsMatchField ==
  Settled /\ ~astray /\ panel.shown /\ panel.searchIndex \in Filters =>
    /\ results.page = Location(panel.searchIndex, StripAll(panel.value)).page
    /\ results.page # NoPage => StripAll(results.query) = StripAll(panel.value)

(***************************************************************************)
(* While the mouse is over the filter window no timer will close it,       *)
(* however it went in and out (OnSearchSelectShow, search.js:167-172).     *)
(***************************************************************************)
HoverKeepsFilter == mouse => ~panel.hideTimer

(***************************************************************************)
(* The keyboard is never in something that is not displayed, though the    *)
(* results come and go and their children open and close.                  *)
(***************************************************************************)
FocusInSight ==
  /\ panel.focus = Filter => panel.selectShown
  /\ InFrame(panel.focus) => panel.shown /\ Shown(results, panel.focus[2])
  /\ panel.focus[1] = "child" => panel.focus[2] \in results.open

(***************************************************************************)
(* A key that is pressed once moves once: its first keypress does nothing  *)
(* (ProcessKeys, search.js:600-607), whatever the keys before it did.      *)
(***************************************************************************)
OnePressOneMove ==
  [][~typed /\ typed' => UNCHANGED <<panel, results.open>>]_vars

-----------------------------------------------------------------------------
(***************************************************************************)
(* The inductive invariant of the four properties that are proved          *)
(* (SearchPageProofs).                                                     *)
(***************************************************************************)
Pages == DOMAIN Rows \cup {NoPage}
Results == [
  page : Pages, query : Text, open : SUBSET Nat,
  lastKey : Keys \cup {NoKey}, repeatOn : BOOLEAN]
Parents(r) == {e \in Items(r) : HasChildren(r, e)}
Places(r) ==
  {Nothing, Field, Filter} \cup {Item(e) : e \in Items(r)}
    \cup UNION {{Child(e, c) : c \in 0..(Row(r, e).children - 1)} : e \in Parents(r)}
Panels(r) == [
  value : Text, active : BOOLEAN, searchActive : BOOLEAN, shown : BOOLEAN,
  selectShown : BOOLEAN, keyTimeout : BOOLEAN, timers : Nat, hideTimer : BOOLEAN,
  searchIndex : 0..Len(Sections), lastSearchValue : Text, focus : Places(r),
  next : [page : Pages, query : Text] \cup {NoPage}]

\* f is a place that is displayed.
InSight(p, r, f) ==
  /\ f = Filter => p.selectShown
  /\ InFrame(f) => p.shown /\ Shown(r, f[2])
  /\ f[1] = "child" => f[2] \in r.open

\* The panel between two steps, but for what is in the field.
PanelOK(p, r) ==
  /\ p \in Panels(r)
  /\ InSight(p, r, p.focus)
  /\ p.keyTimeout => p.timers > 0

\* The label is not in the field while the user types there.
FieldOK(p) == p.focus = Field => p.value \in Typed

\* A timer runs besides those that were forgotten.  None is forgotten by a key in
\* the filter window: it would search, and the search before it has begun afresh.
TimersOK(p) == p.timers <= MAX_FORGOTTEN + IF p.keyTimeout THEN 1 ELSE 0
FilterOK(p) == p.focus = Filter /\ p.keyTimeout => ~Searches(p)

\* The key that is down has not been repeated here before its first keypress.
KeyOK ==
  held \notin {NoKey, Enter} /\ InFrame(panel.focus) /\ ~typed => ~results.repeatOn

IInv ==
  /\ results \in Results
  /\ results.open \subseteq Parents(results)
  /\ PanelOK(panel, results)
  /\ FieldOK(panel)
  /\ FilterOK(panel)
  /\ panel.timers <= MAX_FORGOTTEN + 1
  /\ held # NoKey => TimersOK(panel)
  /\ held \in Keys \cup {NoKey}
  /\ {mouse, typed, astray} \subseteq BOOLEAN
  /\ KeyOK
  /\ HoverKeepsFilter

(***************************************************************************)
(* And that of ResultsMatchField, for a label that nobody types (Activate  *)
(* clears a field that holds the label, whatever is displayed for it).     *)
(***************************************************************************)
\* What the frame displays, or will.
Loading(p, r) ==
  IF p.next = NoPage THEN [page |-> r.page, query |-> r.query] ELSE p.next

\* The results are those of the last search, and this one was for what is in the
\* field, unless another one is due or the field is being edited.
Matched(p, r, editing) ==
  /\ p.lastSearchValue # <<>> => Head(p.lastSearchValue) # Space
  /\ p.searchActive => p.value # Label
  /\ p.shown =>
       /\ p.searchActive
       /\ p.lastSearchValue # <<>>
       /\ editing \/ StripAll(p.value) # <<>>
       /\ p.searchIndex \in Filters =>
            /\ Loading(p, r) = Location(p.searchIndex, p.lastSearchValue)
            /\ \/ editing \/ p.timers > 0
               \/ StripAll(p.lastSearchValue) = StripAll(p.value)

Editing == panel.focus = Field /\ held \in Chars \cup {Backspace}
MatchIInv == ~astray => Matched(panel, results, Editing)
=============================================================================
