---------------------------- MODULE MCSearchPage ----------------------------
(***************************************************************************)
(* Two filters.  The first has rows for two characters, one of them that   *)
(* of the label, and a row with children; the second has one row.          *)
(***************************************************************************)
EXTENDS SearchPage

CONSTANTS a, s, S

MCLabel == <<S>>
MCLower == [c \in Chars \cup {s, S} |-> IF c = S THEN s ELSE c]
MCSections == <<<<a, s>>, <<a>>>>
Entry(n, c) == [name |-> n, children |-> c]
MCRows ==
  (<<0, a>> :> <<Entry(<<a>>, 2), Entry(<<a, a>>, 0)>>) @@
  (<<0, s>> :> <<Entry(<<s>>, 0)>>) @@
  (<<1, a>> :> <<Entry(<<a, a>>, 2)>>)
=============================================================================
