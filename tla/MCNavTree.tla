----------------------------- MODULE MCNavTree -----------------------------
(***************************************************************************)
(* A small tree: a page whose items come in two scripts (a directory and   *)
(* the file in it), next to an anchor of another page that has a double in *)
(* the directory.  Both pages have the hash x, as main() has in many, and  *)
(* the name of the other one ends with that of the file.                   *)
(***************************************************************************)
EXTENDS NavTree

CONSTANTS index, file, other, none, x, line

MCNodes ==
  {<<>>, <<0>>, <<0, 0>>, <<0, 1>>, <<0, 1, 0>>, <<0, 1, 0, 0>>, <<0, 1, 1>>}
MCScripted == {<<0, 1>>, <<0, 1, 0>>}
MCLink == [n \in MCNodes |->
  CASE n = <<0>> -> <<index, none>>
    [] n \in {<<0, 0>>, <<0, 1, 1>>} -> <<other, x>>
    [] n = <<0, 1, 0>> -> <<file, none>>
    [] n = <<0, 1, 0, 0>> -> <<file, x>>
    [] OTHER -> NoLink]
MCBreadcrumbs ==
  (<<index, none>> :> <<>>) @@ (<<other, x>> :> <<0>>) @@
  (<<file, none>> :> <<1, 0>>) @@ (<<file, x>> :> <<1, 0, 0>>)
MCURL == {<<index, none>>, <<other, none>>, <<other, x>>} \cup {file} \X {none, x, line}
MCNamesakes == [p \in {index, file, other} |-> IF p = file THEN {file, other} ELSE {p}]
MCSubIndexOf(u) == IF u[1] = other THEN 1 ELSE 0
MCToggled == {<<0, 1>>}
=============================================================================
