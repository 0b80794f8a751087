----------------------------- MODULE MCPlainGet -----------------------------
(***************************************************************************)
(* Small instances of PlainGet.                                            *)
(***************************************************************************)
EXTENDS PlainGet

\* Names shorter and longer than a buffer, and one that looks like an OK.
MCFilenames == {<<97, 98>>, <<1, 0, 0>>, <<97, 98, 99, 100, 101, 102, 103>>}
=============================================================================
