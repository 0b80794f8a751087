-------------------------- MODULE MCConcurrentPut --------------------------
(***************************************************************************)
(* Two files, one of them there before and longer than some of the new.    *)
(***************************************************************************)
EXTENDS ConcurrentPut, TLC

CONSTANTS f, g

MCOldDisk == (f :> <<OldByte, OldByte>>) @@ (g :> <<>>)
=============================================================================
