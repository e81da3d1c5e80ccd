----------------------------- MODULE MCRootSync -----------------------------
(***************************************************************************)
(* A small instance of RootSync: two users and one that is not valid on two *)
(* pages, two users left over from an older input, and two resources, one   *)
(* of which needs two rounds or both waves.                                 *)
(***************************************************************************)
EXTENDS RootSync, TLC

CONSTANTS u1, u2, old, older, invalid

MCUser == {u1, u2, old, older, invalid}
MCValid == {u1, u2, old, older}
MCListing == <<<<u1, u2>>, <<invalid>>>>
MCCarried == <<old, older>>
MCPageCount == ("files" :> 1) @@ ("comments" :> 2)
=============================================================================
