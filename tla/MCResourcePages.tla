-------------------------- MODULE MCResourcePages --------------------------
(***************************************************************************)
(* A small instance of ResourcePages.                                       *)
(***************************************************************************)
EXTENDS ResourcePages

MCLimit == {None, 1, 3}
=============================================================================
