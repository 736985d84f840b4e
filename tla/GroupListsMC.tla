---------------------------- MODULE GroupListsMC ----------------------------
(***************************************************************************)
(* An instance of GroupLists for TLC: two teachers with names, one without.*)
(***************************************************************************)
EXTENDS GroupLists

TwoNamed == (1 :> 5) @@ (2 :> 4) @@ (3 :> Null)
=============================================================================
