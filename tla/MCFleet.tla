------------------------------- MODULE MCFleet -------------------------------
(***************************************************************************)
(* A workspace r that may reach the project m through a link.              *)
(***************************************************************************)
EXTENDS Fleet

CONSTANTS r, m

OneMember == {<<r, m>>}
=============================================================================
