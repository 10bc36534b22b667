------------------------------ MODULE MCSession ------------------------------
(***************************************************************************)
(* The instances of Session: two orgs with the policy that two orgs endorse, *)
(* and one org alone.                                                       *)
(***************************************************************************)
EXTENDS Session

MCNetwork ==
  [orgs |-> 2, peers |-> 2, orderers |-> 1, structure |-> "nchoose2", vanity |-> 0,
   req |-> -1, max |-> -1]

MCOneOrg == [MCNetwork EXCEPT !.orgs = 1]
=============================================================================
