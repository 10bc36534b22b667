----------------------------- MODULE MCMaterial -----------------------------
(* A small instance of Material: a network and a larger one to extend it to. *)
EXTENDS Material

MCNetworks == {[orgs |-> 1, peers |-> 1, orderers |-> 1, last |-> "whole"],
               [orgs |-> 2, peers |-> 1, orderers |-> 2, last |-> "whole"]}
=============================================================================
