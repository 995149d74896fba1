------------------------------ MODULE MCCatalog ------------------------------
(* Instances of Catalog: two contents of the workflow and of the prompt,   *)
(* which are interchangeable, and few requests.                            *)
EXTENDS Catalog, TLC

Contents == Permutations(Revisions) \cup Permutations(Prompts) \cup Permutations(Creators)
=============================================================================
