------------------------------ MODULE MC_Pipeline ------------------------------
(* Instance of Pipeline for TLC: a fact and a section, embedded; or the section still a
   draft, and a CV that failed. *)
EXTENDS Pipeline, TLC

CONSTANTS f, x, v, t1, t2

MCRows == {Item(i) : i \in Items} \cup {Pointer(i) : i \in Items} \cup {Cv(c) : c \in Cvs}
Has(i, text, approved) == Item(i) :> [text |-> text, approved |-> approved]
MCFirstTables ==
    {Has(f, t1, TRUE) @@ Has(x, t1, TRUE),
     Has(x, t1, FALSE) @@ Cv(v) :> Failed}
=============================================================================
