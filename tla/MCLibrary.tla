------------------------------ MODULE MCLibrary ------------------------------
(* Three users, the name of one starting with that of another; three books,   *)
(* likewise.                                                                  *)
EXTENDS Library

CONSTANTS al, alex, bob, b1, b12, b2, m1, m2

MCStartsWith == {<<alex, al>>, <<b12, b1>>}
=============================================================================
