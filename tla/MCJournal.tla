------------------------------ MODULE MCJournal ------------------------------
(* Two fault entries; one recurs past the end of its count.                  *)
EXTENDS Journal

MCRecur == <<3, 1>>
=============================================================================
