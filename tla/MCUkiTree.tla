------------------------------- MODULE MCUkiTree ------------------------------
(***************************************************************************)
(* UkiTree as TLC checks it: two UKIs, two different argument lists.       *)
(***************************************************************************)
EXTENDS UkiTree

CONSTANTS a1, a2

MCArgs == {a1, a2}
===============================================================================
