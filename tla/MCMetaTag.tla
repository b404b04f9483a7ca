------------------------------- MODULE MCMetaTag ------------------------------
(***************************************************************************)
(* MetaTag as TLC checks it: the key the actions write and one other key,  *)
(* two values that fit and one that does not.                              *)
(***************************************************************************)
EXTENDS MetaTag

CONSTANTS net, other, v1, v2, huge

MCKeys == {net, other}
MCValues == {v1, v2, huge}
MCTooBig == {huge}
===============================================================================
