----------------------------- MODULE MCTalos2disk -----------------------------
(***************************************************************************)
(* Talos2disk as TLC checks it: a complete image, one without META and one *)
(* that is not served; two argument lists, a document that fits and one    *)
(* that does not.                                                          *)
(***************************************************************************)
EXTENDS Talos2disk

CONSTANTS good, nometa, gone, a1, a2, d1, big

(* The UKIs are signed, and a2 comes without STRIP_SIGNATURE. *)
MCRefused == {<<good, a2>>}

(* Bound: a run that never comes to the edits is started without any. *)
InputsOfUse == dryRun \/ image \in {Nothing, gone} => args = Nothing /\ doc = Nothing
===============================================================================
