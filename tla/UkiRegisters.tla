----------------------------- MODULE UkiRegisters -----------------------------
(***************************************************************************)
(* What taloscmdline and talos2disk promise of the UKIs on the EFI         *)
(* partition: each is a whole file at all times and its command line is    *)
(* replaced in one step; a signed one is only touched, and then loses its  *)
(* signature, when STRIP_SIGNATURE is set (taloscmdline/README.md:42-46).  *)
(***************************************************************************)
CONSTANTS
    Ukis,       \* names of UKIs
    Args,       \* kernel arguments a run can ask for
    Old         \* a command line none of these have been merged into

VARIABLES
    content,    \* UKI -> its command line and whether it is signed
    strip       \* STRIP_SIGNATURE

Uki == [cmdline : Args \cup {Old}, signed : BOOLEAN]

Init == content \in [Ukis -> Uki] /\ strip \in BOOLEAN

(* UKI u changes from one content to another in one step, if at all. *)
Step(u) ==
    \/ content'[u] = content[u]
    \/ /\ content[u].signed => strip
       /\ \E a \in Args : content'[u] = [cmdline |-> a, signed |-> FALSE]

(* Several UKIs may change at once: nothing orders one against another. *)
Next ==
    /\ strip' = strip
    /\ content' \in [Ukis -> Uki]
    /\ \A u \in Ukis : Step(u)

Spec == Init /\ [][Next]_<<content, strip>>
===============================================================================
