------------------------------ MODULE MCUkiLayout ------------------------------
(***************************************************************************)
(* UkiLayout as TLC checks it: three sections of every kind and three      *)
(* sizes, with and without gaps between them and out of order, in files of *)
(* three lengths and in a word that some of the sums overflow.             *)
(***************************************************************************)
EXTENDS UkiLayout

(* Sections laid out one after the other; the gap may be negative. *)
Table(kind, vsize, gap) ==
    LET t[j \in Index] ==
            LET va1  == IF j = 1 THEN 4 ELSE Align(t[j - 1].va + t[j - 1].vsize + gap, SectAlign)
                off1 == IF j = 1 THEN HeaderEnd ELSE t[j - 1].off + t[j - 1].size + gap
            IN  [va |-> va1, vsize |-> vsize[j], off |-> off1,
                 size |-> Align(vsize[j], FileAlign), kind |-> kind[j]]
    IN  t

InOrder ==
    {t \in {Table(kind, vsize, gap) : kind \in [Index -> Kinds],
                                     vsize \in [Index -> {0, 2, 5}], gap \in {-2, 0, 4}} :
        \A j \in Index : t[j].off >= 0 /\ t[j].va >= 0}

(* Sums of validate that wrap: the command line claims to end at Word, in    *)
(* the file or in memory, and the section after it lies inside it.           *)
Header(va1, vsize, off1, size, kind) ==
    [va |-> va1, vsize |-> vsize, off |-> off1, size |-> size, kind |-> kind]

Wrapping ==
    {<<Header(4, 2, 2, Word - 2, "cmdline"), Header(8, 2, 4, 2, k), Header(12, 2, 6, 2, l)>> :
        k \in {"data", "code"}, l \in Kinds}
    \cup {<<Header(4, Word - 4, 2, 2, "cmdline"), Header(4, 2, 4, 2, "data"), Header(8, 2, 6, 2, l)>> :
        l \in Kinds}

(* A section before the command line in the table and above it in memory. *)
Above ==
    {<<Header(v, 2, 2, 2, k), Header(4, 2, 4, 2, "cmdline"), Header(8, 5, 6, 6, "data")>> :
        v \in {4, 12, 16}, k \in {"data", "code"}}

MCLayouts == InOrder \cup Wrapping \cup Above
===============================================================================
