----------------------------- MODULE MCInstallPlan -----------------------------
(* InstallPlan as TLC checks it: three disks, one of them small, one perhaps  *)
(* read-only; inputs that say something of the disk, and inputs that say      *)
(* something of the schematic, the version and the Factory.                   *)
EXTENDS InstallPlan

CONSTANTS d1, d2, d3, idA, idB, urlA, hostB

Machine(sel, path, h, i, t) == [selector |-> sel, disk |-> path, host |-> h, id |-> i, tag |-> t]

Nothing == [selector |-> None, schematic |-> None, version |-> None, factory |-> None,
            userData |-> <<>>, disks |-> <<>>, slug |-> None, osVersion |-> None,
            contract |-> None]

(* What says which disk; the rest is pinned by the environment. *)
DiskSelectors == {None, Bad, Sel({d1}), Sel({d1, d2}), Sel({d3})}
DiskPaths     == {None, Placeholder, ByName(1), ByLink(d1), ByLink(d2)}
DiskLists     == {<<>>, <<None, ByName(2)>>, <<ByLink(d3)>>, <<Placeholder>>}

DiskInputs ==
    {[Nothing EXCEPT !.selector = s, !.disks = l, !.schematic = idA,
                     !.version = Full(14, 2, FALSE),
                     !.userData = <<Machine(c, p, None, None, None)>>] :
        s \in DiskSelectors, c \in DiskSelectors, p \in DiskPaths, l \in DiskLists}

(* What says which version; the disk is named by the environment. *)
ImageA == Machine(None, None, None, None, Minor(14))
ImageB == Machine(None, None, hostB, idB, Full(14, 9, FALSE))
ImageC == Machine(Sel({d3}), None, hostB, idB, Bad)

VersionInputs ==
    {[Nothing EXCEPT !.selector = Sel({d1}), !.schematic = s, !.slug = idB,
                     !.version = v, !.osVersion = o, !.contract = Minor(14),
                     !.factory = f, !.userData = u] :
        s \in {None, Bad, idA},
        v \in {None, Bad, Minor(14), Full(14, 10, TRUE)},
        o \in {None, Bad, Minor(13)},
        f \in {None, Bad, urlA},
        u \in {<<>>, <<Other>>, <<Broken, ImageB>>, <<Other, ImageA, ImageB>>,
               <<Other, ImageC, Broken>>}}

MCInputs == DiskInputs \cup VersionInputs
MCEligibles == {{d1, d2, d3}, {d2, d3}}
MCLarge == {d2, d3}

R(p) == Full(14, p, FALSE)

MCLists ==
    {<<R(9), R(2)>>, <<R(2), R(9), R(10)>>, <<Full(13, 12, FALSE), R(10), Full(14, 11, TRUE), R(9)>>,
     <<Full(13, 12, FALSE), Full(14, Odd, FALSE), Full(14, 1, TRUE)>>}
===============================================================================
