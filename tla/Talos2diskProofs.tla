--------------------------- MODULE Talos2diskProofs ---------------------------
(***************************************************************************)
(* Proofs about Talos2disk, for all images, arguments and documents, any   *)
(* number of runs and any number of faults.                                *)
(***************************************************************************)
EXTENDS Talos2disk, TLAPS

(* Every variable keeps its type. *)
LEMMA TypeCorrect == Spec => []TypeOK
<1> USE InstallAssumption DEF InstallAssumption, Regions, Gpt, Efi, Meta, Rest
<1>1. Init => TypeOK
  <2> SUFFICES ASSUME Init PROVE TypeOK
    OBVIOUS
  <2>1. dryRun \in BOOLEAN /\ table \in BOOLEAN /\ flushed \in BOOLEAN
    BY DEF Init
  <2>2. cache \in [Regions -> Content]
    BY DEF Init, Content, Edits
  <2> QED BY <2>1, <2>2 DEF Init, TypeOK, Running, Planning
<1>2. TypeOK /\ [Next]_vars => TypeOK'
  <2> SUFFICES ASSUME TypeOK, [Next]_vars PROVE TypeOK'
    OBVIOUS
  <2>a. Written \in Content
    BY DEF Written, Content, Edits, TypeOK
  <2>b. ASSUME NEW d \in [Regions -> Content], NEW r \in Regions, NEW e \in Edits
        PROVE  Edit(d, r, e) \in [Regions -> Content]
    BY <2>b DEF Edit, Content
  <2>c. ASSUME NEW d \in [Regions -> Content]
        PROVE  Aged(d) \in [Regions -> Content]
    BY <2>c DEF Aged, Content
  <2>d. {args, doc, Mixed} \subseteq Edits
    BY DEF Edits, TypeOK
  <2>e. Gpt \in Regions /\ Efi \in Regions /\ Meta \in Regions /\ Rest \in Regions
    OBVIOUS
  <2> USE DEF TypeOK, Running, Planning, inputs, disk
  <2>1. CASE Starts
    <3>1. cache' \in [Regions -> Content] /\ media' \in [Regions -> Content]
      BY <2>1, <2>c DEF Starts, Start
    <3>2. table' \in BOOLEAN /\ flushed' \in BOOLEAN /\ dryRun' \in BOOLEAN
      BY <2>1 DEF Starts, Start
    <3> QED BY <2>1, <3>1, <3>2 DEF Starts, Start
  <2>2. CASE PlanFails BY <2>2 DEF PlanFails, Fault
  <2>23. CASE NotServed BY <2>23 DEF NotServed
  <2>3. CASE Planned BY <2>3 DEF Planned
  <2>4. CASE Download BY <2>4 DEF Download
  <2>5. CASE CopyRegion BY <2>5, <2>a DEF CopyRegion
  <2>6. CASE CopyEnds BY <2>6 DEF CopyEnds, Fault
  <2>7. CASE SyncImage BY <2>7 DEF SyncImage
  <2>8. CASE WriteFails BY <2>8 DEF WriteFails, Fault
  <2>9. CASE ReRead
    <3>1. table' \in BOOLEAN
      BY <2>9 DEF ReRead
    <3>2. faults' \in 0 .. MaxFaults
      BY <2>9 DEF ReRead, Fault
    <3> QED BY <2>9, <3>1, <3>2 DEF ReRead
  <2>10. CASE Locate BY <2>10 DEF Locate, AfterApply
  <2>11. CASE LocateFails BY <2>11 DEF LocateFails, Fault
  <2>12. CASE EnsureNode BY <2>12 DEF EnsureNode, Fault
  <2>13. CASE Apply
    <3>1. Merged(cache[Efi].edit, args) \in Edits
      BY <2>d DEF Merged
    <3>2. cache' \in [Regions -> Content]
      BY <2>13, <3>1, <2>b, <2>e DEF Apply
    <3> QED BY <2>13, <3>2, <2>e DEF Apply
  <2>14. CASE ApplyElsewhere
    <3>1. cache' \in [Regions -> Content]
      BY <2>14, <2>b, <2>d, <2>e DEF ApplyElsewhere
    <3> QED BY <2>14, <3>1, <2>e DEF ApplyElsewhere
  <2>15. CASE ApplyFails
    <3>1. CASE UNCHANGED <<cache, touched>>
      BY <2>15, <3>1 DEF ApplyFails, Fault
    <3>2. CASE \E r \in {Efi, Rest} : cache' = Edit(cache, r, Mixed) /\ touched' = touched \cup {r}
      <4>1. PICK r \in {Efi, Rest} : cache' = Edit(cache, r, Mixed) /\ touched' = touched \cup {r}
        BY <3>2
      <4>2. r \in Regions
        BY <4>1, <2>e
      <4>3. cache' \in [Regions -> Content] /\ touched' \subseteq Regions
        BY <4>1, <4>2, <2>b, <2>d
      <4> QED BY <2>15, <4>3 DEF ApplyFails, Fault
    <3> QED BY <2>15, <3>1, <3>2 DEF ApplyFails
  <2>16. CASE Unmount
    <3>1. media' \in [Regions -> Content] /\ flushed' \in BOOLEAN
      BY <2>16 DEF Unmount
    <3>2. pc' \in Running \cup {"ok", "failed"}
      BY <2>16 DEF Unmount, AfterApply
    <3>3. faults' \in 0 .. MaxFaults
      BY <2>16 DEF Unmount, Fault
    <3> QED BY <2>16, <3>1, <3>2, <3>3 DEF Unmount
  <2>17. CASE WriteTag
    <3>1. cache' \in [Regions -> Content]
      BY <2>17, <2>b, <2>d DEF WriteTag
    <3>2. media' \in [Regions -> Content]
      BY <2>17, <3>1 DEF WriteTag
    <3> QED BY <2>17, <3>1, <3>2 DEF WriteTag
  <2>18. CASE WriteTagFails
    <3>1. cache[Meta].edit \in Edits
      BY <2>e DEF Content
    <3>2. cache' \in [Regions -> Content]
      <4>1. CASE UNCHANGED cache
        BY <4>1
      <4>2. CASE \E e \in {cache[Meta].edit, Mixed, doc} : cache' = Edit(cache, Meta, e)
        <5>1. PICK e \in {cache[Meta].edit, Mixed, doc} : cache' = Edit(cache, Meta, e)
          BY <4>2
        <5>2. e \in Edits
          BY <3>1, <2>d
        <5> QED BY <5>1, <5>2, <2>b, <2>e
      <4> QED BY <2>18, <4>1, <4>2 DEF WriteTagFails
    <3>3. touched' \subseteq Regions /\ faults' \in 0 .. MaxFaults
      <4>1. CASE UNCHANGED <<cache, touched, faults>>
        BY <4>1
      <4>2. CASE Fault /\ touched' = touched \cup {Meta}
        BY <4>2, <2>e DEF Fault
      <4> QED BY <2>18, <4>1, <4>2 DEF WriteTagFails
    <3> QED BY <2>18, <3>2, <3>3 DEF WriteTagFails
  <2>19. CASE Writeback BY <2>19 DEF Writeback
  <2>20. CASE Kill BY <2>20 DEF Kill, Fault
  <2>21. CASE PowerLoss BY <2>21 DEF PowerLoss, Fault
  <2>22. CASE UNCHANGED vars BY <2>22 DEF vars
  <2> QED
    BY <2>1, <2>2, <2>3, <2>4, <2>5, <2>6, <2>7, <2>8, <2>9, <2>10, <2>11, <2>12,
       <2>13, <2>14, <2>15, <2>16, <2>17, <2>18, <2>19, <2>20, <2>21, <2>22, <2>23
       DEF Next, Program
<1> QED BY <1>1, <1>2, PTL DEF Spec

-------------------------------------------------------------------------------
(***************************************************************************)
(* How far a run that will report success has got.  The regions the copy   *)
(* has passed are this run's; after Sync they are on stable storage too;   *)
(* then the UKIs carry the arguments, and in the end META the document.    *)
(* Where the body broke off unnoticed, the regions behind stay what they   *)
(* were and nothing is said of them.  A failed attempt starts over from    *)
(* the first region, and a failed or killed run promises nothing: the next *)
(* one ages everything it left.                                            *)
(***************************************************************************)
EndOk == pos \in Cuts \cup {Rest}

After(r, e, m) ==
    [by    |-> image,
     fresh |-> TRUE,
     edit  |-> IF r = Efi THEN e ELSE IF r = Meta THEN m ELSE Nothing]

Holds(d, e, m) == \A r \in Regions : r <= pos => d[r] = After(r, e, m)

Progress ==
    /\ pc = "copy" => \A r \in Regions : r <= pos => cache[r] = Written
    /\ pc \in {"sync", "reread", "locate", "node", "apply"} =>
         EndOk /\ Holds(cache, Nothing, Nothing)
    /\ pc \in {"reread", "locate", "node", "apply"} => media = cache
    /\ pc \in {"node", "apply", "unmount"} => args # Nothing
    /\ pc \in Running \ {"meta"} => ~flushed
    /\ pc = "unmount" /\ table =>
         /\ EndOk /\ Holds(cache, args, Nothing)
         /\ \A r \in Regions \ {Efi} : media[r] = cache[r]
    /\ pc = "meta" /\ (args # Nothing => table) =>
         /\ EndOk /\ Holds(cache, args, Nothing)
         /\ \A r \in Regions \ {Efi} : media[r] = cache[r]
         /\ (args # Nothing => flushed) => media[Efi] = cache[Efi]
    /\ pc = "ok" /\ ~dryRun /\ (args # Nothing => table /\ flushed) =>
         /\ EndOk /\ Holds(cache, args, doc)
         /\ media = cache
         /\ doc # Nothing => cache[Meta].edit = doc

(* Edit changes one field of one region. *)
LEMMA EditAt ==
    ASSUME NEW d \in [Regions -> Content], NEW r \in Regions, NEW e, NEW q \in Regions
    PROVE  q = r => Edit(d, r, e)[q] = [by |-> d[r].by, fresh |-> d[r].fresh, edit |-> e]
<1>1. d[r] \in Content
  OBVIOUS
<1>2. [d[r] EXCEPT !.edit = e] = [by |-> d[r].by, fresh |-> d[r].fresh, edit |-> e]
  BY <1>1 DEF Content
<1> QED BY <1>2 DEF Edit

LEMMA EditElsewhere ==
    ASSUME NEW d \in [Regions -> Content], NEW r, NEW e, NEW q \in Regions, q # r
    PROVE  Edit(d, r, e)[q] = d[q]
BY DEF Edit

(* Editing the UKIs where the copy has passed, and META after that. *)
LEMMA EditUkis ==
    ASSUME cache \in [Regions -> Content], NEW a, Holds(cache, Nothing, Nothing)
    PROVE  Holds(Edit(cache, Efi, Merged(cache[Efi].edit, a)), a, Nothing)
<1> DEFINE d == Edit(cache, Efi, Merged(cache[Efi].edit, a))
<1> SUFFICES ASSUME NEW r \in Regions, r <= pos PROVE d[r] = After(r, a, Nothing)
  BY DEF Holds
<1>1. Efi \in Regions
  BY DEF Efi, Regions
<1>2. cache[r] = After(r, Nothing, Nothing)
  BY DEF Holds
<1>3. CASE r = Efi
  <2>1. cache[r] = [by |-> image, fresh |-> TRUE, edit |-> Nothing]
    BY <1>2, <1>3 DEF After
  <2>2. Merged(cache[Efi].edit, a) = a
    BY <1>3, <2>1 DEF Merged
  <2>3. d[r] = [by |-> cache[r].by, fresh |-> cache[r].fresh, edit |-> a]
    BY <1>1, <1>3, <2>2, EditAt
  <2> QED BY <1>3, <2>1, <2>3 DEF After
<1>4. CASE r # Efi
  <2>1. d[r] = cache[r]
    BY <1>4, EditElsewhere
  <2> QED BY <1>2, <1>4, <2>1 DEF After
<1> QED BY <1>3, <1>4

LEMMA EditMeta ==
    ASSUME cache \in [Regions -> Content], NEW a, NEW m, Holds(cache, a, Nothing)
    PROVE  /\ Holds(Edit(cache, Meta, m), a, m)
           /\ Edit(cache, Meta, m)[Meta].edit = m
<1> DEFINE d == Edit(cache, Meta, m)
<1>1. Meta \in Regions /\ Meta # Efi
  BY DEF Efi, Meta, Regions
<1>2. ASSUME NEW r \in Regions, r <= pos PROVE d[r] = After(r, a, m)
  <2>1. cache[r] = After(r, a, Nothing)
    BY <1>2 DEF Holds
  <2>2. CASE r = Meta
    <3>1. cache[r] = [by |-> image, fresh |-> TRUE, edit |-> Nothing]
      BY <1>1, <2>1, <2>2 DEF After
    <3>2. d[r] = [by |-> cache[r].by, fresh |-> cache[r].fresh, edit |-> m]
      BY <1>1, <2>2, EditAt
    <3> QED BY <1>1, <2>2, <3>1, <3>2 DEF After
  <2>3. CASE r # Meta
    <3>1. d[r] = cache[r]
      BY <2>3, EditElsewhere
    <3> QED BY <2>1, <2>3, <3>1 DEF After
  <2> QED BY <2>2, <2>3
<1>3. d[Meta].edit = m
  <2>1. d[Meta] = [by |-> cache[Meta].by, fresh |-> cache[Meta].fresh, edit |-> m]
    BY <1>1, EditAt
  <2> QED BY <2>1
<1> QED BY <1>2, <1>3 DEF Holds

(* Progress is inductive. *)
LEMMA ProgressInvariant == Spec => []Progress
<1> USE InstallAssumption DEF InstallAssumption
<1>0. Regions = 1 .. 4 /\ Gpt = 1 /\ Efi = 2 /\ Meta = 3 /\ Rest = 4
  BY DEF Regions, Gpt, Efi, Meta, Rest
<1>1. Init => Progress
  BY DEF Init, Progress, Running, Planning
<1>2. TypeOK /\ TypeOK' /\ Progress /\ [Next]_vars => Progress'
  <2> SUFFICES ASSUME TypeOK, TypeOK', Progress, [Next]_vars PROVE Progress'
    OBVIOUS
  <2> USE DEF Progress, TypeOK, inputs, disk, Running, Planning
  <2>a. ASSUME UNCHANGED <<image, args, doc, pos, cache>>
        PROVE  /\ EndOk' = EndOk
               /\ Holds(cache, Nothing, Nothing)' = Holds(cache, Nothing, Nothing)
               /\ Holds(cache, args, Nothing)' = Holds(cache, args, Nothing)
               /\ Holds(cache, args, doc)' = Holds(cache, args, doc)
    BY <2>a DEF EndOk, Holds, After
  <2>1. CASE Starts BY <2>1 DEF Starts, Start, inputs
  <2>2. CASE PlanFails BY <2>2 DEF PlanFails
  <2>3. CASE Planned BY <2>3 DEF Planned
  <2>23. CASE NotServed BY <2>23 DEF NotServed
  <2>4. CASE Download BY <1>0, <2>4 DEF Download
  <2>5. CASE CopyRegion
    <3>1. \A r \in Regions : r <= pos' => cache'[r] = Written
      BY <1>0, <2>5 DEF CopyRegion
    <3>2. Written' = Written
      BY <2>5 DEF CopyRegion, Written
    <3> QED BY <2>5, <3>1, <3>2 DEF CopyRegion
  <2>6. CASE CopyEnds
    <3>1. Holds(cache, Nothing, Nothing)
      BY <2>6 DEF CopyEnds, Written, Holds, After
    <3>2. EndOk /\ pc' = "sync" /\ UNCHANGED <<image, args, doc, pos, cache, flushed>> /\ ~flushed
      BY <2>6 DEF CopyEnds, EndOk
    <3> QED BY <3>1, <3>2, <2>a
  <2>7. CASE SyncImage BY <2>7, <2>a DEF SyncImage
  <2>8. CASE WriteFails BY <2>8 DEF WriteFails
  <2>9. CASE ReRead BY <2>9, <2>a DEF ReRead
  <2>10. CASE Locate
    <3>1. CASE args # Nothing
      BY <2>10, <2>a, <3>1 DEF Locate
    <3>2. CASE args = Nothing /\ doc # Nothing
      BY <2>10, <2>a, <3>2 DEF Locate, AfterApply
    <3>3. CASE args = Nothing /\ doc = Nothing
      BY <2>10, <2>a, <3>3 DEF Locate, AfterApply
    <3> QED BY <3>1, <3>2, <3>3
  <2>11. CASE LocateFails BY <2>11 DEF LocateFails
  <2>12. CASE EnsureNode BY <2>12, <2>a DEF EnsureNode
  <2>13. CASE Apply
    <3>1. Holds(cache', args, Nothing)
      BY <2>13, EditUkis DEF Apply
    <3>2. Holds(cache, args, Nothing)' /\ EndOk'
      BY <2>13, <3>1 DEF Apply, Holds, After, EndOk
    <3>3. ASSUME NEW r \in Regions \ {Efi} PROVE media'[r] = cache'[r]
      <4>1. cache'[r] = cache[r]
        BY <2>13, EditElsewhere DEF Apply
      <4> QED BY <2>13, <4>1 DEF Apply
    <3> QED BY <2>13, <3>2, <3>3 DEF Apply
  <2>14. CASE ApplyElsewhere BY <2>14 DEF ApplyElsewhere
  <2>15. CASE ApplyFails BY <2>15 DEF ApplyFails
  <2>16. CASE Unmount
    <3>1. CASE pc = "abort"
      BY <2>16, <3>1 DEF Unmount
    <3>2. CASE pc = "unmount" /\ table /\ UNCHANGED <<media, flushed>>
      BY <2>16, <2>a, <3>2 DEF Unmount, AfterApply
    <3>3. CASE /\ pc = "unmount" /\ table /\ flushed' = TRUE
               /\ media' = [media EXCEPT ![Efi] = cache[Efi], ![Rest] = cache[Rest]]
      <4>1. \A r \in Regions : media'[r] = cache[r]
        BY <1>0, <3>3
      <4>2. media' = cache
        BY <4>1
      <4>3. Holds(cache, args, Nothing)' /\ EndOk' /\ pc' = AfterApply
        BY <2>16, <2>a, <3>3 DEF Unmount
      <4>4. UNCHANGED <<args, doc, cache>>
        BY <2>16 DEF Unmount
      <4>5. CASE doc = Nothing
        BY <4>2, <4>3, <4>4, <4>5 DEF AfterApply
      <4>6. CASE doc # Nothing
        BY <4>1, <4>3, <4>4, <4>6, <1>0 DEF AfterApply
      <4> QED BY <4>5, <4>6
    <3>4. CASE pc = "unmount" /\ ~table
      <4>1. args' # Nothing /\ ~table' /\ pc' \in {"ok", "meta"}
        BY <2>16, <3>4 DEF Unmount, AfterApply
      <4> QED BY <4>1
    <3> QED BY <2>16, <3>1, <3>2, <3>3, <3>4 DEF Unmount
  <2>17. CASE WriteTag
    <3>1. UNCHANGED <<image, args, doc, pos, dryRun, table, flushed>> /\ pc' = "ok"
      BY <2>17 DEF WriteTag
    <3>2. ASSUME args # Nothing => table /\ flushed
          PROVE  /\ EndOk' /\ Holds(cache, args, doc)'
                 /\ media' = cache' /\ cache'[Meta].edit = doc
      <4>1. Holds(cache', args, doc) /\ cache'[Meta].edit = doc
        BY <2>17, <3>2, EditMeta DEF WriteTag
      <4>2. Holds(cache, args, doc)' /\ EndOk'
        BY <2>17, <3>1, <3>2, <4>1 DEF WriteTag, Holds, After, EndOk
      <4>3. \A r \in Regions : media[r] = cache[r]
        BY <2>17, <3>2 DEF WriteTag
      <4>4. ASSUME NEW r \in Regions PROVE media'[r] = cache'[r]
        <5>1. CASE r = Meta
          BY <2>17, <5>1 DEF WriteTag
        <5>2. CASE r # Meta
          <6>1. cache'[r] = cache[r]
            BY <2>17, <5>2, EditElsewhere DEF WriteTag
          <6> QED BY <2>17, <4>3, <5>2, <6>1 DEF WriteTag
        <5> QED BY <5>1, <5>2
      <4> QED BY <4>1, <4>2, <4>4
    <3> QED BY <3>1, <3>2
  <2>18. CASE WriteTagFails BY <2>18 DEF WriteTagFails
  <2>19. CASE Writeback
    <3>1. UNCHANGED <<pc, image, args, doc, dryRun, pos, cache, table, flushed>>
      BY <2>19 DEF Writeback
    <3>2. \A r \in Regions : media[r] = cache[r] => media'[r] = cache'[r]
      BY <2>19 DEF Writeback
    <3>3. media # cache
      BY <2>19 DEF Writeback
    <3>4. Written' = Written
      BY <3>1 DEF Written
    <3> QED BY <1>0, <2>a, <3>1, <3>2, <3>3, <3>4
  <2>20. CASE Kill BY <2>20 DEF Kill
  <2>21. CASE PowerLoss
    <3>1. CASE pc \in Running
      BY <2>21, <3>1 DEF PowerLoss
    <3>2. CASE pc \notin Running
      BY <2>21, <2>a, <3>2 DEF PowerLoss
    <3> QED BY <3>1, <3>2
  <2>22. CASE UNCHANGED vars
    <3>1. Written' = Written
      BY <2>22 DEF vars, Written
    <3> QED BY <2>22, <2>a, <3>1 DEF vars
  <2> QED
    BY <2>1, <2>2, <2>3, <2>4, <2>5, <2>6, <2>7, <2>8, <2>9, <2>10, <2>11, <2>12,
       <2>13, <2>14, <2>15, <2>16, <2>17, <2>18, <2>19, <2>20, <2>21, <2>22, <2>23
       DEF Next, Program
<1> QED BY <1>1, <1>2, TypeCorrect, PTL DEF Spec

(***************************************************************************)
(* A run that reports success has its plan, and nothing else, on stable    *)
(* storage wherever the copy passed, whatever the runs before it left      *)
(* (run.go:179-233); the copy passed everything unless the body broke off  *)
(* where nothing tells (image.go:104); and META holds the plan's document. *)
(* The kernel must have re-read the partition table, and the EFI partition *)
(* must have been unmounted cleanly, if there were UKIs to edit.           *)
(***************************************************************************)
THEOREM SuccessIsInstalled == Spec => []OkMeansInstalled
<1>1. Progress => OkMeansInstalled
  <2> SUFFICES ASSUME Progress, pc = "ok", ~dryRun, args # Nothing => table /\ flushed
               PROVE  /\ pos \in Cuts \cup {Rest}
                      /\ \A r \in Regions : r <= pos => media[r] = Target[r]
                      /\ doc # Nothing => media[Meta].edit = doc
    BY DEF OkMeansInstalled
  <2>1. /\ pos \in Cuts \cup {Rest} /\ Holds(cache, args, doc) /\ media = cache
        /\ doc # Nothing => cache[Meta].edit = doc
    BY DEF Progress, EndOk
  <2>2. ASSUME NEW r \in Regions PROVE Target[r] = After(r, args, doc)
    <3>1. Efi # Meta
      BY DEF Efi, Meta
    <3>2. CASE r = Efi
      BY <3>1, <3>2 DEF Target, After
    <3>3. CASE r = Meta
      BY <3>1, <3>3 DEF Target, After
    <3>4. CASE r \notin {Efi, Meta}
      BY <3>4 DEF Target, After
    <3> QED BY <3>2, <3>3, <3>4
  <2> QED BY <2>1, <2>2 DEF Holds
<1> QED BY <1>1, ProgressInvariant, PTL

-------------------------------------------------------------------------------
(***************************************************************************)
(* Planning and a dry run leave the disk alone: a dry run never gets past  *)
(* its plan, and until then everything on the disk is an earlier run's     *)
(* (run.go:43-84).                                                         *)
(***************************************************************************)
DryInv ==
    /\ dryRun => pc \notin Running \ {"plan"}
    /\ UntouchedBeforeWrite

(* What an earlier run wrote is not fresh. *)
LEMMA AgedIsOld ==
    ASSUME NEW d \in [Regions -> Content]
    PROVE  \A r \in Regions : ~Aged(d)[r].fresh
BY DEF Aged, Content

(* Before the write the disk is untouched (run.go:43-84). *)
THEOREM PlanTouchesNothing == Spec => []UntouchedBeforeWrite
<1>1. Init => DryInv
  BY DEF Init, DryInv, UntouchedBeforeWrite, Running, Planning
<1>2. TypeOK /\ DryInv /\ [Next]_vars => DryInv'
  <2> SUFFICES ASSUME TypeOK, DryInv, [Next]_vars PROVE DryInv'
    OBVIOUS
  <2>a. \A r \in Regions : ~Aged(cache)[r].fresh /\ ~Aged(media)[r].fresh
    BY AgedIsOld DEF TypeOK
  <2> USE DEF DryInv, UntouchedBeforeWrite, TypeOK, inputs, disk, Running, Planning
  <2>1. CASE Starts
    <3>1. \A r \in Regions : ~cache'[r].fresh /\ ~media'[r].fresh
      BY <2>1, <2>a DEF Starts, Start
    <3>2. pc' = "plan"
      BY <2>1 DEF Starts, Start
    <3>3. touched' = {}
      BY <2>1 DEF Starts, Start
    <3> QED BY <3>1, <3>2, <3>3
  <2>2. CASE PlanFails BY <2>2 DEF PlanFails
  <2>23. CASE NotServed BY <2>23 DEF NotServed
  <2>3. CASE Planned BY <2>3 DEF Planned
  <2>4. CASE Download BY <2>4 DEF Download
  <2>5. CASE CopyRegion BY <2>5 DEF CopyRegion
  <2>6. CASE CopyEnds BY <2>6 DEF CopyEnds, Fault
  <2>7. CASE SyncImage BY <2>7 DEF SyncImage
  <2>8. CASE WriteFails BY <2>8 DEF WriteFails
  <2>9. CASE ReRead BY <2>9 DEF ReRead
  <2>10. CASE Locate BY <2>10 DEF Locate, AfterApply
  <2>11. CASE LocateFails BY <2>11 DEF LocateFails
  <2>12. CASE EnsureNode BY <2>12 DEF EnsureNode
  <2>13. CASE Apply BY <2>13 DEF Apply
  <2>14. CASE ApplyElsewhere BY <2>14 DEF ApplyElsewhere
  <2>15. CASE ApplyFails BY <2>15 DEF ApplyFails
  <2>16. CASE Unmount BY <2>16 DEF Unmount, AfterApply
  <2>17. CASE WriteTag BY <2>17 DEF WriteTag
  <2>18. CASE WriteTagFails BY <2>18 DEF WriteTagFails
  <2>19. CASE Writeback BY <2>19 DEF Writeback
  <2>20. CASE Kill BY <2>20 DEF Kill
  <2>21. CASE PowerLoss BY <2>21 DEF PowerLoss
  <2>22. CASE UNCHANGED vars BY <2>22 DEF vars
  <2> QED
    BY <2>1, <2>2, <2>3, <2>4, <2>5, <2>6, <2>7, <2>8, <2>9, <2>10, <2>11, <2>12,
       <2>13, <2>14, <2>15, <2>16, <2>17, <2>18, <2>19, <2>20, <2>21, <2>22, <2>23
       DEF Next, Program
<1>3. DryInv => UntouchedBeforeWrite
  BY DEF DryInv
<1> QED BY <1>1, <1>2, <1>3, TypeCorrect, PTL DEF Spec

-------------------------------------------------------------------------------
(***************************************************************************)
(* Where a run may edit: once both partitions are located, in the cache    *)
(* and, since a power loss brings stable storage back into it, on the      *)
(* disk; and once all that the copy passed is there.                       *)
(***************************************************************************)
Named(d) == d[Gpt].by \notin {Nothing} \cup NoEfi \cup NoMeta

Copied == EndOk /\ \A r \in Regions : r <= pos => cache[r].fresh /\ media[r].fresh

Editing == {"node", "apply", "unmount", "abort", "meta"}

EditInv ==
    /\ pc \in Running \ Editing => touched = {}
    /\ pc \in Editing \/ touched # {} => Named(cache) /\ Named(media) /\ Copied

(* An edit leaves a region as fresh as it was, and of the same image. *)
LEMMA EditKeepsFresh ==
    ASSUME NEW d \in [Regions -> Content], NEW r \in Regions, NEW e, NEW q \in Regions
    PROVE  Edit(d, r, e)[q].fresh = d[q].fresh /\ Edit(d, r, e)[q].by = d[q].by
<1>1. CASE q = r
  <2>1. Edit(d, r, e)[q] = [by |-> d[r].by, fresh |-> d[r].fresh, edit |-> e]
    BY <1>1, EditAt
  <2> QED BY <1>1, <2>1
<1>2. CASE q # r
  BY <1>2, EditElsewhere
<1> QED BY <1>1, <1>2

(* EditInv is preserved by the edits, which find the copy there. *)
LEMMA EditStep ==
    ASSUME Named(cache), Named(media), Copied, UNCHANGED pos,
           Gpt \in Regions,
           pc' \notin Running \ Editing,
           \A q \in Regions : cache'[q].fresh = cache[q].fresh /\ cache'[q].by = cache[q].by,
           \A q \in Regions : media'[q] = media[q] \/ media'[q] = cache'[q]
    PROVE  EditInv'
BY DEF EditInv, Named, Copied, EndOk

(* EditInv is inductive, given how far the copy has got. *)
LEMMA EditInvariant == Spec => []EditInv
<1> USE InstallAssumption DEF InstallAssumption
<1>0. Gpt \in Regions /\ Efi \in Regions /\ Meta \in Regions /\ Rest \in Regions
  BY DEF Regions, Gpt, Efi, Meta, Rest
<1>1. Init => EditInv
  BY DEF Init, EditInv, Editing
<1>2. TypeOK /\ Progress /\ EditInv /\ [Next]_vars => EditInv'
  <2> SUFFICES ASSUME TypeOK, Progress, EditInv, [Next]_vars PROVE EditInv'
    OBVIOUS
  <2>a. ASSUME pc \in Running \ Editing, UNCHANGED touched, pc' \notin Editing
        PROVE  EditInv'
    BY <2>a DEF EditInv
  <2>b. ASSUME pc \in Editing, UNCHANGED <<pos, disk>>, pc' \notin Running \ Editing
        PROVE  EditInv'
    BY <1>0, <2>b, EditStep DEF EditInv, disk
  <2>c. ASSUME NEW r \in Regions, NEW e, cache' = Edit(cache, r, e), pc \in Editing,
               UNCHANGED pos, pc' \notin Running \ Editing,
               media' = media \/ media' = [media EXCEPT ![r] = cache'[r]]
        PROVE  EditInv'
    <3>1. \A q \in Regions : cache'[q].fresh = cache[q].fresh /\ cache'[q].by = cache[q].by
      BY <2>c, EditKeepsFresh DEF TypeOK
    <3>2. \A q \in Regions : media'[q] = media[q] \/ media'[q] = cache'[q]
      BY <2>c DEF TypeOK
    <3> QED BY <1>0, <2>c, <3>1, <3>2, EditStep DEF EditInv
  <2> USE DEF Running, Planning, Editing
  <2>1. CASE Starts BY <2>1 DEF Starts, Start, EditInv
  <2>2. CASE PlanFails BY <2>2, <2>a DEF PlanFails
  <2>3. CASE Planned BY <2>3, <2>a DEF Planned
  <2>23. CASE NotServed BY <2>23, <2>a DEF NotServed
  <2>4. CASE Download BY <2>4, <2>a DEF Download
  <2>5. CASE CopyRegion BY <2>5, <2>a DEF CopyRegion
  <2>6. CASE CopyEnds BY <2>6, <2>a DEF CopyEnds
  <2>7. CASE SyncImage BY <2>7, <2>a DEF SyncImage
  <2>8. CASE WriteFails BY <2>8, <2>a DEF WriteFails
  <2>9. CASE ReRead BY <2>9, <2>a DEF ReRead
  <2>10. CASE Locate
    <3>1. EndOk /\ Holds(cache, Nothing, Nothing) /\ media = cache
      BY <2>10 DEF Locate, Progress
    <3>2. Copied
      BY <3>1 DEF Copied, Holds, After
    <3>3. Named(cache) /\ Named(media)
      BY <2>10, <3>1 DEF Locate, Missing, Named
    <3>4. UNCHANGED <<pos, cache, media>> /\ pc' \notin Running \ Editing
      BY <2>10 DEF Locate, AfterApply, disk
    <3> QED BY <1>0, <3>2, <3>3, <3>4, EditStep
  <2>11. CASE LocateFails BY <2>11, <2>a DEF LocateFails
  <2>12. CASE EnsureNode BY <2>12, <2>b DEF EnsureNode
  <2>13. CASE Apply BY <1>0, <2>13, <2>c DEF Apply
  <2>14. CASE ApplyElsewhere BY <1>0, <2>14, <2>c DEF ApplyElsewhere
  <2>15. CASE ApplyFails
    <3>1. CASE UNCHANGED <<cache, touched>> /\ pc' = "failed"
      BY <2>15, <2>b, <3>1 DEF ApplyFails, disk
    <3>2. CASE \E r \in {Efi, Rest} : pc' = "abort" /\ cache' = Edit(cache, r, Mixed)
      BY <1>0, <2>15, <2>c, <3>2 DEF ApplyFails
    <3> QED BY <2>15, <3>1, <3>2 DEF ApplyFails
  <2>16. CASE Unmount
    <3>1. \A q \in Regions : media'[q] = media[q] \/ media'[q] = cache'[q]
      BY <1>0, <2>16 DEF Unmount, TypeOK
    <3>2. UNCHANGED <<pos, cache>> /\ pc \in Editing /\ pc' \notin Running \ Editing
      BY <2>16 DEF Unmount, AfterApply
    <3> QED BY <1>0, <3>1, <3>2, EditStep DEF EditInv
  <2>17. CASE WriteTag BY <1>0, <2>17, <2>c DEF WriteTag
  <2>18. CASE WriteTagFails
    <3>1. CASE UNCHANGED <<cache, touched, faults>>
      BY <2>18, <2>b, <3>1 DEF WriteTagFails, disk
    <3>2. CASE \E e \in {cache[Meta].edit, Mixed, doc} : cache' = Edit(cache, Meta, e)
      BY <1>0, <2>18, <2>c, <3>2 DEF WriteTagFails
    <3> QED BY <2>18, <3>1, <3>2 DEF WriteTagFails
  <2>19. CASE Writeback
    <3>1. UNCHANGED <<pc, pos, cache, touched>>
      BY <2>19 DEF Writeback
    <3>2. \A q \in Regions : media'[q] = media[q] \/ media'[q] = cache'[q]
      BY <2>19 DEF Writeback, TypeOK
    <3> QED BY <1>0, <3>1, <3>2 DEF EditInv, Named, Copied, EndOk
  <2>20. CASE Kill
    <3>1. UNCHANGED <<pos, cache, media, touched>> /\ pc' = "killed"
      BY <2>20 DEF Kill, disk
    <3> QED BY <3>1 DEF EditInv, Named, Copied, EndOk
  <2>21. CASE PowerLoss
    <3>1. UNCHANGED <<pos, media, touched>> /\ cache' = media /\ pc' \notin Running
      BY <2>21 DEF PowerLoss
    <3> QED BY <3>1 DEF EditInv, Named, Copied, EndOk
  <2>22. CASE UNCHANGED vars
    <3>1. UNCHANGED <<pc, pos, cache, media, touched>>
      BY <2>22 DEF vars
    <3> QED BY <3>1 DEF EditInv, Named, Copied, EndOk
  <2> QED
    BY <2>1, <2>2, <2>3, <2>4, <2>5, <2>6, <2>7, <2>8, <2>9, <2>10, <2>11, <2>12,
       <2>13, <2>14, <2>15, <2>16, <2>17, <2>18, <2>19, <2>20, <2>21, <2>22, <2>23
       DEF Next, Program
<1> QED BY <1>1, <1>2, TypeCorrect, ProgressInvariant, PTL DEF Spec

(***************************************************************************)
(* A run edits nothing before both partitions are located and all that the *)
(* body held is on stable storage (run.go:185-201).                        *)
(***************************************************************************)
THEOREM EditsOnlyBehindTheCopy == Spec => []EditsComeLast
<1>1. EditInv => EditsComeLast
  BY DEF EditInv, Named, Copied, EndOk, EditsComeLast
<1> QED BY <1>1, EditInvariant, PTL
===============================================================================
