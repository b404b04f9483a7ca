---------------------------- MODULE UkiTreeProofs -----------------------------
(***************************************************************************)
(* Proofs about UkiTree, for any number of UKIs, any arguments, with and   *)
(* without STRIP_SIGNATURE, and whatever the pattern matches.              *)
(***************************************************************************)
EXTENDS UkiTree, TLAPS

(* The .tmp file of a UKI is a name, and not a UKI's. *)
LEMMA TmpIsNoUki ==
    ASSUME NEW u \in Ukis
    PROVE  Tmp(u) \in Names /\ Tmp(u) \notin Ukis /\ Tmp(u) # u
BY TreeAssumption DEF TreeAssumption, Ukis, Names, Tmp

(* Every variable keeps its type. *)
LEMMA TypeCorrect == Spec => []TypeOK
<1> USE TreeAssumption, ContentAssumption DEF TreeAssumption, ContentAssumption
<1>1. Init => TypeOK
  <2> SUFFICES ASSUME Init PROVE TypeOK
    OBVIOUS
  <2>1. live \in [Names -> Content]
    BY DEF Init, Content
  <2>2. cur \in Names
    BY DEF Init, Names
  <2>3. pattern \in Patterns /\ {err, flushed, strip} \subseteq BOOLEAN
    BY DEF Init
  <2> QED BY <2>1, <2>2, <2>3 DEF Init, TypeOK, Running
<1>2. TypeOK /\ [Next]_vars => TypeOK'
  <2> SUFFICES ASSUME TypeOK, [Next]_vars PROVE TypeOK'
    OBVIOUS
  <2>a. pc # "idle" => Rewritten \in Content
    BY DEF TypeOK, Rewritten, Content, Uki
  <2>b. Partial \in Content /\ None \in Content /\ Ukis \subseteq Names
    BY DEF Content, Ukis
  <2> USE <2>a, <2>b DEF TypeOK, Running, files, given
  <2>1. CASE Calls BY <2>1 DEF Calls, Call
  <2>2. CASE Mount BY <2>2 DEF Mount, Fault
  <2>3. CASE Glob \/ GlobFails BY <2>3 DEF Glob, GlobFails, Matches, Abort
  <2>4. CASE NextMatch BY <2>4 DEF NextMatch
  <2>5. CASE InspectFails BY <2>5 DEF InspectFails, Abort, Fault
  <2>6. CASE Unchanged \/ PartialPasses BY <2>6 DEF Unchanged, PartialPasses
  <2>7. CASE RefuseSigned BY <2>7 DEF RefuseSigned, Abort
  <2>8. CASE Changed BY <2>8 DEF Changed
  <2>9. CASE Create BY <2>9 DEF Create
  <2>10. CASE RewriteLeftover BY <2>10 DEF RewriteLeftover
  <2>11. CASE CreateFails BY <2>11 DEF CreateFails, Abort, Fault
  <2>12. CASE Write BY <2>12 DEF Write
  <2>13. CASE Sync BY <2>13, TmpIsNoUki DEF Sync
  <2>14. CASE Close BY <2>14 DEF Close
  <2>15. CASE RewriteFails BY <2>15 DEF RewriteFails, Abort, Fault
  <2>16. CASE Rename BY <2>16, TmpIsNoUki DEF Rename
  <2>17. CASE SyncDir BY <2>17 DEF SyncDir
  <2>18. CASE Unmount
    <3>1. err' \in BOOLEAN /\ flushed' \in BOOLEAN
      BY <2>18 DEF Unmount
    <3>2. faults' \in 0 .. MaxFaults
      BY <2>18 DEF Unmount, Fault
    <3> QED BY <2>18, <3>1, <3>2 DEF Unmount
  <2>19. CASE Writeback BY <2>19 DEF Writeback
  <2>20. CASE WritebackUnsynced BY <2>20 DEF WritebackUnsynced
  <2>21. CASE Kill BY <2>21 DEF Kill, Fault
  <2>22. CASE PowerLoss BY <2>22 DEF PowerLoss, Fault
  <2>23. CASE UNCHANGED vars BY <2>23 DEF vars
  <2> QED
    BY <2>1, <2>2, <2>3, <2>4, <2>5, <2>6, <2>7, <2>8, <2>9, <2>10, <2>11, <2>12,
       <2>13, <2>14, <2>15, <2>16, <2>17, <2>18, <2>19, <2>20, <2>21, <2>22, <2>23
       DEF Next, Program
<1> QED BY <1>1, <1>2, PTL DEF Spec

-------------------------------------------------------------------------------
(***************************************************************************)
(* The discipline of Rewrite: a file is renamed over a UKI only when it is *)
(* whole and its data is stored, and a signed UKI only gets that far with  *)
(* STRIP_SIGNATURE.  So the stored version of a UKI is the live one, or an *)
(* older one that the live one may replace.                                *)
(***************************************************************************)
MayBecome(s, old, new) ==
    /\ old.signed => s
    /\ new.cmdline \in Args /\ new.signed = FALSE

TreeInv ==
    /\ pc \in {"sync", "close", "rename"} => live[Tmp(cur)] = Rewritten
    /\ pc \in {"close", "rename"} => Tmp(cur) \in solid
    /\ pc \in {"create", "write", "sync", "close", "rename"} /\ cur \in Ukis =>
         (live[cur].signed => strip)
    /\ \A u \in Ukis :
         /\ live[u] \in Uki /\ disk[u] \in Uki
         /\ u \in solid
         /\ live[u] = disk[u] \/ MayBecome(strip, disk[u], live[u])

(* What Rewrite writes may replace any UKI it is allowed to touch. *)
LEMMA RewrittenMayReplace ==
    ASSUME TypeOK, pc # "idle", NEW c \in Uki, c.signed => strip
    PROVE  Rewritten \in Uki /\ MayBecome(strip, c, Rewritten)
BY DEF TypeOK, Rewritten, Uki, MayBecome

(* TreeInv holds throughout, whatever fails. *)
LEMMA TreeInvariant == Spec => []TreeInv
<1> USE TreeAssumption, ContentAssumption DEF TreeAssumption, ContentAssumption
<1>1. Init => TreeInv
  BY DEF Init, TreeInv, Ukis, Content
<1>2. TypeOK /\ TreeInv /\ [Next]_vars => TreeInv'
  <2> SUFFICES ASSUME TypeOK, TreeInv, [Next]_vars PROVE TreeInv'
    OBVIOUS
  <2>a. Ukis \subseteq Names
    BY DEF Ukis
  <2> USE <2>a DEF TreeInv, TypeOK, Running, files, given, Rewritten
  <2>1. CASE Calls BY <2>1 DEF Calls, Call
  <2>2. CASE Mount BY <2>2 DEF Mount
  <2>3. CASE Glob \/ GlobFails BY <2>3 DEF Glob, GlobFails, Abort
  <2>4. CASE NextMatch BY <2>4 DEF NextMatch
  <2>5. CASE InspectFails BY <2>5 DEF InspectFails, Abort
  <2>6. CASE Unchanged \/ PartialPasses BY <2>6 DEF Unchanged, PartialPasses
  <2>7. CASE RefuseSigned BY <2>7 DEF RefuseSigned, Abort
  <2>8. CASE Changed BY <2>8 DEF Changed, Refused
  <2>9. CASE Create
    <3>1. cur \in Ukis /\ Tmp(cur) \notin Ukis /\ Tmp(cur) \in Names /\ Tmp(cur) # cur
      BY <2>9, TmpIsNoUki DEF Create
    <3>2. \A u \in Ukis : live'[u] = live[u] /\ (u \in solid' <=> u \in solid)
      BY <2>9, <3>1 DEF Create
    <3> QED BY <2>9, <3>1, <3>2 DEF Create
  <2>10. CASE RewriteLeftover BY <2>10 DEF RewriteLeftover
  <2>11. CASE CreateFails BY <2>11 DEF CreateFails, Abort
  <2>12. CASE Write
    <3>1. cur \in Ukis /\ Tmp(cur) \notin Ukis /\ Tmp(cur) \in Names /\ Tmp(cur) # cur
      BY <2>12, TmpIsNoUki DEF Write
    <3>2. \A u \in Ukis : live'[u] = live[u]
      BY <2>12, <3>1 DEF Write
    <3>3. live'[Tmp(cur')] = Rewritten'
      BY <2>12, <3>1 DEF Write
    <3> QED BY <2>12, <3>1, <3>2, <3>3 DEF Write
  <2>13. CASE Sync BY <2>13 DEF Sync
  <2>14. CASE Close BY <2>14 DEF Close
  <2>15. CASE RewriteFails
    <3>1. cur \in Ukis /\ Tmp(cur) \notin Ukis
      BY <2>15, TmpIsNoUki DEF RewriteFails
    <3>2. \A u \in Ukis : live'[u] = live[u]
      BY <2>15, <3>1 DEF RewriteFails
    <3> QED BY <2>15, <3>2 DEF RewriteFails, Abort
  <2>16. CASE Rename
    <3>1. cur \in Ukis /\ Tmp(cur) \notin Ukis /\ Tmp(cur) \in Names
      BY <2>16, TmpIsNoUki DEF Rename
    <3>2. \A u \in Ukis \ {cur} : live'[u] = live[u] /\ u \in solid'
      BY <2>16, <3>1 DEF Rename
    <3>3. live'[cur] = Rewritten /\ cur \in solid' /\ disk' = disk
      BY <2>16, <3>1 DEF Rename
    <3>4. Rewritten \in Uki /\ MayBecome(strip, live[cur], Rewritten)
      BY <2>16, <3>1, RewrittenMayReplace DEF Rename
    <3>5. MayBecome(strip, disk[cur], Rewritten)
      BY <3>1, <3>4 DEF MayBecome
    <3> QED BY <2>16, <3>1, <3>2, <3>3, <3>4, <3>5 DEF Rename, MayBecome
  <2>17. CASE SyncDir BY <2>17 DEF SyncDir
  <2>18. CASE Unmount BY <2>18 DEF Unmount
  <2>19. CASE Writeback BY <2>19 DEF Writeback
  <2>20. CASE WritebackUnsynced BY <2>20 DEF WritebackUnsynced
  <2>21. CASE Kill BY <2>21 DEF Kill
  <2>22. CASE PowerLoss BY <2>22 DEF PowerLoss
  <2>23. CASE UNCHANGED vars BY <2>23 DEF vars
  <2> QED
    BY <2>1, <2>2, <2>3, <2>4, <2>5, <2>6, <2>7, <2>8, <2>9, <2>10, <2>11, <2>12,
       <2>13, <2>14, <2>15, <2>16, <2>17, <2>18, <2>19, <2>20, <2>21, <2>22, <2>23
       DEF Next, Program
<1> QED BY <1>1, <1>2, TypeCorrect, PTL DEF Spec

(***************************************************************************)
(* Every UKI is a whole image at all times, in the mounted file system and *)
(* on stable storage, whatever fails and whenever power is lost            *)
(* (uki.go:255-288).                                                       *)
(***************************************************************************)
THEOREM UkisStayWhole == Spec => []AlwaysBootable
<1>1. TreeInv => AlwaysBootable
  BY DEF TreeInv, AlwaysBootable
<1> QED BY <1>1, TreeInvariant, PTL

-------------------------------------------------------------------------------
(* A step that stores the live version of some UKIs is one of UkiRegisters. *)
LEMMA StoringIsAStep ==
    ASSUME TypeOK, TreeInv, TreeInv',
           \A u \in Ukis : disk'[u] = disk[u] \/ disk'[u] = live[u],
           strip' = strip
    PROVE  Registers!Next
<1> DEFINE content == [u \in Ukis |-> disk[u]]
<1>1. content' \in [Ukis -> Registers!Uki]
  BY DEF TreeInv, Uki, Registers!Uki
<1>2. ASSUME NEW u \in Ukis PROVE Registers!Step(u)
  <2>1. CASE disk'[u] = disk[u]
    BY <2>1 DEF Registers!Step
  <2>2. CASE disk'[u] = live[u] /\ live[u] # disk[u]
    <3>1. MayBecome(strip, disk[u], live[u]) /\ live[u] \in Uki
      BY <2>2 DEF TreeInv
    <3>2. live[u] = [cmdline |-> live[u].cmdline, signed |-> FALSE]
      BY <3>1 DEF MayBecome, Uki
    <3> QED BY <2>2, <3>1, <3>2 DEF MayBecome, Registers!Step
  <2> QED BY <2>1, <2>2
<1> QED BY <1>1, <1>2 DEF Registers!Next

(***************************************************************************)
(* On stable storage every UKI is a register that goes from one whole      *)
(* content to the next, and a signed one never changes without             *)
(* STRIP_SIGNATURE, although each is replaced by create, write, sync and   *)
(* rename, any of which may fail or be the last before a power loss.       *)
(***************************************************************************)
THEOREM ImplementsRegisters == Spec => RegistersSpec
<1> USE TreeAssumption, ContentAssumption DEF TreeAssumption, ContentAssumption
<1>1. Init => Registers!Init
  BY DEF Init, Registers!Init, Registers!Uki, Uki, Ukis, Names
<1>2. TypeOK /\ TreeInv /\ TreeInv' /\ [Next]_vars =>
        [Registers!Next]_<<[u \in Ukis |-> disk[u]], strip>>
  <2> SUFFICES ASSUME TypeOK, TreeInv, TreeInv', [Next]_vars
               PROVE  Registers!Next \/ UNCHANGED <<disk, strip>>
    OBVIOUS
  <2> USE DEF files, given
  <2>1. CASE Calls BY <2>1 DEF Calls, Call
  <2>2. CASE Mount \/ Glob \/ GlobFails \/ NextMatch
    BY <2>2 DEF Mount, Glob, GlobFails, NextMatch
  <2>3. CASE InspectFails \/ Unchanged \/ PartialPasses \/ RefuseSigned \/ Changed
    BY <2>3 DEF InspectFails, Unchanged, PartialPasses, RefuseSigned, Changed
  <2>4. CASE Create \/ RewriteLeftover \/ CreateFails \/ Write
    BY <2>4 DEF Create, RewriteLeftover, CreateFails, Write
  <2>5. CASE Sync \/ Close \/ RewriteFails \/ Rename
    BY <2>5 DEF Sync, Close, RewriteFails, Rename
  <2>6. CASE SyncDir
    <3>0. strip' = strip
      BY <2>6 DEF SyncDir
    <3>1. \A u \in Ukis : disk'[u] = disk[u] \/ disk'[u] = live[u]
      BY <2>6 DEF SyncDir, Ukis
    <3> QED BY <3>0, <3>1, StoringIsAStep
  <2>7. CASE Unmount
    <3>0. strip' = strip
      BY <2>7 DEF Unmount
    <3>1. \A u \in Ukis : disk'[u] = disk[u] \/ disk'[u] = live[u]
      BY <2>7 DEF Unmount
    <3> QED BY <3>0, <3>1, StoringIsAStep
  <2>8. CASE Writeback
    <3>0. strip' = strip
      BY <2>8 DEF Writeback
    <3>1. \A u \in Ukis : disk'[u] = disk[u] \/ disk'[u] = live[u]
      BY <2>8 DEF Writeback, Ukis, TypeOK
    <3> QED BY <3>0, <3>1, StoringIsAStep
  <2>9. CASE WritebackUnsynced
    <3>0. strip' = strip
      BY <2>9 DEF WritebackUnsynced
    <3>1. \A u \in Ukis : disk'[u] = disk[u]
      BY <2>9 DEF WritebackUnsynced, TypeOK, TreeInv
    <3> QED BY <3>0, <3>1, StoringIsAStep
  <2>10. CASE Kill \/ PowerLoss
    BY <2>10 DEF Kill, PowerLoss
  <2>11. CASE UNCHANGED vars BY <2>11 DEF vars
  <2> QED
    BY <2>1, <2>2, <2>3, <2>4, <2>5, <2>6, <2>7, <2>8, <2>9, <2>10, <2>11
       DEF Next, Program
<1> QED
  BY <1>1, <1>2, TypeCorrect, TreeInvariant, PTL
     DEF Spec, RegistersSpec, Registers!Spec

-------------------------------------------------------------------------------
(***************************************************************************)
(* How far EditTree has got: a UKI carries the arguments unless the loop   *)
(* has yet to come to it or is at it, and nothing is flushed before        *)
(* Unmount.                                                                *)
(***************************************************************************)
AtMatch == {"inspect", "create", "write", "sync", "close", "rename"}
InLoop  == {"next", "syncdir"} \cup AtMatch

DoneInv ==
    /\ pc \in Running => ~flushed
    /\ pc \in InLoop =>
         \A u \in Ukis :
            \/ live[u].cmdline = args
            \/ u \in todo
            \/ u = cur /\ pc \in AtMatch
    /\ pc = "unmount" /\ ~err => \A u \in Ukis : live[u].cmdline = args
    /\ OkMeansAll

(* EditTree's loop goes over every UKI, and Unmount stores what it did     *)
(* (cmdline.go:124-206).                                                   *)
THEOREM SuccessEditsAll == Spec => []OkMeansAll
<1> USE TreeAssumption, ContentAssumption DEF TreeAssumption, ContentAssumption
<1>1. Init => DoneInv
  BY DEF Init, DoneInv, OkMeansAll, InLoop, AtMatch, Running
<1>2. TypeOK /\ TreeInv /\ DoneInv /\ [Next]_vars => DoneInv'
  <2> SUFFICES ASSUME TypeOK, TreeInv, DoneInv, [Next]_vars PROVE DoneInv'
    OBVIOUS
  <2>a. Ukis \subseteq Names /\ \A u \in Ukis : u \in solid /\ live[u] \in Uki
    BY DEF Ukis, TreeInv
  <2>b. Rewritten.cmdline = args
    BY DEF Rewritten
  <2>c. ASSUME pc' = "next", ~flushed', \A u \in Ukis : live'[u].cmdline = args' \/ u \in todo'
        PROVE  DoneInv'
    <3>1. pc' # "ok" /\ pc' # "unmount"
      BY <2>c
    <3> QED BY <2>c, <3>1 DEF DoneInv, OkMeansAll
  <2> USE <2>a DEF DoneInv, OkMeansAll, InLoop, AtMatch, TypeOK, Running, files, given
  <2>1. CASE Calls BY <2>1 DEF Calls, Call
  <2>2. CASE Mount BY <2>2 DEF Mount
  <2>3. CASE Glob
    <3>1. pattern # "none"
      BY <2>3 DEF Glob, Matches
    <3>2. Ukis \subseteq todo'
      BY <2>3, <3>1 DEF Glob, Matches, Patterns
    <3> QED BY <2>3, <2>c, <3>2 DEF Glob
  <2>24. CASE GlobFails BY <2>24 DEF GlobFails, Abort
  <2>4. CASE NextMatch BY <2>4 DEF NextMatch
  <2>5. CASE InspectFails BY <2>5 DEF InspectFails, Abort
  <2>6. CASE Unchanged \/ PartialPasses 
    <3>1. UNCHANGED <<args, todo, live, flushed>> /\ pc = "inspect" /\ pc' = "next"
      BY <2>6 DEF Unchanged, PartialPasses
    <3>2. cur \in Ukis => live[cur].cmdline = args
      BY <2>6 DEF Unchanged, PartialPasses
    <3>3. \A u \in Ukis : live[u].cmdline = args \/ u \in todo
      BY <3>1, <3>2
    <3> QED BY <2>c, <3>1, <3>3
  <2>7. CASE RefuseSigned BY <2>7 DEF RefuseSigned, Abort
  <2>8. CASE Changed BY <2>8 DEF Changed
  <2>9. CASE Create
    <3>1. \A u \in Ukis : live'[u] = live[u]
      BY <2>9, TmpIsNoUki DEF Create
    <3> QED BY <2>9, <3>1 DEF Create
  <2>10. CASE RewriteLeftover
    <3>1. \A u \in Ukis : live'[u] = live[u]
      BY <2>10 DEF RewriteLeftover
    <3>2. \A u \in Ukis : live[u].cmdline = args \/ u \in todo
      BY <2>10 DEF RewriteLeftover
    <3> QED BY <2>10, <2>c, <3>1, <3>2 DEF RewriteLeftover
  <2>11. CASE CreateFails BY <2>11 DEF CreateFails, Abort
  <2>12. CASE Write
    <3>1. \A u \in Ukis : live'[u] = live[u]
      BY <2>12, TmpIsNoUki DEF Write
    <3> QED BY <2>12, <3>1 DEF Write
  <2>13. CASE Sync BY <2>13 DEF Sync
  <2>14. CASE Close BY <2>14 DEF Close
  <2>15. CASE RewriteFails BY <2>15 DEF RewriteFails, Abort
  <2>16. CASE Rename
    <3>1. cur \in Ukis /\ live[Tmp(cur)] = Rewritten
      BY <2>16 DEF Rename, TreeInv
    <3>2. live'[cur] = Rewritten
      BY <2>16, <3>1, TmpIsNoUki DEF Rename
    <3>3. \A u \in Ukis \ {cur} : live'[u] = live[u]
      BY <2>16, <3>1, TmpIsNoUki DEF Rename
    <3>4. UNCHANGED <<args, todo, cur, flushed>> /\ pc = "rename" /\ pc' = "syncdir"
      BY <2>16 DEF Rename
    <3>5. \A u \in Ukis : live'[u].cmdline = args' \/ u \in todo'
      BY <2>b, <3>2, <3>3, <3>4
    <3>6. pc' # "ok" /\ pc' # "unmount" /\ ~flushed'
      BY <3>4
    <3> QED BY <3>5, <3>6
  <2>17. CASE SyncDir BY <2>17 DEF SyncDir
  <2>18. CASE Unmount BY <2>18 DEF Unmount
  <2>19. CASE Writeback BY <2>19 DEF Writeback
  <2>20. CASE WritebackUnsynced BY <2>20 DEF WritebackUnsynced
  <2>21. CASE Kill BY <2>21 DEF Kill
  <2>22. CASE PowerLoss BY <2>22 DEF PowerLoss
  <2>23. CASE UNCHANGED vars BY <2>23 DEF vars
  <2> QED
    BY <2>1, <2>2, <2>3, <2>4, <2>5, <2>6, <2>7, <2>8, <2>9, <2>10, <2>11, <2>12,
       <2>13, <2>14, <2>15, <2>16, <2>17, <2>18, <2>19, <2>20, <2>21, <2>22, <2>23, <2>24
       DEF Next, Program
<1>3. DoneInv => OkMeansAll
  BY DEF DoneInv
<1> QED BY <1>1, <1>2, <1>3, TypeCorrect, TreeInvariant, PTL DEF Spec
===============================================================================
