---------------------------- MODULE MetaTagProofs -----------------------------
(***************************************************************************)
(* Proofs about MetaTag, for all keys and values and any number of runs.   *)
(***************************************************************************)
EXTENDS MetaTag, TLAPS

(* What load returns is a tag map, and NewTags is one. *)
LEMMA LoadedType ==
    ASSUME NEW s \in [Slots -> Contents]
    PROVE  Loaded(s) \in TagMaps
BY DEF Loaded, Intact, Contents, TagMaps, Empty, Slots

LEMMA NewTagsType ==
    ASSUME tags \in TagMaps, value \in Values
    PROVE  NewTags \in TagMaps
BY DEF NewTags, TagMaps

(* Every variable keeps its type. *)
LEMMA TypeCorrect == Spec => []TypeOK
<1> USE MetaAssumption DEF MetaAssumption
<1>1. Init => TypeOK
  <2> SUFFICES ASSUME Init PROVE TypeOK
    OBVIOUS
  <2>1. Empty \in TagMaps
    BY DEF Empty, TagMaps
  <2>2. cache \in [Slots -> Contents]
    BY DEF Init
  <2>3. image \in TagMaps
    BY <2>2, LoadedType DEF Init
  <2>4. lost \in BOOLEAN
    BY DEF Init
  <2> QED BY <2>1, <2>2, <2>3, <2>4 DEF Init, TypeOK, Running
<1>2. TypeOK /\ [Next]_vars => TypeOK'
  <2> SUFFICES ASSUME TypeOK, [Next]_vars PROVE TypeOK'
    OBVIOUS
  <2>a. NewTags \in Contents \/ pc = "idle"
    BY NewTagsType DEF TypeOK, Contents
  <2> USE DEF TypeOK, Running
  <2>1. CASE \E v \in Values : Call(v) BY <2>1 DEF Call
  <2>2. CASE Load BY <2>2, LoadedType DEF Load
  <2>3. CASE Set BY <2>3 DEF Set
  <2>4. CASE WriteSlot BY <2>4, <2>a DEF WriteSlot, Slots
  <2>5. CASE WriteTalosEnds BY <2>5 DEF WriteTalosEnds
  <2>6. CASE WriteFails BY <2>6 DEF WriteFails
  <2>7. CASE WriteLegacy
    <3>1. cache' \in [Slots -> Contents]
      BY <2>7 DEF WriteLegacy, Contents
    <3> QED BY <2>7, <3>1 DEF WriteLegacy
  <2>8. CASE Sync
    <3>1. lost' \in BOOLEAN
      BY <2>8 DEF Sync
    <3> QED BY <2>8, <3>1 DEF Sync
  <2>9. CASE Writeback BY <2>9 DEF Writeback
  <2>10. CASE Kill BY <2>10 DEF Kill
  <2>11. CASE PowerLoss BY <2>11 DEF PowerLoss
  <2>12. CASE UNCHANGED vars BY <2>12 DEF vars
  <2> QED
    BY <2>1, <2>2, <2>3, <2>4, <2>5, <2>6, <2>7, <2>8, <2>9, <2>10, <2>11, <2>12 DEF Next
<1> QED BY <1>1, <1>2, PTL DEF Spec

-------------------------------------------------------------------------------
(***************************************************************************)
(* The slots flush has written hold the new tags; after the Talos ADV all  *)
(* slots do, and after Sync so does stable storage.                        *)
(***************************************************************************)
FlushInv ==
    /\ pc \in Running \ {"load"} => size \in Nat /\ size >= TalosLen + LegacyLen
    /\ pc = "talos" => \A s \in Slots : s < pos => cache[s] = NewTags
    /\ pc \in {"legacy", "sync", "ok"} => cache = [s \in Slots |-> NewTags]
    /\ pc = "ok" => media = [s \in Slots |-> NewTags]

(* In a partition that load accepts, the legacy ADV is behind the slots. *)
LEMMA LegacyApart ==
    ASSUME TypeOK, FlushInv, WriteLegacy
    PROVE  cache' = cache
<1>1. size \in Nat /\ size >= 5
  BY DEF WriteLegacy, FlushInv, Running, TalosLen, LegacyLen
<1>2. \A s \in Slots : ~(s >= size - LegacyLen)
  BY <1>1 DEF Slots, LegacyLen
<1>3. cache \in [Slots -> Contents]
  BY DEF TypeOK
<1>4. cache = [s \in Slots |-> cache[s]]
  BY <1>3
<1>5. [s \in Slots |-> IF s >= size - LegacyLen THEN Blank ELSE cache[s]]
        = [s \in Slots |-> cache[s]]
  BY <1>2
<1> QED BY <1>4, <1>5 DEF WriteLegacy

(* FlushInv holds throughout, power losses included. *)
LEMMA FlushInvariant == Spec => []FlushInv
<1> USE MetaAssumption DEF MetaAssumption
<1>1. Init => FlushInv
  BY DEF Init, FlushInv, Running
<1>2. TypeOK /\ FlushInv /\ [Next]_vars => FlushInv'
  <2> SUFFICES ASSUME TypeOK, FlushInv, [Next]_vars PROVE FlushInv'
    OBVIOUS
  <2> USE DEF FlushInv, TypeOK, Running, NewTags
  <2>1. CASE \E v \in Values : Call(v) BY <2>1 DEF Call
  <2>2. CASE Load BY <2>2 DEF Load, TooSmall, TalosLen, LegacyLen
  <2>3. CASE Set BY <2>3 DEF Set, Slots
  <2>4. CASE WriteSlot BY <2>4 DEF WriteSlot, Slots
  <2>5. CASE WriteTalosEnds BY <2>5 DEF WriteTalosEnds, Slots
  <2>6. CASE WriteFails BY <2>6 DEF WriteFails
  <2>7. CASE WriteLegacy BY <2>7, LegacyApart DEF WriteLegacy
  <2>8. CASE Sync BY <2>8 DEF Sync
  <2>9. CASE Writeback BY <2>9 DEF Writeback
  <2>10. CASE Kill BY <2>10 DEF Kill
  <2>11. CASE PowerLoss BY <2>11 DEF PowerLoss
  <2>12. CASE UNCHANGED vars BY <2>12 DEF vars
  <2> QED
    BY <2>1, <2>2, <2>3, <2>4, <2>5, <2>6, <2>7, <2>8, <2>9, <2>10, <2>11, <2>12 DEF Next
<1> QED BY <1>1, <1>2, TypeCorrect, PTL DEF Spec

(***************************************************************************)
(* A WriteTag that reports success has its value in both copies, on stable *)
(* storage, whatever interruptions and power losses came before            *)
(* (meta.go:151-175).                                                      *)
(***************************************************************************)
THEOREM SuccessIsDurable == Spec => []OkIsDurable
<1>1. FlushInv => OkIsDurable
  BY DEF FlushInv, OkIsDurable
<1> QED BY <1>1, FlushInvariant, PTL

-------------------------------------------------------------------------------
(***************************************************************************)
(* While no interruption is outstanding the copies agree between runs, and *)
(* in flush the slots not yet written still hold what load returned.       *)
(***************************************************************************)
Meaning(c) == IF c = Blank THEN Empty ELSE c

CopyInv ==
    /\ pc = "set" => tags = Loaded(cache)
    /\ interrupts = 0 /\ pc \in {"idle", "failed", "load", "set"} =>
         \A s \in Slots : cache[s] = cache[0]
    /\ interrupts = 0 /\ pc = "talos" =>
         \A s \in Slots : s >= pos => cache[s] = cache[3] /\ tags = Meaning(cache[3])
    /\ pc = "killed" => interrupts > 0

(* CopyInv holds throughout, power losses included. *)
LEMMA CopyInvariant == Spec => []CopyInv
<1> USE MetaAssumption DEF MetaAssumption
<1>1. Init => CopyInv
  BY DEF Init, CopyInv, Slots
<1>2. TypeOK /\ FlushInv /\ CopyInv /\ [Next]_vars => CopyInv'
  <2> SUFFICES ASSUME TypeOK, FlushInv, CopyInv, [Next]_vars PROVE CopyInv'
    OBVIOUS
  <2> USE DEF CopyInv, TypeOK, Running, NewTags
  <2>1. CASE \E v \in Values : Call(v) BY <2>1 DEF Call, FlushInv, Slots
  <2>2. CASE Load BY <2>2 DEF Load
  <2>3. CASE Set BY <2>3 DEF Set, Slots, Loaded, Intact, Meaning
  <2>4. CASE WriteSlot BY <2>4 DEF WriteSlot, Slots, Meaning
  <2>5. CASE WriteTalosEnds BY <2>5 DEF WriteTalosEnds, Slots
  <2>6. CASE WriteFails BY <2>6 DEF WriteFails
  <2>7. CASE WriteLegacy BY <2>7, LegacyApart DEF WriteLegacy, FlushInv, Slots
  <2>8. CASE Sync BY <2>8 DEF Sync, FlushInv, Slots
  <2>9. CASE Writeback BY <2>9 DEF Writeback
  <2>10. CASE Kill BY <2>10 DEF Kill
  <2>11. CASE PowerLoss BY <2>11 DEF PowerLoss
  <2>12. CASE UNCHANGED vars BY <2>12 DEF vars
  <2> QED
    BY <2>1, <2>2, <2>3, <2>4, <2>5, <2>6, <2>7, <2>8, <2>9, <2>10, <2>11, <2>12 DEF Next
<1> QED BY <1>1, <1>2, TypeCorrect, FlushInvariant, PTL DEF Spec

-------------------------------------------------------------------------------
(* A copy that is written completely is the one load returns. *)
LEMMA FirstCopyWins ==
    ASSUME TypeOK, cache[0] = NewTags, cache[1] = NewTags, pc # "idle"
    PROVE  Loaded(cache) = NewTags
<1>1. NewTags # Blank
  BY NewTagsType, MetaAssumption DEF MetaAssumption, TypeOK, TagMaps
<1> QED BY <1>1 DEF Loaded, Intact

(***************************************************************************)
(* The heart of it: with at most one interruption outstanding, stopping    *)
(* flush at any slot leaves a partition that loads as Visible says.        *)
(***************************************************************************)
LEMMA StoppedFlushLoads ==
    ASSUME TypeOK, FlushInv, CopyInv, pc = "talos", interrupts = 0
    PROVE  Loaded(cache) = Visible
<1> USE DEF TypeOK, Slots
<1>1. CASE pos >= 2
  <2>1. cache[0] = NewTags /\ cache[1] = NewTags
    BY <1>1 DEF FlushInv
  <2> QED BY <2>1, <1>1, FirstCopyWins DEF Visible
<1>2. CASE pos = 0
  BY <1>2 DEF CopyInv, Visible, Loaded, Intact, Meaning
<1>3. CASE pos = 1
  <2>1. cache[0] = NewTags
    BY <1>3 DEF FlushInv
  <2>2. cache[1] = cache[3] /\ cache[2] = cache[3] /\ tags = Meaning(cache[3])
    BY <1>3 DEF CopyInv
  <2>3. NewTags # Blank
    BY NewTagsType, MetaAssumption DEF MetaAssumption, TagMaps
  <2> QED BY <1>3, <2>1, <2>2, <2>3 DEF Visible, Loaded, Intact, Meaning
<1> QED BY <1>1, <1>2, <1>3

(* The assumption under which META is an atomic tag store. *)
OneInterrupt == MaxInterrupts <= 1

(* Whatever the slots hold, the next reader finds a tag map. *)
VisibleOK == Visible \in TagMaps

LEMMA VisibleInvariant == Spec => []VisibleOK
<1>1. TypeOK => VisibleOK
  <2> SUFFICES ASSUME TypeOK PROVE Visible \in TagMaps
    BY DEF VisibleOK
  <2>1. Loaded(cache) \in TagMaps
    BY LoadedType DEF TypeOK
  <2>2. pc = "talos" => NewTags \in TagMaps
    BY NewTagsType DEF TypeOK
  <2> QED BY <2>1, <2>2 DEF Visible, TypeOK
<1> QED BY <1>1, TypeCorrect, PTL

(***************************************************************************)
(* If an interrupted run is followed by one that completes, WriteTag       *)
(* replaces one key atomically and leaves all others alone, although flush *)
(* writes the two copies piece by piece; only a power loss with slots not  *)
(* yet stored can do worse, until the next run succeeds (meta.go:121-175). *)
(***************************************************************************)
THEOREM ImplementsStore ==
    ASSUME OneInterrupt
    PROVE  Spec => StoreSpec
<1> USE MetaAssumption DEF MetaAssumption
<1>1. Init => Store!Init
  <2> SUFFICES ASSUME Init PROVE Loaded(cache) \in TagMaps
    BY DEF Init, Store!Init, Store!TagMaps, Visible, TagMaps
  <2>1. cache \in [Slots -> Contents]
    BY DEF Init
  <2> QED BY <2>1, LoadedType
<1>2. TypeOK /\ VisibleOK' /\ FlushInv /\ CopyInv /\ [Next]_vars =>
        [Store!Next]_<<Visible, lost>>
  <2> SUFFICES ASSUME TypeOK, VisibleOK', FlushInv, CopyInv, [Next]_vars
               PROVE  (Visible' = Visible /\ lost' = lost) \/ Store!Next
    OBVIOUS
  <2>a. Visible' \in Store!TagMaps
    BY DEF VisibleOK, TagMaps, Store!TagMaps
  <2> USE DEF TypeOK, Running
  <2>1. CASE \E v \in Values : Call(v) BY <2>1 DEF Call, Visible, Loaded, Intact
  <2>2. CASE Load BY <2>2 DEF Load, Visible, Loaded, Intact
  <2>3. CASE Set
    BY <2>3 DEF Set, Visible, CopyInv, Loaded, Intact
  <2>4. CASE WriteSlot
    <3>1. CASE pos = 1
      <4>1. Visible = tags /\ Visible' = NewTags /\ value \in Values /\ lost' = lost
        BY <2>4, <3>1 DEF WriteSlot, Visible, NewTags
      <4> QED BY <4>1 DEF Store!Next, Store!Replace, NewTags
    <3>2. CASE pos # 1
      BY <2>4, <3>2 DEF WriteSlot, Visible, NewTags
    <3> QED BY <3>1, <3>2
  <2>5. CASE WriteTalosEnds
    <3>1. cache[0] = NewTags /\ cache[1] = NewTags
      BY <2>5 DEF WriteTalosEnds, FlushInv, Slots
    <3>2. Loaded(cache) = NewTags
      BY <2>5, <3>1, FirstCopyWins DEF WriteTalosEnds
    <3> QED BY <2>5, <3>2 DEF WriteTalosEnds, Visible, Loaded, Intact
  <2>6. CASE WriteFails
    <3>1. Loaded(cache) = Visible
      BY <2>6, StoppedFlushLoads DEF WriteFails, OneInterrupt
    <3> QED BY <2>6, <3>1 DEF WriteFails, Visible, Loaded, Intact
  <2>7. CASE WriteLegacy BY <2>7, LegacyApart DEF WriteLegacy, Visible, Loaded, Intact
  <2>8. CASE Sync
    <3>1. Visible' = Visible
      BY <2>8 DEF Sync, Visible, Loaded, Intact
    <3>2. cache[0] = NewTags /\ cache[1] = NewTags
      BY <2>8 DEF Sync, FlushInv, Slots
    <3>3. Visible[NetKey] \in Values
      <4>1. Visible = NewTags
        BY <2>8, <3>2, FirstCopyWins DEF Sync, Visible
      <4>2. value \in Values
        BY <2>8 DEF Sync
      <4> QED BY <4>1, <4>2 DEF NewTags, TagMaps
    <3>4. CASE lost' = lost
      BY <3>1, <3>4
    <3>5. CASE lost' # lost
      <4>1. lost /\ lost' = FALSE
        BY <2>8, <3>5 DEF Sync
      <4> QED BY <4>1, <3>1, <3>3, <2>a DEF Store!Next, Store!Recover
    <3> QED BY <3>4, <3>5
  <2>9. CASE Writeback BY <2>9 DEF Writeback, Visible, Loaded, Intact, NewTags
  <2>10. CASE Kill
    <3>1. Loaded(cache) = Visible
      BY <2>10, StoppedFlushLoads DEF Kill, OneInterrupt, Visible
    <3> QED BY <2>10, <3>1 DEF Kill, Visible, Loaded, Intact
  <2>11. CASE PowerLoss
    <3>1. CASE media = cache
      <4>1. cache' = cache /\ lost' = lost /\ Visible' = Loaded(cache)
        BY <2>11, <3>1 DEF PowerLoss, Visible, Loaded, Intact
      <4>2. Loaded(cache) = Visible
        BY <2>11, StoppedFlushLoads DEF PowerLoss, OneInterrupt, Visible
      <4> QED BY <4>1, <4>2
    <3>2. CASE media # cache
      <4>1. lost' = TRUE
        BY <2>11, <3>2 DEF PowerLoss
      <4> QED BY <4>1, <2>a DEF Store!Next, Store!Lose
    <3> QED BY <3>1, <3>2
  <2>12. CASE UNCHANGED vars BY <2>12 DEF vars, Visible, Loaded, Intact, NewTags
  <2> QED
    BY <2>1, <2>2, <2>3, <2>4, <2>5, <2>6, <2>7, <2>8, <2>9, <2>10, <2>11, <2>12 DEF Next
<1> QED
  BY <1>1, <1>2, TypeCorrect, VisibleInvariant, FlushInvariant, CopyInvariant, PTL
     DEF Spec, StoreSpec, Store!Spec
===============================================================================
