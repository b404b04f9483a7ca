--------------------------- MODULE ImageWriteProofs ---------------------------
(***************************************************************************)
(* Proofs about ImageWrite, for every image size, window, back-off, number *)
(* of runs and clock bound.                                                *)
(***************************************************************************)
EXTENDS ImageWrite, TLAPS

(* Every variable keeps its type. *)
LEMMA TypeCorrect == Spec => []TypeOK
<1> USE ImageAssumption DEF ImageAssumption
<1>1. Init => TypeOK
  <2> SUFFICES ASSUME Init PROVE TypeOK
    OBVIOUS
  <2>1. cuts \subseteq 0 .. NumBlocks /\ stalled \in BOOLEAN /\ cancelled \in BOOLEAN
    BY DEF Init
  <2>2. delay \in Nat \ {0} /\ delay <= Cap /\ n \in 0 .. NumBlocks
    BY DEF Init
  <2> QED BY <2>1, <2>2 DEF Init, TypeOK, Running, Writing, Blocks
<1>2. TypeOK /\ [Next]_vars => TypeOK'
  <2> SUFFICES ASSUME TypeOK, [Next]_vars PROVE TypeOK'
    OBVIOUS
  <2> USE DEF TypeOK, Running, Writing, Blocks, clock, disk, network
  <2>1. CASE Respond BY <2>1 DEF Respond
  <2>2. CASE RequestFails BY <2>2 DEF RequestFails
  <2>3. CASE Open BY <2>3 DEF Open
  <2>4. CASE CopyBlock BY <2>4 DEF CopyBlock
  <2>5. CASE CopyEnds BY <2>5 DEF CopyEnds
  <2>6. CASE CopyFails BY <2>6 DEF CopyFails
  <2>7. CASE Sync BY <2>7 DEF Sync
  <2>8. CASE ReRead BY <2>8 DEF ReRead
  <2>9. CASE GiveUp BY <2>9 DEF GiveUp
  <2>10. CASE Backoff BY <2>10 DEF Backoff
  <2>11. CASE Wake BY <2>11 DEF Wake, NextDelay
  <2>12. CASE SleepCancelled BY <2>12 DEF SleepCancelled
  <2>13. CASE Tick BY <2>13 DEF Tick
  <2>14. CASE Stall BY <2>14 DEF Stall
  <2>15. CASE Cancel BY <2>15 DEF Cancel
  <2>16. CASE Writeback BY <2>16 DEF Writeback
  <2>17. CASE Kill BY <2>17 DEF Kill
  <2>18. CASE PowerLoss BY <2>18 DEF PowerLoss, Stopped
  <2>19. CASE Rerun
    <3>1. cuts' \subseteq 0 .. NumBlocks /\ stalled' \in BOOLEAN /\ cancelled' \in BOOLEAN
      BY <2>19 DEF Rerun
    <3>2. delay' \in Nat \ {0} /\ delay' <= Cap /\ n' \in 0 .. NumBlocks
      BY <2>19 DEF Rerun
    <3> QED BY <2>19, <3>1, <3>2 DEF Rerun
  <2>20. CASE UNCHANGED vars BY <2>20 DEF vars
  <2> QED
    BY <2>1, <2>2, <2>3, <2>4, <2>5, <2>6, <2>7, <2>8, <2>9, <2>10, <2>11, <2>12,
       <2>13, <2>14, <2>15, <2>16, <2>17, <2>18, <2>19, <2>20
       DEF Next, Program, World
<1> QED BY <1>1, <1>2, PTL DEF Spec

-------------------------------------------------------------------------------
(***************************************************************************)
(* While io.Copy runs, the blocks before its offset are this attempt's and *)
(* stay so; after Sync they are on stable storage too.  Writeback and a    *)
(* power loss cannot disturb the last part, since by then cache and media  *)
(* agree on these blocks.                                                  *)
(***************************************************************************)
CopyInv ==
    /\ pc \in {"copy", "sync", "reread", "ok"} =>
         \A b \in Blocks : b < n => cache[b] = attempt
    /\ pc \in {"sync", "reread", "ok"} => n = NumBlocks \/ n \in cuts
    /\ pc \in {"reread", "ok"} =>
         \A b \in Blocks : b < n => media[b] = attempt

(* CopyInv holds throughout: io.Copy, Sync and the kernel's writeback. *)
LEMMA CopyInvariant == Spec => []CopyInv
<1> USE ImageAssumption DEF ImageAssumption
<1>1. Init => CopyInv
  BY DEF Init, CopyInv
<1>2. TypeOK /\ TypeOK' /\ CopyInv /\ [Next]_vars => CopyInv'
  <2> SUFFICES ASSUME TypeOK, TypeOK', CopyInv, [Next]_vars PROVE CopyInv'
    OBVIOUS
  <2> USE DEF CopyInv, TypeOK, Running, Writing, Blocks, clock, disk, network
  <2>1. CASE Respond BY <2>1 DEF Respond
  <2>2. CASE RequestFails BY <2>2 DEF RequestFails
  <2>3. CASE Open BY <2>3 DEF Open
  <2>4. CASE CopyBlock BY <2>4 DEF CopyBlock
  <2>5. CASE CopyEnds BY <2>5 DEF CopyEnds, EndOfStream
  <2>6. CASE CopyFails BY <2>6 DEF CopyFails
  <2>7. CASE Sync BY <2>7 DEF Sync
  <2>8. CASE ReRead BY <2>8 DEF ReRead
  <2>9. CASE GiveUp BY <2>9 DEF GiveUp
  <2>10. CASE Backoff BY <2>10 DEF Backoff
  <2>11. CASE Wake BY <2>11 DEF Wake
  <2>12. CASE SleepCancelled BY <2>12 DEF SleepCancelled
  <2>13. CASE Tick BY <2>13 DEF Tick
  <2>14. CASE Stall BY <2>14 DEF Stall
  <2>15. CASE Cancel BY <2>15 DEF Cancel
  <2>16. CASE Writeback BY <2>16 DEF Writeback
  <2>17. CASE Kill BY <2>17 DEF Kill
  <2>18. CASE PowerLoss BY <2>18 DEF PowerLoss, Stopped
  <2>19. CASE Rerun BY <2>19 DEF Rerun
  <2>20. CASE UNCHANGED vars BY <2>20 DEF vars
  <2> QED
    BY <2>1, <2>2, <2>3, <2>4, <2>5, <2>6, <2>7, <2>8, <2>9, <2>10, <2>11, <2>12,
       <2>13, <2>14, <2>15, <2>16, <2>17, <2>18, <2>19, <2>20
       DEF Next, Program, World
<1> QED BY <1>1, <1>2, TypeCorrect, PTL DEF Spec

(***************************************************************************)
(* Whenever Write reports n written blocks, one single attempt wrote them, *)
(* they are on stable storage, and they are the whole image unless the     *)
(* body broke off unnoticed (image.go:104-124).                            *)
(***************************************************************************)
THEOREM SuccessIsStored == Spec => []WrittenIsStored
<1>1. CopyInv => WrittenIsStored
  BY DEF CopyInv, WrittenIsStored
<1> QED BY <1>1, CopyInvariant, PTL

-------------------------------------------------------------------------------
(***************************************************************************)
(* The arithmetic of Retry.  Outside the sleep the clock has passed every  *)
(* wake-up so far, so "slept" has really passed; in the sleep it will have *)
(* by "wake", which was chosen inside the window.  The delay about to be   *)
(* used is at most what has been slept, plus RetryBase.                    *)
(***************************************************************************)
ClockInv ==
    /\ pc \in Running \ {"sleep"} => slept <= now /\ delay <= slept + Base
    /\ pc = "sleep" => /\ slept <= wake /\ wake <= Window
                       /\ delay <= slept /\ 2 * delay <= slept + Base
    /\ slept = 0 \/ (Window > 0 /\ slept <= Window)
    /\ pc = "failed" /\ ~cancelled /\ Window > 0 => 2 * now + Base > Window

(* ClockInv holds throughout: Retry's decision, its sleep, the clock. *)
LEMMA ClockInvariant == Spec => []ClockInv
<1> USE ImageAssumption DEF ImageAssumption
<1>1. Init => ClockInv
  BY DEF Init, ClockInv, Running, Writing
<1>2. TypeOK /\ TypeOK' /\ ClockInv /\ [Next]_vars => ClockInv'
  <2> SUFFICES ASSUME TypeOK, TypeOK', ClockInv, [Next]_vars PROVE ClockInv'
    OBVIOUS
  <2> USE DEF ClockInv, TypeOK, Running, Writing, clock, disk, network
  <2>1. CASE Respond BY <2>1 DEF Respond
  <2>2. CASE RequestFails BY <2>2 DEF RequestFails
  <2>3. CASE Open BY <2>3 DEF Open
  <2>4. CASE CopyBlock BY <2>4 DEF CopyBlock
  <2>5. CASE CopyEnds BY <2>5 DEF CopyEnds
  <2>6. CASE CopyFails BY <2>6 DEF CopyFails
  <2>7. CASE Sync BY <2>7 DEF Sync
  <2>8. CASE ReRead BY <2>8 DEF ReRead
  <2>9. CASE GiveUp BY <2>9 DEF GiveUp, NoTimeLeft
  <2>10. CASE Backoff BY <2>10 DEF Backoff, NoTimeLeft
  <2>11. CASE Wake BY <2>11 DEF Wake, NextDelay
  <2>12. CASE SleepCancelled BY <2>12 DEF SleepCancelled
  <2>13. CASE Tick BY <2>13 DEF Tick
  <2>14. CASE Stall BY <2>14 DEF Stall
  <2>15. CASE Cancel BY <2>15 DEF Cancel
  <2>16. CASE Writeback BY <2>16 DEF Writeback
  <2>17. CASE Kill BY <2>17 DEF Kill
  <2>18. CASE PowerLoss BY <2>18 DEF PowerLoss, Stopped
  <2>19. CASE Rerun BY <2>19 DEF Rerun
  <2>20. CASE UNCHANGED vars BY <2>20 DEF vars
  <2> QED
    BY <2>1, <2>2, <2>3, <2>4, <2>5, <2>6, <2>7, <2>8, <2>9, <2>10, <2>11, <2>12,
       <2>13, <2>14, <2>15, <2>16, <2>17, <2>18, <2>19, <2>20
       DEF Next, Program, World
<1> QED BY <1>1, <1>2, TypeCorrect, PTL DEF Spec

(* The back-off delays of a run never exceed its window (image.go:139-163). *)
THEOREM BackoffFitsWindow == Spec => []SleepBudget
<1>1. TypeOK /\ ClockInv => SleepBudget
  BY ImageAssumption DEF ImageAssumption, TypeOK, ClockInv, SleepBudget
<1> QED BY <1>1, TypeCorrect, ClockInvariant, PTL

(* Retry uses at least nearly half of its window (image.go:148, 160-163). *)
THEOREM PatientRetry == Spec => []GivesUpLate
<1>1. ClockInv => GivesUpLate
  BY DEF ClockInv, GivesUpLate
<1> QED BY <1>1, ClockInvariant, PTL
===============================================================================
