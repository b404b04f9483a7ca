-------------------------- MODULE PartitionNodeProofs --------------------------
(***************************************************************************)
(* Proofs about PartitionNode, for any device numbers, any Wait and Poll   *)
(* and any number of scans of the partition table.                         *)
(***************************************************************************)
EXTENDS PartitionNode, TLAPS

(* Every variable keeps its type (node.go:32-110). *)
THEOREM TypeCorrect == Spec => []TypeOK
<1> USE NodeAssumption DEF NodeAssumption, Device
<1>1. Init => TypeOK
  BY DEF Init, TypeOK
<1>2. TypeOK /\ [Next]_vars => TypeOK'
  <2> SUFFICES ASSUME TypeOK, [Next]_vars PROVE TypeOK'
    OBVIOUS
  <2> USE DEF TypeOK, Goto
  <2>1. CASE Vanish BY <2>1 DEF Vanish
  <2>2. CASE Appear BY <2>2 DEF Appear
  <2>3. CASE HostAdds BY <2>3 DEF HostAdds
  <2>4. CASE Stat BY <2>4 DEF Stat
  <2>5. CASE Check BY <2>5 DEF Check
  <2>6. CASE Sleep BY <2>6 DEF Sleep
  <2>7. CASE ReadNumbers BY <2>7 DEF ReadNumbers
  <2>8. CASE MkdirAll BY <2>8 DEF MkdirAll
  <2>9. CASE Remove BY <2>9 DEF Remove
  <2>10. CASE Mknod BY <2>10 DEF Mknod
  <2>11. CASE UNCHANGED vars BY <2>11 DEF vars
  <2>12. CASE Tick BY <2>12 DEF Tick
  <2> QED BY <2>1, <2>2, <2>3, <2>4, <2>5, <2>6, <2>7, <2>8, <2>9, <2>10, <2>11,
          <2>12 DEF Next, Call
<1> QED BY <1>1, <1>2, PTL DEF Spec

(***************************************************************************)
(* The invariant: whatever the call can still return, the kernel said it   *)
(* of this partition during the call.  The node an earlier call may have   *)
(* left in PrivateDir is the only number here that is not in "seen".       *)
(***************************************************************************)
NodeInv ==
    /\ kernel # Absent => kernel \in seen
    /\ host # Absent => host = kernel
    /\ pc \in {"mkdir", "remove", "mknod"} => devno \in seen
    /\ NodeWasTrue

(* A returned node is of this partition (node.go:57-67, 102-107). *)
THEOREM NodeIsOfThisPartition == Spec => []NodeWasTrue
<1>1. Init => NodeInv
  BY DEF Init, NodeInv, NodeWasTrue
<1>2. TypeOK /\ NodeInv /\ [Next]_vars => NodeInv'
  <2> SUFFICES ASSUME TypeOK, NodeInv, [Next]_vars PROVE NodeInv'
    OBVIOUS
  <2> USE DEF NodeInv, NodeWasTrue, Goto
  <2>1. CASE Vanish BY <2>1 DEF Vanish
  <2>2. CASE Appear BY <2>2 DEF Appear
  <2>3. CASE HostAdds BY <2>3 DEF HostAdds
  <2>4. CASE Stat BY <2>4 DEF Stat
  <2>5. CASE Check BY <2>5 DEF Check
  <2>6. CASE Sleep BY <2>6 DEF Sleep
  <2>7. CASE ReadNumbers BY <2>7 DEF ReadNumbers
  <2>8. CASE MkdirAll BY <2>8 DEF MkdirAll
  <2>9. CASE Remove BY <2>9 DEF Remove
  <2>10. CASE Mknod BY <2>10 DEF Mknod
  <2>11. CASE UNCHANGED vars BY <2>11 DEF vars
  <2>12. CASE Tick BY <2>12 DEF Tick
  <2> QED BY <2>1, <2>2, <2>3, <2>4, <2>5, <2>6, <2>7, <2>8, <2>9, <2>10, <2>11,
          <2>12 DEF Next, Call
<1>3. NodeInv => NodeWasTrue
  BY DEF NodeInv
<1> QED BY <1>1, <1>2, <1>3, TypeCorrect, PTL DEF Spec

(***************************************************************************)
(* The invariant of the wait: past Stat, a host's node that is there       *)
(* appeared no earlier than the end of the sleep before it was looked for, *)
(* and the way to the private node leads past the deadline.                *)
(***************************************************************************)
WaitInv ==
    /\ since <= now /\ woke <= now
    /\ pc = "check" => host = Absent \/ since >= woke
    /\ HostNodePreferred

(* The private node is a last resort (node.go:57-67). *)
THEOREM PrivateNodeIsLastResort == Spec => []HostNodePreferred
<1> USE NodeAssumption DEF NodeAssumption
<1>1. Init => WaitInv
  BY DEF Init, WaitInv, HostNodePreferred
<1>2. TypeOK /\ WaitInv /\ [Next]_vars => WaitInv'
  <2> SUFFICES ASSUME TypeOK, WaitInv, [Next]_vars PROVE WaitInv'
    OBVIOUS
  <2> USE DEF TypeOK, WaitInv, HostNodePreferred, Goto
  <2>1. CASE Vanish BY <2>1 DEF Vanish
  <2>2. CASE Appear BY <2>2 DEF Appear
  <2>3. CASE HostAdds BY <2>3 DEF HostAdds
  <2>4. CASE Stat BY <2>4 DEF Stat
  <2>5. CASE Check BY <2>5 DEF Check
  <2>6. CASE Sleep BY <2>6 DEF Sleep
  <2>7. CASE ReadNumbers BY <2>7 DEF ReadNumbers
  <2>8. CASE MkdirAll BY <2>8 DEF MkdirAll
  <2>9. CASE Remove BY <2>9 DEF Remove
  <2>10. CASE Mknod BY <2>10 DEF Mknod
  <2>11. CASE UNCHANGED vars BY <2>11 DEF vars
  <2>12. CASE Tick BY <2>12 DEF Tick
  <2> QED BY <2>1, <2>2, <2>3, <2>4, <2>5, <2>6, <2>7, <2>8, <2>9, <2>10, <2>11,
          <2>12 DEF Next, Call
<1>3. WaitInv => HostNodePreferred
  BY DEF WaitInv
<1> QED BY <1>1, <1>2, <1>3, TypeCorrect, PTL DEF Spec
===============================================================================
