----------------------------- MODULE PartitionNode -----------------------------
(***************************************************************************)
(* pkg/partition: EnsureNode, which waits for the host to make a device    *)
(* node for a partition and otherwise makes one of its own from the        *)
(* numbers in sysfs, while the kernel may be reading the partition table   *)
(* again and the host's udev follows at its own pace.                      *)
(*                                                                         *)
(* A node is the device number behind it.  The kernel takes a node away    *)
(* together with its device (devtmpfs), the host adds nodes later.  Time   *)
(* passes anywhere in the call, also between two of its steps; how far it  *)
(* goes beyond the deadline makes no difference.                           *)
(***************************************************************************)
EXTENDS Naturals

CONSTANTS
    Numbers,    \* device numbers, major and minor
    Absent,     \* no device, no node
    Wait, Poll, \* of NodeOptions
    MaxScans    \* bound: times the table is read again during a call

ASSUME NodeAssumption ==
    /\ Absent \notin Numbers
    /\ Wait \in Nat /\ Poll \in Nat \ {0} /\ MaxScans \in Nat

VARIABLES
    pc,         \* "stat", "check", "sleep", "read", "mkdir", "remove", "mknod", "done", "failed"
    now,        \* time since the call began
    kernel,     \* what sysfs says of the partition
    host,       \* the node named by Device
    private,    \* the node in PrivateDir, perhaps one an earlier call left
    devno,      \* the numbers read from sysfs
    node,       \* what the node that was returned stands for
    seen,       \* history: numbers the partition had during the call
    since,      \* history: when the host's node appeared
    woke,       \* history: when the last sleep was over
    scans

vars == <<pc, now, kernel, host, private, devno, node, seen, since, woke, scans>>

Device == Numbers \cup {Absent}

Init ==
    /\ pc = "stat" /\ now = 0
    /\ kernel \in Device
    /\ host \in {kernel, Absent}
    /\ private \in Device
    /\ devno = Absent /\ node = Absent
    /\ seen = {kernel} \ {Absent}
    /\ since = 0 /\ woke = 0 /\ scans = 0

-------------------------------------------------------------------------------
(* The kernel and the host. *)

Vanish ==
    /\ kernel # Absent /\ scans < MaxScans
    /\ kernel' = Absent /\ host' = Absent
    /\ scans' = scans + 1
    /\ UNCHANGED <<pc, now, private, devno, node, seen, since, woke>>

Appear ==
    /\ kernel = Absent
    /\ \E n \in Numbers : kernel' = n /\ seen' = seen \cup {n}
    /\ UNCHANGED <<pc, now, host, private, devno, node, since, woke, scans>>

HostAdds ==
    /\ kernel # Absent /\ host = Absent
    /\ host' = kernel
    /\ since' = now
    /\ UNCHANGED <<pc, now, kernel, private, devno, node, seen, woke, scans>>

Tick ==
    /\ pc \notin {"done", "failed"} /\ now <= Wait
    /\ now' = now + 1
    /\ UNCHANGED <<pc, kernel, host, private, devno, node, seen, since, woke, scans>>

-------------------------------------------------------------------------------
(* EnsureNode. *)

Goto(l) == pc' = l

Stat ==
    /\ pc = "stat"
    /\ IF host # Absent THEN node' = host /\ Goto("done") ELSE node' = node /\ Goto("check")
    /\ UNCHANGED <<now, kernel, host, private, devno, seen, since, woke, scans>>

CheckRearmed ==
    /\ pc = "check"
    /\ IF now > Wait
         THEN Goto("read") /\ UNCHANGED <<now, since, woke>>
         ELSE Goto("sleep") /\ now' = 0 /\ since' = 0 /\ woke' = 0
    /\ UNCHANGED <<kernel, host, private, devno, node, seen, scans>>

Check ==
    /\ pc = "check"
    /\ IF now > Wait THEN Goto("read") ELSE Goto("sleep")
    /\ UNCHANGED <<now, kernel, host, private, devno, node, seen, since, woke, scans>>

SleepThenCheck ==
    /\ pc = "sleep"
    /\ now' = now + Poll /\ woke' = now'
    /\ Goto("check")
    /\ UNCHANGED <<kernel, host, private, devno, node, seen, since, scans>>

SleepWait ==
    /\ pc = "sleep"
    /\ now' = now + Wait + 1 /\ woke' = now'
    /\ Goto("stat")
    /\ UNCHANGED <<kernel, host, private, devno, node, seen, since, scans>>

Sleep ==
    /\ pc = "sleep"
    /\ now' = now + Poll /\ woke' = now'
    /\ Goto("stat")
    /\ UNCHANGED <<kernel, host, private, devno, node, seen, since, scans>>

ReadNumbers ==
    /\ pc = "read"
    /\ devno' = kernel
    /\ IF kernel = Absent THEN Goto("failed") ELSE Goto("mkdir")
    /\ UNCHANGED <<now, kernel, host, private, node, seen, since, woke, scans>>

MkdirAll ==
    /\ pc = "mkdir"
    /\ Goto("remove") \/ Goto("failed")
    /\ UNCHANGED <<now, kernel, host, private, devno, node, seen, since, woke, scans>>

(* Whether Remove fails is not looked at. *)
Remove ==
    /\ pc = "remove"
    /\ private' \in {Absent, private}
    /\ Goto("mknod")
    /\ UNCHANGED <<now, kernel, host, devno, node, seen, since, woke, scans>>

MknodOnLeftover ==
    /\ pc = "mknod"
    /\ \/ /\ private' = IF private = Absent THEN devno ELSE private
          /\ node' = private' /\ Goto("done")
       \/ UNCHANGED <<private, node>> /\ Goto("failed")
    /\ UNCHANGED <<now, kernel, host, devno, seen, since, woke, scans>>

(* mknod does not replace a node that is still there. *)
Mknod ==
    /\ pc = "mknod"
    /\ \/ /\ private = Absent
          /\ private' = devno /\ node' = devno /\ Goto("done")
       \/ UNCHANGED <<private, node>> /\ Goto("failed")
    /\ UNCHANGED <<now, kernel, host, devno, seen, since, woke, scans>>

Call == Stat \/ Check \/ Sleep \/ ReadNumbers \/ MkdirAll \/ Remove \/ Mknod

Next == Vanish \/ Appear \/ HostAdds \/ Tick \/ Call

Spec == Init /\ [][Next]_vars

(* The goroutine keeps running, whatever the kernel and the host do. *)
FairSpec == Spec /\ WF_vars(Call)

-------------------------------------------------------------------------------
TypeOK ==
    /\ pc \in {"stat", "check", "sleep", "read", "mkdir", "remove", "mknod", "done", "failed"}
    /\ now \in 0 .. Wait + 1 + Poll
    /\ pc = "sleep" => now <= Wait + 1
    /\ {kernel, host, private, devno, node} \subseteq Device
    /\ seen \subseteq Numbers
    /\ since \in 0 .. Wait + 1 + Poll
    /\ woke \in 0 .. Wait + 1 + Poll
    /\ scans \in 0 .. MaxScans

(***************************************************************************)
(* A node that was returned had, at some time during the call, the numbers *)
(* of this partition: never those of a node left over from an earlier call *)
(* (node.go:57-67, 102-107).                                                *)
(***************************************************************************)
NodeWasTrue == pc = "done" => node \in seen

(***************************************************************************)
(* The private node is a last resort: it is made only after the deadline,  *)
(* and never while the host has a node that was there when the last sleep  *)
(* was over.  A node that appears between the last look and the test of    *)
(* the clock is overlooked, even one that comes before the deadline        *)
(* (node.go:57-67).                                                        *)
(***************************************************************************)
HostNodePreferred ==
    pc \in {"read", "mkdir", "remove", "mknod"} =>
        now > Wait /\ (host = Absent \/ since >= woke)

(***************************************************************************)
(* The call ends even if no node ever appears (node.go:62-64).             *)
(***************************************************************************)
Ends == <>(pc \in {"done", "failed"})
===============================================================================
