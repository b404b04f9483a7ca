-------------------------------- MODULE UkiTree -------------------------------
(***************************************************************************)
(* pkg/cmdline Apply and EditTree with pkg/uki Rewrite: mount the EFI      *)
(* partition, merge the arguments into every UKI that matches the pattern, *)
(* unmount.  A UKI is replaced by writing path.tmp, syncing it and         *)
(* renaming it over path.                                                  *)
(*                                                                         *)
(* "live" is the directory as the mounted file system shows it, "disk" as  *)
(* a power loss would leave it.  Directory entries reach the disk one at a *)
(* time and in any order; the data of a file counts as stored once the     *)
(* file is in "solid".  The file system is taken to keep the clusters of a *)
(* replaced file until the new entry is on disk.                           *)
(*                                                                         *)
(* Names are numbers so that they sort: UKI i is 2i, its .tmp file 2i + 1. *)
(* A command line is the arguments merged into it last (kargs.Merge is     *)
(* idempotent and lets the new arguments win).                             *)
(***************************************************************************)
EXTENDS Integers

CONSTANTS
    NumUkis,    \* UKIs on the EFI partition
    Args, Old,  \* as in UkiRegisters
    None,       \* no such file
    Partial,    \* a file that is not a whole UKI
    MaxFaults   \* bound: I/O errors, kills and power losses

ASSUME TreeAssumption ==
    /\ NumUkis \in Nat \ {0}
    /\ Old \notin Args
    /\ MaxFaults \in Nat
    /\ None # Partial

VARIABLES
    strip,      \* STRIP_SIGNATURE, the same for every run
    pattern,    \* what UKI_PATTERN, the same for every run, matches
    pc,         \* where Apply stands
    args,       \* its argument
    todo,       \* matches EditTree has not come to yet
    cur,        \* the match it is working on
    err,        \* EditTree returned an error; Unmount is still to come
    live,       \* name -> content, through the mounted file system
    disk,       \* name -> content, on stable storage
    solid,      \* names whose data is on stable storage
    flushed,    \* the last run ended with a successful Unmount
    faults

given == <<strip, pattern>>
vars  == <<given, pc, args, todo, cur, err, live, disk, solid, flushed, faults>>
files == <<live, disk, solid>>

Names   == 0 .. 2 * NumUkis - 1
Ukis    == {x \in Names : x % 2 = 0}
Tmp(u)  == u + 1
Uki     == [cmdline : Args \cup {Old}, signed : BOOLEAN]
(* No file, or no well-formed pattern; the UKIs; their .tmp files as well.   *)
Patterns == {"none", "ukis", "all"}
Content == Uki \cup {None, Partial}
Running == {"mount", "glob", "next", "inspect", "create", "write", "sync",
            "close", "rename", "syncdir", "unmount"}

ASSUME ContentAssumption == None \notin Uki /\ Partial \notin Uki

Init ==
    /\ strip \in BOOLEAN /\ pattern \in Patterns
    /\ pc = "idle"
    /\ args = Old
    /\ todo = {} /\ cur = 0
    /\ err = FALSE
    /\ live \in [Names -> Uki \cup {None}]
    /\ \A x \in Names : live[x] = None <=> x \notin Ukis
    /\ disk = live
    /\ solid = Names
    /\ flushed = FALSE
    /\ faults = 0

(* Something goes wrong that goes wrong only so often. *)
Fault == faults < MaxFaults /\ faults' = faults + 1

-------------------------------------------------------------------------------
(* Apply and EditTree. *)

Call(a) ==
    /\ pc \notin Running
    /\ pc' = "mount" /\ args' = a
    /\ err' = FALSE /\ flushed' = FALSE
    /\ UNCHANGED <<given, todo, cur, files, faults>>

Mount ==
    /\ pc = "mount"
    /\ \/ pc' = "glob" /\ UNCHANGED faults
       \/ pc' = "failed" /\ Fault
    /\ UNCHANGED <<given, args, todo, cur, err, files, flushed>>

AbortSilently == pc' = "unmount" /\ err' = FALSE

(* EditTree returns an error; the deferred Unmount follows. *)
Abort == pc' = "unmount" /\ err' = TRUE

Matches == {x \in Names : live[x] # None /\ (pattern = "all" \/ (pattern = "ukis" /\ x \in Ukis))}

(* filepath.Glob. *)
Glob ==
    /\ pc = "glob" /\ Matches # {}
    /\ pc' = "next"
    /\ todo' = Matches
    /\ UNCHANGED <<given, args, cur, err, files, flushed, faults>>

GlobFails ==
    /\ pc = "glob" /\ Matches = {}
    /\ Abort
    /\ UNCHANGED <<given, args, todo, cur, files, flushed, faults>>

(* The loop takes the matches in sorted order. *)
NextMatch ==
    /\ pc = "next"
    /\ \/ /\ todo = {}
          /\ pc' = "unmount"
          /\ UNCHANGED <<todo, cur>>
       \/ \E x \in todo :
            /\ \A y \in todo : x <= y
            /\ cur' = x /\ todo' = todo \ {x}
            /\ pc' = "inspect"
    /\ UNCHANGED <<given, args, err, files, flushed, faults>>

RefusedNever == FALSE

Refused == live[cur].signed /\ ~strip

(* uki.Inspect, the merge, and the checks before Rewrite. *)
InspectFails ==
    /\ pc = "inspect"
    /\ \/ live[cur] \in {None, Partial} /\ UNCHANGED faults
       \/ Fault
    /\ Abort
    /\ UNCHANGED <<given, args, todo, cur, files, flushed>>

Unchanged ==
    /\ pc = "inspect"
    /\ live[cur] \notin {None, Partial} /\ live[cur].cmdline = args
    /\ pc' = "next"
    /\ UNCHANGED <<given, args, todo, cur, err, files, flushed, faults>>

(* A leftover .tmp file may be whole up to its last headers: it is inspected *)
(* and rewritten, and still not a whole UKI.                                 *)
PartialPasses ==
    /\ pc = "inspect"
    /\ live[cur] = Partial
    /\ pc' = "next"
    /\ UNCHANGED <<given, args, todo, cur, err, files, flushed, faults>>

RefuseSigned ==
    /\ pc = "inspect"
    /\ live[cur] \notin {None, Partial} /\ live[cur].cmdline # args
    /\ Refused
    /\ Abort
    /\ UNCHANGED <<given, args, todo, cur, files, flushed, faults>>

Changed ==
    /\ pc = "inspect"
    /\ live[cur] \notin {None, Partial} /\ live[cur].cmdline # args
    /\ ~Refused
    /\ pc' = "create"
    /\ UNCHANGED <<given, args, todo, cur, err, files, flushed, faults>>

-------------------------------------------------------------------------------
(* uki.Rewrite. *)

(* The rewritten image: the new command line, no certificate table. *)
Rewritten == [cmdline |-> args, signed |-> FALSE]

CreateAny ==
    /\ pc = "create"
    /\ pc' = "write"
    /\ live' = [live EXCEPT ![Tmp(cur)] = Partial]
    /\ solid' = solid \ {Tmp(cur)}
    /\ UNCHANGED <<given, args, todo, cur, err, disk, flushed, faults>>

CreateExclusive ==
    /\ pc = "create" /\ cur \in Ukis
    /\ IF live[Tmp(cur)] = None
       THEN /\ pc' = "write" /\ UNCHANGED err
            /\ live' = [live EXCEPT ![Tmp(cur)] = Partial]
            /\ solid' = solid \ {Tmp(cur)}
       ELSE Abort /\ UNCHANGED <<live, solid>>
    /\ UNCHANGED <<given, args, todo, cur, disk, flushed, faults>>

(* os.OpenFile(tmp, O_CREATE|O_TRUNC|O_WRONLY). *)
Create ==
    /\ pc = "create" /\ cur \in Ukis
    /\ pc' = "write"
    /\ live' = [live EXCEPT ![Tmp(cur)] = Partial]
    /\ solid' = solid \ {Tmp(cur)}
    /\ UNCHANGED <<given, args, todo, cur, err, disk, flushed, faults>>

CreateFails ==
    /\ pc = "create" /\ Fault
    /\ Abort
    /\ UNCHANGED <<given, args, todo, cur, files, flushed>>

(* A leftover .tmp file that is a whole UKI and matches the pattern is       *)
(* rewritten like any other, by way of a .tmp.tmp file that is left out.     *)
RewriteLeftover ==
    /\ pc = "create" /\ cur \notin Ukis
    /\ pc' = "next"
    /\ live' = [live EXCEPT ![cur] = Rewritten]
    /\ solid' = solid \cup {cur}
    /\ UNCHANGED <<given, args, todo, cur, err, disk, flushed, faults>>

Write ==
    /\ pc = "write"
    /\ pc' = "sync"
    /\ live' = [live EXCEPT ![Tmp(cur)] = Rewritten]
    /\ UNCHANGED <<given, args, todo, cur, err, disk, solid, flushed, faults>>

SyncNoop ==
    /\ pc = "sync"
    /\ pc' = "close"
    /\ UNCHANGED <<given, args, todo, cur, err, files, flushed, faults>>

Sync ==
    /\ pc = "sync"
    /\ pc' = "close"
    /\ solid' = solid \cup {Tmp(cur)}
    /\ UNCHANGED <<given, args, todo, cur, err, live, disk, flushed, faults>>

Close ==
    /\ pc = "close"
    /\ pc' = "rename"
    /\ UNCHANGED <<given, args, todo, cur, err, files, flushed, faults>>

(* write, Sync, Close or Rename fails: the .tmp file is removed, which may   *)
(* fail in turn without anybody noticing.                                    *)
RewriteFails ==
    /\ pc \in {"write", "sync", "close", "rename"} /\ Fault
    /\ Abort
    /\ \/ live' = [live EXCEPT ![Tmp(cur)] = None]
       \/ UNCHANGED live
    /\ UNCHANGED <<given, args, todo, cur, disk, solid, flushed>>

(* os.Rename(tmp, path). *)
Rename ==
    /\ pc = "rename"
    /\ pc' = "syncdir"
    /\ live' = [live EXCEPT ![cur] = live[Tmp(cur)], ![Tmp(cur)] = None]
    /\ solid' = IF Tmp(cur) \in solid THEN solid \cup {cur} ELSE solid \ {cur}
    /\ UNCHANGED <<given, args, todo, cur, err, disk, flushed, faults>>

(* The entry of x can reach the disk without pointing at missing data. *)
Settled(x) == x \in solid \/ live[x] \in {None, Partial}

(* syncDir; its failure is ignored. *)
SyncDir ==
    /\ pc = "syncdir"
    /\ pc' = "next"
    /\ \/ disk' = [x \in Names |-> IF Settled(x) THEN live[x] ELSE disk[x]]
       \/ UNCHANGED disk
    /\ UNCHANGED <<given, args, todo, cur, err, live, solid, flushed, faults>>

(* The deferred Unmount.  It writes everything back; a failure is only       *)
(* logged.                                                                   *)
Unmount ==
    /\ pc = "unmount"
    /\ pc' = IF err THEN "failed" ELSE "ok"
    /\ \/ disk' = live /\ solid' = Names /\ flushed' = TRUE /\ UNCHANGED faults
       \/ UNCHANGED <<disk, solid, flushed>> /\ Fault
    /\ UNCHANGED <<given, args, todo, cur, err, live>>

-------------------------------------------------------------------------------
(* The world around it. *)

(* One directory entry reaches the disk; if the data it points at has not,   *)
(* part of it may.                                                           *)
Writeback ==
    /\ \E x \in Names :
        /\ disk[x] # live[x]
        /\ Settled(x)
        /\ disk' = [disk EXCEPT ![x] = live[x]]
    /\ UNCHANGED <<given, pc, args, todo, cur, err, live, solid, flushed, faults>>

WritebackUnsynced ==
    /\ \E x \in Names \ solid :
        /\ live[x] \in Uki
        /\ disk' = [disk EXCEPT ![x] = Partial]
    /\ UNCHANGED <<given, pc, args, todo, cur, err, live, solid, flushed, faults>>

Kill ==
    /\ pc \in Running /\ Fault
    /\ pc' = "killed"
    /\ UNCHANGED <<given, args, todo, cur, err, files, flushed>>

PowerLoss ==
    /\ Fault
    /\ pc' = IF pc \in Running THEN "killed" ELSE pc
    /\ live' = disk /\ solid' = Names
    /\ UNCHANGED <<given, args, todo, cur, err, disk, flushed>>

Program ==
    \/ Mount \/ Glob \/ GlobFails \/ NextMatch
    \/ InspectFails \/ Unchanged \/ PartialPasses \/ RefuseSigned \/ Changed
    \/ Create \/ RewriteLeftover \/ CreateFails \/ Write \/ Sync \/ Close \/ RewriteFails
    \/ Rename \/ SyncDir \/ Unmount

Calls == \E a \in Args : Call(a)

Next == Program \/ Calls \/ Writeback \/ WritebackUnsynced \/ Kill \/ PowerLoss

Spec == Init /\ [][Next]_vars

(***************************************************************************)
(* The process is scheduled and no system call hangs; whoever runs the     *)
(* action runs it again.                                                   *)
(***************************************************************************)
FairSpec == Spec /\ WF_vars(Program) /\ WF_vars(Calls)

-------------------------------------------------------------------------------
TypeOK ==
    /\ strip \in BOOLEAN /\ pattern \in Patterns
    /\ pc \in Running \cup {"idle", "ok", "failed", "killed"}
    /\ args \in Args \cup {Old}
    /\ pc # "idle" => args \in Args
    /\ todo \subseteq Names
    /\ cur \in Names
    /\ pc \in {"write", "sync", "close", "rename"} => cur \in Ukis
    /\ err \in BOOLEAN
    /\ live \in [Names -> Content]
    /\ disk \in [Names -> Content]
    /\ solid \subseteq Names
    /\ flushed \in BOOLEAN
    /\ faults \in 0 .. MaxFaults

(***************************************************************************)
(* Whatever fails and whenever power is lost, every UKI is a whole image,  *)
(* through the file system and on stable storage: the machine boots        *)
(* (uki.go:255-288).                                                       *)
(***************************************************************************)
AlwaysBootable == \A u \in Ukis : live[u] \in Uki /\ disk[u] \in Uki

(***************************************************************************)
(* A run that succeeded and unmounted has put its arguments into every     *)
(* UKI, and they are on stable storage (cmdline.go:124-206).               *)
(***************************************************************************)
OkMeansAll ==
    pc = "ok" /\ flushed => \A u \in Ukis : disk[u].cmdline = args /\ live[u] = disk[u]

(***************************************************************************)
(* On stable storage each UKI is a register that changes atomically, and   *)
(* not at all if it is signed and STRIP_SIGNATURE is not set.              *)
(***************************************************************************)
Registers == INSTANCE UkiRegisters WITH content <- [u \in Ukis |-> disk[u]]

RegistersSpec == Registers!Spec

(***************************************************************************)
(* Once the faults are over, runs succeed: whatever an interrupted run     *)
(* left on the partition does not stand in the way, unless a signature     *)
(* does, or a pattern that matches nothing or the .tmp files (uki.go:257,  *)
(* cmdline.go:143-204).                                                    *)
(***************************************************************************)
Converges ==
    []<>(pc = "ok" \/ pattern # "ukis" \/ \E u \in Ukis : live[u].signed /\ ~strip)
===============================================================================
