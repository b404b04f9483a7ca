------------------------------ MODULE Talos2disk ------------------------------
(***************************************************************************)
(* talos2disk: run and execute.  A run makes a plan, writes the image,     *)
(* locates the EFI and META partitions, merges the kernel arguments into   *)
(* the UKIs and stores the network configuration in META.  The action is   *)
(* run again, with other inputs if the operator likes, over whatever the   *)
(* run before it left behind.                                              *)
(*                                                                         *)
(* The disk is four regions in the order the image is written: the GPT,    *)
(* the EFI partition, META, and the rest.  Of each it is known by which    *)
(* image it was written, whether in the current run ("fresh"), and what    *)
(* was edited into it since.  The steps inside a stage are those of        *)
(* ImageWrite, UkiTree and MetaTag; here each stage succeeds, fails or is  *)
(* cut short with the effects those modules allow.  A failure is either a  *)
(* fault, of which there are finitely many, or a refusal that follows from *)
(* the inputs or from what is on the disk, and comes every time.           *)
(***************************************************************************)
EXTENDS Integers

CONSTANTS
    Images,     \* images a plan can name
    Unserved,   \* images the Factory answers 404 to
    NoEfi,      \* images without an EFI partition
    NoMeta,     \* images without a META partition
    Args,       \* kernel arguments, with or without STRIP_SIGNATURE
    Refused,    \* <<image, arguments>> that EditTree refuses: no UKI, or a signed one
    Docs,       \* network configuration documents
    TooBig,     \* documents that META has no room for
    Nothing,    \* no image, no arguments, no document, no edit
    Mixed,      \* an edit that was cut short, or merged into another one
    Cuts,       \* regions after which a body that breaks off passes for complete
    MaxFaults   \* bound: failures, broken bodies, kills and power losses

ASSUME InstallAssumption ==
    /\ Unserved \subseteq Images /\ NoEfi \subseteq Images /\ NoMeta \subseteq Images
    /\ Refused \subseteq Images \X Args /\ TooBig \subseteq Docs
    /\ Nothing \notin Images \cup Args \cup Docs
    /\ Mixed \notin Args \cup Docs \cup {Nothing}
    /\ Cuts \subseteq 0 .. 3
    /\ MaxFaults \in Nat

VARIABLES
    pc,         \* the stage the run is in
    dryRun,     \* DRY_RUN
    image,      \* the image the plan names, Nothing if the inputs make no plan
    args,       \* Plan.KernelArgs
    doc,        \* Plan.NetworkDoc
    pos,        \* regions the current attempt has written
    cache,      \* region -> content, as the kernel shows it
    media,      \* region -> content, on stable storage
    table,      \* the kernel's partitions lie where the GPT on the disk says
    flushed,    \* the EFI partition was unmounted cleanly in this run
    touched,    \* history: regions edited in this run
    faults

vars == <<pc, dryRun, image, args, doc, pos, cache, media, table, flushed, touched, faults>>
inputs == <<dryRun, image, args, doc>>
disk   == <<cache, media>>

Gpt == 1  Efi == 2  Meta == 3  Rest == 4
Regions == 1 .. 4

Edits   == Args \cup Docs \cup {Nothing, Mixed}
Content == [by : Images \cup {Nothing}, fresh : BOOLEAN, edit : Edits]

\* Stages in which the disk has not been opened for writing yet.
Planning == {"plan", "request"}
Running  == Planning \cup {"copy", "sync", "reread", "locate", "node", "apply",
                           "unmount", "abort", "meta"}

Written      == [by |-> image, fresh |-> TRUE, edit |-> Nothing]
Aged(d)      == [r \in Regions |-> [d[r] EXCEPT !.fresh = FALSE]]
Fault        == faults < MaxFaults /\ faults' = faults + 1

Init ==
    /\ pc = "idle"
    /\ dryRun = FALSE
    /\ image = Nothing /\ args = Nothing /\ doc = Nothing
    /\ pos = 0
    /\ cache = [r \in Regions |-> [by |-> Nothing, fresh |-> FALSE, edit |-> Nothing]]
    /\ media = cache
    /\ table = FALSE
    /\ flushed = FALSE
    /\ touched = {}
    /\ faults = 0

(* The action is started, with whatever inputs. *)
Start(dry, i, a, d) ==
    /\ pc \notin Running
    /\ pc' = "plan"
    /\ dryRun' = dry /\ image' = i /\ args' = a /\ doc' = d
    /\ pos' = 0
    /\ cache' = Aged(cache) /\ media' = Aged(media)
    /\ table' = FALSE /\ flushed' = FALSE
    /\ touched' = {}
    /\ UNCHANGED faults

-------------------------------------------------------------------------------
(* run: everything is decided before anything is written. *)

(* The inputs make no plan, now or ever; or something is unavailable. *)
PlanFails ==
    /\ pc = "plan"
    /\ \/ image = Nothing /\ UNCHANGED faults
       \/ Fault
    /\ pc' = "failed"
    /\ UNCHANGED <<inputs, pos, disk, table, flushed, touched>>

PlannedWithoutDryRun ==
    /\ pc = "plan" /\ image # Nothing
    /\ pc' = "request"
    /\ UNCHANGED <<inputs, pos, disk, table, flushed, touched, faults>>

Planned ==
    /\ pc = "plan" /\ image # Nothing
    /\ pc' = IF dryRun THEN "ok" ELSE "request"
    /\ UNCHANGED <<inputs, pos, disk, table, flushed, touched, faults>>

-------------------------------------------------------------------------------
(* execute: image.Retry around image.Write. *)

(* 404, again and again until Retry gives up; the disk is not even opened. *)
NotServed ==
    /\ pc = "request" /\ image \in Unserved
    /\ pc' = "failed"
    /\ UNCHANGED <<inputs, pos, disk, table, flushed, touched, faults>>

Download ==
    /\ pc = "request" /\ image \notin Unserved
    /\ pc' = "copy" /\ pos' = 0
    /\ UNCHANGED <<inputs, disk, table, flushed, touched, faults>>

CopyRegionPastEnd ==
    /\ pc = "copy" /\ pos <= Rest
    /\ pos' = pos + 1
    /\ cache' = [cache EXCEPT ![pos + 1] = Written]
    /\ UNCHANGED <<pc, inputs, media, table, flushed, touched, faults>>

CopyRegionSparse ==
    /\ pc = "copy" /\ pos < Rest
    /\ pos' = pos + 1
    /\ cache' = [cache EXCEPT ![pos + 1] = [Written EXCEPT !.edit = cache[pos + 1].edit]]
    /\ UNCHANGED <<pc, inputs, media, table, flushed, touched, faults>>

CopyRegion ==
    /\ pc = "copy" /\ pos < Rest
    /\ pos' = pos + 1
    /\ cache' = [cache EXCEPT ![pos + 1] = Written]
    /\ UNCHANGED <<pc, inputs, media, table, flushed, touched, faults>>

(* The body is all there; or it breaks off where the decoder takes that for  *)
(* its end, at once or between two zstd frames, and nothing tells.           *)
CopyEnds ==
    /\ pc = "copy"
    /\ \/ pos = Rest /\ UNCHANGED faults
       \/ pos \in Cuts /\ Fault
    /\ pc' = "sync"
    /\ UNCHANGED <<inputs, pos, disk, table, flushed, touched>>

SyncImage ==
    /\ pc = "sync"
    /\ pc' = "reread"
    /\ media' = cache
    /\ UNCHANGED <<inputs, pos, cache, table, flushed, touched, faults>>

WriteFailureAccepted ==
    /\ pc \in {"request", "copy", "sync"} /\ Fault
    /\ pc' \in {"request", "locate"}
    /\ UNCHANGED <<inputs, pos, disk, table, flushed, touched>>

(* Any step of Write fails; Retry tries again from the start or gives up. *)
WriteFails ==
    /\ pc \in {"request", "copy", "sync"} /\ Fault
    /\ pc' \in {"request", "failed"}
    /\ pos' = 0
    /\ UNCHANGED <<inputs, disk, table, flushed, touched>>

(* The kernel reads the new table, or refuses to and nobody minds. *)
ReRead ==
    /\ pc = "reread"
    /\ pc' = "locate"
    /\ \/ table' = TRUE /\ UNCHANGED faults
       \/ UNCHANGED table /\ Fault
    /\ UNCHANGED <<inputs, pos, disk, flushed, touched>>

-------------------------------------------------------------------------------
(* execute: the edits. *)

MissingEfiOnly == cache[Gpt].by \in {Nothing} \cup NoEfi

(* The GPT read is the one on the disk, whichever image it came with. *)
Missing == cache[Gpt].by \in {Nothing} \cup NoEfi \cup NoMeta

(* What follows the edit of the UKIs. *)
AfterApply == IF doc = Nothing THEN "ok" ELSE "meta"

(* partition.Locate for EFI and meta.Locate for META, both before any edit. *)
Locate ==
    /\ pc = "locate" /\ ~Missing
    /\ pc' = IF args = Nothing THEN AfterApply ELSE "node"
    /\ UNCHANGED <<inputs, pos, disk, table, flushed, touched, faults>>

LocateFails ==
    /\ pc = "locate"
    /\ \/ Missing /\ UNCHANGED faults
       \/ Fault
    /\ pc' = "failed"
    /\ UNCHANGED <<inputs, pos, disk, table, flushed, touched>>

(* partition.EnsureNode: a node of that name, or one made from sysfs. *)
EnsureNode ==
    /\ pc = "node"
    /\ \/ pc' = "apply" /\ UNCHANGED faults
       \/ pc' = "failed" /\ Fault
    /\ UNCHANGED <<inputs, pos, disk, table, flushed, touched>>

Edit(d, r, e) == [d EXCEPT ![r].edit = e]

(* There is a file system with UKIs, and none is signed against the inputs. *)
Editable(c) == c.by # Nothing /\ <<c.by, args>> \notin Refused

(* Arguments merged into UKIs that hold other ones already. *)
Merged(old, new) == IF old \in {Nothing, new} THEN new ELSE Mixed

(* cmdline.Apply, through a partition of that name; if the table is stale it *)
(* may be the same partition all the same.                                   *)
Apply ==
    /\ pc = "apply" /\ Editable(cache[Efi])
    /\ cache' = Edit(cache, Efi, Merged(cache[Efi].edit, args))
    /\ pc' = "unmount"
    /\ touched' = touched \cup {Efi}
    /\ UNCHANGED <<inputs, pos, media, table, flushed, faults>>

(* Under a stale table the name may be other sectors of the disk: if they    *)
(* hold a file system with UKIs, those are edited instead.                   *)
ApplyElsewhere ==
    /\ pc = "apply" /\ ~table
    /\ cache' = Edit(cache, Rest, Mixed)
    /\ pc' = "unmount"
    /\ touched' = touched \cup {Rest}
    /\ UNCHANGED <<inputs, pos, media, table, flushed, faults>>

(* Mount fails, or EditTree does before, between or after two UKIs: by a     *)
(* fault, over a stale table, over what an earlier edit left half done, or   *)
(* since EditTree refuses these UKIs.                                        *)
ApplyFails ==
    /\ pc = "apply"
    /\ \/ Fault
       \/ /\ ~table \/ cache[Efi].edit = Mixed \/ ~Editable(cache[Efi])
          /\ UNCHANGED faults
    /\ \/ pc' = "failed" /\ UNCHANGED <<cache, touched>>
       \/ \E r \in IF table THEN {Efi} ELSE {Efi, Rest} :
            /\ pc' = "abort"
            /\ cache' = Edit(cache, r, Mixed)
            /\ touched' = touched \cup {r}
    /\ UNCHANGED <<inputs, pos, media, table, flushed>>

(* The deferred Unmount writes everything back, or fails and is logged. *)
Unmount ==
    /\ pc \in {"unmount", "abort"}
    /\ pc' = IF pc = "abort" THEN "failed" ELSE AfterApply
    /\ \/ media' = [media EXCEPT ![Efi] = cache[Efi], ![Rest] = cache[Rest]]
          /\ flushed' = TRUE /\ UNCHANGED faults
       \/ UNCHANGED <<media, flushed>> /\ Fault
    /\ UNCHANGED <<inputs, pos, cache, table, touched>>

(* meta.WriteTag through the whole-disk device. *)
WriteTag ==
    /\ pc = "meta" /\ doc \notin TooBig
    /\ pc' = "ok"
    /\ cache' = Edit(cache, Meta, doc)
    /\ media' = [media EXCEPT ![Meta] = cache'[Meta]]
    /\ touched' = touched \cup {Meta}
    /\ UNCHANGED <<inputs, pos, table, flushed, faults>>

(* The document does not fit, and nothing is written; or a fault on the way. *)
WriteTagFails ==
    /\ pc = "meta"
    /\ pc' = "failed"
    /\ \/ doc \in TooBig /\ UNCHANGED <<cache, touched, faults>>
       \/ /\ doc \notin TooBig /\ Fault
          /\ \E e \in {cache[Meta].edit, Mixed, doc} : cache' = Edit(cache, Meta, e)
          /\ touched' = touched \cup {Meta}
    /\ UNCHANGED <<inputs, pos, media, table, flushed>>

-------------------------------------------------------------------------------
(* The world around it. *)

Writeback ==
    /\ \E r \in Regions :
        /\ media[r] # cache[r]
        /\ media' = [media EXCEPT ![r] = cache[r]]
    /\ UNCHANGED <<pc, inputs, pos, cache, table, flushed, touched, faults>>

Kill ==
    /\ pc \in Running /\ Fault
    /\ pc' = "killed"
    /\ UNCHANGED <<inputs, pos, disk, table, flushed, touched>>

(* What was not written back is lost; if nothing is, this is a Kill. *)
PowerLoss ==
    /\ cache # media /\ Fault
    /\ pc' = IF pc \in Running THEN "killed" ELSE pc
    /\ cache' = media
    /\ UNCHANGED <<inputs, pos, media, table, flushed, touched>>

Program ==
    \/ PlanFails \/ Planned
    \/ NotServed \/ Download \/ CopyRegion \/ CopyEnds \/ SyncImage \/ WriteFails \/ ReRead
    \/ Locate \/ LocateFails \/ EnsureNode
    \/ Apply \/ ApplyElsewhere \/ ApplyFails \/ Unmount
    \/ WriteTag \/ WriteTagFails

Starts ==
    \E dry \in BOOLEAN, i \in Images \cup {Nothing},
       a \in Args \cup {Nothing}, d \in Docs \cup {Nothing} : Start(dry, i, a, d)

Next == Program \/ Starts \/ Writeback \/ Kill \/ PowerLoss

Spec == Init /\ [][Next]_vars

FairSpec == Spec /\ WF_vars(Program) /\ WF_vars(Starts)

-------------------------------------------------------------------------------
TypeOK ==
    /\ pc \in Running \cup {"idle", "ok", "failed", "killed"}
    /\ dryRun \in BOOLEAN
    /\ image \in Images \cup {Nothing}
    /\ args \in Args \cup {Nothing}
    /\ doc \in Docs \cup {Nothing}
    /\ pos \in 0 .. Rest
    /\ cache \in [Regions -> Content]
    /\ media \in [Regions -> Content]
    /\ table \in BOOLEAN /\ flushed \in BOOLEAN
    /\ touched \subseteq Regions
    /\ faults \in 0 .. MaxFaults

(* The disk a plan describes: this run's image and this run's edits only. *)
Target ==
    [r \in Regions |->
        [by    |-> image,
         fresh |-> TRUE,
         edit  |-> CASE r = Efi -> args [] r = Meta -> doc [] OTHER -> Nothing]]

(***************************************************************************)
(* A run that reports success has installed its plan on stable storage, as *)
(* far as the body it was sent reached: of what the copy passed nothing of *)
(* an earlier run shows through, neither its image nor its arguments nor   *)
(* its network document, and META holds the plan's document in any case    *)
(* (run.go:179-233).  The copy stops short only where the body broke off   *)
(* unnoticed (image.go:104).  The UKIs need the kernel to have read the    *)
(* new partition table, and a clean unmount.                               *)
(***************************************************************************)
OkMeansInstalled ==
    pc = "ok" /\ ~dryRun /\ (args # Nothing => table /\ flushed) =>
        /\ pos \in Cuts \cup {Rest}
        /\ \A r \in Regions : r <= pos => media[r] = Target[r]
        /\ doc # Nothing => media[Meta].edit = doc

(***************************************************************************)
(* "Before the write, every failure exits non-zero with the disk           *)
(* untouched; DRY_RUN stops at the same point on success"                  *)
(* (docs/superpowers/specs/2026-09-12-talos2disk-action-design.md:183-187, *)
(* run.go:43-84).                                                          *)
(***************************************************************************)
UntouchedBeforeWrite ==
    dryRun \/ pc = "plan" =>
        touched = {} /\ \A r \in Regions : ~cache[r].fresh /\ ~media[r].fresh

(***************************************************************************)
(* A run edits the UKIs, or META, or what lies under a stale name, only    *)
(* when the GPT on the disk names both partitions and all that the body    *)
(* held is on stable storage; what it did not hold may be an earlier       *)
(* install's, and then that is edited (run.go:185-201, image.go:104-115).  *)
(***************************************************************************)
EditsComeLast ==
    touched # {} =>
        /\ cache[Gpt].by \notin {Nothing} \cup NoEfi \cup NoMeta
        /\ pos \in Cuts \cup {Rest}
        /\ \A r \in Regions : r <= pos => cache[r].fresh /\ media[r].fresh

(* What the run is asked for cannot be had, however often it is run. *)
Hopeless ==
    \/ image = Nothing \/ image \in Unserved \cup NoEfi \cup NoMeta
    \/ args # Nothing /\ <<image, args>> \in Refused
    \/ doc \in TooBig

(***************************************************************************)
(* "Re-running the action is safe because every step rewrites its output   *)
(* in full" (2026-09-12-talos2disk-action-design.md:188-189): once faults  *)
(* have ended, every run ends, and only runs asked for something that      *)
(* cannot be had fail, whatever half-done edits earlier runs left.         *)
(***************************************************************************)
RerunsSucceed ==
    /\ <>[](pc # "killed" /\ (pc = "failed" => Hopeless))
    /\ []<>(pc \notin Running)
===============================================================================
