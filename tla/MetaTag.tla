-------------------------------- MODULE MetaTag -------------------------------
(***************************************************************************)
(* pkg/meta: WriteTag, as talosmeta and talos2disk call it, run again and  *)
(* again on one disk with interruptions in between.                        *)
(*                                                                         *)
(* The Talos ADV is kept in two copies, back to back, each protected by a  *)
(* checksum.  flush writes both with a single WriteAt and syncs once at    *)
(* the end.  A copy is modelled as two slots, the least that can be torn:  *)
(* slots 0 and 1 are the first copy, 2 and 3 the second.  A slot holds the *)
(* tag map it was serialised from; a copy is valid if its slots agree.     *)
(* "cache" is what the kernel shows of the partition, "media" what         *)
(* survives a power loss.  The legacy syslinux ADV is read and written     *)
(* back unchanged, into the last slot of the partition, which is one of    *)
(* these four if the partition is too small.                               *)
(***************************************************************************)
EXTENDS Integers

CONSTANTS
    Keys, NetKey, Values, None,     \* as in TagStore
    TooBig,         \* values that do not fit in the ADV
    Blank,          \* content of a slot that holds no part of a Talos ADV
    Sizes,          \* sizes of the partition, in slots
    MaxInterrupts,  \* bound: interruptions in a row, with no run completed
    MaxRuns         \* bound: runs of WriteTag

ASSUME MetaAssumption ==
    /\ NetKey \in Keys
    /\ None \notin Values
    /\ TooBig \subseteq Values
    /\ Blank \notin [Keys -> Values \cup {None}]
    /\ Sizes \subseteq Nat
    /\ MaxInterrupts \in Nat
    /\ MaxRuns \in Nat

VARIABLES
    pc,         \* where WriteTag stands
    value,      \* its argument
    tags,       \* talosADV as load returned it
    pos,        \* slots the WriteAt of flush has put into the page cache
    cache,      \* slot -> content, as read(2) sees it
    media,      \* slot -> content, on stable storage
    lost,       \* power was lost with cache ahead of media, and no run completed since
    interrupts, \* interruptions since a run last completed
    runs,       \* runs of WriteTag
    image,      \* the tags META held to begin with (for the properties)
    size        \* size of the partition

vars == <<pc, value, tags, pos, cache, media, lost, interrupts, runs, image, size>>

TagMaps  == [Keys -> Values \cup {None}]
Contents == TagMaps \cup {Blank}
Slots    == 0 .. 3
Empty    == [k \in Keys |-> None]
Running  == {"load", "set", "talos", "legacy", "sync"}

-------------------------------------------------------------------------------
(* talos.NewADV: the first valid copy, or an empty ADV if there is none. *)
Intact(s, first) == s[first] = s[first + 1] /\ s[first] # Blank

LoadedFirstOnly(s) == IF Intact(s, 0) THEN s[0] ELSE Empty

Loaded(s) ==
    IF Intact(s, 0) THEN s[0] ELSE IF Intact(s, 2) THEN s[2] ELSE Empty

(* SetTagBytes(tag, value) on what load returned. *)
NewTags == [tags EXCEPT ![NetKey] = value]

Init ==
    /\ pc = "idle"
    /\ value = None
    /\ tags = Empty
    /\ pos = 0
    /\ \E c \in Contents : cache = [s \in Slots |-> c]
    /\ media = cache /\ lost = FALSE
    /\ interrupts = 0
    /\ runs = 0
    /\ image = Loaded(cache)
    /\ size \in Sizes

-------------------------------------------------------------------------------
(* One run of WriteTag. *)

Call(v) ==
    /\ pc \notin Running /\ runs < MaxRuns
    /\ pc' = "load"
    /\ value' = v
    /\ runs' = runs + 1
    /\ UNCHANGED <<tags, pos, cache, media, lost, interrupts, image, size>>

(* Two copies of the Talos ADV, and the legacy ADV behind them. *)
TalosLen  == 4
LegacyLen == 1

TooSmallForTalos == size < TalosLen

TooSmall == size < TalosLen + LegacyLen

(* Locate, OpenFile and load; any of them may fail. *)
Load ==
    /\ pc = "load"
    /\ \/ pc' = "set" /\ ~TooSmall /\ tags' = Loaded(cache)
       \/ pc' = "failed" /\ UNCHANGED tags
    /\ UNCHANGED <<value, pos, cache, media, lost, interrupts, runs, image, size>>

(* SetTagBytes, and talosADV.Bytes at the head of flush. *)
Set ==
    /\ pc = "set"
    /\ \/ value \notin TooBig /\ pc' = "talos" /\ pos' = 0
       \/ pc' = "failed" /\ UNCHANGED pos
    /\ UNCHANGED <<value, tags, cache, media, lost, interrupts, runs, image, size>>

(* The kernel copies the next slot of the WriteAt. *)
WriteSlotPastEnd ==
    /\ pc = "talos" /\ pos <= 4
    /\ cache' = [cache EXCEPT ![pos] = NewTags]
    /\ pos' = pos + 1
    /\ UNCHANGED <<pc, value, tags, media, lost, interrupts, runs, image, size>>

WriteSlot ==
    /\ pc = "talos" /\ pos < 4
    /\ cache' = [cache EXCEPT ![pos] = NewTags]
    /\ pos' = pos + 1
    /\ UNCHANGED <<pc, value, tags, media, lost, interrupts, runs, image, size>>

WriteTalosEnds ==
    /\ pc = "talos" /\ pos = 4
    /\ pc' = "legacy"
    /\ UNCHANGED <<value, tags, pos, cache, media, lost, interrupts, runs, image, size>>

(* The WriteAt fails or comes up short somewhere. *)
WriteFails ==
    /\ pc = "talos" /\ pos < 4 /\ interrupts < MaxInterrupts
    /\ pc' = "failed"
    /\ interrupts' = interrupts + 1
    /\ UNCHANGED <<value, tags, pos, cache, media, lost, runs, image, size>>

(* legacyADV.Bytes and its WriteAt. *)
WriteLegacyIsLast ==
    /\ pc = "legacy"
    /\ pc' = "ok" /\ interrupts' = 0 /\ lost' = FALSE
    /\ UNCHANGED <<value, tags, pos, cache, media, runs, image, size>>

WriteLegacy ==
    /\ pc = "legacy"
    /\ pc' \in {"sync", "failed"}
    /\ cache' = [s \in Slots |-> IF s >= size - LegacyLen THEN Blank ELSE cache[s]]
    /\ UNCHANGED <<value, tags, pos, media, lost, interrupts, runs, image, size>>

Sync ==
    /\ pc = "sync"
    /\ \/ pc' = "ok" /\ media' = cache /\ interrupts' = 0 /\ lost' = FALSE
       \/ pc' = "failed" /\ UNCHANGED <<media, interrupts, lost>>
    /\ UNCHANGED <<value, tags, pos, cache, runs, image, size>>

-------------------------------------------------------------------------------
(* The world around it. *)

Writeback ==
    /\ \E s \in Slots :
        /\ media[s] # cache[s]
        /\ media' = [media EXCEPT ![s] = cache[s]]
    /\ UNCHANGED <<pc, value, tags, pos, cache, lost, interrupts, runs, image, size>>

(* SIGKILL, which ends even a write(2) half-way; the page cache stays. *)
Kill ==
    /\ pc \in Running /\ interrupts < MaxInterrupts
    /\ pc' = "killed"
    /\ interrupts' = interrupts + 1
    /\ UNCHANGED <<value, tags, pos, cache, media, lost, runs, image, size>>

PowerLoss ==
    /\ interrupts < MaxInterrupts
    /\ pc' = IF pc \in Running THEN "killed" ELSE pc
    /\ cache' = media
    /\ lost' = (lost \/ media # cache)
    /\ interrupts' = interrupts + 1
    /\ UNCHANGED <<value, tags, pos, media, runs, image, size>>

Next ==
    \/ \E v \in Values : Call(v)
    \/ Load \/ Set \/ WriteSlot \/ WriteTalosEnds \/ WriteFails
    \/ WriteLegacy \/ Sync
    \/ Writeback \/ Kill \/ PowerLoss

Spec == Init /\ [][Next]_vars

-------------------------------------------------------------------------------
TypeOK ==
    /\ pc \in Running \cup {"idle", "ok", "failed", "killed"}
    /\ value \in Values \cup {None}
    /\ pc # "idle" => value \in Values
    /\ tags \in TagMaps
    /\ pos \in 0 .. 4
    /\ cache \in [Slots -> Contents]
    /\ media \in [Slots -> Contents]
    /\ lost \in BOOLEAN
    /\ interrupts \in 0 .. MaxInterrupts
    /\ runs \in 0 .. MaxRuns
    /\ image \in TagMaps
    /\ size \in Sizes

(***************************************************************************)
(* A run that reports success has its value, and the tags it loaded, in    *)
(* both copies on stable storage, whatever tore them before and however    *)
(* small the partition is: the legacy ADV written after them does not      *)
(* reach into the second copy (meta.go:129, 151-175).                      *)
(***************************************************************************)
OkIsDurable == pc = "ok" => media = [s \in Slots |-> NewTags]

(***************************************************************************)
(* META implements the atomic tag store, as long as a run that was         *)
(* interrupted is followed by one that completes: but for a power loss     *)
(* with slots not yet stored, no step loses or mixes up a key.  In the     *)
(* middle of flush the next reader would find the old map until the first  *)
(* copy is complete, and the new one from then on (meta.go:121-175).       *)
(* ReadTag also looks into the legacy ADV for a tag it does not find; no   *)
(* run sets one there, and flush writes that ADV back as it was loaded.    *)
(***************************************************************************)
Visible ==
    IF pc = "talos" THEN IF pos < 2 THEN tags ELSE NewTags ELSE Loaded(cache)

Store == INSTANCE TagStore WITH tags <- Visible

StoreSpec == Store!Spec

(***************************************************************************)
(* "Re-running the action replaces key 0xa and leaves every other META key *)
(* intact" (talosmeta/README.md:45).  Not after a power loss during flush: *)
(* both copies may be torn, load then starts from an empty ADV, and the    *)
(* run that follows reports success without the other keys.                *)
(***************************************************************************)
LeavesOtherKeys ==
    pc = "ok" => \A k \in Keys \ {NetKey} : Loaded(cache)[k] = image[k]
===============================================================================
