# A verification of the Talos install actions

This directory models the three workflow actions of this repository in TLA+:
**talos2disk** (install a Talos image on a disk and configure it),
**taloscmdline** (edit the kernel arguments in the UKIs of an installed disk)
and **talosmeta** (store the network configuration in META). They are small
sequential programs. What makes them hard is what they run on: a disk with a
page cache in front of it, a power supply, a server that may stop sending, a
kernel that gives partitions and disks names as it likes, and a workflow engine
that runs them again over whatever an interrupted run left behind. The models
are of the programs *and* of that environment.

TLC checks every module on a small instance; the theorems in the `*Proofs`
modules are proved with TLAPS for every value of the constants. `PROJECT.json`
lists components, runs, mutants, hazards, findings and theorems, and maps each
definition to the lines it models.

    tlc -config UkiTree_runs.cfg MCUkiTree      # a run
    tlapm UkiTreeProofs.tla                     # a proof

## 1. Inventory

| Component | State it keeps | Operations | What makes it correct |
|---|---|---|---|
| `pkg/image` | the whole-disk device; delay and deadline of the retry loop | `Write`: request, open, copy, sync, re-read the partition table; `Retry` | success = what was received was written by one attempt and is on stable storage; back-off within the window; ends |
| `pkg/meta` | the META partition: two copies of the Talos ADV at its start, the legacy ADV at its end | `ReadTag`, `WriteTag` (`load`, set, `flush`) | one key is replaced atomically, all others stay |
| `pkg/cmdline` | the mounted EFI partition | `Apply`: mount, `EditTree`, unmount | all UKIs or an error; signed ones only with consent |
| `pkg/uki` | a UKI file and its `.tmp` | `Inspect`, `Rewrite` (`parse`, `validate`, `write`, rename, `syncDir`) | a UKI is whole at all times; headers and data agree; the output is accepted again |
| `pkg/kargs` | none | `Merge` | the last value wins, the others keep their place, idempotent |
| `pkg/partition` | device nodes below `/dev` and in a private directory | `Locate`, `Device`, `EnsureNode` | the node returned is this partition's; the host's is preferred |
| `pkg/disks` | none; reads `/sys/block` | `Enumerate`, `ParseSelector`, `Select`, `SelectPath` | the disk meant, or none |
| `pkg/factory` | none; the Image Factory over HTTP | `Versions`, `ResolveVersion`, `ImageURL` | the newest release of the minor that was asked for |
| `pkg/hardware` | none; the metadata service over HTTP | `Fetch`, field access, `FirstDisk` | what the actions read is what the operator wrote |
| `pkg/talosconfig` | none | `Parse`, `InstallDiskPath`, `ImageTag` | the machine document; broken text is an error |
| `pkg/talosnet` | none; reads `/sys` | map the Hardware to a network document, name interfaces | every static interface once, consistent, nothing twice; a name is one NIC in every boot |
| `talos2disk` | the plan | `run`: settings, disk, version, document; `execute`: write, locate, edit, store | success = the plan, and nothing older, is installed wherever the copy reached |
| `taloscmdline`, `talosmeta` | none | one call of `cmdline.Apply` or `meta.WriteTag` | as those |

How they interact: `talos2disk` calls the packages one after the other in one
goroutine; a signal cancels its context. They share state only through the
disk: `image.Write` writes the partitions that `partition.Locate` finds,
`cmdline.Apply` mounts one of them by its *node*, and `meta.WriteTag` writes
another through the *whole-disk device*. The other actors are the Factory (it
may stall, break off, or answer with an error), the kernel (write-back,
re-reading the partition table, names of disks and interfaces), the host's udev
(nodes appear late), and whoever kills or reruns the action.

Hard to test, and therefore what the properties are for (`hazards` in
`PROJECT.json` gives each at its line):

- downloads that break off and start over, over several runs, and how their
  bytes mix on the disk; a server that never sends again; a body that is empty
  or breaks off where the decoder takes that for its end, over an older install;
- a UKI that is shorter than its headers say, which nothing checks;
- torn writes of the two ADV copies; kill and power loss between `Write`,
  `Sync` and `Rename` of a UKI; leftover `.tmp` files;
- one UKI of several failing after others were changed;
- the time between looking for a device node and the deadline, device numbers
  that change meanwhile, nodes left by an earlier call;
- disks that are named differently after each boot, or cannot be probed, when a
  workflow is rerun; invalid settings that must not fall through to others;
- a Factory that serves other versions on the next run, or none;
- interfaces that are named differently after each boot, share a MAC with a bond
  or a slot with another; a Hardware one of whose interfaces cannot be mapped;
- what several interfaces, the instance data and the overrides each say of the
  machine's name, resolvers and time servers;
- 32-bit header fields and running totals of the PE layout, over repeated
  rewrites of one file;
- precedence of kernel arguments from three sources, repeated keys, flags that
  look like keys; reruns that should change nothing.

## 2. Modules

| Module | Models | Detailed below |
|---|---|---|
| `ImageWrite` | `pkg/image` in its environment | 3.1 |
| `TagStore` | what META promises (abstract) | 3.2 |
| `MetaTag` | `pkg/meta`, implements `TagStore` | 3.2 |
| `UkiRegisters` | what an edit of the UKIs promises (abstract) | 3.3 |
| `UkiTree` | `pkg/cmdline` with `pkg/uki` on the file system, implements `UkiRegisters` | 3.3 |
| `UkiLayout` | `pkg/uki`: headers and data of the PE file | 3.4 |
| `CommandLine` | `pkg/kargs`, the argument layers of `talos2disk`, what `EditTree` decides | 3.5 |
| `PartitionNode` | `pkg/partition`: `EnsureNode` | 3.6 |
| `InstallPlan` | `resolveSettings`, `pkg/talosconfig`, `pkg/disks`, `pkg/factory`: which disk, schematic, version and Factory, across boots | 3.7 |
| `LinkNames` | `pkg/talosnet/naming.go`: names of interfaces | 3.8 |
| `NetworkPlan` | `pkg/talosnet/mapping.go` and the sources of the document in `talosmeta` and `talos2disk`, over `LinkNames` | 3.8 |
| `Talos2disk` | `run` and `execute`, composing the stages above | 3.9 |

`MC<M>` instantiates `M` for TLC, `<M>Proofs` holds its theorems; those of
`InstallPlan` and `CommandLine`, the two halves of `resolveSettings`, are together in
`PlanProofs`, so the second names its own `stage`, `uses` and `ArgsSpec`. `MetaTag` and
`UkiTree` contain their refinement mapping (`INSTANCE ... WITH`) and are checked
and proved against the abstract module. `Talos2disk` uses each stage with the
effects its own module allows: it succeeds, fails, or is cut short with part of
its effects on the disk.

Conventions. A program's position is `pc`; an action is one step between two
points at which something else can happen. `cache` (or `live`) is what the
kernel shows of a disk, `media` (or `disk`) what survives a power loss;
`Writeback` moves one to the other at any time and in any order. `Kill` ends
the process and leaves the cache; `PowerLoss` also throws the cache away.
Programs are run again after they end, over the state they find. Operators
named like another with an addition (`CopyFailsIgnored`, `NewSizeUnpadded`)
are faulty variants of it that the mutants use and nothing else does.

## 3. What each module says

### 3.1 ImageWrite

`Write` and `Retry` step by step: `Respond`/`RequestFails` (`client.Do` and the
status checks), `Open`, `CopyBlock`/`CopyEnds`/`CopyFails` (`io.Copy`), `Sync`,
`ReRead` (BLKRRPART), `GiveUp`, `Backoff`, `Wake`, `SleepCancelled`. The data is
abstracted to provenance: each block of the device holds the number of the
attempt that wrote it, counted over all runs. That is enough to tell a whole
image from a mixture, which is what the properties are about. A body that
breaks off is an error or passes for a complete one (`EndOfStream`): with each
response comes the set `cuts` of offsets at which nothing tells. There are none
if the length is known from the framing; the body of an unframed answer may end
anywhere if it is not compressed, and at `FrameEnds` if it is, the ends of its
zstd frames and the empty body, which the decoder reads as a clean end. A corrupt
stream is one of the failures of the copy.

- `WrittenIsStored`: what a successful `Write` reports as written was written by
  one attempt and is on stable storage, and is the whole image unless the body
  broke off unnoticed. In that case the code promises nothing of the rest of the
  device, which keeps what it held.
- `SleepBudget`: the delays of a run together fit in the window, however long
  the attempts between them take. `GivesUpLate`: an uncancelled run does not
  give up before nearly half of the window has passed.
- `CancelStops`, `EndsUnlessStalled`: a cancelled run ends; any run ends, or it
  waits for ever for a server that has stopped sending.
- `ReReadOnSuccess` (violated): see Findings.

Run `ImageWrite_runs`: two blocks (so that a mixture exists), two runs of the
action, all three kinds of `cuts` with `FrameEnds = {0}`, delays 1 and 2 in a
window of 3, where the third delay would double to 4 and is capped at 3. Three
attempts per run and a clock one past the window reach every branch of `Retry`,
with slow attempts and late timers. `Horizon` stops the clock and `MaxRuns` the
reruns; both only cut off behaviour that repeats.

### 3.2 TagStore and MetaTag

`flush` writes both ADV copies with one `WriteAt` and syncs once. A copy is two
slots, the least that can be torn, each holding the tag map it was serialised
from; a copy is valid if its slots agree (its checksum). `Loaded` is
`talos.NewADV`: the first valid copy, or an empty ADV. (`ReadTag` also looks into
the legacy ADV for a key it does not find; no step here changes that one, so
`Visible` leaves it out.) `WriteSlot` lets the
`WriteAt` progress slot by slot; it can fail or be killed between two. The
legacy ADV is written back unchanged, one slot at the end of the partition: in a
partition too small for both it would reach into the second copy, and what keeps
them apart is the size check of `load` (`TooSmall`). Which of the many ways a Locate, open or read can fail makes no difference:
`Load` fails or does not.

- `OkIsDurable`: a run that reports success has both copies on stable storage,
  on a partition of any size.
- `StoreSpec`: META implements `TagStore`, in which one key changes in one step.
  The mapping `Visible` is what the next reader would find: the new map from
  the moment the first copy is complete. The one thing `TagStore` excuses is a
  power loss with slots not yet stored (`Lose`), until the next run that
  succeeds (`Recover`); a power loss at any other time changes nothing.
- `LeavesOtherKeys` (violated): see Findings.

`MaxInterrupts` bounds the interruptions (kill, failing write, power loss) with
no completed run in between. It must be 1 for the refinement: two interruptions
in a row can tear first one copy and then the other. That is the strongest
claim that holds of this design. Run `MetaTag_runs`: two keys, two values that
fit and one that does not, three runs, on a partition with just the room for
everything and on one with a slot less.

### 3.3 UkiRegisters and UkiTree

`Apply` (mount, glob, loop, deferred unmount) and `Rewrite` (create `.tmp`,
write, sync, close, rename, sync the directory), with an error, a kill or a
power loss at each step. `live` is the directory through the mounted file
system, `disk` as a power loss would leave it. An entry reaches the disk alone
and at any time (`Writeback`); if the data behind it has not (`solid`), part of
it may (`WritebackUnsynced`), which leaves `Partial`. The command line of a UKI
is the arguments merged into it last; the merge itself is `CommandLine`.
`UKI_PATTERN` (which matches the UKIs, their `.tmp` files as well, or nothing: an
error, as a malformed one is, `GlobFails`) and `STRIP_SIGNATURE` are inputs, fixed
over the runs of a behaviour. vfat is assumed to keep the clusters of a replaced
file until the new directory entry is on disk. A `.tmp.tmp` file, which exists
only under a pattern that matches `.tmp`, is left out.

- `AlwaysBootable`: every UKI is a whole file at all times, live and stored.
- `OkMeansAll`: success and a successful unmount mean that every UKI has the
  arguments, on stable storage. A failing unmount is only logged by the code.
- `RegistersSpec`: stored, each UKI is a register that is replaced in one step,
  and a signed one only if `STRIP_SIGNATURE` is set.
- `Converges`: once the faults are over, runs succeed, leftovers or not. Not
  claimed if a signature is in the way, nor under a pattern that matches nothing,
  nor under one that matches `.tmp` files: a partial one may then fail every
  later run in `Inspect`.

Run `UkiTree_runs`: two UKIs (so that one can fail after the other changed), two
argument lists, all signatures, both inputs, two faults: enough for a fault in a
run that cleans up after a fault.

### 3.4 UkiLayout

`parse` with `validate`, then `write`: the loop that places the headers, the
prefix, the loop that copies the data, and again on the output with other
command lines. A section is its header (virtual address and size, file offset
and size) and its kind; `at` records where the data really went. `Word` is
2^32: header fields are taken modulo it, running totals are not. `validate`'s
sums wrap as they do in the code. Nothing compares a section with the length of
the file, `end`: reading the prefix or a command line that is not there is an error
(`PrefixFails`, `Readable`), but `io.Copy` of any other section stops at the end
of the file without one (`Held`), and all that follows is written too early.
`short` is the first section this happened to. Alignments are powers of two, as
PE demands: `align` masks bits. Checksum, SizeOfCode and
SizeOfInitializedData are left out: nothing depends on them.

- `DataWhereHeadersSay`: headers and data agree from the first `.cmdline` on up
  to the first section that the file did not hold in full; a command line fits in
  what is stored of it.
- `NoOverlap`: no section from the first `.cmdline` on reaches into a later one,
  and none grows into an earlier one that ended below the first `.cmdline`
  (`Below`); SizeOfImage covers all of these. `validate` checks no address of the
  earlier sections, so one that lies above it is promised nothing.
- `AcceptedAgain`: the output passes `parse` and `validate`, and its command lines
  can be read if no section was copied short.
- `CodeStays`: over any number of rewrites code, writable data and relocations
  keep their place.

All but the last assume `Fits`: the totals stayed below 2^32. The code does not
check this; a UKI of 4 GiB does not fit on an EFI partition. Run
`UkiLayout_rewrite`: three sections of every kind, sizes around both
alignments, gaps, tables out of order, sections before the command line and above
it in memory (`Above`), sums of `validate` that wrap (`Wrapping`), files of three
lengths, command lines that shrink and grow, two rewrites, and a `Word` of 40 that
some totals overflow.

### 3.5 CommandLine

`Merge` as a loop over the new arguments (`MergeOne`), in it `Replace` as the
loop over the line that keeps the place of the first argument with the key;
`MergeArgs` (`KERNEL_ARGS` over `extraKernelArgs`, and the decision about link
names) and `Edit` (the merge into every section, and whether the UKI is
rewritten). An argument is a key and a value, or a flag; splitting at white space
is left out. Loops are recursive functions, so that they can be proved about.

- `LastWins`: each key asked for is in every section exactly once, with the
  value given last. `OthersKeepPlace`: everything else is the same sequence.
- `RerunRewritesNothing`: a run with the arguments of the run before leaves the
  UKI and its signature alone.
- `LinkNamesMatch` (violated): see Findings.

Run `CommandLine_runs`: a key with two values, a key that is also a flag, lines
with repeats, all `KERNEL_ARGS` of up to two arguments, two sections, two runs.

### 3.6 PartitionNode

`EnsureNode`: look for the host's node, check the deadline, sleep, and in the
end make a private node from sysfs. A node is the device number behind it. The
kernel may take the partition away and add it with other numbers (`Vanish`,
`Appear`), devtmpfs removes the node with it, udev adds one later (`HostAdds`).
`private` may hold a node an earlier call left. Time passes between any two steps
(`Tick`), also between a look and the test of the clock. Two history variables
say when the host's node appeared (`since`) and when the last sleep was over
(`woke`).

- `NodeWasTrue`: the node returned had this partition's numbers at some time
  during the call. (Later the kernel may change them: nothing can prevent that.)
- `HostNodePreferred`: a private node is made only after the deadline, and never
  beside a node of the host that was there when the last sleep was over. The
  window that remains is between the last look (`node.go:58`) and the test of the
  clock (`node.go:62`): a node that appears there is overlooked, even one that
  comes before the deadline.
- `Ends`: the call ends even if no node ever appears.

Run `PartitionNode_wait`: three numbers and three scans of the table, so that
numbers change twice; a window of two polls.

### 3.7 InstallPlan

Everything `talos2disk` decides before it writes, but for the kernel arguments
(3.5) and the network document (3.8). `Resolve` is `resolveSettings`: for each
setting the first layer that is there decides, and it stops the run if it is
invalid. The layers come from the environment, from the machine configuration
that `Parse` finds in userData, from the Hardware and from defaults. `Enumerate`
lists the disks that can be probed; `Select` takes the first match by kernel
name, `SelectPath` follows a name or a link; `FactoryFails` and `AskFactory` are
`NewClient`, `Versions` and `ResolveVersion` (a loop over the Factory's list).
Between two runs the machine boots: names are handed out anew, links may be
missing, disks may not be probed, the Factory serves another list. A selector is
the set of disks it matches; a version is its minor, its patch and whether it is
a prerelease. A setting that is there but cannot be parsed is `Bad`, whichever
way; a `machine.install.image` whose tag is no version gives no version.

- `OnlyTheDiskMeant`: if the operator singled out one disk, by selector or link,
  in the environment or in the machine configuration, every run installs on that
  disk or on none.
- `BadStopsTheRun`: an invalid selector, schematic, version or Factory URL, or
  broken text before the machine configuration, stops every run; no lower layer
  decides instead.
- `NewestPatch`: every plan installs the version that was asked for: a full one as
  it is, a bare minor as the highest released patch of that very minor that the
  Factory serves at the time, never another minor's.
- `VersionsOnlyClimb`: between two runs with the same inputs the version may only
  climb, as long as the Factory still serves what it did; a full version, the
  schematic and the Factory stay as they are.

A selector that matches several disks promises less: which of them is first may
change with the boot. Run `InstallPlan_runs`: three disks and three names, all
namings and links, selectors for one disk, two, and none that is eligible, in
each layer against each other; versions, schematics and Factories from each
layer; four answers of the Factory (one without a release of the minor, one with
a prerelease on top, one where 9 would sort above 10); two runs.

### 3.8 LinkNames and NetworkPlan

`LinkNames` is `SysfsNamer`: the entry of `class/net` with the MAC and, for
predictable names, the nearest PCI device above it with its onboard index, its
hotplug slot or its path. What the machine is made of is constant; what the
kernel calls it changes with the boot. A name is what it is derived from and the
number, not a string: `eno1`, `ens1` and `enp1s0` cannot be confused.

`NetworkPlan` is the document under META key 0x0a. It comes from the operator
(`NetworkConfig`) or is built from the Hardware that was fetched
(`FetchHardware`, talosmeta) or passed (`ReadHardware`, talos2disk, which writes
no document if nothing is static). The loop skips an interface, adds it or fails
(`SkipInterface`, `AddInterface`, `AddFails`); `Finish` adds the instance data
and the overrides. An address is its family and a number, a hostname its host
and its domain, a netmask a number of bits or a mask of a family.

- `OneAddressEach`: a document configures all static interfaces and no others, in
  order. One that cannot be mapped stops the action.
- `HangsTogether`: addresses and routes are on links that the document brings up,
  a VLAN comes after its parent, prefixes fit their address.
- `SaidOnce`: resolvers and time servers are those of the override, or of all
  static interfaces, each once and in the order of first mention; a fully
  qualified override is the whole name, and any other leaves the domain alone.
- `NamesAreNics`: with predictable names, two links have the same name, in two
  interfaces, two runs or two boots, if and only if they are the same NIC. That
  is for NICs that `Plain` describes: on PCI, with a MAC of their own, and not
  behind one bridge in one hotplug slot or two on one PCI function. For the
  others see Findings.

Run `NetworkPlan_runs`: a machine with an onboard NIC whose first index is out of
range, a bond with its MAC, a NIC with two functions in a slot, two NICs behind a
bridge in another, a virtio NIC and one that is not on PCI; three boots, one with
NICs missing; all Hardware with up to two interfaces of thirteen kinds (and, under
kernel names, a third), four of them such that a part of `addInterface` must
always refuse them and others whose NIC one boot lacks; three sets of instance data and three of
overrides; two runs. Two interfaces are enough for one to fail after another was
added and for duplicates within and between them.

### 3.9 Talos2disk

`run` and `execute` as a whole; the plan is one step that fails or names what
3.5, 3.7 and 3.8 detail. The disk is four regions in the order they are
written: GPT, EFI, META and the rest. Of each it is known which image it was
written from (`by`), whether in this run (`fresh`), and what was edited into it.
A region is copied whole or not at all; torn ones are `ImageWrite`'s. The stages
take their effects from the modules above: the copy may stop after any region and
start over, or end early unnoticed (`Cuts`), an edit may be cut short (`Mixed`;
`UkiTree`, `MetaTag`), the partition may not get its node (`PartitionNode`). If the
kernel refused the new partition table, the name of the EFI partition stands for
other sectors: `ApplyElsewhere` edits those if they hold a file system with UKIs,
otherwise the mount fails.

`Locate` reads the GPT that is on the disk, whichever image it came with. So an
empty body over an older install lets the run find the *old* partitions, edit the
old UKIs and META, and report success; the model does that, and the properties
say what remains true.

A step fails by a *fault*, of which there are at most `MaxFaults`, or by a
*refusal* that follows from the inputs or the disk and comes every time: inputs
that make no plan (`PlanFails`), an image that is not served (`NotServed`), one
without EFI or META (`Missing`), UKIs that `EditTree` will not touch (`Refused`:
no match, or a signature without `STRIP_SIGNATURE`), a document that META has no
room for (`TooBig`). A disk that is too small, or one in use so that BLKRRPART is
refused each time, is not told from faults.

- `OkMeansInstalled`: of everything the copy passed, a run that succeeds has its
  image, its arguments and its document on stable storage and nothing of any
  other run, and META holds the document in any case; the copy stopped short only
  where that goes unnoticed. If there were arguments, the kernel must have read
  the new table and the unmount must have succeeded.
- `UntouchedBeforeWrite`: dry runs and failing plans write and edit nothing.
- `EditsComeLast`: nothing is edited unless the GPT on the disk names both
  partitions and all that the body held is on stable storage.
- `RerunsSucceed`: once the faults are over, every run ends, and only a run that is
  asked for something that cannot be had (`Hopeless`) fails. This is where
  leftovers could bite: what an earlier run left half edited would make `Apply`
  fail if the copy did not replace it.

Run `Talos2disk_runs`: a complete image, one without META and one that is not
served; two argument lists, one of them refused; a document that fits and one
that does not; empty bodies; two faults. The constraint `InputsOfUse` leaves out
starts that differ only in edits the run never comes to (a dry run, no plan, an
image that is not served). The number of runs is not bounded: a new run ages what
it finds, so the states repeat.

## 4. Bounds, deadlock and fairness

Every bound is a constant and named: `MaxRuns`, `Horizon` (ImageWrite),
`MaxInterrupts`, `MaxRuns` (MetaTag), `MaxFaults` (UkiTree, Talos2disk),
`MaxPasses` (UkiLayout), `MaxUses` (CommandLine), `MaxRuns` (InstallPlan, NetworkPlan),
`MaxScans` (PartitionNode), and the constraint `InputsOfUse` (Talos2disk, 3.9). They bound what the environment does, never the program. The
theorems hold for every value of them. `CHECK_DEADLOCK FALSE` is set because
the programs terminate and, within the bounds, are not run again.

Fairness is stated only where liveness is checked:

- *the program's steps* (`WF(Program)`, `WF(Call)`): one goroutine that the
  scheduler runs, and system calls that return. In ImageWrite a stalled read is
  not a step that is enabled, so nothing is assumed of the server. Where a step
  may fail or succeed, weak fairness does not choose; failures end because each
  is counted against the bound, not because fairness excludes them.
- *time passes* (`WF(Tick)` in ImageWrite).
- *the action is run again* (`WF(Calls)` in UkiTree, `WF(Starts)` in
  Talos2disk): the workflow engine or the operator retries. Without a rerun
  nothing could converge, and only the two properties about reruns use it.

## 5. What is proved

Each proof follows the same argument: type correctness, then an inductive
invariant that says what has been achieved at each `pc`, preserved by every
action (one step of the proof each), from which the properties follow.

| Theorem | Invariant it rests on | Assumes |
|---|---|---|
| `ImageWriteProofs`: `SuccessIsStored` | `CopyInv`: blocks below the offset are this attempt's; after `Sync` cache and media agree | |
| `BackoffFitsWindow`, `PatientRetry` | `ClockInv`: the delays slept so far are at most the time spent (or the pending wake-up), and the next delay is at most their sum plus the base | |
| `MetaTagProofs`: `SuccessIsDurable` | `FlushInv`: the slots written hold the new tags | |
| `ImplementsStore` | `CopyInv`: with no interruption outstanding the slots not yet written hold what was loaded | `MaxInterrupts <= 1` |
| `UkiTreeProofs`: `UkisStayWhole`, `ImplementsRegisters` | `TreeInv`: only a whole, stored file is renamed over a UKI, and the stored UKI is the live one or one that it may replace | |
| `SuccessEditsAll` | `DoneInv`: a UKI carries the arguments unless the loop has yet to come to it or is at it | |
| `UkiLayoutProofs`: `HeadersFindData`, `SectionsApart`, `OutputIsAccepted`, `CodeNeverMoves` | `LayoutInvariant`: behind the loops the sections are in order, as long as the totals fit, and headers and data agree before `short` | power-of-two alignments |
| `PartitionNodeProofs`: `NodeIsOfThisPartition` | `NodeInv`: whatever can still be returned is among the numbers seen | |
| `PrivateNodeIsLastResort` | `WaitInv`: when a look has found nothing, a host's node that is there now appeared no earlier than the end of the sleep before | |
| `PlanProofs`: `SingledOutDisk`, `InvalidSettingsStop` | `PlanInv`: past `Resolve` the settings are those of the inputs and valid, and the disk of this run and of every plan is the one meant | |
| `NewestRelease`, `RerunsAgree` | `PlanInv` also says that every plan follows from the settings: its version is the one set, or the newest release of the minor set in the list this run was served | versions in lists are numbers where they count |
| `LastValueWins`, `OthersStay`, `RerunLeavesUki` | `ArgsInv`: past the plan the arguments are `Merge(config, env)`; a run that is done has merged them into what it found; and each section is some line into which the run before merged its arguments | lines are sequences |
| `NetworkPlanProofs`: `EveryInterfaceOnce` | `LoopInv`: there is one address for each static interface behind the loop, at its rank (a cardinality) | |
| `DocumentsHangTogether` | `Coherent`: what the loop has built so far is consistent at every turn, since links are appended before what is on them | |
| `EachSaidOnce` | `SaidInv`: at every turn each list of servers is the first mentions of what the static interfaces behind the loop list, and the domain is one of theirs | lists in the Hardware and the overrides are sequences |
| `NamesLast` | `LoopInv`, `DocsInv`: every address is on the link whose name, on some boot, is that of the NIC with the interface's MAC; and names tell `Plain` NICs apart, since each is read off one place on the path of the device (`MachineAssumption`) | a PCI place is a pair with a path |
| `Talos2diskProofs`: `SuccessIsInstalled` | `Progress`: how far a run that may still succeed has got, for the regions the copy passed | |
| `PlanTouchesNothing` | `DryInv`: a dry run never gets past its plan | |
| `EditsOnlyBehindTheCopy` | `EditInv`: from the first edit on, cache and media both have a GPT that names both partitions, and all that the copy passed is this run's, cached and stored | |

and `TypeCorrect` in each module with a `TypeOK`. The invariants are needed because the
properties alone speak of the end of a run: what success implies of `media`
says nothing of the stages that led there. Besides the assumptions in
the table the proofs use the `ASSUME`s of the modules (such as: a bound is a
natural number, `None` is no value), which the runs evaluate.

What a loop of the code computes (`ResolveVersion`, `Merge`, `AppendUnique`, the
servers of many interfaces) is said by a recursive function, and the induction
theorems of the library cannot be instantiated here. Two lemmas stand in for
them, `Induction` over a set of numbers (a counterexample would have a least
element, by `NatLessThanWellFounded`) and `SeqInduction` over a set of sequences;
both take a set where the library takes an operator. `LoopExists` shows that a
loop has values at all, `RunGrows` that one more element adds one more turn, and
from these come, for every line and every set of arguments, the equations of each
function (`OnlyIs`, `ReplaceGoes`, `MergeGoes`), what merging achieves
(`Merged`, `MergeIs`) and that doing it twice is doing it once (`MergeTwice`): the
second time each flag is there and each key in one place (`InPlace`), so the
values are only put where they are (`Put`).

Model-checked only: liveness (`CancelStops`, `EndsUnlessStalled`, `Converges`,
`Ends`, `RerunsSucceed`), which TLAPS cannot prove. Every invariant and every
action property that a passing run checks has its theorem.

Every property has a mutant in `PROJECT.json`: a plausible bug in the code (a
sync forgotten, one copy loaded instead of two, a guard dropped) under which
TLC finds the property violated.

## 6. Findings

Three places where the code does not do what its documentation says. Each has a
run that expects the violation.

1. `ImageWrite_reread`: `pkg/image/image.go:31-32` promises that on success the
   partition table is re-read; a refused BLKRRPART is logged and `Write`
   succeeds.
2. `MetaTag_reruns`: `talosmeta/README.md:45` promises that a rerun leaves every
   other META key intact; both copies are written with one `WriteAt`, a power
   loss can tear both, and the rerun then starts from an empty ADV.
3. `CommandLine_names`: `talos2disk/README.md:44` infers the link names from the
   *final* command line; the code looks at the arguments it is about to merge,
   not at what the image brings along.

Smaller ones, without a run:

- `image.go:104` takes a body that is empty or breaks off between two zstd frames
  for a complete one, and nothing compares what was written with anything. Over a
  blank disk `Locate` then fails; over an older install the run edits that one and
  reports success.
- `uki.go:293-296` says that `write` puts every section at its new offset; behind
  a section that the file does not hold in full, the data lies before it.
- `validate` (`uki.go:160-163`) looks at no address of the sections before the
  first `.cmdline`: where one lies above it in memory, the command line may grow
  into it.
- `pkg/cmdline/cmdline.go:135-137` leaves files alone that already contain the
  arguments; with two arguments of one key, such as two `console=`, `Merge`
  keeps one and the file is rewritten all the same.
- `FirstDisk` (`pkg/hardware/object.go:141-148`) returns the first disk of the
  Hardware that has a device, not `spec.disks[0]`.
- The ADV being built in memory first does not avoid partial writes, as
  `2026-09-07-talosmeta-action-design.md:112-113` has it: the `WriteAt` can fail
  half-way, which `MetaTag` models and `StoreSpec` survives.
- `pkg/talosconfig/config.go:71` says "Invalid YAML is an error"; `Parse` returns
  at the first machine document, so broken text after it goes unnoticed
  (`Parsed` in `InstallPlan`).
- A tag of `machine.install.image` that is no version is treated as absent, while
  every other invalid version is an error (`ImageTag`).
- Two NICs behind a bridge in one hotplug slot, two network devices on one PCI
  function, or two USB adapters on one controller get the same predictable name
  (`HotplugSlot`, `NearestPciDevice`): the antecedent `Plain` of `NamesAreNics`.
- The default route has the family of the address, not of the gateway
  (`mapping.go:206-207`), and two interfaces with VLANs on one NIC list the
  parent link twice (`NewLinks`).
- An override whose resolvers are all blank erases those of the Hardware
  (`Servers`).

## 7. Not modelled, and the plan

Left out for good:

- YAML, JSON and HTTP decoding, environment variables, logging and `logPlan`, the
  spelling of names, versions and URLs: no property is about them, and TLC would
  enumerate strings.
- The GPT reader, the ADV codec, the block-device prober (libraries): their
  outcomes are choices of the steps that call them.
- The conditions of a disk selector one by one (size, globs, type): each compares
  one attribute; a selector is the set it matches.
- `SizeOfCode`, `SizeOfInitializedData` and the checksum of a rewritten UKI.
- The test builder `pkg/uki/ukitest`.

Planned, in this order:

1. Proofs: that `MetaTag` implements `TagStore` for more than one interruption, if
   the mapping can be made to remember what both copies held; the step from
   failures counted to runs that end, as far as it is safety.
2. One plan in `Talos2disk`: the document and the arguments of a plan as
   functions of its inputs, so that a rerun with the same inputs provably writes
   the same.
