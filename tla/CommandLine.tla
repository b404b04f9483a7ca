------------------------------ MODULE CommandLine ------------------------------
(***************************************************************************)
(* Kernel arguments from the inputs of talos2disk to the UKI: kargs.Merge, *)
(* the layering of KERNEL_ARGS over machine.install.extraKernelArgs, the   *)
(* decision about link names taken from them, and the part of EditTree     *)
(* that merges them into every .cmdline section and decides whether the    *)
(* UKI is rewritten at all.  The action is run again with other inputs, or *)
(* the same.                                                               *)
(*                                                                         *)
(* A command line is a sequence of arguments, an argument a pair of a key  *)
(* and a value; a bare flag has the value Bare.                            *)
(*                                                                         *)
(* InstallPlan is about the other settings.  The two are proved about in   *)
(* one module, so variables and specification have names of their own.     *)
(***************************************************************************)
EXTENDS Integers, SequencesExt

CONSTANTS
    Sections,       \* the .cmdline sections of a UKI
    UkiLines,       \* command lines an image comes with
    ConfigLines,    \* machine.install.extraKernelArgs
    EnvLines,       \* KERNEL_ARGS
    Bare,           \* the value of a flag
    Ifnames,        \* the argument net.ifnames=0
    MaxUses         \* bound: runs of the action

Arguments == UNION {ToSet(line) : line \in UkiLines \cup ConfigLines \cup EnvLines}

(* Command lines are sequences. *)
ASSUME CommandLineAssumption ==
    /\ Ifnames[2] # Bare
    /\ MaxUses \in Nat
    /\ \A line \in UkiLines \cup ConfigLines \cup EnvLines : line \in Seq(ToSet(line))

VARIABLES
    stage,      \* "plan", "edit" or "done"
    config, env,    \* inputs of this run
    naming,     \* LINK_NAMING
    kargs,      \* Plan.KernelArgs
    kernelNames,    \* Plan.KernelNames
    lines,      \* section -> command line in the UKI
    before,     \* lines, as this run found them
    rewritten,  \* this run called uki.Rewrite
    last,       \* the arguments merged by the run before, none at first
    uses        \* runs of the action

inputs == <<config, env, naming>>
argVars == <<stage, inputs, kargs, kernelNames, lines, before, rewritten, last, uses>>

SetsKeyOrFlag(a, key) == a[1] = key

(* a gives key a value; a flag of that name is something else. *)
SetsKey(a, key) == a[2] # Bare /\ a[1] = key

Sets(line, key) == \E b \in ToSet(line) : SetsKey(b, key)

AppendFlag(line, a) == Append(line, a)

MergeFlag(line, a) == IF a \in ToSet(line) THEN line ELSE Append(line, a)

(* The first argument with the key of a becomes a, the others go. *)
Replace(line, a) ==
    LET kept[n \in 0 .. Len(line)] ==
            IF n = 0 THEN <<>>
            ELSE IF ~SetsKey(line[n], a[1]) THEN Append(kept[n - 1], line[n])
            ELSE IF Sets(kept[n - 1], a[1]) THEN kept[n - 1] ELSE Append(kept[n - 1], a)
    IN  kept[Len(line)]

MergeValue(line, a) == IF Sets(line, a[1]) THEN Replace(line, a) ELSE Append(line, a)

MergeOne(line, a) == IF a[2] = Bare THEN MergeFlag(line, a) ELSE MergeValue(line, a)

Merge(existing, set) ==
    LET merged[n \in 0 .. Len(set)] ==
            IF n = 0 THEN existing ELSE MergeOne(merged[n - 1], set[n])
    IN  merged[Len(set)]

ArgsInit ==
    /\ stage = "plan"
    /\ config \in ConfigLines /\ env \in EnvLines
    /\ naming \in {"", "kernel", "predictable"}
    /\ kargs = <<>> /\ kernelNames = FALSE
    /\ lines \in [Sections -> UkiLines]
    /\ before = lines
    /\ rewritten = FALSE
    /\ last = <<>>
    /\ uses = 1

(* resolveSettings and buildPlan; without arguments no UKI is touched. *)
MergeArgsUnordered ==
    /\ stage = "plan"
    /\ kargs' = Merge(env, config)
    /\ kernelNames' = CASE naming = "kernel"      -> TRUE
                        [] naming = "predictable" -> FALSE
                        [] OTHER                  -> Contains(kargs', Ifnames)
    /\ stage' = IF kargs' = <<>> THEN "done" ELSE "edit"
    /\ UNCHANGED <<inputs, lines, before, rewritten, last, uses>>

MergeArgs ==
    /\ stage = "plan"
    /\ kargs' = Merge(config, env)
    /\ kernelNames' = CASE naming = "kernel"      -> TRUE
                        [] naming = "predictable" -> FALSE
                        [] OTHER                  -> Contains(kargs', Ifnames)
    /\ stage' = IF kargs' = <<>> THEN "done" ELSE "edit"
    /\ UNCHANGED <<inputs, lines, before, rewritten, last, uses>>

(* EditTree: all sections are merged, and written back if one has changed. *)
Edit ==
    /\ stage = "edit"
    /\ lines' = [s \in Sections |-> Merge(lines[s], kargs)]
    /\ rewritten' = (lines' # lines)
    /\ last' = kargs
    /\ stage' = "done"
    /\ UNCHANGED <<inputs, kargs, kernelNames, before, uses>>

Rerun(c, e) ==
    /\ stage = "done" /\ uses < MaxUses
    /\ stage' = "plan"
    /\ config' = c /\ env' = e
    /\ before' = lines
    /\ rewritten' = FALSE
    /\ uses' = uses + 1
    /\ UNCHANGED <<naming, kargs, kernelNames, lines, last>>

ArgsNext ==
    \/ MergeArgs \/ Edit
    \/ \E c \in ConfigLines, e \in EnvLines : Rerun(c, e)

ArgsSpec == ArgsInit /\ [][ArgsNext]_argVars

-------------------------------------------------------------------------------
(* The elements of a sequence that are in S, in order. *)
Only(line, S) ==
    LET only[n \in 0 .. Len(line)] ==
            IF n = 0 THEN <<>>
            ELSE IF line[n] \in S THEN Append(only[n - 1], line[n]) ELSE only[n - 1]
    IN  only[Len(line)]

Setting(key) == {a \in Arguments : SetsKey(a, key)}

(* The values of a key in a command line, in order. *)
Values(line, key) ==
    LET found == Only(line, Setting(key))
    IN  [i \in DOMAIN found |-> found[i][2]]

Keys(line) == {a[1] : a \in {b \in ToSet(line) : b[2] # Bare}}

Flags(line) == {a \in ToSet(line) : a[2] = Bare}

(***************************************************************************)
(* Every key that extraKernelArgs or KERNEL_ARGS gives ends up in every    *)
(* section exactly once, with the value given last, KERNEL_ARGS counting   *)
(* after extraKernelArgs; every flag is there (settings.go:76,             *)
(* kargs.go:13-50).                                                        *)
(***************************************************************************)
LastWins ==
    stage = "done" =>
        \A s \in Sections :
            /\ \A k \in Keys(config \o env) :
                Values(lines[s], k) = <<Last(Values(config \o env, k))>>
            /\ Flags(config \o env) \subseteq ToSet(lines[s])

(* Arguments that set neither changes nor repeats. *)
Rest(line, set) ==
    Only(line, {a \in Arguments :
                    IF a[2] = Bare THEN a \notin Flags(set) ELSE a[1] \notin Keys(set)})

(***************************************************************************)
(* What was not asked for keeps its place: the other arguments of the      *)
(* image are the same sequence as before (kargs.go:9-12).                  *)
(***************************************************************************)
OthersKeepPlace ==
    stage = "done" =>
        \A s \in Sections :
            Rest(lines[s], config \o env) = Rest(before[s], config \o env)

(***************************************************************************)
(* A run with the arguments of the run before finds nothing to change and  *)
(* leaves the UKI alone, signature and all (cmdline.go:178-185).           *)
(***************************************************************************)
RerunRewritesNothing == [][stage = "edit" /\ kargs = last => ~rewritten']_argVars

(***************************************************************************)
(* "inferred from net.ifnames=0 in the final command line"                 *)
(* (talos2disk/README.md:44).  The plan only looks at its own arguments:   *)
(* an image that comes with net.ifnames=0 is not noticed, and a doubled    *)
(* net.ifnames in extraKernelArgs is, though its last value wins.          *)
(***************************************************************************)
LinkNamesMatch ==
    stage = "done" /\ naming = "" =>
        \A s \in Sections : kernelNames <=> Contains(lines[s], Ifnames)
===============================================================================
