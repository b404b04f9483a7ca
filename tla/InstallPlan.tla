------------------------------ MODULE InstallPlan ------------------------------
(***************************************************************************)
(* What talos2disk decides before it writes: which disk, which schematic,  *)
(* which Talos version, from which Factory.  resolveSettings lets the      *)
(* environment, the machine configuration, the Hardware and the defaults   *)
(* speak in turn; buildPlan looks for the disk and asks the Factory.       *)
(* Between two runs with the same inputs the machine boots again: the      *)
(* kernel hands its names out anew, a disk cannot be probed, udev has not  *)
(* made its /dev/disk/by-id link, and the Factory serves other versions.   *)
(* The last part of the plan, the network document, is NetworkPlan.        *)
(*                                                                         *)
(* A selector is the set of disks whose attributes it matches.  Kernel     *)
(* names are numbers in the order of their spelling.  userData is the      *)
(* sequence of its YAML documents.                                         *)
(***************************************************************************)
EXTENDS FiniteSets, Integers, SequencesExt

CONSTANTS
    Disks, Names,
    None,       \* a setting that is not there
    Other,      \* a YAML document that is no v1alpha1 machine configuration
    Broken,     \* text that is no YAML
    DefaultURL, \* the public Factory
    Odd,        \* a patch level that is no number
    Inputs,     \* inputs of the operator
    Eligibles,  \* sets of disks that are eligible for installation
    Large,      \* disks that DefaultSelector matches
    Lists,      \* answers of the Factory: sequences of versions
    MaxRuns     \* bound

(* A setting that is invalid, and a machine.install.disk such as DISK_ID. *)
Bad         == <<"bad">>
Placeholder == <<"placeholder">>

Sel(S)      == <<"selector", S>>
ByName(n)   == <<"name", n>>
ByLink(d)   == <<"link", d>>

(* v1.14.2, v1.14.2-beta.0 and v1.14 *)
Full(minor, patch, pre) == <<"full", minor, patch, pre>>
Minor(minor)            == <<"minor", minor>>

(* A setting that is there is not None, userData is a sequence, and so is  *)
(* what the Factory serves, of versions with a patch level or an odd one.  *)
ASSUME InstallAssumption ==
    /\ Names \subseteq Int
    /\ None # Bad /\ Other # Broken
    /\ \A d \in Disks : None # ByLink(d)
    /\ \A S \in SUBSET Disks : None # Sel(S)
    /\ \A g \in Inputs : g.userData \in Seq(ToSet(g.userData))
    /\ \A l \in Lists :
           /\ l \in Seq(ToSet(l))
           /\ \A v \in ToSet(l) : v # None /\ (v[3] # Odd => v[3] \in Int)

NoConfig == [selector |-> None, disk |-> None, host |-> None, id |-> None, tag |-> None]

VARIABLES
    given,      \* the inputs, the same for every run
    eligible,
    name,       \* disk -> its kernel name
    linked,     \* disks that have a link
    found,      \* disks Enumerate could probe
    settings,   \* the Settings, None before they are resolved
    disk,       \* the disk this run has selected
    pc,         \* "resolve", "enumerate", "select", "factory", "stopped"
    plans,      \* the plans that runs made, in turn
    runs

vars == <<given, eligible, name, linked, found, settings, disk, pc, plans, runs>>

Namings == {f \in [Disks -> Names] : \A d, e \in Disks : d # e => f[d] # f[e]}

Init ==
    /\ given \in Inputs
    /\ eligible \in Eligibles
    /\ name \in Namings
    /\ linked \in SUBSET Disks
    /\ found = {} /\ settings = None /\ disk = None
    /\ pc = "resolve"
    /\ plans = <<>> /\ runs = 1

-------------------------------------------------------------------------------
(* The first element of s that is not blank; blank if there is none. *)
FirstNot(s, blank) ==
    IF \E i \in DOMAIN s : s[i] # blank
    THEN s[CHOOSE i \in DOMAIN s : s[i] # blank /\ \A j \in 1 .. i - 1 : s[j] = blank]
    ELSE blank

(* Parse: the first machine configuration, unless broken text comes first. *)
Parsed == FirstNot(given.userData, Other)

Config == IF Parsed \in {Other, Broken} THEN NoConfig ELSE Parsed

(* machine.install.disk counts when it is a device path. *)
InstallDiskPath == IF Config.disk = Placeholder THEN None ELSE Config.disk

FirstDisk == FirstNot(given.disks, None)

(* The tag of machine.install.image when it looks like a version. *)
ImageTag == IF Config.tag = Bad THEN None ELSE Config.tag

Layers ==
    [disk      |-> <<given.selector, Config.selector, InstallDiskPath, FirstDisk, Sel(Large)>>,
     schematic |-> <<given.schematic, Config.id, given.slug>>,
     version   |-> <<given.version, ImageTag, given.osVersion, given.contract>>,
     factory   |-> <<given.factory, Config.host, DefaultURL>>]

ChosenValid(said) == FirstNot(SelectSeq(said, LAMBDA l : l # Bad), None)

(* The first layer that is there decides, valid or not. *)
Chosen(said) == FirstNot(said, None)

Stop == pc' = "stopped" /\ UNCHANGED <<disk, plans>>

(* The Factory URL is looked at later, by NewClient. *)
Resolve ==
    /\ pc = "resolve"
    /\ settings' = [s \in DOMAIN Layers |-> Chosen(Layers[s])]
    /\ \/ Parsed = Broken /\ Stop
       \/ settings'.disk = Bad /\ Stop
       \/ {settings'.schematic, settings'.version} \cap {None, Bad} # {} /\ Stop
       \/ /\ Parsed # Broken /\ settings'.disk # Bad
          /\ {settings'.schematic, settings'.version} \cap {None, Bad} = {}
          /\ pc' = "enumerate" /\ UNCHANGED <<disk, plans>>
    /\ UNCHANGED <<given, eligible, name, linked, found, runs>>

(* Disks that cannot be probed are skipped; nothing listed ends like none. *)
Enumerate ==
    /\ pc = "enumerate"
    /\ found' \in SUBSET Disks
    /\ pc' = "select"
    /\ UNCHANGED <<given, eligible, name, linked, settings, disk, plans, runs>>

Install(d) == disk' = d /\ pc' = "factory" /\ UNCHANGED plans

FirstByName(S) == CHOOSE d \in S : \A e \in S : name[d] <= name[e]

CandidatesUnfiltered == found \cap settings.disk[2]

Candidates == found \cap eligible \cap settings.disk[2]

Select ==
    /\ pc = "select" /\ settings.disk[1] = "selector"
    /\ IF Candidates = {} THEN Stop ELSE Install(FirstByName(Candidates))
    /\ UNCHANGED <<given, eligible, name, linked, found, settings, runs>>

(* The disks a path leads to; a link that is not there leads nowhere. *)
Target ==
    {d \in found :
        \/ settings.disk = ByName(name[d])
        \/ settings.disk = ByLink(d) /\ d \in linked}

SelectPath ==
    /\ pc = "select" /\ settings.disk[1] # "selector"
    /\ IF Target \cap eligible = {} THEN Stop ELSE \E d \in Target : Install(d)
    /\ UNCHANGED <<given, eligible, name, linked, found, settings, runs>>

BetterOfAnyMinor(minor, best, v) ==
    ~v[4] /\ v[3] # Odd /\ (best = None \/ v[3] > best[3])

(* One turn of the loop of ResolveVersion. *)
Better(minor, best, v) ==
    /\ v[2] = minor /\ ~v[4] /\ v[3] # Odd
    /\ best = None \/ v[3] > best[3]

ResolveVersion(minor, versions) ==
    LET best[n \in 0 .. Len(versions)] ==
            IF n = 0 THEN None
            ELSE IF Better(minor, best[n - 1], versions[n]) THEN versions[n] ELSE best[n - 1]
    IN  best[Len(versions)]

MakePlan(version, listed) ==
    /\ plans' = Append(plans,
           [disk |-> disk, schematic |-> settings.schematic, version |-> version,
            factory |-> settings.factory, listed |-> listed])
    /\ pc' = "stopped" /\ UNCHANGED disk

IsBareMinor == settings.version[1] = "minor"

FactoryFailsSoftly ==
    /\ pc = "factory"
    /\ \/ settings.factory = Bad /\ Stop
       \/ settings.factory # Bad /\ IsBareMinor /\ MakePlan(Full(settings.version[2], 0, FALSE), <<>>)
    /\ UNCHANGED <<given, eligible, name, linked, found, settings, runs>>

(* NewClient rejects the URL, or the request for /versions fails. *)
FactoryFails ==
    /\ pc = "factory"
    /\ settings.factory = Bad \/ IsBareMinor
    /\ Stop
    /\ UNCHANGED <<given, eligible, name, linked, found, settings, runs>>

AskFactory ==
    /\ pc = "factory" /\ settings.factory # Bad
    /\ \/ ~IsBareMinor /\ MakePlan(settings.version, <<>>)
       \/ /\ IsBareMinor
          /\ \E l \in Lists :
                LET v == ResolveVersion(settings.version[2], l)
                IN  IF v = None THEN Stop ELSE MakePlan(v, l)
    /\ UNCHANGED <<given, eligible, name, linked, found, settings, runs>>

(* The workflow is run again with the same inputs, after a boot. *)
Reboot ==
    /\ pc = "stopped" /\ runs < MaxRuns
    /\ pc' = "resolve" /\ found' = {} /\ settings' = None /\ disk' = None
    /\ name' \in Namings
    /\ linked' \in SUBSET Disks
    /\ runs' = runs + 1
    /\ UNCHANGED <<given, eligible, plans>>

Next ==
    \/ Resolve \/ Enumerate \/ Select \/ SelectPath
    \/ FactoryFails \/ AskFactory \/ Reboot

Spec == Init /\ [][Next]_vars

-------------------------------------------------------------------------------
(* What a setting says of the disk if it singles out one of the machine. *)
Singles(setting, d) ==
    \/ setting = ByLink(d)
    \/ \E S \in SUBSET Disks : setting = Sel(S) /\ S \cap eligible = {d}

(***************************************************************************)
(* An operator who singles out one disk gets that disk or none, in every   *)
(* run, however the kernel names the disks, whichever of them cannot be    *)
(* probed and whatever the layers below would have said                    *)
(* (settings.go:85-108, selector.go:204-250).                              *)
(***************************************************************************)
OnlyTheDiskMeant ==
    LET said == <<given.selector, Config.selector, Config.disk>>
    IN  \A d \in Disks, l \in 1 .. 3, p \in DOMAIN plans :
            Singles(said[l], d) /\ (\A k \in 1 .. l - 1 : said[k] = None) =>
                plans[p].disk = d /\ d \in eligible

Invalid(said) ==
    \E l \in DOMAIN said : said[l] = Bad /\ \A k \in 1 .. l - 1 : said[k] = None

BrokenFirst(docs) ==
    \E i \in DOMAIN docs : docs[i] = Broken /\ \A j \in 1 .. i - 1 : docs[j] = Other

InvalidInput ==
    \/ Invalid(<<given.selector, Config.selector>>)
    \/ given.schematic = Bad
    \/ Invalid(<<given.version, ImageTag, given.osVersion, given.contract>>)
    \/ given.factory = Bad
    \/ BrokenFirst(given.userData)

(***************************************************************************)
(* A setting that is there but invalid is an error: no lower layer decides *)
(* in its place, and no default.  Nor does a machine configuration behind  *)
(* text that is no YAML (settings.go:87-98, 114-157; config.go:73-86).     *)
(***************************************************************************)
BadStopsTheRun == InvalidInput => plans = <<>>

(***************************************************************************)
(* Every plan installs the version that was asked for.  A full version is  *)
(* taken as it is; a bare minor becomes the highest released patch of that *)
(* very minor among the versions the Factory serves at that time: never a  *)
(* prerelease or an odd patch, never another minor's release however high, *)
(* whatever the order of the list (version.go:29-62, settings.go:132-153). *)
(***************************************************************************)
NewestPatch ==
    LET want == Chosen(Layers.version)
    IN  \A p \in DOMAIN plans :
            LET v == plans[p].version
                released == {w \in ToSet(plans[p].listed) : w[2] = want[2] /\ ~w[4] /\ w[3] # Odd}
            IN  IF want[1] = "minor"
                THEN v \in released /\ \A w \in released : w[3] <= v[3]
                ELSE v = want

(***************************************************************************)
(* Two runs with the same inputs install the same schematic and the same   *)
(* minor, from the same Factory.  A full version is the same both times;   *)
(* a bare minor climbs, unless the Factory no longer serves what it did    *)
(* (settings.go:112-167, run.go:133-145).                                  *)
(***************************************************************************)
VersionsOnlyClimb ==
    \A p, q \in DOMAIN plans :
        LET a == plans[p] b == plans[q]
        IN  p < q =>
                /\ a.schematic = b.schematic /\ a.factory = b.factory
                /\ a.version[2] = b.version[2]
                /\ IF a.listed = <<>> THEN a.version = b.version
                   ELSE ToSet(a.listed) \subseteq ToSet(b.listed) =>
                            a.version[3] <= b.version[3]
===============================================================================
