------------------------------- MODULE LinkNames -------------------------------
(***************************************************************************)
(* pkg/talosnet: SysfsNamer, which finds the name of the interface with a  *)
(* given MAC in sysfs, or derives the name udev will give it.              *)
(*                                                                         *)
(* What the machine is made of is constant; the names the kernel gives its *)
(* interfaces are an argument, a function from those that are there to     *)
(* numbers, in the order of their spelling.  A name is a tuple: what it is *)
(* derived from, and that number or place.                                 *)
(***************************************************************************)
EXTENDS FiniteSetsExt, Integers, Sequences

CONSTANTS
    Nics,           \* network devices, virtual ones included
    MacOf,          \* NIC -> MAC
    PathOf,         \* NIC -> the directories from its "device" upwards: PCI
                    \* functions <<slot, number>>, and NotPci for the others
    NotPci,
    None,
    Acpi, Index,    \* PCI function -> acpi_index and index, None if absent
    Multifunction,  \* PCI functions of devices that have several
    Hotplug         \* bus/pci/slots: PCI slot -> number

(* The directories of a NIC are numbered from 1, and PCI functions are     *)
(* numbered within their slot.                                             *)
ASSUME MachineAssumption ==
    \A n \in Nics :
        /\ DOMAIN PathOf[n] \subseteq Nat
        /\ \A i \in DOMAIN PathOf[n] :
            LET dev == PathOf[n][i]
            IN  dev # NotPci => dev = <<dev[1], dev[2]>> /\ dev[2] # None

OnboardIndexMax == 16383

-------------------------------------------------------------------------------
PciPlaces(nic) == {i \in DOMAIN PathOf[nic] : PathOf[nic][i] # NotPci}

OnPci(nic) == PciPlaces(nic) # {}

NearestPciDevice(nic) == PathOf[nic][Min(PciPlaces(nic))]

(* acpi_index, then index; one that is out of range does not count. *)
OnboardIndex(dev) ==
    LET valid(idx) == idx # None /\ idx \in 1 .. OnboardIndexMax
    IN  IF valid(Acpi[dev]) THEN Acpi[dev]
        ELSE IF valid(Index[dev]) THEN Index[dev] ELSE None

(* The hotplug slot of the device or of the nearest of the PCI ancestors   *)
(* directly above it.                                                      *)
HotplugSlot(nic) ==
    LET path == PathOf[nic]
        near == Min(PciPlaces(nic))
        places == {j \in near .. Len(path) :
                    /\ \A k \in near .. j : path[k] # NotPci
                    /\ path[j][1] \in DOMAIN Hotplug}
    IN  IF places = {} THEN None ELSE Hotplug[path[Min(places)][1]]

NoSuffix(dev) == None

FunctionSuffix(dev) == IF dev[2] = 0 /\ dev \notin Multifunction THEN None ELSE dev[2]

PciPathName(dev) == <<"enp", dev[1], FunctionSuffix(dev)>>

PredictableName(nic) ==
    LET dev == NearestPciDevice(nic)
    IN  IF OnboardIndex(dev) # None THEN <<"eno", OnboardIndex(dev)>>
        ELSE IF HotplugSlot(nic) # None
             THEN <<"ens", HotplugSlot(nic), FunctionSuffix(dev)>>
             ELSE PciPathName(dev)

-------------------------------------------------------------------------------
Carriers(kernel, mac) == {n \in DOMAIN kernel : MacOf[n] = mac}

(* The first entry of class/net with the MAC. *)
Carrier(kernel, mac) ==
    CHOOSE n \in Carriers(kernel, mac) :
        \A m \in Carriers(kernel, mac) : kernel[n] <= kernel[m]

(* Name, for a MAC that has a carrier. *)
LinkName(kernel, mac, naming) ==
    LET n == Carrier(kernel, mac)
    IN  IF naming = "predictable" /\ OnPci(n)
        THEN PredictableName(n) ELSE <<"kernel", kernel[n]>>
===============================================================================
