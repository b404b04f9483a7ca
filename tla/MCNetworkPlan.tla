----------------------------- MODULE MCNetworkPlan -----------------------------
(* NetworkPlan as TLC checks it, on a machine with an onboard NIC, a bond     *)
(* that took over its MAC, a NIC with two functions in a hotplug slot, two    *)
(* NICs behind a bridge in another, a virtio NIC and one that is not on PCI.  *)
EXTENDS NetworkPlan

CONSTANTS onb, bond, dual0, dual1, left, right, virt, soc,
          m1, m2, m3, m4, m5, m6, m7, sA, sB, sC, sD, sE, sF,
          host, inst, conf, lab, corp, dns1, dns2, ntp1, text

MCNics == {onb, bond, dual0, dual1, left, right, virt, soc}

MCMacOf ==
    (onb :> m1) @@ (bond :> m1) @@ (dual0 :> m2) @@ (dual1 :> m3) @@
    (left :> m4) @@ (right :> m5) @@ (virt :> m6) @@ (soc :> m7)

MCPathOf ==
    (onb :> <<<<sA, 0>>>>) @@ (bond :> <<>>) @@
    (dual0 :> <<<<sB, 0>>, <<sF, 0>>, NotPci>>) @@
    (dual1 :> <<<<sB, 1>>, <<sF, 0>>, NotPci>>) @@
    (left :> <<<<sC, 0>>, <<sE, 0>>, NotPci>>) @@
    (right :> <<<<sD, 0>>, <<sE, 0>>, NotPci>>) @@
    (virt :> <<NotPci, <<sF, 0>>, NotPci>>) @@ (soc :> <<NotPci>>)

Functions == {<<s, f>> : s \in {sA, sB, sC, sD, sE, sF}, f \in {0, 1}}

MCAcpi  == [f \in Functions |-> IF f = <<sA, 0>> THEN 0 ELSE None]
MCIndex == [f \in Functions |->
    IF f = <<sA, 0>> THEN 1 ELSE IF f = <<sB, 0>> THEN OnboardIndexMax + 1 ELSE None]
MCMultifunction == {<<sB, 0>>, <<sB, 1>>}
MCHotplug == (sB :> 3) @@ (sE :> 4)

MCBoots ==
    {(onb :> 2) @@ (dual0 :> 3) @@ (dual1 :> 4) @@ (left :> 5) @@ (right :> 6) @@
        (virt :> 7) @@ (soc :> 8),
     (bond :> 1) @@ (onb :> 8) @@ (dual0 :> 7) @@ (dual1 :> 6) @@ (left :> 5) @@
        (right :> 4) @@ (virt :> 3) @@ (soc :> 2),
     (dual0 :> 2) @@ (dual1 :> 3) @@ (virt :> 4)}

(* Interfaces of the Hardware: one without a static address, and all others  *)
(* with what mapping must tell apart.                                        *)
Dhcp == [address |-> None, netmask |-> None, gateway |-> None, routes |-> <<>>,
         vlan |-> None, mac |-> m1, iface |-> None, hostname |-> <<host, None>>,
         domain |-> lab, dns |-> <<dns2>>, ntp |-> <<>>]

V4(m, a) == [Dhcp EXCEPT !.address = <<4, a>>, !.netmask = <<"mask", 4, 24>>, !.mac = m,
                         !.hostname = None, !.domain = None, !.dns = <<dns1, Blank, dns2>>]

V6(m, a) == [Dhcp EXCEPT !.address = <<6, a>>, !.netmask = <<"bits", 64>>, !.mac = m,
                         !.dns = <<dns2, dns2>>, !.ntp = <<ntp1>>]

Route(d, r) == [dst |-> d, router |-> r]

MCInterfaces ==
    {Dhcp, V4(m1, 1), V6(m2, 2), V6(m3, 3), V4(m4, 4), V4(m6, 5), V6(m7, 6),
     [V4(m2, 7) EXCEPT !.vlan = 100, !.gateway = <<4, 254>>,
                       !.routes = <<Route(<<4, 10>>, <<4, 253>>), Route(<<6, 10>>, <<6, 1>>)>>],
     [V6(None, 8) EXCEPT !.iface = <<"kernel", 3>>, !.netmask = <<"bits", 128>>],
     [V4(m1, 9) EXCEPT !.netmask = <<"bits", 33>>],
     [V4(m2, 13) EXCEPT !.netmask = <<"mask", 6, 64>>],
     [V4(m1, 10) EXCEPT !.routes = <<Route(Bad, <<4, 253>>)>>],
     [V4(None, 11) EXCEPT !.gateway = <<4, 254>>]}

NoInstance == [hostname |-> None, ips |-> <<>>]

Ip(p, a) == [public |-> p, address |-> a]

MCInstances ==
    {NoInstance,
     [hostname |-> <<inst, corp>>,
      ips |-> <<Ip(TRUE, <<4, 1>>), Ip(FALSE, Bad), Ip(TRUE, <<4, 1>>), Ip(TRUE, None)>>],
     [hostname |-> None, ips |-> <<Ip(TRUE, Bad)>>]}

MCOverrides ==
    {NoOverrides,
     [hostname |-> <<conf, None>>, dns |-> <<dns1, Blank, dns1>>, ntp |-> <<>>],
     [hostname |-> <<conf, Blank>>, dns |-> <<>>, ntp |-> <<>>],
     [hostname |-> <<conf, corp>>, dns |-> <<>>, ntp |-> <<Blank>>]}

Given(actions, configs, namings, lists) ==
    [action : actions, config : configs, naming : namings, interfaces : lists,
     instance : MCInstances, overrides : MCOverrides]

MCInputs ==
    Given({"talosmeta", "talos2disk"}, {None}, {"predictable"},
          BoundedSeq(MCInterfaces, 2))
    \cup Given({"talos2disk"}, {None}, {"kernel"},
          {<<d, e, V4(m3, 12)>> : d \in MCInterfaces, e \in MCInterfaces})
    \cup Given({"talosmeta", "talos2disk"}, {None, Bad, text}, {"predictable", Bad},
          {<<Dhcp>>, <<V4(m1, 1)>>})
===============================================================================
