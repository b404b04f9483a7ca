------------------------------ MODULE NetworkPlan ------------------------------
(***************************************************************************)
(* The network document that talosmeta and talos2disk write under META key *)
(* 0x0a: the operator's NETWORK_CONFIG, or what pkg/talosnet maps the      *)
(* Hardware to.  The loop over the interfaces builds links, addresses and  *)
(* routes and collects what is said once for the machine; the instance     *)
(* data and the overrides of the machine configuration come on top.        *)
(* Between two runs the machine boots and interfaces get other kernel      *)
(* names, or are not there yet.                                            *)
(*                                                                         *)
(* An address is <<family, a>>, a hostname <<host, domain>>, the domain    *)
(* None without a dot and Blank behind a trailing one, a netmask           *)
(* <<"bits", n>> or <<"mask", family, ones>>, and any of them is None when *)
(* empty and Bad when it cannot be parsed.                                 *)
(***************************************************************************)
EXTENDS LinkNames, SequencesExt

CONSTANTS
    Bad,
    Blank,      \* an empty entry in a list of servers, an empty domain
    Inputs,     \* inputs of the actions and their Hardware
    Boots,      \* kernel names of the interfaces, as boots assign them
    MaxRuns     \* bound

VARIABLES
    given,      \* the inputs, the same for every run
    kernel,     \* the kernel names of this boot
    pc,         \* "source", "interfaces", "machine", "done", "skipped", "failed"
    next,       \* the interface the loop is at
    links, addresses, routes,       \* of cfg
    hostname, domain, servers,      \* what the interfaces said so far
    docs,       \* the documents that runs ended with, in turn
    runs

vars == <<given, kernel, pc, next, links, addresses, routes, hostname, domain,
          servers, docs, runs>>

Width(family) == IF family = 6 THEN 128 ELSE 32

Kinds == {"dns", "ntp"}

(* Kernel names are numbers, each interface with one of them is a NIC of the *)
(* machine.  An address has a family, and a contiguous mask is no longer     *)
(* than its family allows.  Lists are sequences, a hostname is a pair.       *)
ASSUME InputsAssumption ==
    /\ MaxRuns \in Nat \ {0}
    /\ \A k \in Boots : DOMAIN k \subseteq Nics /\ \A n \in DOMAIN k : k[n] \in Int
    /\ \A g \in Inputs :
           /\ g.interfaces \in Seq(ToSet(g.interfaces))
           /\ \A d \in ToSet(g.interfaces) :
               /\ d.address \notin {None, Bad} => d.address[1] \in {4, 6}
               /\ d.netmask \notin {None, Bad} /\ d.netmask[1] # "bits" =>
                       d.netmask[3] \in 0 .. Width(d.netmask[2])
               /\ d.routes \in Seq(ToSet(d.routes))
               /\ \A r \in ToSet(d.routes) : r.dst # Bad => r.dst[1] \in {4, 6}
               /\ \A k \in Kinds : d[k] \in Seq(ToSet(d[k]))
           /\ \A k \in Kinds : g.overrides[k] \in Seq(ToSet(g.overrides[k]))
           /\ LET name == g.overrides.hostname
              IN  name # None => name = <<name[1], name[2]>>

NoServers == [k \in Kinds |-> <<>>]

Init ==
    /\ given \in Inputs
    /\ kernel \in Boots
    /\ pc = "source" /\ next = 1
    /\ links = <<>> /\ addresses = <<>> /\ routes = <<>>
    /\ hostname = None /\ domain = None /\ servers = NoServers
    /\ docs = <<>> /\ runs = 1

-------------------------------------------------------------------------------
(* Where the document comes from. *)

Static(d) == d.address # None

HasStaticAddress == \E n \in DOMAIN given.interfaces : Static(given.interfaces[n])

End(outcome) ==
    /\ pc' = outcome
    /\ UNCHANGED <<given, kernel, next, links, addresses, routes, hostname, domain,
                   servers, docs, runs>>

Write(doc) ==
    /\ pc' = "done" /\ docs' = Append(docs, doc)
    /\ UNCHANGED <<given, kernel, next, links, addresses, routes, hostname, domain,
                   servers, runs>>

(* talos2disk looks at LINK_NAMING first, talosmeta when it needs it. *)
NetworkConfig ==
    /\ pc = "source" /\ given.config # None
    /\ IF given.config = Bad \/ (given.action = "talos2disk" /\ given.naming = Bad)
       THEN End("failed") ELSE Write([from |-> "operator", text |-> given.config])

(* talosmeta fetches the Hardware, which may fail, and insists on interfaces. *)
FetchHardware ==
    /\ pc = "source" /\ given.config = None /\ given.action = "talosmeta"
    /\ \/ given.naming # Bad /\ given.interfaces # <<>> /\ End("interfaces")
       \/ End("failed")

(* talos2disk has the Hardware and leaves META alone without static addresses. *)
ReadHardware ==
    /\ pc = "source" /\ given.config = None /\ given.action = "talos2disk"
    /\ IF given.naming = Bad THEN End("failed")
       ELSE End(IF HasStaticAddress THEN "interfaces" ELSE "skipped")

-------------------------------------------------------------------------------
(* addInterface. *)

PrefixLengthUnchecked(netmask, family) ==
    IF netmask \in {None, Bad} THEN Bad ELSE netmask[Len(netmask)]

PrefixLength(netmask, family) ==
    IF netmask \in {None, Bad} THEN Bad
    ELSE IF netmask[1] = "bits"
         THEN IF netmask[2] \in 0 .. Width(family) THEN netmask[2] ELSE Bad
         ELSE IF netmask[2] = family THEN netmask[3] ELSE Bad

Prefix(d) == PrefixLength(d.netmask, d.address[1])

(* resolveLinkName succeeds, and everything else parses. *)
Usable(d) ==
    /\ d.iface # None \/ (d.mac # None /\ Carriers(kernel, d.mac) # {})
    /\ d.address # Bad /\ Prefix(d) # Bad
    /\ Bad \notin {d.vlan, d.gateway}
    /\ \A r \in ToSet(d.routes) : Bad \notin {r.dst, r.router}

ResolveLinkName(d) ==
    IF d.iface # None THEN d.iface ELSE LinkName(kernel, d.mac, given.naming)

AttachTo(d) ==
    LET link == ResolveLinkName(d)
    IN  IF d.vlan = None THEN link ELSE <<"vlan", link, d.vlan>>

NewLinks(d) ==
    LET link == ResolveLinkName(d)
        physical == [name |-> link, parent |-> None]
        logical == [name |-> AttachTo(d), parent |-> link]
    IN  IF d.vlan = None THEN <<physical>> ELSE <<physical, logical>>

NewAddress(d) == [address |-> d.address, bits |-> Prefix(d), link |-> AttachTo(d)]

DefaultRoutes(d) ==
    IF d.gateway = None THEN <<>>
    ELSE <<[family |-> d.address[1], dst |-> None, gateway |-> d.gateway,
            link |-> AttachTo(d)]>>

StaticRoutes(d) ==
    [k \in DOMAIN d.routes |->
        [family |-> d.routes[k].dst[1], dst |-> d.routes[k].dst,
         gateway |-> d.routes[k].router, link |-> AttachTo(d)]]

AppendAll(list, values) == list \o SelectSeq(values, LAMBDA v : v # Blank)

AppendUnique(list, values) ==
    LET all[n \in 0 .. Len(values)] ==
            IF n = 0 THEN list
            ELSE IF values[n] \in ToSet(all[n - 1]) \cup {Blank}
                 THEN all[n - 1] ELSE Append(all[n - 1], values[n])
    IN  all[Len(values)]

-------------------------------------------------------------------------------
(* The loop of FromHardwareWithOverrides. *)

Current == given.interfaces[next]

SkipTwo ==
    /\ pc = "interfaces" /\ next <= Len(given.interfaces)
    /\ ~Static(Current)
    /\ next' = next + 2
    /\ UNCHANGED <<given, kernel, pc, links, addresses, routes, hostname, domain,
                   servers, docs, runs>>

SkipInterface ==
    /\ pc = "interfaces" /\ next <= Len(given.interfaces)
    /\ ~Static(Current)
    /\ next' = next + 1
    /\ UNCHANGED <<given, kernel, pc, links, addresses, routes, hostname, domain,
                   servers, docs, runs>>

AddInterface ==
    /\ pc = "interfaces" /\ next <= Len(given.interfaces)
    /\ Static(Current) /\ Usable(Current)
    /\ links' = links \o NewLinks(Current)
    /\ addresses' = Append(addresses, NewAddress(Current))
    /\ routes' = routes \o DefaultRoutes(Current) \o StaticRoutes(Current)
    /\ hostname' = IF hostname = None THEN Current.hostname ELSE hostname
    /\ domain' = IF domain = None THEN Current.domain ELSE domain
    /\ servers' = [k \in Kinds |-> AppendUnique(servers[k], Current[k])]
    /\ next' = next + 1
    /\ UNCHANGED <<given, kernel, pc, docs, runs>>

SkipUnusable ==
    /\ pc = "interfaces" /\ next <= Len(given.interfaces)
    /\ Static(Current) /\ ~Usable(Current)
    /\ next' = next + 1
    /\ UNCHANGED <<given, kernel, pc, links, addresses, routes, hostname, domain,
                   servers, docs, runs>>

AddFails ==
    /\ pc = "interfaces" /\ next <= Len(given.interfaces)
    /\ Static(Current) /\ ~Usable(Current)
    /\ End("failed")

InterfacesEnd ==
    /\ pc = "interfaces" /\ next > Len(given.interfaces)
    /\ End(IF addresses = <<>> THEN "failed" ELSE "machine")

-------------------------------------------------------------------------------
(* The rest of it: instance data, overrides, and what is said once. *)

(* FromHardware, which talosmeta calls, has no overrides. *)
NoOverrides == [hostname |-> None, dns |-> <<>>, ntp |-> <<>>]

Overrides == IF given.action = "talosmeta" THEN NoOverrides ELSE given.overrides

PublicIPs ==
    LET public == SelectSeq(given.instance.ips,
                            LAMBDA ip : ip.public /\ ip.address # None)
    IN  [k \in DOMAIN public |-> public[k].address]

FullyQualified(name) == name # None /\ name[2] # None

(* The override, else the instance, else the first interface that has one. *)
FirstHostname ==
    IF Overrides.hostname # None THEN Overrides.hostname
    ELSE IF given.instance.hostname # None THEN given.instance.hostname ELSE hostname

Hostname ==
    LET kept == IF FullyQualified(Overrides.hostname) THEN None ELSE domain
    IN  IF FirstHostname = None THEN None
        ELSE <<FirstHostname[1], IF kept = None THEN FirstHostname[2] ELSE kept>>

Servers(kind) ==
    IF Overrides[kind] # <<>> THEN AppendUnique(<<>>, Overrides[kind]) ELSE servers[kind]

Finish ==
    /\ pc = "machine"
    /\ IF Bad \in ToSet(PublicIPs) THEN End("failed")
       ELSE Write([from |-> "hardware", links |-> links, addresses |-> addresses,
                   routes |-> routes, hostname |-> Hostname, dns |-> Servers("dns"),
                   ntp |-> Servers("ntp"), external |-> AppendUnique(<<>>, PublicIPs)])

(* The workflow is run again with the same inputs, after a boot. *)
Reboot ==
    /\ pc \in {"done", "skipped", "failed"} /\ runs < MaxRuns
    /\ pc' = "source" /\ next' = 1
    /\ links' = <<>> /\ addresses' = <<>> /\ routes' = <<>>
    /\ hostname' = None /\ domain' = None /\ servers' = NoServers
    /\ kernel' \in Boots
    /\ runs' = runs + 1
    /\ UNCHANGED <<given, docs>>

Next ==
    \/ NetworkConfig \/ FetchHardware \/ ReadHardware
    \/ SkipInterface \/ AddInterface \/ AddFails \/ InterfacesEnd
    \/ Finish \/ Reboot

Spec == Init /\ [][Next]_vars

-------------------------------------------------------------------------------
TypeOK ==
    /\ given \in Inputs
    /\ kernel \in Boots
    /\ pc \in {"source", "interfaces", "machine", "done", "skipped", "failed"}
    /\ next \in 1 .. Len(given.interfaces) + 1
    /\ \A l \in ToSet(links) : l.parent # None => l.name[1] = "vlan"
    /\ \A a \in ToSet(addresses) : a.address[1] \in {4, 6}
    /\ \A r \in ToSet(routes) : r.family \in {4, 6}
    /\ DOMAIN servers = Kinds
    /\ runs \in 1 .. MaxRuns /\ Len(docs) \in 0 .. runs

(* The documents built from the Hardware. *)
Built == {p \in DOMAIN docs : docs[p].from = "hardware"}

Statics == {n \in DOMAIN given.interfaces : given.interfaces[n].address # None}

(* The place of a static interface among the static ones. *)
Rank(n) == Cardinality({m \in Statics : m <= n})

(***************************************************************************)
(* A document configures every interface that has a static address and no  *)
(* other, in the order of the Hardware: an interface that cannot be mapped *)
(* stops the action, it is not left out (mapping.go:63-87).                *)
(***************************************************************************)
OneAddressEach ==
    \A p \in Built :
        /\ Statics # {}
        /\ Len(docs[p].addresses) = Cardinality(Statics)
        /\ \A n \in Statics :
            docs[p].addresses[Rank(n)].address = given.interfaces[n].address

(***************************************************************************)
(* A document is consistent in itself: addresses and routes are on links   *)
(* that it brings up, a VLAN comes after its parent, and a prefix is no    *)
(* longer than its address, whatever the netmask and the declared family   *)
(* say (mapping.go:145-242, 267-304).                                      *)
(***************************************************************************)
HangsTogether ==
    \A p \in Built :
        LET d == docs[p]
            names == {l.name : l \in ToSet(d.links)}
        IN  /\ \A a \in ToSet(d.addresses) :
                a.link \in names /\ a.bits \in 0 .. Width(a.address[1])
            /\ \A r \in ToSet(d.routes) : r.link \in names
            /\ \A k \in DOMAIN d.links :
                d.links[k].parent # None =>
                    \E j \in 1 .. k - 1 : d.links[j].name = d.links[k].parent

(***************************************************************************)
(* Resolvers and time servers are those of the override, or else those of  *)
(* all static interfaces, each once, in the order of first mention; a      *)
(* fully qualified override is the whole name, domain included, and no     *)
(* other override touches the domain (mapping.go:80-135, 326-356).         *)
(***************************************************************************)
Mentioned(kind) ==
    IF Overrides[kind] # <<>> THEN Overrides[kind]
    ELSE FlattenSeq([k \in 1 .. Cardinality(Statics) |->
            given.interfaces[CHOOSE n \in Statics : Rank(n) = k][kind]])

FirstMentions(list, said) ==
    /\ ToSet(list) = ToSet(said) \ {Blank}
    /\ IsInjective(list)
    /\ \A i, j \in DOMAIN list : i < j =>
        \E k \in DOMAIN said :
            said[k] = list[i] /\ \A m \in 1 .. k : said[m] # list[j]

WholeName(name) ==
    LET asked == Overrides.hostname
        domains == {given.interfaces[n].domain : n \in Statics}
    IN  /\ FullyQualified(asked) => name = asked
        /\ asked # None => name[1] = asked[1]
        /\ ~FullyQualified(asked) /\ domains # {None} => name[2] \in domains \ {None}

SaidOnce ==
    \A p \in Built :
        /\ \A k \in Kinds : FirstMentions(docs[p][k], Mentioned(k))
        /\ docs[p].hostname # None => WholeName(docs[p].hostname)

(***************************************************************************)
(* Predictable names are names: whatever the kernel calls its interfaces,  *)
(* and in any two runs, two links of the documents have the same name if   *)
(* and only if they are the same NIC.  That is, for NICs on PCI with a MAC *)
(* of their own, none of which shares its PCI function or its onboard      *)
(* index with another, or a hotplug slot through a bridge                  *)
(* (naming.go:43-216).                                                     *)
(***************************************************************************)
Apart(n, m) ==
    LET a == NearestPciDevice(n) b == NearestPciDevice(m)
    IN  /\ a # b
        /\ OnboardIndex(a) # None => OnboardIndex(a) # OnboardIndex(b)
        /\ a[1] = b[1] \/ HotplugSlot(n) = None \/ HotplugSlot(n) # HotplugSlot(m)

Plain(n) ==
    /\ OnPci(n)
    /\ \A m \in Nics \ {n} : MacOf[m] # MacOf[n] /\ (OnPci(m) => Apart(n, m))

Physical(link) == IF link[1] = "vlan" THEN link[2] ELSE link

LinkOf(p, n) == Physical(docs[p].addresses[Rank(n)].link)

ByMac ==
    {n \in Statics :
        /\ given.interfaces[n].iface = None
        /\ \A m \in Nics : MacOf[m] = given.interfaces[n].mac => Plain(m)}

NamesAreNics ==
    given.naming = "predictable" =>
        \A p, q \in Built, n, m \in ByMac :
            LinkOf(p, n) = LinkOf(q, m) <=>
                given.interfaces[n].mac = given.interfaces[m].mac
===============================================================================
