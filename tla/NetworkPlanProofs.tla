--------------------------- MODULE NetworkPlanProofs ---------------------------
(***************************************************************************)
(* Proofs about NetworkPlan, for any machine, any Hardware, any boots and  *)
(* any number of runs.                                                     *)
(***************************************************************************)
EXTENDS NetworkPlan, FiniteSetTheorems, WellFoundedInduction, TLAPS

(* A set of numbers that is not empty has a least one. *)
LEMMA LeastNumber ==
    ASSUME NEW S, S \subseteq Nat, S # {}
    PROVE  \E n \in S : \A m \in S : n <= m
<1>1. PICK n \in S : \A m \in S : <<m, n>> \notin OpToRel(<, Nat)
  BY NatLessThanWellFounded, WFMin
<1>2. \A m \in S : ~(m < n)
  BY <1>1 DEF OpToRel
<1>3. \A m \in S : n <= m
  BY <1>2
<1> QED BY <1>3

(* A set of numbers with 0 and the successors of its elements has them all. *)
LEMMA Induction ==
    ASSUME NEW N \in Nat, NEW S, 0 \in S, \A k \in 1 .. N : k - 1 \in S => k \in S
    PROVE  \A k \in 0 .. N : k \in S
<1> DEFINE Missing == (0 .. N) \ S
<1> SUFFICES ASSUME Missing # {} PROVE FALSE
  OBVIOUS
<1>1. PICK n \in Missing : \A m \in Missing : n <= m
  <2>1. Missing \subseteq Nat
    OBVIOUS
  <2> HIDE DEF Missing
  <2> QED BY <2>1, LeastNumber
<1>2. n \in 1 .. N /\ n - 1 \in 0 .. N /\ n - 1 \in S
  BY <1>1
<1> QED BY <1>1, <1>2

(* A loop that turns the value it has with each i up to N has values. *)
HasValues(T, first, N, turn) ==
    \E f \in [0 .. N -> T] :
        f[0] = first /\ \A n \in 1 .. N : f[n] = turn[<<f[n - 1], n>>]

LEMMA LoopExists ==
    ASSUME NEW T, NEW first \in T, NEW N \in Nat, NEW turn \in [T \X (1 .. N) -> T]
    PROVE  HasValues(T, first, N, turn)
<1> DEFINE Runs(f, k) ==
        /\ f \in [0 .. k -> T]
        /\ f[0] = first /\ \A n \in 1 .. k : f[n] = turn[<<f[n - 1], n>>]
    Good == {k \in 0 .. N : \E f : Runs(f, k)}
<1>1. 0 \in Good
  <2>1. Runs([n \in 0 .. 0 |-> first], 0)
    OBVIOUS
  <2> HIDE DEF Runs
  <2> QED BY <2>1
<1>2. ASSUME NEW k \in 1 .. N, k - 1 \in Good
      PROVE  k \in Good
  <2>1. PICK f : Runs(f, k - 1)
    BY <1>2
  <2> DEFINE g == [n \in 0 .. k |-> IF n = k THEN turn[<<f[k - 1], k>>] ELSE f[n]]
  <2>2. turn[<<f[k - 1], k>>] \in T
    BY <2>1
  <2>3. g \in [0 .. k -> T]
    BY <2>1, <2>2
  <2>4. g[0] = first /\ g[k] = turn[<<g[k - 1], k>>]
    <3>1. k # 0 /\ k - 1 # k /\ 0 \in 0 .. k /\ k \in 0 .. k /\ k - 1 \in 0 .. k
      OBVIOUS
    <3>2. g[0] = f[0] /\ g[k - 1] = f[k - 1] /\ g[k] = turn[<<f[k - 1], k>>]
      BY <3>1
    <3> HIDE DEF g
    <3> QED BY <2>1, <3>2
  <2>5. \A n \in 1 .. k - 1 : g[n] = f[n] /\ g[n - 1] = f[n - 1]
    OBVIOUS
  <2>6. \A n \in 1 .. k : g[n] = turn[<<g[n - 1], n>>]
    <3> HIDE DEF g
    <3>1. \A n \in 1 .. k - 1 : g[n] = turn[<<g[n - 1], n>>]
      BY <2>1, <2>5
    <3> QED BY <2>4, <3>1
  <2> HIDE DEF g
  <2>7. Runs(g, k)
    BY <2>3, <2>4, <2>6
  <2> HIDE DEF Runs
  <2> QED BY <2>7
<1> HIDE DEF Good
<1>3. \A k \in 0 .. N : k \in Good
  BY <1>1, <1>2, Induction
<1>4. PICK f : Runs(f, N)
  <2>1. N \in Good
    BY <1>3
  <2> HIDE DEF Runs
  <2> QED BY <2>1 DEF Good
<1> QED BY <1>4 DEF HasValues

-------------------------------------------------------------------------------
IsSeq(s) == s \in Seq(ToSet(s))

LEMMA SeqIs ==
    ASSUME NEW s, IsSeq(s)
    PROVE  /\ Len(s) \in Nat /\ DOMAIN s = 1 .. Len(s)
           /\ \A k \in 1 .. Len(s) : s[k] \in ToSet(s)
BY DEF IsSeq, ToSet

LEMMA FunctionIsSeq ==
    ASSUME NEW s, NEW n \in Nat, DOMAIN s = 1 .. n, s = [k \in 1 .. n |-> s[k]]
    PROVE  IsSeq(s) /\ Len(s) = n
<1>1. \A k \in 1 .. n : s[k] \in ToSet(s)
  BY DEF ToSet
<1> HIDE DEF ToSet
<1> QED BY <1>1 DEF IsSeq

(* What appending does to the elements of a sequence. *)
LEMMA AppendIs ==
    ASSUME NEW s, NEW e, IsSeq(s)
    PROVE  /\ IsSeq(Append(s, e)) /\ ToSet(Append(s, e)) = ToSet(s) \cup {e}
           /\ Len(Append(s, e)) = Len(s) + 1
           /\ Append(s, e)[Len(s) + 1] = e
           /\ \A k \in 1 .. Len(s) : Append(s, e)[k] = s[k]
<1> DEFINE S == ToSet(s) \cup {e}
           t == Append(s, e)
<1>1. s \in Seq(S)
  BY DEF IsSeq
<1>2. /\ t \in Seq(S) /\ Len(t) = Len(s) + 1 /\ Len(s) \in Nat
      /\ t[Len(s) + 1] = e /\ \A k \in 1 .. Len(s) : t[k] = s[k]
  <2> HIDE DEF S
  <2> QED BY <1>1 DEF S
<1> HIDE DEF t
<1>3. DOMAIN t = 1 .. Len(s) + 1 /\ t = [k \in 1 .. Len(s) + 1 |-> t[k]]
  BY <1>2
<1>4. IsSeq(t)
  BY <1>2, <1>3, FunctionIsSeq
<1>5. ToSet(t) = S
  BY <1>2, <1>3, SeqIs DEF ToSet
<1> QED BY <1>2, <1>4, <1>5 DEF t

(* And concatenation. *)
LEMMA ConcatIs ==
    ASSUME NEW s, NEW t, IsSeq(s), IsSeq(t)
    PROVE  /\ IsSeq(s \o t) /\ ToSet(s \o t) = ToSet(s) \cup ToSet(t)
           /\ Len(s \o t) = Len(s) + Len(t)
           /\ \A k \in 1 .. Len(s) : (s \o t)[k] = s[k]
           /\ \A k \in 1 .. Len(t) : (s \o t)[Len(s) + k] = t[k]
<1> DEFINE S == ToSet(s) \cup ToSet(t)
           u == s \o t
           m == Len(s)
           n == Len(t)
<1>1. s \in Seq(S) /\ t \in Seq(S)
  BY DEF IsSeq
<1>2. m \in Nat /\ n \in Nat /\ DOMAIN s = 1 .. m /\ DOMAIN t = 1 .. n
  BY SeqIs
<1>3. /\ u \in Seq(S) /\ Len(u) = m + n
      /\ \A k \in 1 .. m : u[k] = s[k]
      /\ \A k \in m + 1 .. m + n : u[k] = t[k - m]
  <2> HIDE DEF S
  <2> QED BY <1>1
<1>4. DOMAIN u = 1 .. m + n /\ u = [k \in 1 .. m + n |-> u[k]]
  <2> HIDE DEF u, m, n, S
  <2> QED BY <1>3
<1> HIDE DEF u, m, n
<1>5. \A k \in 1 .. n : u[m + k] = t[k] /\ m + k \in DOMAIN u
  <2> TAKE k \in 1 .. n
  <2> DEFINE i == m + k
  <2>1. i \in m + 1 .. m + n /\ i - m = k /\ i \in 1 .. m + n
    BY <1>2
  <2> HIDE DEF i
  <2>2. u[i] = t[i - m]
    BY <1>3, <2>1
  <2>3. u[i] = t[k] /\ i \in DOMAIN u
    BY <1>4, <2>1, <2>2
  <2> QED BY <2>3 DEF i
<1>6. \A k \in 1 .. m : u[k] = s[k] /\ k \in DOMAIN u
  BY <1>2, <1>3, <1>4
<1>7. \A k \in DOMAIN u : k \in 1 .. m \/ \E j \in 1 .. n : k = m + j
  <2> TAKE k \in DOMAIN u
  <2>1. k \in 1 .. m + n
    BY <1>4
  <2>2. k > m => k - m \in 1 .. n /\ k = m + (k - m)
    BY <1>2, <2>1
  <2> QED BY <1>2, <2>1, <2>2
<1>8. ToSet(u) = S
  <2>1. ASSUME NEW x \in ToSet(u) PROVE x \in S
    <3>1. PICK k \in DOMAIN u : u[k] = x
      BY DEF ToSet
    <3>2. CASE k \in 1 .. m
      BY <1>2, <1>6, <3>1, <3>2 DEF ToSet
    <3>3. CASE \E j \in 1 .. n : k = m + j
      BY <1>2, <1>5, <3>1, <3>3 DEF ToSet
    <3> QED BY <1>7, <3>2, <3>3
  <2>2. ASSUME NEW x \in ToSet(s) PROVE x \in ToSet(u)
    <3>1. PICK k \in 1 .. m : s[k] = x
      BY <1>2 DEF ToSet
    <3> QED BY <1>6, <3>1 DEF ToSet
  <2>3. ASSUME NEW x \in ToSet(t) PROVE x \in ToSet(u)
    <3>1. PICK k \in 1 .. n : t[k] = x
      BY <1>2 DEF ToSet
    <3> QED BY <1>5, <3>1 DEF ToSet
  <2> QED BY <2>1, <2>2, <2>3
<1>9. m + n \in Nat
  BY <1>2
<1>10. IsSeq(u)
  BY <1>4, <1>9, FunctionIsSeq
<1> QED BY <1>3, <1>5, <1>6, <1>8, <1>10 DEF u, m, n

-------------------------------------------------------------------------------
(* What HangsTogether asks of a document, of links ls, addresses as and     *)
(* routes rs, and what TypeOK asks of them.                                 *)
NamesOf(ls) == {l.name : l \in ToSet(ls)}

AddressOn(names, a) ==
    /\ a.link \in names
    /\ a.address[1] \in {4, 6}
    /\ a.bits \in 0 .. Width(a.address[1])

RouteOn(names, r) == r.link \in names /\ r.family \in {4, 6}

ParentsFirst(ls) ==
    \A k \in DOMAIN ls :
        ls[k].parent # None =>
            /\ ls[k].name[1] = "vlan"
            /\ \E j \in 1 .. k - 1 : ls[j].name = ls[k].parent

Coherent(ls, as, rs) ==
    /\ IsSeq(ls) /\ IsSeq(as) /\ IsSeq(rs)
    /\ \A a \in ToSet(as) : AddressOn(NamesOf(ls), a)
    /\ \A r \in ToSet(rs) : RouteOn(NamesOf(ls), r)
    /\ ParentsFirst(ls)

(* An interface of the Hardware, as InputsAssumption has it. *)
Declared(d) == \E g \in Inputs : d \in ToSet(g.interfaces)

LEMMA PrefixFits ==
    ASSUME NEW d, Declared(d), Static(d), Usable(d)
    PROVE  d.address[1] \in {4, 6} /\ Prefix(d) \in 0 .. Width(d.address[1])
<1>1. d.address[1] \in {4, 6}
  BY InputsAssumption DEF InputsAssumption, Declared, Static, Usable
<1>2. PrefixLength(d.netmask, d.address[1]) # Bad
  BY DEF Usable, Prefix
<1>3. d.netmask \notin {None, Bad}
  BY <1>2 DEF PrefixLength
<1>4. CASE d.netmask[1] = "bits"
  BY <1>1, <1>2, <1>3, <1>4 DEF PrefixLength, Prefix, Width
<1>5. CASE d.netmask[1] # "bits"
  <2>1. d.netmask[3] \in 0 .. Width(d.netmask[2])
    BY <1>3, <1>5, InputsAssumption DEF InputsAssumption, Declared
  <2>2. d.netmask[2] = d.address[1] /\ Prefix(d) = d.netmask[3]
    BY <1>2, <1>3, <1>5 DEF PrefixLength, Prefix
  <2> QED BY <1>1, <2>1, <2>2 DEF Width
<1> QED BY <1>1, <1>4, <1>5

(* The links of an interface: what the rest is attached to is among them. *)
LEMMA NewLinksAre ==
    ASSUME NEW d
    PROVE  /\ IsSeq(NewLinks(d)) /\ ParentsFirst(NewLinks(d))
           /\ AttachTo(d) \in NamesOf(NewLinks(d))
<1> DEFINE link == ResolveLinkName(d)
           physical == [name |-> link, parent |-> None]
           logical == [name |-> <<"vlan", link, d.vlan>>, parent |-> link]
<1>1. CASE d.vlan = None
  <2>1. NewLinks(d) = <<physical>> /\ AttachTo(d) = link
    BY <1>1 DEF NewLinks, AttachTo
  <2>2. IsSeq(<<physical>>) /\ ToSet(<<physical>>) = {physical}
    BY DEF IsSeq, ToSet
  <2>3. ParentsFirst(<<physical>>)
    BY DEF ParentsFirst
  <2>4. link \in NamesOf(<<physical>>)
    BY <2>2 DEF NamesOf
  <2> QED BY <2>1, <2>2, <2>3, <2>4
<1>2. CASE d.vlan # None
  <2>1. NewLinks(d) = <<physical, logical>> /\ AttachTo(d) = <<"vlan", link, d.vlan>>
    BY <1>2 DEF NewLinks, AttachTo
  <2>2. IsSeq(<<physical, logical>>) /\ ToSet(<<physical, logical>>) = {physical, logical}
    BY DEF IsSeq, ToSet
  <2>3. ParentsFirst(<<physical, logical>>)
    <3> DEFINE ls == <<physical, logical>>
    <3>1. DOMAIN ls = 1 .. 2 /\ ls[1] = physical /\ ls[2] = logical
      OBVIOUS
    <3>2. ls[1].parent = None
      BY <3>1
    <3>3. ls[2].name[1] = "vlan" /\ ls[1].name = ls[2].parent /\ 1 \in 1 .. 2 - 1
      BY <3>1
    <3> HIDE DEF ls
    <3>4. \A k \in DOMAIN ls : k = 1 \/ k = 2
      BY <3>1
    <3> QED BY <3>2, <3>3, <3>4 DEF ParentsFirst, ls
  <2>4. <<"vlan", link, d.vlan>> \in NamesOf(<<physical, logical>>)
    BY <2>2 DEF NamesOf
  <2> QED BY <2>1, <2>2, <2>3, <2>4
<1> QED BY <1>1, <1>2

(* addInterface keeps a document coherent. *)
LEMMA AddKeepsCoherent ==
    ASSUME NEW ls, NEW as, NEW rs, Coherent(ls, as, rs),
           NEW d, Declared(d), Static(d), Usable(d)
    PROVE  Coherent(ls \o NewLinks(d), Append(as, NewAddress(d)),
                    rs \o DefaultRoutes(d) \o StaticRoutes(d))
<1> DEFINE new == NewLinks(d)
           all == ls \o new
           names == NamesOf(all)
           defaults == DefaultRoutes(d)
           statics == StaticRoutes(d)
<1>1. IsSeq(ls) /\ IsSeq(as) /\ IsSeq(rs) /\ IsSeq(new)
  BY NewLinksAre DEF Coherent
<1>2. /\ IsSeq(all) /\ ToSet(all) = ToSet(ls) \cup ToSet(new)
      /\ Len(all) = Len(ls) + Len(new)
      /\ \A k \in 1 .. Len(ls) : all[k] = ls[k]
      /\ \A k \in 1 .. Len(new) : all[Len(ls) + k] = new[k]
  BY <1>1, ConcatIs
<1>3. NamesOf(ls) \subseteq names /\ AttachTo(d) \in names
  BY <1>2, NewLinksAre DEF NamesOf
<1>4. AddressOn(names, NewAddress(d))
  BY <1>3, PrefixFits DEF AddressOn, NewAddress
<1>5. IsSeq(defaults) /\ \A r \in ToSet(defaults) : RouteOn(names, r)
  <2> HIDE DEF names
  <2>1. CASE d.gateway = None
    <3>1. IsSeq(<<>>) /\ ToSet(<<>>) = {}
      BY DEF IsSeq, ToSet
    <3> QED BY <2>1, <3>1 DEF DefaultRoutes
  <2>2. CASE d.gateway # None
    <3> DEFINE r == [family |-> d.address[1], dst |-> None, gateway |-> d.gateway,
                     link |-> AttachTo(d)]
    <3>1. defaults = <<r>>
      BY <2>2 DEF DefaultRoutes
    <3>2. RouteOn(names, r)
      BY <1>3, PrefixFits DEF RouteOn
    <3> HIDE DEF r
    <3>3. IsSeq(<<r>>) /\ ToSet(<<r>>) = {r}
      BY DEF IsSeq, ToSet
    <3> QED BY <3>1, <3>2, <3>3
  <2> QED BY <2>1, <2>2
<1>6. IsSeq(statics) /\ \A r \in ToSet(statics) : RouteOn(names, r)
  <2> HIDE DEF names
  <2>1. d.routes \in Seq(ToSet(d.routes))
    BY InputsAssumption DEF InputsAssumption, Declared
  <2>2. DOMAIN d.routes = 1 .. Len(d.routes) /\ Len(d.routes) \in Nat
    BY <2>1
  <2>3. DOMAIN statics = 1 .. Len(d.routes)
        /\ statics = [k \in 1 .. Len(d.routes) |-> statics[k]]
    BY <2>2 DEF StaticRoutes
  <2>4. IsSeq(statics)
    BY <2>2, <2>3, FunctionIsSeq
  <2>5. \A k \in DOMAIN d.routes : d.routes[k].dst[1] \in {4, 6}
    BY InputsAssumption DEF InputsAssumption, Declared, Usable, ToSet
  <2>6. \A k \in DOMAIN d.routes : RouteOn(names, statics[k])
    BY <1>3, <2>5 DEF StaticRoutes, RouteOn
  <2> QED BY <2>2, <2>3, <2>4, <2>6 DEF ToSet
<1>7. /\ IsSeq(rs \o defaults \o statics)
      /\ \A r \in ToSet(rs \o defaults \o statics) : RouteOn(names, r)
  <2>1. IsSeq(rs \o defaults) /\ ToSet(rs \o defaults) = ToSet(rs) \cup ToSet(defaults)
    BY <1>1, <1>5, ConcatIs
  <2>2. /\ IsSeq(rs \o defaults \o statics)
        /\ ToSet(rs \o defaults \o statics) = ToSet(rs \o defaults) \cup ToSet(statics)
    BY <2>1, <1>6, ConcatIs
  <2>3. \A r \in ToSet(rs) : RouteOn(names, r)
    BY <1>3 DEF Coherent, RouteOn
  <2> QED BY <2>1, <2>2, <2>3, <1>5, <1>6
<1>8. ParentsFirst(all)
  <2> SUFFICES ASSUME NEW k \in DOMAIN all, all[k].parent # None
               PROVE  /\ all[k].name[1] = "vlan"
                      /\ \E j \in 1 .. k - 1 : all[j].name = all[k].parent
    BY DEF ParentsFirst
  <2>1. Len(ls) \in Nat /\ Len(new) \in Nat /\ DOMAIN all = 1 .. Len(ls) + Len(new)
        /\ DOMAIN ls = 1 .. Len(ls) /\ DOMAIN new = 1 .. Len(new)
    BY <1>1, <1>2, SeqIs
  <2> HIDE DEF all, new
  <2>2. CASE k \in 1 .. Len(ls)
    <3>1. all[k] = ls[k] /\ \A j \in 1 .. k - 1 : all[j] = ls[j]
      BY <1>2, <2>1, <2>2
    <3>2. ParentsFirst(ls)
      BY DEF Coherent
    <3> QED BY <2>1, <2>2, <3>1, <3>2 DEF ParentsFirst
  <2>3. CASE k \notin 1 .. Len(ls)
    <3>1. PICK i \in 1 .. Len(new) : k = Len(ls) + i
      <4>1. k - Len(ls) \in 1 .. Len(new) /\ k = Len(ls) + (k - Len(ls))
        BY <2>1, <2>3
      <4> QED BY <4>1
    <3>2. all[k] = new[i]
      BY <1>2, <3>1
    <3>3. ParentsFirst(new)
      BY NewLinksAre DEF new
    <3>4. new[i].name[1] = "vlan" /\ \E j \in 1 .. i - 1 : new[j].name = new[i].parent
      BY <2>1, <3>2, <3>3 DEF ParentsFirst
    <3>5. PICK j \in 1 .. i - 1 : new[j].name = new[i].parent
      BY <3>4
    <3>6. j \in 1 .. Len(new) /\ Len(ls) + j \in 1 .. k - 1
      BY <2>1, <3>1, <3>5
    <3>7. all[Len(ls) + j] = new[j]
      BY <1>2, <3>6
    <3> QED BY <3>2, <3>4, <3>5, <3>6, <3>7
  <2> QED BY <2>2, <2>3
<1>9. IsSeq(Append(as, NewAddress(d)))
      /\ \A a \in ToSet(Append(as, NewAddress(d))) : AddressOn(names, a)
  <2>1. \A a \in ToSet(as) : AddressOn(names, a)
    BY <1>3 DEF Coherent, AddressOn
  <2> DEFINE a == NewAddress(d)
  <2> HIDE DEF a, names
  <2>2. IsSeq(Append(as, a)) /\ ToSet(Append(as, a)) = ToSet(as) \cup {a}
    BY <1>1, AppendIs
  <2>3. AddressOn(names, a)
    BY <1>4 DEF a
  <2>4. \A b \in ToSet(Append(as, a)) : AddressOn(names, b)
    BY <2>1, <2>2, <2>3
  <2> QED BY <2>2, <2>4 DEF a
<1> QED BY <1>2, <1>7, <1>8, <1>9 DEF Coherent

-------------------------------------------------------------------------------
(* The PCI function nearest to a NIC, and what its name is made of. *)
LEMMA NearestIs ==
    ASSUME NEW n \in Nics, OnPci(n)
    PROVE  LET dev == NearestPciDevice(n) IN dev = <<dev[1], dev[2]>> /\ dev[2] # None
<1> DEFINE S == PciPlaces(n)
<1>1. S \subseteq Nat /\ S # {} /\ S \subseteq DOMAIN PathOf[n]
  BY MachineAssumption DEF MachineAssumption, OnPci, PciPlaces
<1>2. \A i \in S : LET dev == PathOf[n][i] IN dev = <<dev[1], dev[2]>> /\ dev[2] # None
  BY MachineAssumption DEF MachineAssumption, PciPlaces
<1> HIDE DEF S
<1>3. Min(S) \in S
  BY <1>1, LeastNumber DEF Min
<1>4. NearestPciDevice(n) = PathOf[n][Min(S)]
  BY DEF NearestPciDevice, S
<1> QED BY <1>2, <1>3, <1>4

(* Functions of a slot have suffixes of their own. *)
LEMMA SuffixTellsApart ==
    ASSUME NEW d, NEW e, d[2] # None, e[2] # None, d[2] # e[2]
    PROVE  FunctionSuffix(d) # FunctionSuffix(e)
BY DEF FunctionSuffix

(* Two NICs that udev can tell apart have two predictable names. *)
LEMMA NamesTellApart ==
    ASSUME NEW a \in Nics, NEW b \in Nics, OnPci(a), OnPci(b), Apart(a, b), Apart(b, a)
    PROVE  PredictableName(a) # PredictableName(b)
<1> DEFINE d == NearestPciDevice(a)
           e == NearestPciDevice(b)
<1>1. d = <<d[1], d[2]>> /\ d[2] # None /\ e = <<e[1], e[2]>> /\ e[2] # None /\ d # e
  BY NearestIs DEF Apart
<1>2. d[1] = e[1] => FunctionSuffix(d) # FunctionSuffix(e)
  <2> HIDE DEF d, e
  <2> QED BY <1>1, SuffixTellsApart
<1>3. /\ OnboardIndex(d) # None => OnboardIndex(d) # OnboardIndex(e)
      /\ d[1] = e[1] \/ HotplugSlot(a) = None \/ HotplugSlot(a) # HotplugSlot(b)
  BY DEF Apart
<1>4. /\ PredictableName(a) =
            IF OnboardIndex(d) # None THEN <<"eno", OnboardIndex(d)>>
            ELSE IF HotplugSlot(a) # None THEN <<"ens", HotplugSlot(a), FunctionSuffix(d)>>
                 ELSE <<"enp", d[1], FunctionSuffix(d)>>
      /\ PredictableName(b) =
            IF OnboardIndex(e) # None THEN <<"eno", OnboardIndex(e)>>
            ELSE IF HotplugSlot(b) # None THEN <<"ens", HotplugSlot(b), FunctionSuffix(e)>>
                 ELSE <<"enp", e[1], FunctionSuffix(e)>>
  BY DEF PredictableName, PciPathName
<1> HIDE DEF d, e
<1>5. CASE OnboardIndex(d) # None
  BY <1>3, <1>4, <1>5
<1>6. CASE OnboardIndex(d) = None /\ HotplugSlot(a) # None
  BY <1>2, <1>3, <1>4, <1>6
<1>7. CASE OnboardIndex(d) = None /\ HotplugSlot(a) = None
  BY <1>2, <1>4, <1>7
<1> QED BY <1>5, <1>6, <1>7

(* A MAC that plain NICs alone have is carried by one NIC in every boot. *)
LEMMA CarrierIs ==
    ASSUME NEW k \in Boots, NEW mac, Carriers(k, mac) # {},
           \A m \in Nics : MacOf[m] = mac => Plain(m)
    PROVE  /\ Carrier(k, mac) \in Nics /\ MacOf[Carrier(k, mac)] = mac
           /\ Plain(Carrier(k, mac))
           /\ LinkName(k, mac, "predictable") = PredictableName(Carrier(k, mac))
<1>1. PICK n : n \in Carriers(k, mac)
  OBVIOUS
<1>2. n \in Nics /\ MacOf[n] = mac /\ k[n] \in Int
  BY <1>1, InputsAssumption DEF InputsAssumption, Carriers
<1>3. Plain(n)
  BY <1>2
<1>4. \A m \in Carriers(k, mac) : m = n
  BY <1>2, <1>3, InputsAssumption DEF InputsAssumption, Carriers, Plain
<1>5. k[n] <= k[n]
  BY <1>2
<1>6. Carrier(k, mac) = n
  BY <1>1, <1>4, <1>5 DEF Carrier
<1>7. OnPci(n)
  BY <1>3 DEF Plain
<1> QED BY <1>2, <1>3, <1>6, <1>7 DEF LinkName

(* What the address of a document says of the interface it is for: whose    *)
(* address it is, and the name its link had when the document was written.  *)
Configures(a, d, scheme) ==
    /\ a.address = d.address
    /\ d.iface = None =>
        \E k \in Boots :
            /\ Carriers(k, d.mac) # {}
            /\ Physical(a.link) = LinkName(k, d.mac, scheme)

LEMMA NewAddressConfigures ==
    ASSUME kernel \in Boots, NEW d, Usable(d)
    PROVE  Configures(NewAddress(d), d, given.naming)
<1> SUFFICES ASSUME d.iface = None
             PROVE  /\ Carriers(kernel, d.mac) # {}
                    /\ Physical(AttachTo(d)) = LinkName(kernel, d.mac, given.naming)
  BY DEF Configures, NewAddress
<1> DEFINE link == LinkName(kernel, d.mac, given.naming)
<1>1. Carriers(kernel, d.mac) # {}
  BY DEF Usable
<1>2. ResolveLinkName(d) = link
  BY DEF ResolveLinkName
<1>3. CASE d.vlan # None
  <2>1. AttachTo(d) = <<"vlan", link, d.vlan>>
    BY <1>2, <1>3 DEF AttachTo
  <2> QED BY <1>1, <2>1 DEF Physical
<1>4. CASE d.vlan = None
  <2>1. AttachTo(d) = link
    BY <1>2, <1>4 DEF AttachTo
  <2>2. link[1] # "vlan"
    BY DEF LinkName, PredictableName, PciPathName
  <2> QED BY <1>1, <2>1, <2>2 DEF Physical
<1> QED BY <1>3, <1>4

-------------------------------------------------------------------------------
(* One more value in a list of first mentions, after one more was said. *)
LEMMA MentionNext ==
    ASSUME NEW list, NEW said, NEW more,
           IsSeq(list), IsSeq(said), IsSeq(more), Len(more) = Len(said) + 1,
           \A k \in 1 .. Len(said) : more[k] = said[k], FirstMentions(list, said)
    PROVE  LET v == more[Len(said) + 1]
               after == IF v \in ToSet(list) \cup {Blank} THEN list ELSE Append(list, v)
           IN  IsSeq(after) /\ FirstMentions(after, more)
<1> DEFINE v == more[Len(said) + 1]
           after == IF v \in ToSet(list) \cup {Blank} THEN list ELSE Append(list, v)
<1>0. more[Len(said) + 1] = v
      /\ after = IF v \in ToSet(list) \cup {Blank} THEN list ELSE Append(list, v)
  OBVIOUS
<1> SUFFICES IsSeq(after) /\ FirstMentions(after, more)
  OBVIOUS
<1> HIDE DEF v, after
<1> USE <1>0
<1>1. /\ Len(list) \in Nat /\ DOMAIN list = 1 .. Len(list)
      /\ Len(said) \in Nat /\ DOMAIN said = 1 .. Len(said)
      /\ DOMAIN more = 1 .. Len(said) + 1
  BY SeqIs
<1>2. ToSet(more) = ToSet(said) \cup {v}
  <2>1. \A x \in ToSet(more) : x \in ToSet(said) \cup {v}
    <3> SUFFICES ASSUME NEW k \in DOMAIN more PROVE more[k] \in ToSet(said) \cup {v}
      BY DEF ToSet
    <3>1. CASE k = Len(said) + 1
      BY <3>1
    <3>2. CASE k \in 1 .. Len(said)
      BY <1>1, <3>2 DEF ToSet
    <3> QED BY <1>1, <3>1, <3>2
  <2>2. \A x \in ToSet(said) : x \in ToSet(more)
    BY <1>1 DEF ToSet
  <2>3. v \in ToSet(more)
    BY <1>1 DEF ToSet
  <2> QED BY <2>1, <2>2, <2>3
<1>3. /\ ToSet(list) = ToSet(said) \ {Blank} /\ IsInjective(list)
      /\ \A i, j \in DOMAIN list : i < j =>
            \E k \in DOMAIN said : said[k] = list[i] /\ \A m \in 1 .. k : said[m] # list[j]
  BY DEF FirstMentions
<1>4. ASSUME NEW i \in DOMAIN list, NEW w, NEW k \in DOMAIN said,
             said[k] = list[i], \A m \in 1 .. k : said[m] # w
      PROVE  \E l \in DOMAIN more : more[l] = list[i] /\ \A m \in 1 .. l : more[m] # w
  <2>1. k \in DOMAIN more /\ more[k] = list[i] /\ \A m \in 1 .. k : more[m] = said[m]
    BY <1>1, <1>4
  <2> QED BY <1>4, <2>1
<1>5. CASE v \in ToSet(list) \cup {Blank}
  <2>1. ToSet(list) = ToSet(more) \ {Blank}
    BY <1>2, <1>3, <1>5
  <2>2. \A i, j \in DOMAIN list : i < j =>
            \E k \in DOMAIN more : more[k] = list[i] /\ \A m \in 1 .. k : more[m] # list[j]
    BY <1>3, <1>4
  <2> QED BY <1>3, <1>5, <2>1, <2>2 DEF FirstMentions
<1>6. CASE v \notin ToSet(list) \cup {Blank}
  <2>1. /\ IsSeq(after) /\ ToSet(after) = ToSet(list) \cup {v}
        /\ Len(after) = Len(list) + 1 /\ after[Len(list) + 1] = v
        /\ \A k \in 1 .. Len(list) : after[k] = list[k]
    BY <1>6, AppendIs
  <2>2. DOMAIN after = 1 .. Len(list) + 1
    BY <2>1, SeqIs
  <2>3. ToSet(after) = ToSet(more) \ {Blank}
    BY <1>2, <1>3, <1>6, <2>1
  <2>4. \A k \in 1 .. Len(list) : after[k] = list[k] /\ list[k] \in ToSet(list) /\ list[k] # v
    BY <1>1, <1>6, <2>1 DEF ToSet
  <2>5. \A k \in DOMAIN after : k \in DOMAIN list \/ k = Len(list) + 1
    BY <1>1, <2>2
  <2>6. IsInjective(after)
    <3> SUFFICES ASSUME NEW i \in DOMAIN after, NEW j \in DOMAIN after, after[i] = after[j]
                 PROVE  i = j
      BY DEF IsInjective
    <3>1. CASE i \in DOMAIN list /\ j \in DOMAIN list
      BY <1>1, <1>3, <2>4, <3>1 DEF IsInjective
    <3>2. CASE i = Len(list) + 1 /\ j = Len(list) + 1
      BY <3>2
    <3> QED BY <1>1, <2>1, <2>4, <2>5, <3>1, <3>2
  <2>7. ASSUME NEW i \in DOMAIN after, NEW j \in DOMAIN after, i < j
        PROVE  \E k \in DOMAIN more : more[k] = after[i] /\ \A m \in 1 .. k : more[m] # after[j]
    <3>1. i \in DOMAIN list /\ after[i] = list[i]
      BY <1>1, <2>2, <2>4, <2>7
    <3>2. CASE j \in DOMAIN list
      BY <1>1, <1>3, <1>4, <2>4, <2>7, <3>1, <3>2
    <3>3. CASE j = Len(list) + 1
      <4>1. list[i] \in ToSet(said) /\ v \notin ToSet(said)
        BY <1>3, <1>6, <3>1 DEF ToSet
      <4>2. PICK k \in DOMAIN said : said[k] = list[i]
        BY <4>1 DEF ToSet
      <4>3. \A m \in 1 .. k : said[m] # v
        BY <1>1, <4>1, <4>2 DEF ToSet
      <4>4. \E l \in DOMAIN more : more[l] = list[i] /\ \A m \in 1 .. l : more[m] # v
        BY <1>4, <3>1, <4>2, <4>3
      <4>5. after[j] = v
        BY <2>1, <3>3
      <4> QED BY <3>1, <4>4, <4>5
    <3> QED BY <2>5, <3>2, <3>3
  <2> QED BY <2>1, <2>3, <2>6, <2>7 DEF FirstMentions
<1> QED BY <1>5, <1>6

(* appendUnique keeps first mentions, after all its values were said. *)
LEMMA AppendUniqueIs ==
    ASSUME NEW list, NEW values, NEW said, IsSeq(list), IsSeq(values), IsSeq(said),
           FirstMentions(list, said)
    PROVE  /\ IsSeq(AppendUnique(list, values))
           /\ FirstMentions(AppendUnique(list, values), said \o values)
<1> DEFINE N == Len(values)
           V == ToSet(list) \cup ToSet(values)
           T == Seq(V)
           Turn(l, n) == IF values[n] \in ToSet(l) \cup {Blank} THEN l ELSE Append(l, values[n])
           turn == [p \in T \X (1 .. N) |-> Turn(p[1], p[2])]
           IsLoop(f) == f = [n \in 0 .. N |-> IF n = 0 THEN list ELSE Turn(f[n - 1], n)]
           all == CHOOSE f : IsLoop(f)
           spoken == said \o values
           UpTo(n) == [k \in 1 .. Len(said) + n |-> spoken[k]]
<1>1. N \in Nat /\ Len(said) \in Nat /\ \A n \in 1 .. N : values[n] \in V
  BY SeqIs
<1>2. list \in T
  BY DEF IsSeq
<1> HIDE DEF V
<1>3. \A l \in T, n \in 1 .. N : Turn(l, n) \in T
  BY <1>1
<1> HIDE DEF N, T, Turn
<1>4. turn \in [T \X (1 .. N) -> T]
  BY <1>3
<1>5. PICK f \in [0 .. N -> T] : f[0] = list /\ \A n \in 1 .. N : f[n] = turn[<<f[n - 1], n>>]
  <2> HIDE DEF turn
  <2>1. HasValues(T, list, N, turn)
    BY <1>1, <1>2, <1>4, LoopExists
  <2> QED BY <2>1 DEF HasValues
<1>6. \A n \in 1 .. N : f[n - 1] \in T
  BY <1>1, <1>5
<1>7. \A n \in 1 .. N : f[n] = Turn(f[n - 1], n)
  BY <1>5, <1>6
<1>8. IsLoop(f)
  BY <1>1, <1>5, <1>7
<1>9. IsLoop(all)
  <2> HIDE DEF IsLoop
  <2> QED BY <1>8
<1>10. AppendUnique(list, values) = all[N]
  BY DEF AppendUnique, N, Turn
<1> HIDE DEF all
<1>11. all[0] = list /\ \A n \in 1 .. N : all[n] = Turn(all[n - 1], n)
  BY <1>1, <1>9
<1>12. /\ IsSeq(spoken) /\ Len(spoken) = Len(said) + N
       /\ \A k \in 1 .. Len(said) : spoken[k] = said[k]
       /\ \A k \in 1 .. N : spoken[Len(said) + k] = values[k]
  BY ConcatIs DEF N
<1>13. \A n \in 0 .. N : IsSeq(UpTo(n)) /\ Len(UpTo(n)) = Len(said) + n
  <2> SUFFICES ASSUME NEW n \in 0 .. N PROVE IsSeq(UpTo(n)) /\ Len(UpTo(n)) = Len(said) + n
    OBVIOUS
  <2> DEFINE u == UpTo(n)
  <2>1. /\ Len(said) + n \in Nat /\ DOMAIN u = 1 .. Len(said) + n
        /\ u = [k \in 1 .. Len(said) + n |-> u[k]]
    BY <1>1
  <2> HIDE DEF u
  <2>2. IsSeq(u) /\ Len(u) = Len(said) + n
    BY <2>1, FunctionIsSeq
  <2> QED BY <2>2 DEF u
<1>14. UpTo(0) = said
  <2>1. said = [k \in 1 .. Len(said) |-> said[k]]
    BY DEF IsSeq
  <2>2. Len(said) + 0 = Len(said)
    BY <1>1
  <2>3. \A k \in 1 .. Len(said) : spoken[k] = said[k]
    BY <1>12
  <2> HIDE DEF spoken
  <2>4. [k \in 1 .. Len(said) |-> spoken[k]] = [k \in 1 .. Len(said) |-> said[k]]
    BY <2>3
  <2> QED BY <2>1, <2>2, <2>4
<1>15. UpTo(N) = spoken
  <2>1. spoken = [k \in 1 .. Len(spoken) |-> spoken[k]]
    <3> HIDE DEF spoken
    <3> QED BY <1>12 DEF IsSeq
  <2> QED BY <1>12, <2>1
<1> HIDE DEF spoken
<1> DEFINE Done == {n \in 0 .. N : IsSeq(all[n]) /\ FirstMentions(all[n], UpTo(n))}
<1>16. 0 \in Done
  BY <1>1, <1>11, <1>14
<1>17. ASSUME NEW n \in 1 .. N, n - 1 \in Done
       PROVE  n \in Done
  <2> DEFINE before == UpTo(n - 1)
             more == UpTo(n)
             v == values[n]
             l == all[n - 1]
             after == all[n]
  <2>1. IsSeq(l) /\ FirstMentions(l, before)
    BY <1>17
  <2>2. /\ IsSeq(before) /\ Len(before) = Len(said) + (n - 1)
        /\ IsSeq(more) /\ Len(more) = Len(said) + n
    <3> HIDE DEF UpTo
    <3>1. n - 1 \in 0 .. N /\ n \in 0 .. N
      BY <1>1
    <3> QED BY <1>13, <3>1
  <2>3. Len(more) = Len(before) + 1 /\ Len(before) + 1 = Len(said) + n
    BY <1>1, <2>2
  <2>4. \A k \in 1 .. Len(before) : more[k] = before[k]
    <3>1. \A k \in 1 .. Len(said) + (n - 1) : k \in 1 .. Len(said) + n
      BY <1>1
    <3> QED BY <2>2, <3>1
  <2>5. more[Len(before) + 1] = v
    <3>1. Len(said) + n \in 1 .. Len(said) + n
      BY <1>1
    <3>2. more[Len(said) + n] = spoken[Len(said) + n]
      BY <3>1
    <3> QED BY <1>12, <2>3, <3>2
  <2>6. after = IF v \in ToSet(l) \cup {Blank} THEN l ELSE Append(l, v)
    BY <1>11 DEF Turn
  <2> HIDE DEF before, more, v, l, after
  <2>7. IsSeq(after) /\ FirstMentions(after, more)
    <3>1. IsSeq(l) /\ IsSeq(before) /\ IsSeq(more) /\ Len(more) = Len(before) + 1
      BY <2>1, <2>2, <2>3
    <3> HIDE DEF Done
    <3> QED BY <2>1, <2>4, <2>5, <2>6, <3>1, MentionNext
  <2> QED BY <1>1, <2>7 DEF after, more
<1>18. N \in Done
  <2> HIDE DEF Done
  <2>1. \A n \in 0 .. N : n \in Done
    BY <1>1, <1>16, <1>17, Induction
  <2> QED BY <1>1, <2>1
<1> QED BY <1>10, <1>15, <1>18 DEF spoken

LEMMA NothingSaid == IsSeq(<<>>) /\ FirstMentions(<<>>, <<>>)
BY DEF IsSeq, ToSet, FirstMentions, IsInjective

(* Sequences one after the other, up to each of them. *)
Flat(seqs) ==
    CHOOSE f : f = [n \in 0 .. Len(seqs) |-> IF n = 0 THEN <<>> ELSE f[n - 1] \o seqs[n]]

LEMMA FlatIs ==
    ASSUME NEW seqs, IsSeq(seqs), \A n \in 1 .. Len(seqs) : IsSeq(seqs[n])
    PROVE  /\ Flat(seqs)[0] = <<>>
           /\ \A n \in 1 .. Len(seqs) : Flat(seqs)[n] = Flat(seqs)[n - 1] \o seqs[n]
           /\ \A n \in 0 .. Len(seqs) : IsSeq(Flat(seqs)[n])
<1> DEFINE N == Len(seqs)
           V == UNION {ToSet(seqs[n]) : n \in 1 .. N}
           T == Seq(V)
           empty == <<>>
           Turn(l, n) == l \o seqs[n]
           turn == [p \in T \X (1 .. N) |-> Turn(p[1], p[2])]
           IsLoop(f) == f = [n \in 0 .. N |-> IF n = 0 THEN empty ELSE Turn(f[n - 1], n)]
           flat == Flat(seqs)
<1>1. N \in Nat
  BY SeqIs
<1>2. \A n \in 1 .. N : seqs[n] \in T
  <2> SUFFICES ASSUME NEW n \in 1 .. N PROVE seqs[n] \in T
    OBVIOUS
  <2>1. seqs[n] \in Seq(ToSet(seqs[n])) /\ ToSet(seqs[n]) \subseteq V
    BY DEF IsSeq
  <2> HIDE DEF V
  <2> QED BY <2>1
<1> HIDE DEF V
<1>3. empty \in T
  OBVIOUS
<1>4. \A l \in T, n \in 1 .. N : Turn(l, n) \in T
  BY <1>2
<1> HIDE DEF N, T, empty, Turn
<1>5. turn \in [T \X (1 .. N) -> T]
  BY <1>4
<1>6. PICK f \in [0 .. N -> T] : f[0] = empty /\ \A n \in 1 .. N : f[n] = turn[<<f[n - 1], n>>]
  <2> HIDE DEF turn
  <2>1. HasValues(T, empty, N, turn)
    BY <1>1, <1>3, <1>5, LoopExists
  <2> QED BY <2>1 DEF HasValues
<1>7. \A n \in 1 .. N : f[n - 1] \in T
  BY <1>1, <1>6
<1>8. \A n \in 1 .. N : f[n] = Turn(f[n - 1], n)
  BY <1>6, <1>7
<1>9. IsLoop(f)
  BY <1>1, <1>6, <1>8
<1>10. IsLoop(flat)
  <2>1. flat = CHOOSE h : IsLoop(h)
    BY DEF Flat, N, empty, Turn
  <2> HIDE DEF IsLoop, flat
  <2> QED BY <1>9, <2>1
<1> HIDE DEF flat
<1>11. flat[0] = empty /\ \A n \in 1 .. N : flat[n] = Turn(flat[n - 1], n)
  BY <1>1, <1>10
<1> DEFINE Done == {n \in 0 .. N : IsSeq(flat[n])}
<1>12. 0 \in Done
  BY <1>1, <1>11, NothingSaid DEF empty
<1>13. ASSUME NEW n \in 1 .. N, n - 1 \in Done PROVE n \in Done
  <2>1. IsSeq(flat[n - 1]) /\ IsSeq(seqs[n])
    BY <1>13 DEF N
  <2>2. IsSeq(Turn(flat[n - 1], n))
    BY <2>1, ConcatIs DEF Turn
  <2> QED BY <1>1, <1>11, <2>2
<1>14. \A n \in 0 .. N : n \in Done
  <2> HIDE DEF Done
  <2> QED BY <1>1, <1>12, <1>13, Induction
<1> QED BY <1>11, <1>14 DEF N, flat, empty, Turn

LEMMA FlattenSeqIs ==
    ASSUME NEW seqs, IsSeq(seqs), \A n \in 1 .. Len(seqs) : IsSeq(seqs[n])
    PROVE  FlattenSeq(seqs) = Flat(seqs)[Len(seqs)]
<1> DEFINE N == Len(seqs)
           flat == Flat(seqs)
<1>1. N \in Nat /\ DOMAIN seqs = 1 .. N
  BY SeqIs
<1>2. /\ flat[0] = <<>>
      /\ \A n \in 1 .. N : flat[n] = flat[n - 1] \o seqs[n]
  BY FlatIs
<1>3. CASE N = 0
  <2>1. seqs = <<>>
    BY <1>3 DEF IsSeq
  <2> QED BY <1>2, <1>3, <2>1 DEF FlattenSeq
<1>4. CASE N # 0
  <2> DEFINE IsLoop(g) == g = [i \in 1 .. N |-> IF i = 1 THEN seqs[i] ELSE g[i - 1] \o seqs[i]]
             g == CHOOSE h : IsLoop(h)
  <2>1. \A n \in 1 .. N : flat[n] = IF n = 1 THEN seqs[n] ELSE flat[n - 1] \o seqs[n]
    <3>1. <<>> \o seqs[1] = seqs[1]
      <4>1. seqs[1] \in Seq(ToSet(seqs[1]))
        BY <1>1, <1>4 DEF IsSeq
      <4> QED BY <4>1
    <3> HIDE DEF flat
    <3>2. flat[1] = seqs[1]
      <4>1. 1 \in 1 .. N /\ 1 - 1 = 0
        BY <1>1, <1>4
      <4>2. flat[1] = flat[0] \o seqs[1]
        <5> HIDE DEF N
        <5>1. flat[1] = flat[1 - 1] \o seqs[1]
          BY <1>2, <4>1, Zenon
        <5> QED BY <4>1, <5>1
      <4> QED BY <1>2, <3>1, <4>2
    <3>3. \A n \in 1 .. N : flat[n] = flat[n - 1] \o seqs[n]
      BY <1>2
    <3> QED BY <3>2, <3>3
  <2> HIDE DEF N, flat
  <2>2. IsLoop([n \in 1 .. N |-> flat[n]])
    <3> DEFINE h == [n \in 1 .. N |-> flat[n]]
    <3>1. \A i \in 1 .. N : i # 1 => i - 1 \in 1 .. N
      BY <1>1
    <3>2. \A i \in 1 .. N : h[i] = IF i = 1 THEN seqs[i] ELSE h[i - 1] \o seqs[i]
      BY <2>1, <3>1
    <3> QED BY <3>2
  <2>3. IsLoop(g)
    <3> HIDE DEF IsLoop
    <3> QED BY <2>2
  <2>4. FlattenSeq(seqs) = g[N]
    BY <1>4 DEF FlattenSeq, N
  <2> HIDE DEF g
  <2> DEFINE Done == {n \in 0 .. N : n = 0 \/ g[n] = flat[n]}
  <2>5. 0 \in Done
    BY <1>1
  <2>6. ASSUME NEW n \in 1 .. N, n - 1 \in Done PROVE n \in Done
    <3>1. g[n] = IF n = 1 THEN seqs[n] ELSE g[n - 1] \o seqs[n]
      BY <2>3
    <3>2. n # 1 => g[n - 1] = flat[n - 1]
      BY <2>6
    <3>3. g[n] = flat[n]
      BY <2>1, <3>1, <3>2
    <3> QED BY <1>1, <3>3
  <2>7. \A n \in 0 .. N : n \in Done
    <3> HIDE DEF Done
    <3> QED BY <1>1, <2>5, <2>6, Induction
  <2>8. g[N] = flat[N]
    BY <1>1, <1>4, <2>7
  <2> QED BY <2>4, <2>8 DEF N, flat
<1> QED BY <1>3, <1>4

-------------------------------------------------------------------------------
(* The static interfaces before the n-th. *)
Below(n) == {m \in Statics : m < n}

LEMMA InterfacesAre ==
    ASSUME given \in Inputs
    PROVE  /\ Len(given.interfaces) \in Nat
           /\ DOMAIN given.interfaces = 1 .. Len(given.interfaces)
           /\ Statics \subseteq 1 .. Len(given.interfaces)
           /\ IsFiniteSet(Statics)
<1>1. given.interfaces \in Seq(ToSet(given.interfaces))
  BY InputsAssumption DEF InputsAssumption
<1>2. /\ Len(given.interfaces) \in Nat
      /\ DOMAIN given.interfaces = 1 .. Len(given.interfaces)
  BY <1>1
<1>3. Statics \subseteq 1 .. Len(given.interfaces)
  BY <1>2 DEF Statics
<1>4. IsFiniteSet(1 .. Len(given.interfaces))
  BY <1>2, FS_Interval
<1> QED BY <1>2, <1>3, <1>4, FS_Subset

(* Rank numbers the static interfaces below k from 1. *)
LEMMA RankIsPlace ==
    ASSUME given \in Inputs, NEW k \in Nat, NEW n \in Statics, n < k
    PROVE  Cardinality(Below(k)) \in Nat /\ Rank(n) \in 1 .. Cardinality(Below(k))
<1> DEFINE upTo == {m \in Statics : m <= n}
<1>1. Statics \subseteq Nat /\ IsFiniteSet(Statics)
  BY InterfacesAre
<1>2. upTo \subseteq Below(k) /\ Below(k) \subseteq Statics /\ n \in upTo
  <2>1. \A m \in Statics : m <= n => m < k
    BY <1>1
  <2>2. n <= n
    BY <1>1
  <2> QED BY <2>1, <2>2 DEF Below
<1>3. IsFiniteSet(Below(k)) /\ IsFiniteSet(upTo)
  BY <1>1, <1>2, FS_Subset
<1>4. Cardinality(upTo) <= Cardinality(Below(k))
  BY <1>2, <1>3, FS_Subset
<1>5. Cardinality(upTo) \in Nat /\ Cardinality(Below(k)) \in Nat
  BY <1>3, FS_CardinalityType
<1>6. Cardinality(upTo) # 0
  BY <1>2, <1>3, FS_EmptySet
<1> HIDE DEF upTo
<1>7. Rank(n) = Cardinality(upTo)
  BY DEF Rank, upTo
<1> QED BY <1>4, <1>5, <1>6, <1>7

(* One more of them at a static interface, and none at another. *)
LEMMA BelowNext ==
    ASSUME given \in Inputs, NEW k \in Nat
    PROVE  /\ k \notin Statics => Below(k + 1) = Below(k)
           /\ k \in Statics =>
                /\ Cardinality(Below(k + 1)) = Cardinality(Below(k)) + 1
                /\ Rank(k) = Cardinality(Below(k)) + 1
           /\ Cardinality(Below(k)) \in Nat
<1>1. Statics \subseteq Nat /\ IsFiniteSet(Statics)
  BY InterfacesAre
<1>2. IsFiniteSet(Below(k))
  BY <1>1, FS_Subset DEF Below
<1>3. /\ \A m \in Statics : m < k + 1 <=> m < k \/ m = k
      /\ \A m \in Statics : m <= k <=> m < k + 1
      /\ ~(k < k)
  BY <1>1
<1>4. /\ k \notin Statics => Below(k + 1) = Below(k)
      /\ k \in Statics => Below(k + 1) = Below(k) \cup {k} /\ k \notin Below(k)
  BY <1>3, Zenon DEF Below
<1>5. Rank(k) = Cardinality(Below(k + 1))
  <2>1. {m \in Statics : m <= k} = Below(k + 1)
    BY <1>3, Zenon DEF Below
  <2> QED BY <2>1 DEF Rank
<1>6. k \in Statics => Cardinality(Below(k + 1)) = Cardinality(Below(k)) + 1
  BY <1>2, <1>4, FS_AddElement
<1> QED BY <1>2, <1>4, <1>5, <1>6, FS_CardinalityType

(* No two of them have one place, and every place is taken. *)
LEMMA RankTellsApart ==
    ASSUME given \in Inputs, NEW n \in Statics, NEW m \in Statics, Rank(n) = Rank(m)
    PROVE  n = m
<1>1. n \in Nat /\ m \in Nat
  BY InterfacesAre
<1>2. ASSUME NEW i \in Statics, NEW j \in Statics, i \in Nat, j \in Nat, i < j
      PROVE  Rank(i) # Rank(j)
  <2>1. Cardinality(Below(j)) \in Nat /\ Rank(i) \in 1 .. Cardinality(Below(j))
    BY <1>2, RankIsPlace
  <2>2. Rank(j) = Cardinality(Below(j)) + 1
    BY <1>2, BelowNext
  <2> QED BY <2>1, <2>2
<1>3. ~(n < m) /\ ~(m < n)
  BY <1>1, <1>2
<1> QED BY <1>1, <1>3

LEMMA EveryPlaceTaken ==
    ASSUME given \in Inputs
    PROVE  /\ Cardinality(Statics) \in Nat
           /\ \A k \in 1 .. Cardinality(Statics) : \E n \in Statics : Rank(n) = k
<1> DEFINE N == Len(given.interfaces)
           size(j) == Cardinality(Below(j + 1))
           Filled == {j \in 0 .. N : \A k \in 1 .. size(j) : \E n \in Statics : Rank(n) = k}
<1>1. N \in Nat /\ Statics \subseteq 1 .. N
  BY InterfacesAre
<1>2. 0 \in Filled
  <2>1. \A m \in Statics : ~(m < 0 + 1)
    BY <1>1
  <2>2. Below(0 + 1) = {}
    BY <2>1, Zenon DEF Below
  <2>3. size(0) = 0
    BY <2>2, FS_EmptySet
  <2> HIDE DEF size
  <2> QED BY <1>1, <2>3
<1>3. ASSUME NEW j \in 1 .. N, j - 1 \in Filled PROVE j \in Filled
  <2>1. j \in Nat /\ (j - 1) + 1 = j
    BY <1>1
  <2>2. \A k \in 1 .. Cardinality(Below(j)) : \E n \in Statics : Rank(n) = k
    BY <1>3, <2>1
  <2>3. /\ j \notin Statics => size(j) = Cardinality(Below(j))
        /\ j \in Statics => size(j) = Cardinality(Below(j)) + 1 /\ Rank(j) = size(j)
        /\ Cardinality(Below(j)) \in Nat
    BY <2>1, BelowNext
  <2> HIDE DEF size
  <2>4. \A k \in 1 .. size(j) : \E n \in Statics : Rank(n) = k
    BY <2>2, <2>3
  <2> QED BY <1>1, <2>4
<1>4. N \in Filled
  <2> HIDE DEF Filled
  <2>1. \A j \in 0 .. N : j \in Filled
    BY <1>1, <1>2, <1>3, Induction
  <2> QED BY <1>1, <2>1
<1>5. Below(N + 1) = Statics
  <2>1. \A m \in Statics : m < N + 1
    BY <1>1
  <2> HIDE DEF N
  <2> QED BY <2>1, Zenon DEF Below
<1>6. Cardinality(Statics) \in Nat
  BY InterfacesAre, FS_CardinalityType
<1> QED BY <1>4, <1>5, <1>6

(* What the static interfaces mention, one list for each of them. *)
StaticAt(k) == CHOOSE n \in Statics : Rank(n) = k

Lists(kind) ==
    [k \in 1 .. Cardinality(Statics) |-> given.interfaces[StaticAt(k)][kind]]

LEMMA MentionedIs ==
    \A k : Mentioned(k) = IF Overrides[k] # <<>> THEN Overrides[k] ELSE FlattenSeq(Lists(k))
BY DEF Mentioned, Lists, StaticAt

LEMMA StaticAtIs ==
    ASSUME given \in Inputs
    PROVE  /\ \A n \in Statics : StaticAt(Rank(n)) = n
           /\ \A k \in 1 .. Cardinality(Statics) : StaticAt(k) \in Statics
<1>1. ASSUME NEW n \in Statics PROVE StaticAt(Rank(n)) = n
  BY RankTellsApart DEF StaticAt
<1>2. ASSUME NEW k \in 1 .. Cardinality(Statics) PROVE StaticAt(k) \in Statics
  BY EveryPlaceTaken DEF StaticAt
<1> QED BY <1>1, <1>2

LEMMA ListsAre ==
    ASSUME given \in Inputs, NEW kind \in Kinds
    PROVE  /\ IsSeq(Lists(kind)) /\ Len(Lists(kind)) = Cardinality(Statics)
           /\ \A k \in 1 .. Len(Lists(kind)) : IsSeq(Lists(kind)[k])
<1> DEFINE lists == Lists(kind)
           N == Cardinality(Statics)
<1>1. N \in Nat /\ DOMAIN lists = 1 .. N /\ lists = [k \in 1 .. N |-> lists[k]]
  BY EveryPlaceTaken DEF Lists
<1>2. \A n \in Statics : IsSeq(given.interfaces[n][kind])
  <2> SUFFICES ASSUME NEW n \in Statics PROVE IsSeq(given.interfaces[n][kind])
    OBVIOUS
  <2>1. given.interfaces[n] \in ToSet(given.interfaces)
    BY DEF Statics, ToSet
  <2> QED BY <2>1, InputsAssumption DEF InputsAssumption, IsSeq
<1>3. \A k \in 1 .. N : IsSeq(lists[k])
  BY <1>2, StaticAtIs DEF Lists
<1> HIDE DEF lists, N
<1>4. IsSeq(lists) /\ Len(lists) = N
  BY <1>1, FunctionIsSeq
<1> QED BY <1>3, <1>4 DEF lists, N

(* What OneAddressEach and NamesAreNics ask of the addresses of a document. *)
OneEach(as) ==
    /\ Statics # {}
    /\ Len(as) = Cardinality(Statics)
    /\ \A n \in Statics : Configures(as[Rank(n)], given.interfaces[n], given.naming)

(* What SaidOnce asks of it. *)
SaysOnce(doc) ==
    /\ \A k \in Kinds : FirstMentions(doc[k], Mentioned(k))
    /\ doc.hostname # None => WholeName(doc.hostname)

(***************************************************************************)
(* The inductive invariant: what the loop has built so far is coherent and *)
(* has one address for each static interface behind it, its servers are    *)
(* the first mentions of those interfaces and its domain is of one of      *)
(* them; the documents are so for all static interfaces; and a run that is *)
(* under way has written none.                                             *)
(***************************************************************************)
LoopInv ==
    /\ next \in 1 .. Len(given.interfaces) + 1
    /\ Coherent(links, addresses, routes)
    /\ Len(addresses) = Cardinality(Below(next))
    /\ \A n \in Statics :
        n < next => Configures(addresses[Rank(n)], given.interfaces[n], given.naming)
    /\ pc = "machine" => next > Len(given.interfaces) /\ addresses # <<>>

SaidInv ==
    /\ DOMAIN servers = Kinds
    /\ \A k \in Kinds :
        /\ IsSeq(servers[k])
        /\ FirstMentions(servers[k], Flat(Lists(k))[Cardinality(Below(next))])
    /\ domain = None => \A n \in Statics : n < next => given.interfaces[n].domain = None
    /\ domain # None => \E n \in Statics : given.interfaces[n].domain = domain

DocsInv ==
    /\ IsSeq(docs)
    /\ \A p \in Built :
        /\ Coherent(docs[p].links, docs[p].addresses, docs[p].routes)
        /\ OneEach(docs[p].addresses)
        /\ SaysOnce(docs[p])

RunsInv ==
    /\ runs \in 1 .. MaxRuns
    /\ Len(docs) <= runs
    /\ pc \in {"source", "interfaces", "machine"} => Len(docs) < runs

NetInv ==
    /\ given \in Inputs /\ kernel \in Boots
    /\ pc \in {"source", "interfaces", "machine", "done", "skipped", "failed"}
    /\ LoopInv /\ SaidInv /\ DocsInv /\ RunsInv

(* All of this is about the interfaces, which no step changes. *)
LEMMA GivenKeeps ==
    ASSUME UNCHANGED given
    PROVE  /\ Statics' = Statics
           /\ \A n : Rank(n)' = Rank(n) /\ Below(n)' = Below(n)
           /\ \A k : Lists(k)' = Lists(k) /\ Mentioned(k)' = Mentioned(k)
           /\ \A name : WholeName(name)' <=> WholeName(name)
<1>1. Statics' = Statics
  BY DEF Statics
<1>2. \A n : Rank(n)' = Rank(n) /\ Below(n)' = Below(n)
  BY <1>1 DEF Rank, Below
<1>3. \A k : StaticAt(k)' = StaticAt(k)
  BY <1>1, <1>2 DEF StaticAt
<1>4. \A k : Lists(k)' = Lists(k)
  BY <1>1, <1>3 DEF Lists
<1>5. Overrides' = Overrides
  BY DEF Overrides
<1>6. \A k : Mentioned(k)' = Mentioned(k)
  <2>1. \A k : Mentioned(k)' =
            (IF Overrides[k] # <<>> THEN Overrides[k] ELSE FlattenSeq(Lists(k)))'
    BY DEF Mentioned, Lists, StaticAt
  <2> QED BY <1>4, <1>5, <2>1, MentionedIs
<1>7. \A name : WholeName(name)' <=> WholeName(name)
  BY <1>1, <1>5 DEF WholeName
<1> QED BY <1>1, <1>2, <1>4, <1>6, <1>7

LEMMA SaidFollows ==
    ASSUME UNCHANGED given, DOMAIN servers' = Kinds,
           \A k \in Kinds :
                /\ IsSeq(servers'[k])
                /\ FirstMentions(servers'[k], Flat(Lists(k))[Cardinality(Below(next'))]),
           domain' = None => \A n \in Statics : n < next' => given.interfaces[n].domain = None,
           domain' # None => \E n \in Statics : given.interfaces[n].domain = domain'
    PROVE  SaidInv'
<1>1. Statics' = Statics /\ \A k : Lists(k)' = Lists(k)
  BY GivenKeeps
<1>2. Below(next)' = Below(next')
  BY <1>1 DEF Below
<1>3. \A k \in Kinds : FirstMentions(servers[k], Flat(Lists(k))[Cardinality(Below(next))])'
  BY <1>1, <1>2
<1> QED BY <1>1, <1>3 DEF SaidInv

(* Before the first interface nothing is said. *)
LEMMA SaidAtFirst ==
    ASSUME given \in Inputs
    PROVE  /\ DOMAIN NoServers = Kinds
           /\ \A k \in Kinds :
                /\ IsSeq(NoServers[k])
                /\ FirstMentions(NoServers[k], Flat(Lists(k))[Cardinality(Below(1))])
           /\ \A n \in Statics : ~(n < 1)
<1>1. \A n \in Statics : ~(n < 1)
  BY InterfacesAre
<1>2. Below(1) = {}
  BY <1>1, Zenon DEF Below
<1>3. Cardinality(Below(1)) = 0
  BY <1>2, FS_EmptySet
<1>4. \A k \in Kinds : Flat(Lists(k))[0] = <<>>
  BY ListsAre, FlatIs
<1>5. DOMAIN NoServers = Kinds /\ \A k \in Kinds : NoServers[k] = <<>>
  BY DEF NoServers
<1> QED BY <1>1, <1>3, <1>4, <1>5, NothingSaid

(* appendUnique adds what the interface mentions. *)
LEMMA SaidGrows ==
    ASSUME given \in Inputs, next \in Statics, NEW kind \in Kinds, NEW list, IsSeq(list),
           FirstMentions(list, Flat(Lists(kind))[Cardinality(Below(next))])
    PROVE  LET more == AppendUnique(list, given.interfaces[next][kind])
           IN  /\ IsSeq(more)
               /\ FirstMentions(more, Flat(Lists(kind))[Cardinality(Below(next + 1))])
<1> DEFINE c == Cardinality(Below(next))
           flat == Flat(Lists(kind))
           values == given.interfaces[next][kind]
<1>1. next \in Nat
  BY InterfacesAre
<1>2. Cardinality(Below(next + 1)) = c + 1 /\ Rank(next) = c + 1 /\ c \in Nat
  BY <1>1, BelowNext
<1>3. c + 1 \in 1 .. Cardinality(Statics)
  <2>1. Len(given.interfaces) + 1 \in Nat /\ next < Len(given.interfaces) + 1
    BY InterfacesAre
  <2>2. Rank(next) \in 1 .. Cardinality(Below(Len(given.interfaces) + 1))
    BY <2>1, RankIsPlace
  <2>3. \A m \in Statics : m < Len(given.interfaces) + 1
    BY InterfacesAre
  <2>4. Below(Len(given.interfaces) + 1) = Statics
    BY <2>3, Zenon DEF Below
  <2> QED BY <1>2, <2>2, <2>4
<1>4. Lists(kind)[c + 1] = values
  BY <1>2, <1>3, StaticAtIs DEF Lists
<1>5. /\ Len(Lists(kind)) = Cardinality(Statics)
      /\ IsSeq(Lists(kind)) /\ \A k \in 1 .. Len(Lists(kind)) : IsSeq(Lists(kind)[k])
  BY ListsAre
<1>6. /\ \A n \in 1 .. Cardinality(Statics) : flat[n] = flat[n - 1] \o Lists(kind)[n]
      /\ \A n \in 0 .. Cardinality(Statics) : IsSeq(flat[n])
  BY <1>5, FlatIs
<1>7. c \in 0 .. Cardinality(Statics) /\ (c + 1) - 1 = c
  BY <1>2, <1>3, EveryPlaceTaken
<1> HIDE DEF c, flat, values
<1>8. flat[c + 1] = flat[c] \o values /\ IsSeq(flat[c]) /\ IsSeq(values)
  <2>1. flat[c + 1] = flat[(c + 1) - 1] \o Lists(kind)[c + 1]
    BY <1>3, <1>6
  <2>2. IsSeq(Lists(kind)[c + 1])
    BY <1>3, <1>5
  <2>3. IsSeq(flat[c])
    BY <1>6, <1>7
  <2> QED BY <1>4, <1>7, <2>1, <2>2, <2>3
<1>9. FirstMentions(list, flat[c])
  BY DEF flat, c
<1>10. IsSeq(AppendUnique(list, values)) /\ FirstMentions(AppendUnique(list, values), flat[c + 1])
  BY <1>8, <1>9, AppendUniqueIs
<1> QED BY <1>2, <1>10 DEF flat, c, values

LEMMA EmptyLoop ==
    ASSUME given \in Inputs
    PROVE  /\ 1 \in 1 .. Len(given.interfaces) + 1
           /\ Coherent(<<>>, <<>>, <<>>)
           /\ Len(<<>>) = Cardinality(Below(1))
           /\ \A n \in Statics : ~(n < 1)
           /\ IsSeq(<<>>)
<1>1. IsSeq(<<>>) /\ ToSet(<<>>) = {} /\ DOMAIN <<>> = {}
  BY DEF IsSeq, ToSet
<1>2. Coherent(<<>>, <<>>, <<>>)
  BY <1>1 DEF Coherent, ParentsFirst
<1>3. \A n \in Statics : ~(n < 1)
  BY InterfacesAre
<1>4. Below(1) = {}
  BY <1>3 DEF Below
<1>5. Cardinality(Below(1)) = 0
  BY <1>4, FS_EmptySet
<1>6. Len(<<>>) = 0
  OBVIOUS
<1> QED BY <1>1, <1>2, <1>3, <1>5, <1>6, InterfacesAre

LEMMA DocsKept ==
    ASSUME DocsInv, UNCHANGED <<given, docs>>
    PROVE  DocsInv'
<1>1. Built' = Built /\ Statics' = Statics
  BY DEF Built, Statics
<1>2. \A p \in Built : OneEach(docs[p].addresses)'
  <2>1. \A p \in Built : OneEach(docs[p].addresses)
    BY DEF DocsInv
  <2> QED BY <1>1, <2>1, GivenKeeps DEF OneEach
<1>3. \A p \in Built : SaysOnce(docs[p])'
  <2>1. \A p \in Built : SaysOnce(docs[p])
    BY DEF DocsInv
  <2> QED BY <2>1, GivenKeeps DEF SaysOnce
<1> QED BY <1>1, <1>2, <1>3 DEF DocsInv

(* A step that leaves the loop and the documents alone. *)
LEMMA StepElsewhere ==
    ASSUME NetInv, UNCHANGED <<given, kernel, next, links, addresses, routes, domain, servers,
                               docs, runs>>,
           pc' \in {"source", "interfaces", "machine", "done", "skipped", "failed"},
           pc' \in {"source", "interfaces", "machine"} =>
                pc \in {"source", "interfaces", "machine"},
           pc' = "machine" => next > Len(given.interfaces) /\ addresses # <<>>
    PROVE  NetInv'
<1>1. LoopInv'
  BY DEF NetInv, LoopInv, Below, Statics, Rank
<1>2. DocsInv'
  BY DocsKept DEF NetInv
<1>3. RunsInv'
  BY DEF NetInv, RunsInv
<1>4. SaidInv'
  BY SaidFollows DEF NetInv, SaidInv
<1> QED BY <1>1, <1>2, <1>3, <1>4 DEF NetInv

(* A document that is coherent and complete may be written. *)
LEMMA StepWrites ==
    ASSUME NetInv, NEW doc, Write(doc), pc \in {"source", "interfaces", "machine"},
           doc.from = "hardware" =>
                /\ Coherent(doc.links, doc.addresses, doc.routes)
                /\ OneEach(doc.addresses) /\ SaysOnce(doc)
    PROVE  NetInv'
<1>0. /\ pc' = "done" /\ docs' = Append(docs, doc)
      /\ UNCHANGED <<given, kernel, next, links, addresses, routes, domain, servers, runs>>
  BY DEF Write
<1>1. LoopInv'
  BY <1>0 DEF NetInv, LoopInv, Below, Statics, Rank
<1>2. IsSeq(docs) /\ Len(docs) < runs
  BY DEF NetInv, DocsInv, RunsInv
<1>3. /\ IsSeq(docs') /\ Len(docs') = Len(docs) + 1 /\ docs'[Len(docs) + 1] = doc
      /\ \A k \in 1 .. Len(docs) : docs'[k] = docs[k]
  BY <1>0, <1>2, AppendIs
<1>4. Len(docs) \in Nat /\ DOMAIN docs = 1 .. Len(docs) /\ DOMAIN docs' = 1 .. Len(docs) + 1
  BY <1>2, <1>3, SeqIs
<1>5. \A p \in DOMAIN docs' : (p \in DOMAIN docs /\ docs'[p] = docs[p]) \/ docs'[p] = doc
  BY <1>3, <1>4
<1>6. \A p \in Built' :
        /\ Coherent(docs'[p].links, docs'[p].addresses, docs'[p].routes)
        /\ OneEach(docs'[p].addresses) /\ SaysOnce(docs'[p])
  BY <1>5 DEF Built, NetInv, DocsInv
<1>7. DocsInv'
  <2>1. Statics' = Statics /\ IsSeq(docs')
    BY <1>0, <1>3, GivenKeeps
  <2>2. \A p \in Built' : OneEach(docs[p].addresses)'
    BY <1>0, <1>6, <2>1, GivenKeeps DEF OneEach
  <2>3. \A p \in Built' : SaysOnce(docs[p])'
    BY <1>0, <1>6, GivenKeeps DEF SaysOnce
  <2> QED BY <1>6, <2>1, <2>2, <2>3 DEF DocsInv
<1>8. RunsInv'
  BY <1>0, <1>2, <1>3, <1>4 DEF NetInv, RunsInv
<1>9. SaidInv'
  BY <1>0, SaidFollows DEF NetInv, SaidInv
<1> QED BY <1>0, <1>1, <1>7, <1>8, <1>9 DEF NetInv

(* An interface that is skipped, or added with its address. *)
LEMMA StepSkips ==
    ASSUME NetInv, SkipInterface
    PROVE  NetInv'
<1>0. /\ next <= Len(given.interfaces) /\ next' = next + 1 /\ pc' = pc /\ pc = "interfaces"
      /\ given.interfaces[next].address = None
      /\ UNCHANGED <<given, kernel, links, addresses, routes, domain, servers, docs, runs>>
  BY DEF SkipInterface, Static, Current
<1>1. next \in Nat /\ Len(given.interfaces) \in Nat
  BY InterfacesAre DEF NetInv, LoopInv
<1>2. next \notin Statics
  BY <1>0 DEF Statics
<1>3. Below(next + 1) = Below(next)
  BY <1>1, <1>2, BelowNext DEF NetInv
<1>4. \A n \in Statics : n < next + 1 => n < next
  BY <1>1, <1>2, InterfacesAre DEF NetInv
<1>5. /\ Len(addresses) = Cardinality(Below(next + 1))
      /\ \A n \in Statics :
            n < next + 1 => Configures(addresses[Rank(n)], given.interfaces[n], given.naming)
  BY <1>3, <1>4 DEF NetInv, LoopInv
<1>6. next' \in 1 .. Len(given.interfaces) + 1
  BY <1>0, <1>1
<1>7. LoopInv'
  BY <1>0, <1>5, <1>6 DEF NetInv, LoopInv, Below, Statics, Rank
<1>8. DocsInv'
  BY <1>0, DocsKept DEF NetInv
<1>9. RunsInv'
  BY <1>0 DEF NetInv, RunsInv
<1>10. SaidInv'
  BY <1>0, <1>3, <1>4, SaidFollows DEF NetInv, SaidInv
<1> QED BY <1>0, <1>7, <1>8, <1>9, <1>10 DEF NetInv

LEMMA StepAdds ==
    ASSUME NetInv, AddInterface
    PROVE  NetInv'
<1> DEFINE d == given.interfaces[next]
<1>0. /\ next <= Len(given.interfaces) /\ next' = next + 1 /\ pc' = pc /\ pc = "interfaces"
      /\ Static(d) /\ Usable(d)
      /\ links' = links \o NewLinks(d)
      /\ addresses' = Append(addresses, NewAddress(d))
      /\ routes' = routes \o DefaultRoutes(d) \o StaticRoutes(d)
      /\ domain' = IF domain = None THEN d.domain ELSE domain
      /\ servers' = [k \in Kinds |-> AppendUnique(servers[k], d[k])]
      /\ UNCHANGED <<given, kernel, docs, runs>>
  BY DEF AddInterface, Current
<1>1. /\ next \in Nat /\ Len(given.interfaces) \in Nat /\ next \in DOMAIN given.interfaces
      /\ given \in Inputs
  BY <1>0, InterfacesAre DEF NetInv, LoopInv
<1>2. next \in Statics
  BY <1>0, <1>1 DEF Statics, Static
<1>3. Declared(d)
  BY <1>1 DEF Declared, ToSet
<1>4. Coherent(links', addresses', routes')
  BY <1>0, <1>3, AddKeepsCoherent DEF NetInv, LoopInv
<1>5. /\ Cardinality(Below(next + 1)) = Cardinality(Below(next)) + 1
      /\ Rank(next) = Cardinality(Below(next)) + 1
  BY <1>1, <1>2, BelowNext
<1>6. IsSeq(addresses) /\ Len(addresses) = Cardinality(Below(next))
  BY DEF NetInv, LoopInv, Coherent
<1>7. /\ Len(addresses') = Len(addresses) + 1
      /\ addresses'[Len(addresses) + 1] = NewAddress(d)
      /\ \A k \in 1 .. Len(addresses) : addresses'[k] = addresses[k]
  BY <1>0, <1>6, AppendIs
<1>8. \A n \in Statics :
            n < next + 1 => Configures(addresses'[Rank(n)], given.interfaces[n], given.naming)
  <2> SUFFICES ASSUME NEW n \in Statics, n < next + 1
               PROVE  Configures(addresses'[Rank(n)], given.interfaces[n], given.naming)
    OBVIOUS
  <2>1. CASE n = next
    <3>1. Configures(NewAddress(d), d, given.naming)
      BY <1>0, NewAddressConfigures DEF NetInv
    <3> QED BY <1>5, <1>6, <1>7, <2>1, <3>1
  <2>2. CASE n < next
    <3>1. Rank(n) \in 1 .. Len(addresses)
      BY <1>1, <1>6, <2>2, RankIsPlace
    <3>2. Configures(addresses[Rank(n)], given.interfaces[n], given.naming)
      BY <2>2 DEF NetInv, LoopInv
    <3> QED BY <1>7, <3>1, <3>2
  <2>3. n \in Nat
    BY <1>1, InterfacesAre
  <2> QED BY <1>1, <2>1, <2>2, <2>3
<1>9. Len(addresses') = Cardinality(Below(next + 1))
  BY <1>5, <1>6, <1>7
<1>10. next' \in 1 .. Len(given.interfaces) + 1
  BY <1>0, <1>1
<1> HIDE DEF d
<1>11. LoopInv'
  BY <1>0, <1>4, <1>8, <1>9, <1>10 DEF LoopInv, Below, Statics, Rank
<1>12. DocsInv'
  BY <1>0, DocsKept DEF NetInv
<1>13. RunsInv'
  BY <1>0 DEF NetInv, RunsInv
<1>14. \A k \in Kinds :
            /\ IsSeq(servers'[k])
            /\ FirstMentions(servers'[k], Flat(Lists(k))[Cardinality(Below(next + 1))])
  <2> SUFFICES ASSUME NEW k \in Kinds
               PROVE  /\ IsSeq(servers'[k])
                      /\ FirstMentions(servers'[k], Flat(Lists(k))[Cardinality(Below(next + 1))])
    OBVIOUS
  <2>1. servers'[k] = AppendUnique(servers[k], given.interfaces[next][k])
    BY <1>0 DEF d
  <2>2. IsSeq(servers[k]) /\ FirstMentions(servers[k], Flat(Lists(k))[Cardinality(Below(next))])
    BY DEF NetInv, SaidInv
  <2> QED BY <1>1, <1>2, <2>1, <2>2, SaidGrows
<1>15. /\ domain' = None =>
            \A n \in Statics : n < next + 1 => given.interfaces[n].domain = None
       /\ domain' # None => \E n \in Statics : given.interfaces[n].domain = domain'
  <2>1. \A n \in Statics : n < next + 1 => n < next \/ n = next
    BY <1>1, InterfacesAre
  <2> QED BY <1>0, <1>2, <2>1 DEF NetInv, SaidInv, d
<1>16. SaidInv'
  <2>1. DOMAIN servers' = Kinds
    BY <1>0
  <2> QED BY <1>0, <1>14, <1>15, <2>1, SaidFollows
<1> QED BY <1>0, <1>11, <1>12, <1>13, <1>16 DEF NetInv

(* What the loop has built when it is through is complete. *)
LEMMA LoopEnds ==
    ASSUME NetInv, pc = "machine"
    PROVE  OneEach(addresses)
<1>1. next > Len(given.interfaces) /\ addresses # <<>> /\ given \in Inputs
  BY DEF NetInv, LoopInv
<1>2. \A n \in Statics : n < next
  BY <1>1, InterfacesAre DEF NetInv, LoopInv
<1>3. Below(next) = Statics
  BY <1>2 DEF Below
<1>4. Len(addresses) = Cardinality(Statics)
  BY <1>3 DEF NetInv, LoopInv
<1>5. Statics # {}
  <2> SUFFICES ASSUME Statics = {} PROVE FALSE
    OBVIOUS
  <2>1. Len(addresses) = 0
    BY <1>4, FS_EmptySet
  <2>2. addresses \in Seq(ToSet(addresses))
    BY DEF NetInv, LoopInv, Coherent, IsSeq
  <2> QED BY <1>1, <2>1, <2>2
<1> QED BY <1>2, <1>4, <1>5 DEF OneEach, NetInv, LoopInv

(* And what is said for the machine is what all of it mentions. *)
LEMMA ServersAre ==
    ASSUME NetInv, pc = "machine", NEW kind \in Kinds
    PROVE  FirstMentions(Servers(kind), Mentioned(kind))
<1>1. CASE Overrides[kind] # <<>>
  <2> DEFINE asked == Overrides[kind]
  <2>1. IsSeq(asked)
    <3>1. CASE given.action = "talosmeta"
      BY <3>1, NothingSaid DEF Overrides, NoOverrides, Kinds
    <3>2. CASE given.action # "talosmeta"
      BY <3>2, InputsAssumption DEF InputsAssumption, NetInv, Overrides, IsSeq
    <3> QED BY <3>1, <3>2
  <2> HIDE DEF asked
  <2>2. FirstMentions(AppendUnique(<<>>, asked), <<>> \o asked)
    BY <2>1, NothingSaid, AppendUniqueIs
  <2>3. <<>> \o asked = asked
    BY <2>1 DEF IsSeq
  <2> QED BY <1>1, <2>2, <2>3, MentionedIs DEF Servers, asked
<1>2. CASE Overrides[kind] = <<>>
  <2>1. next > Len(given.interfaces) /\ given \in Inputs /\ next \in Nat
    BY InterfacesAre DEF NetInv, LoopInv
  <2>2. \A n \in Statics : n < next
    BY <2>1, InterfacesAre
  <2>3. Below(next) = Statics
    BY <2>2, Zenon DEF Below
  <2>4. FlattenSeq(Lists(kind)) = Flat(Lists(kind))[Cardinality(Statics)]
    BY <2>1, ListsAre, FlattenSeqIs
  <2>5. FirstMentions(servers[kind], Flat(Lists(kind))[Cardinality(Below(next))])
    BY DEF NetInv, SaidInv
  <2> QED BY <1>2, <2>3, <2>4, <2>5, MentionedIs DEF Servers
<1> QED BY <1>1, <1>2

LEMMA HostnameIs ==
    ASSUME NetInv, pc = "machine", Hostname # None
    PROVE  WholeName(Hostname)
<1> DEFINE asked == Overrides.hostname
           domains == {given.interfaces[n].domain : n \in Statics}
<1>1. asked # None => asked = <<asked[1], asked[2]>>
  BY InputsAssumption DEF InputsAssumption, NetInv, Overrides, NoOverrides
<1>2. /\ domain = None => domains \subseteq {None}
      /\ domain # None => domain \in domains
  <2>1. \A n \in Statics : n < next
    BY InterfacesAre DEF NetInv, LoopInv
  <2> QED BY <2>1 DEF NetInv, SaidInv
<1>3. domains # {}
  BY LoopEnds DEF OneEach
<1>4. Hostname = <<FirstHostname[1],
                   IF FullyQualified(asked) \/ domain = None THEN FirstHostname[2] ELSE domain>>
  BY DEF Hostname
<1>5. asked # None => FirstHostname = asked
  BY DEF FirstHostname
<1> HIDE DEF asked, domains
<1>6. FullyQualified(asked) => Hostname = asked
  BY <1>1, <1>4, <1>5 DEF FullyQualified
<1>7. asked # None => Hostname[1] = asked[1]
  BY <1>4, <1>5
<1>8. ~FullyQualified(asked) /\ domains # {None} => Hostname[2] \in domains \ {None}
  BY <1>2, <1>3, <1>4
<1> QED BY <1>6, <1>7, <1>8 DEF WholeName, asked, domains

(* NetInv holds throughout. *)
LEMMA NetInvariant == Spec => []NetInv
<1>1. Init => NetInv
  <2> SUFFICES ASSUME Init PROVE NetInv
    OBVIOUS
  <2>1. LoopInv
    BY EmptyLoop DEF Init, LoopInv
  <2>2. DocsInv
    BY EmptyLoop DEF Init, DocsInv, Built
  <2>3. RunsInv
    BY InputsAssumption DEF InputsAssumption, Init, RunsInv
  <2>4. SaidInv
    BY SaidAtFirst DEF Init, SaidInv
  <2> QED BY <2>1, <2>2, <2>3, <2>4 DEF Init, NetInv
<1>2. NetInv /\ [Next]_vars => NetInv'
  <2> SUFFICES ASSUME NetInv, [Next]_vars PROVE NetInv'
    OBVIOUS
  <2>1. CASE NetworkConfig
    <3>1. CASE End("failed")
      BY <3>1, StepElsewhere DEF End
    <3>2. CASE Write([from |-> "operator", text |-> given.config])
      BY <2>1, <3>2, StepWrites DEF NetworkConfig
    <3> QED BY <2>1, <3>1, <3>2 DEF NetworkConfig
  <2>2. CASE FetchHardware
    BY <2>2, StepElsewhere DEF FetchHardware, End
  <2>3. CASE ReadHardware
    BY <2>3, StepElsewhere DEF ReadHardware, End
  <2>4. CASE SkipInterface
    BY <2>4, StepSkips
  <2>5. CASE AddInterface
    BY <2>5, StepAdds
  <2>6. CASE AddFails
    BY <2>6, StepElsewhere DEF AddFails, End
  <2>7. CASE InterfacesEnd
    BY <2>7, StepElsewhere DEF InterfacesEnd, End
  <2>8. CASE Finish
    <3>1. CASE End("failed")
      BY <3>1, StepElsewhere DEF End
    <3> DEFINE doc == [from |-> "hardware", links |-> links, addresses |-> addresses,
                       routes |-> routes, hostname |-> Hostname, dns |-> Servers("dns"),
                       ntp |-> Servers("ntp"), external |-> AppendUnique(<<>>, PublicIPs)]
    <3>2. CASE Write(doc)
      <4>1. doc.links = links /\ doc.addresses = addresses /\ doc.routes = routes
        OBVIOUS
      <4>2. doc.hostname = Hostname /\ \A k \in Kinds : doc[k] = Servers(k)
        BY DEF Kinds
      <4> HIDE DEF doc
      <4>3. Coherent(doc.links, doc.addresses, doc.routes) /\ OneEach(doc.addresses)
        BY <2>8, <4>1, LoopEnds DEF Finish, NetInv, LoopInv
      <4>4. SaysOnce(doc)
        BY <2>8, <4>2, ServersAre, HostnameIs DEF Finish, SaysOnce
      <4> QED BY <2>8, <3>2, <4>3, <4>4, StepWrites DEF Finish
    <3> QED BY <2>8, <3>1, <3>2 DEF Finish
  <2>9. CASE Reboot
    <3>1. /\ pc' = "source" /\ next' = 1 /\ servers' = NoServers /\ runs' = runs + 1
          /\ links' = <<>> /\ addresses' = <<>> /\ routes' = <<>>
          /\ kernel' \in Boots /\ UNCHANGED <<given, docs>> /\ runs < MaxRuns
      BY <2>9 DEF Reboot
    <3>2. LoopInv'
      BY <3>1, EmptyLoop DEF NetInv, LoopInv, Below, Statics
    <3>3. DocsInv'
      BY <3>1, DocsKept DEF NetInv
    <3>4. RunsInv'
      <4>1. Len(docs) \in Nat
        BY SeqIs DEF NetInv, DocsInv
      <4> QED BY <3>1, <4>1, InputsAssumption DEF InputsAssumption, NetInv, RunsInv
    <3>5. domain' = None /\ \A n \in Statics : ~(n < next')
      BY <2>9, <3>1, SaidAtFirst DEF Reboot, NetInv
    <3>6. SaidInv'
      BY <3>1, <3>5, SaidAtFirst, SaidFollows DEF NetInv
    <3> QED BY <3>1, <3>2, <3>3, <3>4, <3>6 DEF NetInv
  <2>10. CASE UNCHANGED vars
    <3>1. /\ UNCHANGED <<given, kernel, next, links, addresses, routes, domain, servers,
                        docs, runs>>
          /\ pc' = pc
      BY <2>10 DEF vars
    <3>2. pc = "machine" => next > Len(given.interfaces) /\ addresses # <<>>
      BY DEF NetInv, LoopInv
    <3>3. pc \in {"source", "interfaces", "machine", "done", "skipped", "failed"}
      BY DEF NetInv
    <3> QED BY <3>1, <3>2, <3>3, StepElsewhere
  <2> QED BY <2>1, <2>2, <2>3, <2>4, <2>5, <2>6, <2>7, <2>8, <2>9, <2>10 DEF Next
<1> QED BY <1>1, <1>2, PTL DEF Spec

-------------------------------------------------------------------------------
(***************************************************************************)
(* Every variable keeps its type: the loop stays within the interfaces,    *)
(* every address and route has a family, and a run writes one document.    *)
(***************************************************************************)
THEOREM TypeCorrect == Spec => []TypeOK
<1>1. NetInv => TypeOK
  <2> SUFFICES ASSUME NetInv PROVE TypeOK
    OBVIOUS
  <2>1. \A l \in ToSet(links) : l.parent # None => l.name[1] = "vlan"
    BY DEF NetInv, LoopInv, Coherent, ParentsFirst, ToSet
  <2>2. \A a \in ToSet(addresses) : a.address[1] \in {4, 6}
    BY DEF NetInv, LoopInv, Coherent, AddressOn
  <2>3. \A r \in ToSet(routes) : r.family \in {4, 6}
    BY DEF NetInv, LoopInv, Coherent, RouteOn
  <2>4. Len(docs) \in Nat
    BY SeqIs DEF NetInv, DocsInv
  <2>5. Len(docs) \in 0 .. runs /\ runs \in 1 .. MaxRuns
    BY <2>4 DEF NetInv, RunsInv
  <2>6. next \in 1 .. Len(given.interfaces) + 1
    BY DEF NetInv, LoopInv
  <2> QED BY <2>1, <2>2, <2>3, <2>5, <2>6 DEF TypeOK, NetInv, SaidInv
<1> QED BY <1>1, NetInvariant, PTL

(***************************************************************************)
(* A document that is made from the Hardware configures every static       *)
(* interface and no other, in their order, for any number of interfaces    *)
(* (mapping.go:63-87).                                                     *)
(***************************************************************************)
THEOREM EveryInterfaceOnce == Spec => []OneAddressEach
<1>1. NetInv => OneAddressEach
  BY DEF NetInv, DocsInv, OneEach, Configures, OneAddressEach
<1> QED BY <1>1, NetInvariant, PTL

(***************************************************************************)
(* And it is consistent in itself: addresses and routes are on links that  *)
(* it brings up, parents come first, prefixes fit their address            *)
(* (mapping.go:149-244, 266-300).                                          *)
(***************************************************************************)
THEOREM DocumentsHangTogether == Spec => []HangsTogether
<1>1. NetInv => HangsTogether
  <2> SUFFICES ASSUME NetInv, NEW p \in Built
               PROVE  LET d == docs[p]
                          names == {l.name : l \in ToSet(d.links)}
                      IN  /\ \A a \in ToSet(d.addresses) :
                              a.link \in names /\ a.bits \in 0 .. Width(a.address[1])
                          /\ \A r \in ToSet(d.routes) : r.link \in names
                          /\ \A k \in DOMAIN d.links :
                              d.links[k].parent # None =>
                                  \E j \in 1 .. k - 1 : d.links[j].name = d.links[k].parent
    BY DEF HangsTogether
  <2>1. Coherent(docs[p].links, docs[p].addresses, docs[p].routes)
    BY DEF NetInv, DocsInv
  <2> QED BY <2>1 DEF Coherent, AddressOn, RouteOn, ParentsFirst, NamesOf
<1> QED BY <1>1, NetInvariant, PTL

(***************************************************************************)
(* Resolvers and time servers are the first mentions of the override, or   *)
(* else of all static interfaces, and an override of the hostname is the   *)
(* whole name only when it is fully qualified, for any number of           *)
(* interfaces and servers (mapping.go:80-135, 326-356).                    *)
(***************************************************************************)
THEOREM EachSaidOnce == Spec => []SaidOnce
<1>1. NetInv => SaidOnce
  BY DEF NetInv, DocsInv, SaysOnce, SaidOnce
<1> QED BY <1>1, NetInvariant, PTL

(***************************************************************************)
(* Predictable names tell the NICs of a machine apart and last: in any two *)
(* documents, of any boots, two links have one name if and only if they    *)
(* are for one MAC (naming.go:43-216).                                     *)
(***************************************************************************)
THEOREM NamesLast == Spec => []NamesAreNics
<1>1. ASSUME NetInv, given.naming = "predictable", NEW p \in Built, NEW n \in ByMac
      PROVE  \E c \in Nics :
                /\ MacOf[c] = given.interfaces[n].mac /\ Plain(c)
                /\ LinkOf(p, n) = PredictableName(c)
  <2> DEFINE d == given.interfaces[n]
             link == docs[p].addresses[Rank(n)].link
  <2>1. n \in Statics /\ d.iface = None /\ \A m \in Nics : MacOf[m] = d.mac => Plain(m)
    BY DEF ByMac
  <2>2. Configures(docs[p].addresses[Rank(n)], d, "predictable")
    BY <1>1, <2>1 DEF NetInv, DocsInv, OneEach
  <2>3. PICK k \in Boots :
            Carriers(k, d.mac) # {} /\ Physical(link) = LinkName(k, d.mac, "predictable")
    BY <2>1, <2>2 DEF Configures
  <2> DEFINE c == Carrier(k, d.mac)
  <2>4. /\ c \in Nics /\ MacOf[c] = d.mac /\ Plain(c)
        /\ LinkName(k, d.mac, "predictable") = PredictableName(c)
    BY <2>1, <2>3, CarrierIs
  <2>5. LinkOf(p, n) = Physical(link)
    BY DEF LinkOf
  <2> QED BY <2>3, <2>4, <2>5
<1>2. NetInv => NamesAreNics
  <2> SUFFICES ASSUME NetInv, given.naming = "predictable",
                      NEW p \in Built, NEW q \in Built, NEW n \in ByMac, NEW m \in ByMac
               PROVE  LinkOf(p, n) = LinkOf(q, m) <=>
                          given.interfaces[n].mac = given.interfaces[m].mac
    BY DEF NamesAreNics
  <2>1. PICK a \in Nics : /\ MacOf[a] = given.interfaces[n].mac /\ Plain(a)
                          /\ LinkOf(p, n) = PredictableName(a)
    BY <1>1
  <2>2. PICK b \in Nics : /\ MacOf[b] = given.interfaces[m].mac /\ Plain(b)
                          /\ LinkOf(q, m) = PredictableName(b)
    BY <1>1
  <2>3. MacOf[a] = MacOf[b] => a = b
    BY <2>1 DEF Plain
  <2>4. a # b => PredictableName(a) # PredictableName(b)
    <3> SUFFICES ASSUME a # b PROVE PredictableName(a) # PredictableName(b)
      OBVIOUS
    <3>1. OnPci(a) /\ OnPci(b) /\ Apart(a, b) /\ Apart(b, a)
      BY <2>1, <2>2 DEF Plain
    <3> QED BY <3>1, NamesTellApart
  <2> QED BY <2>1, <2>2, <2>3, <2>4
<1> QED BY <1>2, NetInvariant, PTL
===============================================================================
