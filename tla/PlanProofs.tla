------------------------------ MODULE PlanProofs ------------------------------
(***************************************************************************)
(* Proofs about what talos2disk plans: the settings of InstallPlan, for    *)
(* any machine, any inputs, any answers of the Factory and any number of   *)
(* runs; and the kernel arguments of CommandLine, for any inputs and any   *)
(* UKI.                                                                    *)
(***************************************************************************)
EXTENDS InstallPlan, CommandLine, WellFoundedInduction, TLAPS

(* A set of numbers that is not empty has a least one. *)
LEMMA LeastNumber ==
    ASSUME NEW S, S \subseteq Nat, S # {}
    PROVE  \E n \in S : \A m \in S : n <= m
<1>1. PICK n \in S : \A m \in S : <<m, n>> \notin OpToRel(<, Nat)
  BY NatLessThanWellFounded, WFMin
<1>2. \A m \in S : ~(m < n)
  BY <1>1 DEF OpToRel
<1>3. \A m \in S : n <= m
  BY <1>2
<1> QED BY <1>3

(* A set of numbers with 0 and the successors of its elements has them all. *)
LEMMA Induction ==
    ASSUME NEW N \in Nat, NEW S, 0 \in S, \A k \in 1 .. N : k - 1 \in S => k \in S
    PROVE  \A k \in 0 .. N : k \in S
<1> DEFINE Missing == (0 .. N) \ S
<1> SUFFICES ASSUME Missing # {} PROVE FALSE
  OBVIOUS
<1>1. PICK n \in Missing : \A m \in Missing : n <= m
  <2>1. Missing \subseteq Nat
    OBVIOUS
  <2> HIDE DEF Missing
  <2> QED BY <2>1, LeastNumber
<1>2. n \in 1 .. N /\ n - 1 \in 0 .. N /\ n - 1 \in S
  BY <1>1
<1> QED BY <1>1, <1>2

(* A loop that turns the value it has with each i up to N has values. *)
HasValues(T, first, N, turn) ==
    \E f \in [0 .. N -> T] :
        f[0] = first /\ \A n \in 1 .. N : f[n] = turn[<<f[n - 1], n>>]

LEMMA LoopExists ==
    ASSUME NEW T, NEW first \in T, NEW N \in Nat, NEW turn \in [T \X (1 .. N) -> T]
    PROVE  HasValues(T, first, N, turn)
<1> DEFINE Runs(f, k) ==
        /\ f \in [0 .. k -> T]
        /\ f[0] = first /\ \A n \in 1 .. k : f[n] = turn[<<f[n - 1], n>>]
    Good == {k \in 0 .. N : \E f : Runs(f, k)}
<1>1. 0 \in Good
  <2>1. Runs([n \in 0 .. 0 |-> first], 0)
    OBVIOUS
  <2> HIDE DEF Runs
  <2> QED BY <2>1
<1>2. ASSUME NEW k \in 1 .. N, k - 1 \in Good
      PROVE  k \in Good
  <2>1. PICK f : Runs(f, k - 1)
    BY <1>2
  <2> DEFINE g == [n \in 0 .. k |-> IF n = k THEN turn[<<f[k - 1], k>>] ELSE f[n]]
  <2>2. turn[<<f[k - 1], k>>] \in T
    BY <2>1
  <2>3. g \in [0 .. k -> T]
    BY <2>1, <2>2
  <2>4. g[0] = first /\ g[k] = turn[<<g[k - 1], k>>]
    <3>1. k # 0 /\ k - 1 # k /\ 0 \in 0 .. k /\ k \in 0 .. k /\ k - 1 \in 0 .. k
      OBVIOUS
    <3>2. g[0] = f[0] /\ g[k - 1] = f[k - 1] /\ g[k] = turn[<<f[k - 1], k>>]
      BY <3>1
    <3> HIDE DEF g
    <3> QED BY <2>1, <3>2
  <2>5. \A n \in 1 .. k - 1 : g[n] = f[n] /\ g[n - 1] = f[n - 1]
    OBVIOUS
  <2>6. \A n \in 1 .. k : g[n] = turn[<<g[n - 1], n>>]
    <3> HIDE DEF g
    <3>1. \A n \in 1 .. k - 1 : g[n] = turn[<<g[n - 1], n>>]
      BY <2>1, <2>5
    <3> QED BY <2>4, <3>1
  <2> HIDE DEF g
  <2>7. Runs(g, k)
    BY <2>3, <2>4, <2>6
  <2> HIDE DEF Runs
  <2> QED BY <2>7
<1> HIDE DEF Good
<1>3. \A k \in 0 .. N : k \in Good
  BY <1>1, <1>2, Induction
<1>4. PICK f : Runs(f, N)
  <2>1. N \in Good
    BY <1>3
  <2> HIDE DEF Runs
  <2> QED BY <2>1 DEF Good
<1> QED BY <1>4 DEF HasValues

-------------------------------------------------------------------------------
(* A version that counts for a minor, and the newest of them. *)
Released(v, minor) == v[2] = minor /\ ~v[4] /\ v[3] # Odd

Newest(versions, minor, v) ==
    /\ v \in versions /\ Released(v, minor)
    /\ \A w \in versions : Released(w, minor) => w[3] <= v[3]

(* The loop of ResolveVersion ends with the newest release of the minor,    *)
(* and without a version only if there is none.                             *)
LEMMA ResolveVersionIs ==
    ASSUME NEW minor, NEW l \in Lists, ResolveVersion(minor, l) # None
    PROVE  Newest(ToSet(l), minor, ResolveVersion(minor, l))
<1> DEFINE N == Len(l)
           T == ToSet(l) \cup {None}
           Turn(b, n) == IF Better(minor, b, l[n]) THEN l[n] ELSE b
           turn == [p \in T \X (1 .. N) |-> Turn(p[1], p[2])]
           IsLoop(f) == f = [n \in 0 .. N |-> IF n = 0 THEN None ELSE Turn(f[n - 1], n)]
           best == CHOOSE f : IsLoop(f)
<1>1. /\ N \in Nat /\ DOMAIN l = 1 .. N
      /\ \A n \in 1 .. N : l[n] \in ToSet(l)
      /\ \A v \in ToSet(l) : v # None /\ (v[3] # Odd => v[3] \in Int)
  <2>1. /\ l \in Seq(ToSet(l))
        /\ \A v \in ToSet(l) : v # None /\ (v[3] # Odd => v[3] \in Int)
    BY InstallAssumption DEF InstallAssumption
  <2>2. N \in Nat /\ DOMAIN l = 1 .. N
    BY <2>1
  <2> QED BY <2>1, <2>2 DEF ToSet
<1>2. \A b \in T, n \in 1 .. N : Turn(b, n) \in T
  BY <1>1
<1> HIDE DEF N, T, Turn
<1>3. turn \in [T \X (1 .. N) -> T]
  BY <1>2
<1>4. None \in T
  BY DEF T
<1>5. PICK f \in [0 .. N -> T] : f[0] = None /\ \A n \in 1 .. N : f[n] = turn[<<f[n - 1], n>>]
  <2> HIDE DEF turn
  <2>1. HasValues(T, None, N, turn)
    BY <1>1, <1>3, <1>4, LoopExists
  <2> QED BY <2>1 DEF HasValues
<1>6. \A n \in 1 .. N : f[n - 1] \in T
  BY <1>1, <1>5
<1>7. \A n \in 1 .. N : f[n] = Turn(f[n - 1], n)
  BY <1>5, <1>6
<1>8. IsLoop(f)
  BY <1>1, <1>5, <1>7
<1>9. IsLoop(best)
  <2> HIDE DEF IsLoop
  <2> QED BY <1>8
<1>10. ResolveVersion(minor, l) = best[N]
  BY DEF ResolveVersion, N, Turn
<1> HIDE DEF best
<1>11. best[0] = None /\ \A n \in 1 .. N : best[n] = Turn(best[n - 1], n)
  BY <1>1, <1>9
<1> DEFINE Best(n, b) ==
            /\ b # None => b \in ToSet(l) /\ Released(b, minor)
            /\ \A k \in 1 .. n : Released(l[k], minor) => b # None /\ l[k][3] <= b[3]
           Done == {n \in 0 .. N : Best(n, best[n])}
<1>12. 0 \in Done
  BY <1>1, <1>11
<1>13. ASSUME NEW n \in 1 .. N, n - 1 \in Done
       PROVE  n \in Done
  <2> DEFINE b == best[n - 1]
             v == l[n]
  <2>1. Best(n - 1, b)
    BY <1>13
  <2> HIDE DEF b
  <2>2. best[n] = IF Better(minor, b, v) THEN v ELSE b
    BY <1>11 DEF Turn, b
  <2>3. Better(minor, b, v) <=> Released(v, minor) /\ (b = None \/ v[3] > b[3])
    BY DEF Better, Released
  <2>4. /\ v \in ToSet(l) /\ v # None
        /\ Released(v, minor) => v[3] \in Int
        /\ b # None => b[3] \in Int
    BY <1>1, <2>1 DEF Released
  <2>5. \A k \in 1 .. n : k = n \/ k \in 1 .. n - 1
    BY <1>1
  <2>6. \A k \in 1 .. n - 1 : Released(l[k], minor) => l[k][3] \in Int
    BY <1>1 DEF Released
  <2> HIDE DEF v
  <2>7. CASE Better(minor, b, v)
    <3>1. best[n] = v
      BY <2>2, <2>7
    <3>2. \A k \in 1 .. n - 1 : Released(l[k], minor) => l[k][3] <= v[3]
      BY <2>1, <2>3, <2>4, <2>6, <2>7
    <3>3. v[3] <= v[3]
      BY <2>3, <2>4, <2>7
    <3>4. Best(n, v)
      BY <2>3, <2>4, <2>5, <2>7, <3>2, <3>3 DEF v
    <3> QED BY <1>1, <3>1, <3>4
  <2>8. CASE ~Better(minor, b, v)
    <3>1. best[n] = b
      BY <2>2, <2>8
    <3>2. Released(v, minor) => b # None /\ v[3] <= b[3]
      BY <2>3, <2>4, <2>8
    <3>3. Best(n, b)
      BY <2>1, <2>5, <3>2 DEF v
    <3> QED BY <1>1, <3>1, <3>3
  <2> QED BY <2>7, <2>8
<1>14. Best(N, best[N])
  <2> HIDE DEF Done
  <2>1. \A n \in 0 .. N : n \in Done
    BY <1>1, <1>12, <1>13, Induction
  <2>2. N \in Done
    BY <1>1, <2>1
  <2> QED BY <2>2 DEF Done
<1>15. \A w \in ToSet(l) : \E k \in 1 .. N : l[k] = w
  BY <1>1 DEF ToSet
<1> QED BY <1>10, <1>14, <1>15 DEF Newest

-------------------------------------------------------------------------------
(* FirstNot finds the element that only blanks come before. *)
LEMMA FirstNotIs ==
    ASSUME NEW s, NEW blank, DOMAIN s \subseteq Nat \ {0},
           NEW i \in DOMAIN s, s[i] # blank, \A j \in 1 .. i - 1 : s[j] = blank
    PROVE  FirstNot(s, blank) = s[i]
<1> DEFINE First(k) == s[k] # blank /\ \A j \in 1 .. k - 1 : s[j] = blank
<1>1. \A k \in DOMAIN s : First(k) => k = i
  <2> SUFFICES ASSUME NEW k \in DOMAIN s, First(k), k # i PROVE FALSE
    OBVIOUS
  <2>1. CASE k < i
    BY <2>1
  <2>2. CASE i < k
    BY <2>2
  <2> QED BY <2>1, <2>2
<1>2. First(i) /\ i \in DOMAIN s
  OBVIOUS
<1>3. (CHOOSE k \in DOMAIN s : First(k)) = i
  <2> HIDE DEF First
  <2> QED BY <1>1, <1>2
<1> QED BY <1>2, <1>3 DEF FirstNot

(* The settings that a run goes on with, as the inputs determine them. *)
Resolved == [s \in DOMAIN Layers |-> Chosen(Layers[s])]

Accepted ==
    /\ Parsed # Broken
    /\ Resolved.disk # Bad
    /\ Resolved.schematic # Bad
    /\ Resolved.version # Bad

(* The disk x is the one meant by setting s, if s singles one out of e. *)
Meant(s, e, x) ==
    \A d \in Disks :
        \/ s = ByLink(d)
        \/ \E S \in SUBSET Disks : s = Sel(S) /\ S \cap e = {d}
        => x = d /\ d \in e

(* The version v is the one meant by setting s, with the versions listed. *)
Settled(s, v, listed) ==
    IF s[1] = "minor" THEN listed # <<>> /\ Newest(ToSet(listed), s[2], v)
    ELSE listed = <<>> /\ v = s

(* A plan from the settings, with a version and a disk they mean. *)
Follows(plan, resolved, e) ==
    /\ Meant(resolved.disk, e, plan.disk)
    /\ plan.schematic = resolved.schematic /\ plan.factory = resolved.factory
    /\ Settled(resolved.version, plan.version, plan.listed)

(***************************************************************************)
(* The inductive invariant: past Resolve the settings are those of the     *)
(* inputs, and none is invalid; the disk selected is the one meant, and    *)
(* every plan follows from the inputs, whatever run made it.               *)
(***************************************************************************)
PlanInv ==
    /\ given \in Inputs
    /\ name \in [Disks -> Int]
    /\ found \subseteq Disks
    /\ pc \in {"resolve", "enumerate", "select", "factory", "stopped"}
    /\ pc \in {"enumerate", "select", "factory"} => settings = Resolved /\ Accepted
    /\ pc = "factory" => Meant(Resolved.disk, eligible, disk)
    /\ plans \in Seq(ToSet(plans))
    /\ plans # <<>> => Accepted /\ Resolved.factory # Bad
    /\ \A p \in DOMAIN plans : Follows(plans[p], Resolved, eligible)

(* A candidate of a selector, or the target of a path, is the disk meant. *)
LEMMA SelectedIsMeant ==
    ASSUME PlanInv, pc = "select", NEW x,
           \/ /\ settings.disk[1] = "selector" /\ Candidates # {}
              /\ x = FirstByName(Candidates)
           \/ /\ settings.disk[1] # "selector" /\ Target \cap eligible # {}
              /\ x \in Target
    PROVE  Meant(settings.disk, eligible, x)
<1> SUFFICES ASSUME NEW d \in Disks, Singles(settings.disk, d)
             PROVE  x = d /\ d \in eligible
  BY DEF Singles, Meant
<1>1. CASE settings.disk = ByLink(d)
  <2>1. \A e \in Disks : settings.disk = ByLink(e) => e = d
    BY <1>1 DEF ByLink
  <2>2. \A n : settings.disk # ByName(n)
    BY <1>1 DEF ByLink, ByName
  <2>3. Target \subseteq {d}
    BY <2>1, <2>2 DEF Target, PlanInv
  <2>4. settings.disk[1] # "selector"
    BY <1>1 DEF ByLink
  <2> QED BY <2>3, <2>4
<1>2. CASE \E S \in SUBSET Disks : settings.disk = Sel(S) /\ S \cap eligible = {d}
  <2>1. PICK S \in SUBSET Disks : settings.disk = Sel(S) /\ S \cap eligible = {d}
    BY <1>2
  <2>2. settings.disk[1] = "selector" /\ settings.disk[2] = S
    BY <2>1 DEF Sel
  <2>3. Candidates # {} /\ Candidates \subseteq {d}
    BY <2>1, <2>2 DEF Candidates
  <2>4. Candidates = {d}
    BY <2>3
  <2>5. \A e \in Candidates : name[d] <= name[e]
    BY <2>4 DEF PlanInv
  <2>6. FirstByName(Candidates) = d
    BY <2>4, <2>5 DEF FirstByName
  <2> QED BY <2>1, <2>2, <2>6
<1> QED BY <1>1, <1>2 DEF Singles

(* What the inputs determine stays as it is. *)
LEMMA InputsDecide ==
    ASSUME UNCHANGED <<given, eligible>>
    PROVE  Resolved' = Resolved /\ (Accepted' <=> Accepted)
<1>1. Parsed' = Parsed
  BY DEF Parsed, FirstNot
<1>2. Config' = Config
  BY <1>1 DEF Config
<1>3. InstallDiskPath' = InstallDiskPath /\ ImageTag' = ImageTag
  BY <1>2 DEF InstallDiskPath, ImageTag
<1>4. FirstDisk' = FirstDisk
  BY DEF FirstDisk, FirstNot
<1>5. Layers' = Layers
  BY <1>2, <1>3, <1>4 DEF Layers
<1>6. Resolved' = Resolved
  BY <1>5 DEF Resolved, Chosen, FirstNot
<1>7. Accepted' <=> Accepted
  BY <1>1, <1>6 DEF Accepted
<1> QED BY <1>6, <1>7

(* A plan is added only from settings that are valid. *)
LEMMA PlanAdded ==
    ASSUME PlanInv, pc = "factory", settings.factory # Bad,
           NEW version, NEW listed, MakePlan(version, listed),
           Settled(settings.version, version, listed),
           UNCHANGED <<given, eligible, name, linked, found, settings, runs>>
    PROVE  PlanInv'
<1> DEFINE plan == [disk |-> disk, schematic |-> settings.schematic, version |-> version,
                    factory |-> settings.factory, listed |-> listed]
<1>1. plans' = Append(plans, plan) /\ pc' = "stopped"
  BY DEF MakePlan
<1>2. Follows(plan, Resolved, eligible)
  <2>1. settings = Resolved /\ Meant(Resolved.disk, eligible, disk)
    BY DEF PlanInv
  <2>2. /\ plan.disk = disk /\ plan.schematic = settings.schematic
        /\ plan.factory = settings.factory
        /\ plan.version = version /\ plan.listed = listed
    OBVIOUS
  <2> QED BY <2>1, <2>2 DEF Follows
<1>3. Accepted /\ Resolved.factory # Bad
  BY DEF PlanInv
<1> HIDE DEF plan
<1>4. plans' \in Seq(ToSet(plans'))
  <2>1. plans \in Seq(ToSet(plans))
    BY DEF PlanInv
  <2>2. DOMAIN plans' = 1 .. Len(plans) + 1 /\ Len(plans) \in Nat
    BY <1>1, <2>1
  <2>3. plans' \in Seq(ToSet(plans) \cup {plan})
    BY <1>1, <2>1
  <2>4. plans' = [k \in 1 .. Len(plans) + 1 |-> plans'[k]]
    BY <2>2, <2>3
  <2> QED BY <2>2, <2>4 DEF ToSet
<1>5. \A p \in DOMAIN plans' : plans'[p] = plan \/ \E q \in DOMAIN plans : plans'[p] = plans[q]
  BY <1>1 DEF PlanInv
<1>6. \A p \in DOMAIN plans' : Follows(plans'[p], Resolved, eligible)
  BY <1>2, <1>5 DEF PlanInv
<1>7. Accepted' /\ Resolved'.factory # Bad
  BY <1>3, InputsDecide
<1> QED BY <1>1, <1>4, <1>6, <1>7, InputsDecide DEF PlanInv

(* A run that stops, or goes on to look for its disk, changes no plan. *)
LEMMA PlansKept ==
    ASSUME PlanInv, UNCHANGED <<given, eligible, plans>>, name' \in [Disks -> Int],
           found' \subseteq Disks, pc' \in {"resolve", "enumerate", "select", "stopped"},
           pc' \in {"enumerate", "select"} => settings' = Resolved /\ Accepted
    PROVE  PlanInv'
<1>1. pc' \in {"enumerate", "select"} => settings' = Resolved' /\ Accepted'
  BY InputsDecide
<1>2. plans' # <<>> => Accepted' /\ Resolved'.factory # Bad
  BY InputsDecide DEF PlanInv
<1>3. \A p \in DOMAIN plans' : Follows(plans'[p], Resolved', eligible')
  BY InputsDecide DEF PlanInv
<1>4. plans' \in Seq(ToSet(plans'))
  BY DEF PlanInv
<1> QED BY <1>1, <1>2, <1>3, <1>4 DEF PlanInv

(* A run that has selected the disk meant goes on to the Factory with it. *)
LEMMA DiskSelected ==
    ASSUME PlanInv, pc = "select", pc' = "factory", Meant(settings.disk, eligible, disk'),
           UNCHANGED <<given, eligible, name, found, settings, plans>>
    PROVE  PlanInv'
<1>1. settings' = Resolved' /\ Accepted' /\ Meant(Resolved'.disk, eligible', disk')
  BY InputsDecide DEF PlanInv
<1>2. plans' # <<>> => Accepted' /\ Resolved'.factory # Bad
  BY InputsDecide DEF PlanInv
<1>3. \A p \in DOMAIN plans' : Follows(plans'[p], Resolved', eligible')
  BY InputsDecide DEF PlanInv
<1>4. plans' \in Seq(ToSet(plans'))
  BY DEF PlanInv
<1> QED BY <1>1, <1>2, <1>3, <1>4 DEF PlanInv

(* PlanInv holds throughout. *)
LEMMA PlanInvariant == Spec => []PlanInv
<1>0. Names \subseteq Int
  BY InstallAssumption DEF InstallAssumption
<1>1. Init => PlanInv
  <2> SUFFICES ASSUME Init PROVE PlanInv
    OBVIOUS
  <2>1. plans = <<>> /\ DOMAIN plans = {} /\ plans \in Seq(ToSet(plans))
    BY DEF Init
  <2>2. name \in [Disks -> Int]
    BY <1>0 DEF Init, Namings
  <2> QED BY <2>1, <2>2 DEF Init, PlanInv
<1>2. PlanInv /\ [Next]_vars => PlanInv'
  <2> SUFFICES ASSUME PlanInv, [Next]_vars PROVE PlanInv'
    OBVIOUS
  <2>0. name \in [Disks -> Int] /\ found \subseteq Disks
    BY DEF PlanInv
  <2>1. CASE Resolve
    <3>1. settings' = Resolved
      BY <2>1 DEF Resolve, Resolved
    <3>2. pc' \in {"enumerate", "stopped"}
      BY <2>1 DEF Resolve, Stop
    <3>3. pc' = "enumerate" => Accepted
      BY <2>1, <3>1 DEF Resolve, Stop, Accepted
    <3> QED BY <2>0, <2>1, <3>1, <3>2, <3>3, PlansKept DEF Resolve, Stop
  <2>2. CASE Enumerate
    BY <2>0, <2>2, PlansKept DEF Enumerate, PlanInv
  <2>3. CASE Select
    <3>1. CASE Candidates = {}
      BY <2>0, <2>3, <3>1, PlansKept DEF Select, Stop
    <3>2. CASE Candidates # {}
      <4>1. disk' = FirstByName(Candidates) /\ pc' = "factory"
        BY <2>3, <3>2 DEF Select, Install
      <4>2. Meant(settings.disk, eligible, disk')
        BY <2>3, <3>2, <4>1, SelectedIsMeant DEF Select
      <4> QED BY <2>3, <3>2, <4>1, <4>2, DiskSelected DEF Select, Install
    <3> QED BY <3>1, <3>2
  <2>4. CASE SelectPath
    <3>1. CASE Target \cap eligible = {}
      BY <2>0, <2>4, <3>1, PlansKept DEF SelectPath, Stop
    <3>2. CASE Target \cap eligible # {}
      <4>1. PICK x \in Target : Install(x)
        BY <2>4, <3>2 DEF SelectPath
      <4>2. Meant(settings.disk, eligible, x)
        BY <2>4, <3>2, SelectedIsMeant DEF SelectPath
      <4> QED BY <2>4, <4>1, <4>2, DiskSelected DEF SelectPath, Install
    <3> QED BY <3>1, <3>2
  <2>5. CASE FactoryFails
    BY <2>0, <2>5, PlansKept DEF FactoryFails, Stop
  <2>6. CASE AskFactory
    <3>1. CASE ~IsBareMinor /\ MakePlan(settings.version, <<>>)
      <4>1. Settled(settings.version, settings.version, <<>>)
        BY <3>1 DEF IsBareMinor, Settled
      <4> QED BY <2>6, <3>1, <4>1, PlanAdded DEF AskFactory
    <3>2. CASE Stop
      BY <2>0, <2>6, <3>2, PlansKept DEF AskFactory, Stop
    <3>3. ASSUME IsBareMinor, NEW l \in Lists, NEW v, MakePlan(v, l), v # None,
                 v = ResolveVersion(settings.version[2], l)
          PROVE  PlanInv'
      <4>1. Newest(ToSet(l), settings.version[2], v)
        BY <3>3, ResolveVersionIs
      <4>2. l # <<>>
        BY <4>1 DEF Newest, ToSet
      <4>3. Settled(settings.version, v, l)
        BY <3>3, <4>1, <4>2 DEF IsBareMinor, Settled
      <4> QED BY <2>6, <3>3, <4>3, PlanAdded DEF AskFactory
    <3> QED BY <2>6, <3>1, <3>2, <3>3 DEF AskFactory
  <2>7. CASE Reboot
    <3>1. name' \in [Disks -> Int]
      BY <1>0, <2>7 DEF Reboot, Namings
    <3> QED BY <2>7, <3>1, PlansKept DEF Reboot
  <2>8. CASE UNCHANGED vars
    BY <2>8, InputsDecide DEF vars, PlanInv
  <2> QED BY <2>1, <2>2, <2>3, <2>4, <2>5, <2>6, <2>7, <2>8 DEF Next
<1> QED BY <1>1, <1>2, PTL DEF Spec

(* The layer that decides is the first that is there. *)
LEMMA FirstLayerDecides ==
    ASSUME NEW s \in DOMAIN Layers, NEW layers, layers = Layers[s],
           DOMAIN layers \subseteq Nat \ {0}, NEW l \in DOMAIN layers,
           layers[l] # None, \A k \in 1 .. l - 1 : layers[k] = None
    PROVE  Resolved[s] = layers[l]
<1>1. Chosen(layers) = layers[l]
  BY FirstNotIs DEF Chosen
<1> QED BY <1>1 DEF Resolved

(* What singles out a disk is there, and is no placeholder. *)
LEMMA SinglesIsThere ==
    ASSUME NEW d \in Disks, NEW setting, Singles(setting, d)
    PROVE  setting # None /\ setting # Placeholder
<1>1. CASE setting = ByLink(d)
  BY <1>1, InstallAssumption DEF InstallAssumption, ByLink, Placeholder
<1>2. CASE \E S \in SUBSET Disks : setting = Sel(S)
  BY <1>2, InstallAssumption DEF InstallAssumption, Sel, Placeholder
<1> QED BY <1>1, <1>2 DEF Singles

-------------------------------------------------------------------------------
(***************************************************************************)
(* An operator who singles out one disk gets that disk or none, on any     *)
(* machine, in any number of runs, however the kernel names the disks      *)
(* (settings.go:85-108, selector.go:204-250).                              *)
(***************************************************************************)
THEOREM SingledOutDisk == Spec => []OnlyTheDiskMeant
<1>1. PlanInv => OnlyTheDiskMeant
  <2> DEFINE said == <<given.selector, Config.selector, Config.disk>>
  <2> SUFFICES ASSUME PlanInv, NEW d \in Disks, NEW l \in 1 .. 3, NEW p \in DOMAIN plans,
                      Singles(said[l], d), \A k \in 1 .. l - 1 : said[k] = None
               PROVE  plans[p].disk = d /\ d \in eligible
    BY DEF OnlyTheDiskMeant
  <2>1. said[l] # None /\ said[l] # Placeholder
    <3> HIDE DEF said
    <3> QED BY SinglesIsThere
  <2> DEFINE layers == <<given.selector, Config.selector, InstallDiskPath, FirstDisk, Sel(Large)>>
  <2>2. layers[l] = said[l] /\ \A k \in 1 .. l - 1 : layers[k] = said[k]
    <3>1. layers[1] = said[1] /\ layers[2] = said[2]
      OBVIOUS
    <3>2. l = 3 => layers[3] = said[3]
      BY <2>1 DEF InstallDiskPath
    <3> HIDE DEF said, layers
    <3> QED BY <3>1, <3>2
  <2>3. "disk" \in DOMAIN Layers /\ Layers["disk"] = layers
    BY DEF Layers
  <2>4. DOMAIN layers = 1 .. 5
    OBVIOUS
  <2> HIDE DEF said, layers
  <2>5. Resolved["disk"] = said[l]
    BY <2>1, <2>2, <2>3, <2>4, FirstLayerDecides
  <2>6. Meant(said[l], eligible, plans[p].disk)
    BY <2>5 DEF PlanInv, Follows
  <2> QED BY <2>6 DEF Meant, Singles
<1> QED BY <1>1, PlanInvariant, PTL

(***************************************************************************)
(* A setting that is there but invalid is an error, whatever the lower     *)
(* layers and the defaults say, and so is broken text before the machine   *)
(* configuration (settings.go:87-98, 114-157; config.go:73-86).            *)
(***************************************************************************)
THEOREM InvalidSettingsStop == Spec => []BadStopsTheRun
<1> USE InstallAssumption DEF InstallAssumption
<1>1. PlanInv => BadStopsTheRun
  <2> SUFFICES ASSUME PlanInv, plans # <<>> PROVE ~InvalidInput
    BY DEF BadStopsTheRun
  <2>0. Accepted /\ Resolved.factory # Bad
    BY DEF PlanInv
  <2>1. ~Invalid(<<given.selector, Config.selector>>)
    <3> DEFINE said == <<given.selector, Config.selector>>
               layers == <<given.selector, Config.selector, InstallDiskPath, FirstDisk, Sel(Large)>>
    <3> SUFFICES ASSUME NEW l \in 1 .. 2, said[l] = Bad, \A k \in 1 .. l - 1 : said[k] = None
                 PROVE  FALSE
      BY DEF Invalid
    <3>1. layers[l] = said[l] /\ \A k \in 1 .. l - 1 : layers[k] = said[k]
      OBVIOUS
    <3>2. "disk" \in DOMAIN Layers /\ Layers["disk"] = layers
      BY DEF Layers
    <3>3. DOMAIN layers = 1 .. 5
      OBVIOUS
    <3> HIDE DEF said, layers
    <3>4. Resolved["disk"] = Bad
      BY <3>1, <3>2, <3>3, FirstLayerDecides
    <3> QED BY <2>0, <3>4 DEF Accepted
  <2>2. given.schematic # Bad
    <3> DEFINE layers == <<given.schematic, Config.id, given.slug>>
    <3>1. "schematic" \in DOMAIN Layers /\ Layers["schematic"] = layers
      BY DEF Layers
    <3>2. DOMAIN layers = 1 .. 3 /\ layers[1] = given.schematic
      OBVIOUS
    <3> HIDE DEF layers
    <3> QED BY <2>0, <3>1, <3>2, FirstLayerDecides DEF Accepted
  <2>3. ~Invalid(<<given.version, ImageTag, given.osVersion, given.contract>>)
    <3> DEFINE layers == <<given.version, ImageTag, given.osVersion, given.contract>>
    <3> SUFFICES ASSUME NEW l \in 1 .. 4, layers[l] = Bad, \A k \in 1 .. l - 1 : layers[k] = None
                 PROVE  FALSE
      BY DEF Invalid
    <3>1. "version" \in DOMAIN Layers /\ Layers["version"] = layers
      BY DEF Layers
    <3>2. DOMAIN layers = 1 .. 4
      OBVIOUS
    <3> HIDE DEF layers
    <3>3. Resolved["version"] = Bad
      BY <3>1, <3>2, FirstLayerDecides
    <3> QED BY <2>0, <3>3 DEF Accepted
  <2>4. given.factory # Bad
    <3> DEFINE layers == <<given.factory, Config.host, DefaultURL>>
    <3>1. "factory" \in DOMAIN Layers /\ Layers["factory"] = layers
      BY DEF Layers
    <3>2. DOMAIN layers = 1 .. 3 /\ layers[1] = given.factory
      OBVIOUS
    <3> HIDE DEF layers
    <3> QED BY <2>0, <3>1, <3>2, FirstLayerDecides
  <2>5. ~BrokenFirst(given.userData)
    <3> DEFINE text == given.userData
    <3>1. DOMAIN text = 1 .. Len(text) /\ Len(text) \in Nat
      BY DEF PlanInv
    <3> HIDE DEF text
    <3>2. BrokenFirst(text) => FirstNot(text, Other) = Broken
      BY <3>1, FirstNotIs DEF BrokenFirst
    <3> QED BY <2>0, <3>2 DEF Accepted, Parsed, text
  <2> QED BY <2>1, <2>2, <2>3, <2>4, <2>5 DEF InvalidInput
<1> QED BY <1>1, PlanInvariant, PTL

(***************************************************************************)
(* Every plan installs the version asked for: a full one as it is, a bare  *)
(* minor as the newest release of that minor among the versions the        *)
(* Factory served, in every run and for any list of versions in any order  *)
(* (version.go:29-62, settings.go:132-153).                                *)
(***************************************************************************)
THEOREM NewestRelease == Spec => []NewestPatch
<1>1. PlanInv => NewestPatch
  <2> DEFINE want == Chosen(Layers.version)
             released(p) == {w \in ToSet(plans[p].listed) :
                                w[2] = want[2] /\ ~w[4] /\ w[3] # Odd}
  <2> SUFFICES ASSUME PlanInv, NEW p \in DOMAIN plans
               PROVE  IF want[1] = "minor"
                      THEN /\ plans[p].version \in released(p)
                           /\ \A w \in released(p) : w[3] <= plans[p].version[3]
                      ELSE plans[p].version = want
    BY DEF NewestPatch
  <2>1. Resolved.version = want
    BY DEF Resolved, Layers
  <2> HIDE DEF want
  <2>2. Settled(want, plans[p].version, plans[p].listed)
    BY <2>1 DEF PlanInv, Follows
  <2>3. CASE want[1] = "minor"
    <3>1. Newest(ToSet(plans[p].listed), want[2], plans[p].version)
      BY <2>2, <2>3 DEF Settled
    <3> QED BY <2>3, <3>1 DEF Newest, Released
  <2>4. CASE want[1] # "minor"
    BY <2>2, <2>4 DEF Settled
  <2> QED BY <2>3, <2>4
<1> QED BY <1>1, PlanInvariant, PTL

(***************************************************************************)
(* Runs with the same inputs agree on the schematic, the Factory and the   *)
(* minor, and on a full version; a bare minor never steps back while the   *)
(* Factory goes on serving what it did (settings.go:112-167,               *)
(* run.go:133-145).                                                        *)
(***************************************************************************)
THEOREM RerunsAgree == Spec => []VersionsOnlyClimb
<1>1. PlanInv => VersionsOnlyClimb
  <2> SUFFICES ASSUME PlanInv, NEW p \in DOMAIN plans, NEW q \in DOMAIN plans
               PROVE  LET a == plans[p] b == plans[q]
                      IN  /\ a.schematic = b.schematic /\ a.factory = b.factory
                          /\ a.version[2] = b.version[2]
                          /\ IF a.listed = <<>> THEN a.version = b.version
                             ELSE ToSet(a.listed) \subseteq ToSet(b.listed) =>
                                      a.version[3] <= b.version[3]
    BY DEF VersionsOnlyClimb
  <2> DEFINE a == plans[p]
             b == plans[q]
  <2>1. Follows(a, Resolved, eligible) /\ Follows(b, Resolved, eligible)
    BY DEF PlanInv
  <2> HIDE DEF a, b
  <2>2. a.schematic = b.schematic /\ a.factory = b.factory
    BY <2>1 DEF Follows
  <2>3. CASE Resolved.version[1] = "minor"
    <3>1. /\ a.listed # <<>>
          /\ Newest(ToSet(a.listed), Resolved.version[2], a.version)
          /\ Newest(ToSet(b.listed), Resolved.version[2], b.version)
      BY <2>1, <2>3 DEF Follows, Settled
    <3>2. a.version[2] = b.version[2]
      BY <3>1 DEF Newest, Released
    <3>3. ToSet(a.listed) \subseteq ToSet(b.listed) => a.version[3] <= b.version[3]
      BY <3>1 DEF Newest
    <3> QED BY <2>2, <3>1, <3>2, <3>3 DEF a, b
  <2>4. CASE Resolved.version[1] # "minor"
    <3>1. a.listed = <<>> /\ a.version = b.version
      BY <2>1, <2>4 DEF Follows, Settled
    <3> QED BY <2>2, <3>1 DEF a, b
  <2> QED BY <2>3, <2>4
<1> QED BY <1>1, PlanInvariant, PTL

-------------------------------------------------------------------------------
(***************************************************************************)
(* Kernel arguments.  The loops of kargs.Merge are recursive functions; a  *)
(* set of lines that holds <<>> and grows with Append holds all, and on    *)
(* that induction rests what they compute for every line.                  *)
(***************************************************************************)
CommandLines == Seq(Arguments)

LEMMA AppendIs ==
    ASSUME NEW A, NEW s \in Seq(A), NEW e \in A
    PROVE  /\ Append(s, e) \in Seq(A) /\ Len(Append(s, e)) = Len(s) + 1 /\ Len(s) \in Nat
           /\ \A i \in 1 .. Len(s) : Append(s, e)[i] = s[i] /\ s[i] \in A
           /\ Append(s, e)[Len(s) + 1] = e
           /\ ToSet(Append(s, e)) = ToSet(s) \cup {e}
<1>1. /\ Append(s, e) \in Seq(A) /\ Len(Append(s, e)) = Len(s) + 1 /\ Len(s) \in Nat
      /\ \A i \in 1 .. Len(s) : Append(s, e)[i] = s[i] /\ s[i] \in A
      /\ Append(s, e)[Len(s) + 1] = e
  OBVIOUS
<1>2. \A x : x \in ToSet(s) <=> \E i \in 1 .. Len(s) : s[i] = x
  BY DEF ToSet
<1>3. \A x : x \in ToSet(Append(s, e)) <=> \E i \in 1 .. Len(s) + 1 : Append(s, e)[i] = x
  BY <1>1 DEF ToSet
<1>4. \A x : x \in ToSet(Append(s, e)) <=> x \in ToSet(s) \/ x = e
  BY <1>1, <1>2, <1>3
<1>5. ToSet(Append(s, e)) = ToSet(s) \cup {e}
  BY <1>4, Zenon
<1> QED BY <1>1, <1>5

(* A set with the empty sequence that Append does not leave has them all. *)
LEMMA SeqInduction ==
    ASSUME NEW A, NEW Good, <<>> \in Good,
           \A s \in Seq(A), e \in A : s \in Good => Append(s, e) \in Good
    PROVE  \A s \in Seq(A) : s \in Good
<1> SUFFICES ASSUME NEW s \in Seq(A) PROVE s \in Good
  OBVIOUS
<1> DEFINE Upto(n) == [i \in 1 .. n |-> s[i]]
           N == Len(s)
           Covered == {n \in 0 .. N : Upto(n) \in Good}
<1>1. 0 \in Covered
  <2>1. Upto(0) = <<>> /\ N \in Nat
    OBVIOUS
  <2> QED BY <2>1
<1>2. ASSUME NEW n \in 1 .. N, n - 1 \in Covered PROVE n \in Covered
  <2>1. Upto(n - 1) \in Seq(A) /\ s[n] \in A /\ Upto(n - 1) \in Good
    BY <1>2
  <2>2. Upto(n) = Append(Upto(n - 1), s[n])
    OBVIOUS
  <2>3. n \in 0 .. N
    OBVIOUS
  <2> HIDE DEF Upto, N
  <2>4. Upto(n) \in Good
    BY <2>1, <2>2
  <2> QED BY <2>3, <2>4
<1>3. N \in Covered
  <2> HIDE DEF Covered
  <2>1. N \in Nat
    OBVIOUS
  <2> HIDE DEF N
  <2>2. \A n \in 0 .. N : n \in Covered
    BY <2>1, <1>1, <1>2, Induction
  <2> QED BY <2>1, <2>2
<1>4. Upto(N) = s
  OBVIOUS
<1> QED BY <1>3, <1>4

(* A loop over a sequence, and what it makes of its first value. *)
IsRun(f, T, turn, first, s) ==
    /\ f \in [0 .. Len(s) -> T]
    /\ f[0] = first /\ \A n \in 1 .. Len(s) : f[n] = turn[<<f[n - 1], s[n]>>]

LEMMA RunExists ==
    ASSUME NEW A, NEW T, NEW first \in T, NEW turn \in [T \X A -> T], NEW s \in Seq(A)
    PROVE  \E f : IsRun(f, T, turn, first, s)
<1> DEFINE N == Len(s)
           step == [p \in T \X (1 .. N) |-> turn[<<p[1], s[p[2]]>>]]
<1>1. N \in Nat /\ \A n \in 1 .. N : s[n] \in A
  OBVIOUS
<1>2. step \in [T \X (1 .. N) -> T]
  BY <1>1
<1>3. PICK f \in [0 .. N -> T] : f[0] = first /\ \A n \in 1 .. N : f[n] = step[<<f[n - 1], n>>]
  <2> HIDE DEF step, N
  <2>1. HasValues(T, first, N, step)
    BY <1>1, <1>2, LoopExists
  <2> QED BY <2>1 DEF HasValues
<1>4. \A n \in 1 .. N, v \in T : step[<<v, n>>] = turn[<<v, s[n]>>]
  OBVIOUS
<1>5. \A n \in 1 .. N : f[n - 1] \in T
  BY <1>1
<1> HIDE DEF step
<1>6. \A n \in 1 .. N : f[n] = turn[<<f[n - 1], s[n]>>]
  BY <1>3, <1>4, <1>5
<1> QED BY <1>3, <1>6 DEF IsRun

Grows(g, f, turn, s, e) == g[Len(s) + 1] = turn[<<f[Len(s)], e>>]

LEMMA RunGrows ==
    ASSUME NEW A, NEW T, NEW first, NEW turn, NEW s \in Seq(A), NEW e \in A, NEW f, NEW g,
           IsRun(f, T, turn, first, s), IsRun(g, T, turn, first, Append(s, e))
    PROVE  Grows(g, f, turn, s, e)
<1> DEFINE N == Len(s)
           t == Append(s, e)
           Same == {n \in 0 .. N : f[n] = g[n]}
<1>1. N \in Nat /\ Len(t) = N + 1 /\ t[N + 1] = e /\ \A n \in 1 .. N : t[n] = s[n]
  OBVIOUS
<1> HIDE DEF t
<1>2. f[0] = first /\ \A n \in 1 .. N : f[n] = turn[<<f[n - 1], s[n]>>]
  BY DEF IsRun
<1>3. g[0] = first /\ \A n \in 1 .. N + 1 : g[n] = turn[<<g[n - 1], t[n]>>]
  BY <1>1 DEF IsRun, t
<1> HIDE DEF N
<1>4. 0 \in Same
  BY <1>1, <1>2, <1>3
<1>5. ASSUME NEW n \in 1 .. N, n - 1 \in Same PROVE n \in Same
  <2>1. f[n - 1] = g[n - 1] /\ t[n] = s[n]
    BY <1>1, <1>5
  <2>2. g[n] = turn[<<g[n - 1], t[n]>>] /\ f[n] = turn[<<f[n - 1], s[n]>>]
    BY <1>1, <1>2, <1>3
  <2> QED BY <1>1, <2>1, <2>2
<1>6. N \in Same
  <2> HIDE DEF Same
  <2>1. \A n \in 0 .. N : n \in Same
    BY <1>1, <1>4, <1>5, Induction
  <2> QED BY <1>1, <2>1
<1>7. g[N] = f[N]
  BY <1>6
<1>8. g[N + 1] = turn[<<g[N], t[N + 1]>>]
  <2>1. N + 1 \in 1 .. N + 1 /\ (N + 1) - 1 = N
    BY <1>1
  <2> QED BY <1>3, <2>1
<1> QED BY <1>1, <1>7, <1>8 DEF N, Grows

(* A function that loops over the sequence as a run does is that run. *)
LoopsAlike(g, T, turn, first, s) ==
    /\ g[0] = first
    /\ \A n \in 1 .. Len(s) : g[n - 1] \in T => g[n] = turn[<<g[n - 1], s[n]>>]

LEMMA RunIs ==
    ASSUME NEW T, NEW turn, NEW first, NEW s, Len(s) \in Nat, NEW f, NEW g,
           IsRun(f, T, turn, first, s), LoopsAlike(g, T, turn, first, s)
    PROVE  g[Len(s)] = f[Len(s)]
<1> DEFINE N == Len(s)
           Same == {n \in 0 .. N : f[n] = g[n]}
<1>1. f \in [0 .. N -> T] /\ f[0] = first /\ \A n \in 1 .. N : f[n] = turn[<<f[n - 1], s[n]>>]
  BY DEF IsRun
<1> HIDE DEF N
<1>2. 0 \in Same
  BY <1>1 DEF N, LoopsAlike
<1>3. ASSUME NEW n \in 1 .. N, n - 1 \in Same PROVE n \in Same
  <2>1. f[n - 1] = g[n - 1] /\ g[n - 1] \in T
    BY <1>1, <1>3
  <2>2. g[n] = turn[<<g[n - 1], s[n]>>]
    BY <2>1 DEF N, LoopsAlike
  <2> QED BY <1>1, <2>1, <2>2
<1>4. N \in Nat
  BY DEF N
<1>5. \A n \in 0 .. N : n \in Same
  <2> HIDE DEF Same
  <2> QED BY <1>2, <1>3, <1>4, Induction
<1> QED BY <1>4, <1>5 DEF N

(* Such a run keeps to its values. *)
LEMMA RunStays ==
    ASSUME NEW A, NEW T, NEW turn, NEW first, NEW s \in Seq(A), NEW f,
           IsRun(f, T, turn, first, s)
    PROVE  /\ Len(s) \in Nat /\ f[0] = first /\ f[Len(s)] \in T
           /\ \A n \in 1 .. Len(s) :
                s[n] \in A /\ f[n - 1] \in T /\ f[n] = turn[<<f[n - 1], s[n]>>]
<1> DEFINE N == Len(s)
<1>1. N \in Nat /\ \A n \in 1 .. N : s[n] \in A
  OBVIOUS
<1>2. f \in [0 .. N -> T] /\ f[0] = first /\ \A n \in 1 .. N : f[n] = turn[<<f[n - 1], s[n]>>]
  BY DEF IsRun
<1> HIDE DEF N
<1>3. N \in 0 .. N /\ \A n \in 1 .. N : n - 1 \in 0 .. N
  BY <1>1
<1>4. f[N] \in T /\ \A n \in 1 .. N : f[n - 1] \in T
  BY <1>2, <1>3
<1> QED BY <1>1, <1>2, <1>4 DEF N

(* What such loops over sequences return, when out maps each sequence to   *)
(* the last value of its loop.                                             *)
IsResult(v, T, turn, first, s) == \E f : IsRun(f, T, turn, first, s) /\ v = f[Len(s)]

Results(out, A, T, turn, first) ==
    /\ out[<<>>] = first
    /\ \A s \in Seq(A) : out[s] \in T
    /\ \A s \in Seq(A), e \in A : out[Append(s, e)] = turn[<<out[s], e>>]

LEMMA ResultsAre ==
    ASSUME NEW A, NEW T, NEW first \in T, NEW turn \in [T \X A -> T], NEW out,
           \A s \in Seq(A) : IsResult(out[s], T, turn, first, s)
    PROVE  Results(out, A, T, turn, first)
<1>1. ASSUME NEW s \in Seq(A) PROVE out[s] \in T
  <2>1. PICK f : IsRun(f, T, turn, first, s) /\ out[s] = f[Len(s)]
    BY DEF IsResult
  <2> QED BY <2>1, RunStays
<1>2. out[<<>>] = first
  <2>1. <<>> \in Seq(A) /\ Len(<<>>) = 0
    OBVIOUS
  <2>2. PICK f : IsRun(f, T, turn, first, <<>>) /\ out[<<>>] = f[Len(<<>>)]
    BY <2>1 DEF IsResult
  <2> QED BY <2>1, <2>2 DEF IsRun
<1>3. ASSUME NEW s \in Seq(A), NEW e \in A PROVE out[Append(s, e)] = turn[<<out[s], e>>]
  <2>1. PICK f : IsRun(f, T, turn, first, s) /\ out[s] = f[Len(s)]
    BY DEF IsResult
  <2> DEFINE t == Append(s, e)
  <2>2. t \in Seq(A) /\ Len(t) = Len(s) + 1
    OBVIOUS
  <2> HIDE DEF t
  <2>3. PICK g : IsRun(g, T, turn, first, t) /\ out[t] = g[Len(t)]
    BY <2>2 DEF IsResult
  <2>4. IsRun(g, T, turn, first, Append(s, e))
    BY <2>3 DEF t
  <2>5. Grows(g, f, turn, s, e)
    BY <2>1, <2>4, RunGrows
  <2> QED BY <2>1, <2>2, <2>3, <2>5 DEF t, Grows
<1> QED BY <1>1, <1>2, <1>3 DEF Results
-------------------------------------------------------------------------------
(* What a setting of a key is, and which lines have one. *)
LEMMA SettersAre ==
    ASSUME NEW key
    PROVE  /\ \A a \in Arguments : a \in Setting(key) <=> SetsKey(a, key)
           /\ Setting(key) \subseteq Arguments
           /\ \A line \in CommandLines :
                Sets(line, key) <=> ToSet(line) \cap Setting(key) # {}
<1>1. \A a \in Arguments : a \in Setting(key) <=> SetsKey(a, key)
  BY DEF Setting
<1>2. Setting(key) \subseteq Arguments
  BY DEF Setting
<1>3. \A line \in CommandLines : ToSet(line) \subseteq Arguments
  <2>1. SUFFICES ASSUME NEW line \in Seq(Arguments) PROVE ToSet(line) \subseteq Arguments
    BY DEF CommandLines
  <2> QED BY DEF ToSet
<1>4. \A line \in CommandLines : Sets(line, key) <=> ToSet(line) \cap Setting(key) # {}
  BY <1>1, <1>2, <1>3 DEF Sets
<1> QED BY <1>1, <1>2, <1>4

(* Only goes through a line argument by argument. *)
LEMMA OnlyIs ==
    ASSUME NEW S
    PROVE  /\ Only(<<>>, S) = <<>>
           /\ \A s \in CommandLines : Only(s, S) \in CommandLines
           /\ \A s \in CommandLines, e \in Arguments :
                Only(Append(s, e), S) =
                    IF e \in S THEN Append(Only(s, S), e) ELSE Only(s, S)
<1> DEFINE T == CommandLines
           Turn(v, e) == IF e \in S THEN Append(v, e) ELSE v
           turn == [p \in T \X Arguments |-> Turn(p[1], p[2])]
           IsLoop(f, s) == f = [n \in 0 .. Len(s) |->
                                IF n = 0 THEN <<>> ELSE Turn(f[n - 1], s[n])]
           out == [s \in T |-> Only(s, S)]
<1>1. <<>> \in T /\ \A v \in T, e \in Arguments : Turn(v, e) \in T
  BY DEF CommandLines
<1>2. \A s : Only(s, S) = (CHOOSE f : IsLoop(f, s))[Len(s)]
  BY DEF Only
<1>3. turn \in [T \X Arguments -> T]
  <2> HIDE DEF T, Turn
  <2> QED BY <1>1
<1>4. \A v \in T, e \in Arguments : turn[<<v, e>>] = Turn(v, e)
  OBVIOUS
<1> HIDE DEF Turn, turn
<1>5. ASSUME NEW s \in Seq(Arguments) PROVE IsResult(out[s], T, turn, <<>>, s)
  <2> DEFINE g == CHOOSE h : IsLoop(h, s)
             N == Len(s)
  <2> HIDE DEF T
  <2>1. PICK f : IsRun(f, T, turn, <<>>, s)
    BY <1>1, <1>3, RunExists
  <2>2. /\ N \in Nat /\ f[0] = <<>> /\ f \in [0 .. N -> T]
        /\ \A n \in 1 .. N : s[n] \in Arguments /\ f[n - 1] \in T
                             /\ f[n] = turn[<<f[n - 1], s[n]>>]
    <3>1. f \in [0 .. N -> T]
      BY <2>1 DEF IsRun
    <3> QED BY <2>1, <3>1, RunStays
  <2>3. \A n \in 1 .. N : f[n] = Turn(f[n - 1], s[n])
    BY <1>4, <2>2
  <2>4. IsLoop(f, s)
    BY <2>2, <2>3
  <2>5. IsLoop(g, s)
    <3> HIDE DEF IsLoop
    <3> QED BY <2>4
  <2> HIDE DEF g
  <2>6. g[0] = <<>> /\ \A n \in 1 .. N : g[n] = Turn(g[n - 1], s[n])
    <3>1. g = [n \in 0 .. N |-> IF n = 0 THEN <<>> ELSE Turn(g[n - 1], s[n])]
      BY <2>5
    <3>2. 0 \in 0 .. N /\ \A n \in 1 .. N : n \in 0 .. N /\ n # 0
      BY <2>2
    <3> HIDE DEF IsLoop, N
    <3> QED BY <3>1, <3>2
  <2>7. LoopsAlike(g, T, turn, <<>>, s)
    BY <1>4, <2>2, <2>6 DEF LoopsAlike
  <2>8. g[N] = f[N]
    BY <2>1, <2>2, <2>7, RunIs
  <2>9. out[s] = g[N]
    BY <1>2 DEF g, T, CommandLines
  <2> QED BY <2>1, <2>8, <2>9 DEF IsResult
<1>6. Results(out, Arguments, T, turn, <<>>)
  <2> HIDE DEF T, out
  <2> QED BY <1>1, <1>3, <1>5, ResultsAre
<1>7. \A s \in T : out[s] = Only(s, S)
  OBVIOUS
<1>8. \A s \in T, e \in Arguments : Append(s, e) \in T
  BY DEF CommandLines
<1>9. \A s : s \in T <=> s \in Seq(Arguments)
  BY DEF CommandLines
<1> HIDE DEF T, out
<1>10. Only(<<>>, S) = <<>> /\ \A s \in T : Only(s, S) \in T
  BY <1>1, <1>6, <1>7, <1>9 DEF Results
<1>11. ASSUME NEW s \in T, NEW e \in Arguments
       PROVE  Only(Append(s, e), S) = Turn(Only(s, S), e)
  <2>1. out[Append(s, e)] = turn[<<out[s], e>>]
    BY <1>6, <1>9 DEF Results
  <2> QED BY <1>4, <1>7, <1>8, <1>10, <2>1
<1> QED BY <1>10, <1>11 DEF T, Turn

(* Replace goes through a line argument by argument. *)
LEMMA ReplaceGoes ==
    ASSUME NEW a \in Arguments
    PROVE  /\ Replace(<<>>, a) = <<>>
           /\ \A s \in CommandLines : Replace(s, a) \in CommandLines
           /\ \A s \in CommandLines, e \in Arguments :
                Replace(Append(s, e), a) =
                    IF ~SetsKey(e, a[1]) THEN Append(Replace(s, a), e)
                    ELSE IF Sets(Replace(s, a), a[1]) THEN Replace(s, a)
                    ELSE Append(Replace(s, a), a)
<1> DEFINE T == CommandLines
           Turn(v, e) == IF ~SetsKey(e, a[1]) THEN Append(v, e)
                         ELSE IF Sets(v, a[1]) THEN v ELSE Append(v, a)
           turn == [p \in T \X Arguments |-> Turn(p[1], p[2])]
           IsLoop(f, s) == f = [n \in 0 .. Len(s) |->
                                IF n = 0 THEN <<>> ELSE Turn(f[n - 1], s[n])]
           out == [s \in T |-> Replace(s, a)]
<1>1. <<>> \in T /\ \A v \in T, e \in Arguments : Turn(v, e) \in T
  BY DEF CommandLines
<1>2. \A s : Replace(s, a) = (CHOOSE f : IsLoop(f, s))[Len(s)]
  BY DEF Replace
<1>3. turn \in [T \X Arguments -> T]
  <2> HIDE DEF T, Turn
  <2> QED BY <1>1
<1>4. \A v \in T, e \in Arguments : turn[<<v, e>>] = Turn(v, e)
  OBVIOUS
<1> HIDE DEF Turn, turn
<1>5. ASSUME NEW s \in Seq(Arguments) PROVE IsResult(out[s], T, turn, <<>>, s)
  <2> DEFINE g == CHOOSE h : IsLoop(h, s)
             N == Len(s)
  <2> HIDE DEF T
  <2>1. PICK f : IsRun(f, T, turn, <<>>, s)
    BY <1>1, <1>3, RunExists
  <2>2. /\ N \in Nat /\ f[0] = <<>> /\ f \in [0 .. N -> T]
        /\ \A n \in 1 .. N : s[n] \in Arguments /\ f[n - 1] \in T
                             /\ f[n] = turn[<<f[n - 1], s[n]>>]
    <3>1. f \in [0 .. N -> T]
      BY <2>1 DEF IsRun
    <3> QED BY <2>1, <3>1, RunStays
  <2>3. \A n \in 1 .. N : f[n] = Turn(f[n - 1], s[n])
    BY <1>4, <2>2
  <2>4. IsLoop(f, s)
    BY <2>2, <2>3
  <2>5. IsLoop(g, s)
    <3> HIDE DEF IsLoop
    <3> QED BY <2>4
  <2> HIDE DEF g
  <2>6. g[0] = <<>> /\ \A n \in 1 .. N : g[n] = Turn(g[n - 1], s[n])
    <3>1. g = [n \in 0 .. N |-> IF n = 0 THEN <<>> ELSE Turn(g[n - 1], s[n])]
      BY <2>5
    <3>2. 0 \in 0 .. N /\ \A n \in 1 .. N : n \in 0 .. N /\ n # 0
      BY <2>2
    <3> HIDE DEF IsLoop, N
    <3> QED BY <3>1, <3>2
  <2>7. LoopsAlike(g, T, turn, <<>>, s)
    BY <1>4, <2>2, <2>6 DEF LoopsAlike
  <2>8. g[N] = f[N]
    BY <2>1, <2>2, <2>7, RunIs
  <2>9. out[s] = g[N]
    BY <1>2 DEF g, T, CommandLines
  <2> QED BY <2>1, <2>8, <2>9 DEF IsResult
<1>6. Results(out, Arguments, T, turn, <<>>)
  <2> HIDE DEF T, out
  <2> QED BY <1>1, <1>3, <1>5, ResultsAre
<1>7. \A s \in T : out[s] = Replace(s, a)
  OBVIOUS
<1>8. \A s \in T, e \in Arguments : Append(s, e) \in T
  BY DEF CommandLines
<1>9. \A s : s \in T <=> s \in Seq(Arguments)
  BY DEF CommandLines
<1> HIDE DEF T, out
<1>10. Replace(<<>>, a) = <<>> /\ \A s \in T : Replace(s, a) \in T
  BY <1>1, <1>6, <1>7, <1>9 DEF Results
<1>11. ASSUME NEW s \in T, NEW e \in Arguments
       PROVE  Replace(Append(s, e), a) = Turn(Replace(s, a), e)
  <2>1. out[Append(s, e)] = turn[<<out[s], e>>]
    BY <1>6, <1>9 DEF Results
  <2> QED BY <1>4, <1>7, <1>8, <1>10, <2>1
<1> QED BY <1>10, <1>11 DEF T, Turn

(* Lines grow by arguments. *)
LEMMA LineGrows ==
    /\ <<>> \in CommandLines /\ ToSet(<<>>) = {}
    /\ \A s \in CommandLines, e \in Arguments :
        Append(s, e) \in CommandLines /\ ToSet(Append(s, e)) = ToSet(s) \cup {e}
    /\ \A s \in CommandLines : ToSet(s) \subseteq Arguments
<1>1. <<>> \in CommandLines /\ ToSet(<<>>) = {}
  BY DEF CommandLines, ToSet
<1>2. ASSUME NEW s \in CommandLines, NEW e \in Arguments
      PROVE  Append(s, e) \in CommandLines /\ ToSet(Append(s, e)) = ToSet(s) \cup {e}
  BY AppendIs DEF CommandLines
<1>3. ASSUME NEW s \in CommandLines PROVE ToSet(s) \subseteq Arguments
  BY DEF CommandLines, ToSet
<1> QED BY <1>1, <1>2, <1>3

LEMMA LineInduction ==
    ASSUME NEW Good, <<>> \in Good,
           \A s \in CommandLines, e \in Arguments : s \in Good => Append(s, e) \in Good
    PROVE  \A s \in CommandLines : s \in Good
BY SeqInduction DEF CommandLines

LEMMA NothingLeft ==
    ASSUME NEW A, NEW s \in Seq(A), ToSet(s) = {}
    PROVE  s = <<>>
<1>1. \A i \in 1 .. Len(s) : s[i] \in ToSet(s)
  BY DEF ToSet
<1>2. Len(s) = 0
  BY <1>1
<1> QED BY <1>2

(* Only leaves what is in both. *)
LEMMA OnlyHas ==
    ASSUME NEW S
    PROVE  \A s \in CommandLines : ToSet(Only(s, S)) = ToSet(s) \cap S
<1> DEFINE Good == {s \in CommandLines : ToSet(Only(s, S)) = ToSet(s) \cap S}
<1>1. <<>> \in Good
  BY OnlyIs, LineGrows
<1>2. ASSUME NEW s \in CommandLines, NEW e \in Arguments, s \in Good
      PROVE  Append(s, e) \in Good
  <2>1. Only(s, S) \in CommandLines /\ ToSet(Only(s, S)) = ToSet(s) \cap S
    BY <1>2, OnlyIs
  <2>2. Only(Append(s, e), S) = IF e \in S THEN Append(Only(s, S), e) ELSE Only(s, S)
    BY OnlyIs
  <2>3. Append(s, e) \in CommandLines /\ ToSet(Append(s, e)) = ToSet(s) \cup {e}
    BY LineGrows
  <2>4. ToSet(Append(Only(s, S), e)) = ToSet(Only(s, S)) \cup {e}
    BY <2>1, LineGrows
  <2> QED BY <2>1, <2>2, <2>3, <2>4
<1> HIDE DEF Good
<1>3. \A s \in CommandLines : s \in Good
  BY <1>1, <1>2, LineInduction
<1> QED BY <1>3 DEF Good

(* If Only leaves one argument, it comes from one place. *)
LEMMA OnlyOne ==
    ASSUME NEW S
    PROVE  \A s \in CommandLines : Len(Only(s, S)) = 1 =>
                \A i, j \in 1 .. Len(s) : s[i] \in S /\ s[j] \in S => i = j
<1> DEFINE One(s) == \A i, j \in 1 .. Len(s) : s[i] \in S /\ s[j] \in S => i = j
           Good == {s \in CommandLines : Len(Only(s, S)) = 1 => One(s)}
<1>1. <<>> \in Good
  BY LineGrows
<1>2. ASSUME NEW s \in CommandLines, NEW e \in Arguments, s \in Good
      PROVE  Append(s, e) \in Good
  <2>1. /\ Append(s, e) \in CommandLines /\ Len(Append(s, e)) = Len(s) + 1 /\ Len(s) \in Nat
        /\ \A i \in 1 .. Len(s) : Append(s, e)[i] = s[i]
        /\ Append(s, e)[Len(s) + 1] = e
    BY AppendIs DEF CommandLines
  <2>2. Only(Append(s, e), S) = IF e \in S THEN Append(Only(s, S), e) ELSE Only(s, S)
    BY OnlyIs
  <2>3. CASE e \notin S
    <3>1. Only(Append(s, e), S) = Only(s, S)
      BY <2>2, <2>3
    <3>2. One(s) => One(Append(s, e))
      BY <2>1, <2>3
    <3> HIDE DEF One
    <3> QED BY <1>2, <2>1, <3>1, <3>2
  <2>4. CASE e \in S
    <3>1. SUFFICES ASSUME Len(Only(Append(s, e), S)) = 1 PROVE One(Append(s, e))
      BY <2>1
    <3>2. Only(s, S) \in Seq(Arguments)
      BY OnlyIs DEF CommandLines
    <3>3. Len(Only(s, S)) = 0
      BY <2>2, <2>4, <3>1, <3>2, AppendIs
    <3>4. ToSet(Only(s, S)) = {}
      BY <3>2, <3>3 DEF ToSet
    <3>5. \A i \in 1 .. Len(s) : s[i] \in ToSet(s)
      BY DEF ToSet, CommandLines
    <3>6. \A i \in 1 .. Len(s) : s[i] \notin S
      BY <3>4, <3>5, OnlyHas
    <3> QED BY <2>1, <3>6
  <2> QED BY <2>3, <2>4
<1> HIDE DEF Good
<1>3. \A s \in CommandLines : s \in Good
  BY <1>1, <1>2, LineInduction
<1> QED BY <1>3 DEF Good

(* Only goes through two lines one after the other. *)
LEMMA OnlyOfBoth ==
    ASSUME NEW S, NEW l \in CommandLines
    PROVE  \A s \in CommandLines :
                /\ l \o s \in CommandLines /\ ToSet(l \o s) = ToSet(l) \cup ToSet(s)
                /\ Only(l \o s, S) = Only(l, S) \o Only(s, S)
<1> DEFINE Good == {s \in CommandLines :
                /\ l \o s \in CommandLines /\ ToSet(l \o s) = ToSet(l) \cup ToSet(s)
                /\ Only(l \o s, S) = Only(l, S) \o Only(s, S)}
<1>1. <<>> \in Good
  <2>1. l \o <<>> = l /\ Only(l, S) \o <<>> = Only(l, S)
    BY OnlyIs DEF CommandLines
  <2> QED BY <2>1, OnlyIs, LineGrows
<1>2. ASSUME NEW s \in CommandLines, NEW e \in Arguments, s \in Good
      PROVE  Append(s, e) \in Good
  <2>1. \A u, v \in CommandLines : u \o Append(v, e) = Append(u \o v, e)
    <3>1. ASSUME NEW u \in Seq(Arguments), NEW v \in Seq(Arguments)
          PROVE  u \o Append(v, e) = Append(u \o v, e)
      OBVIOUS
    <3> QED BY <3>1 DEF CommandLines
  <2>2. /\ l \o s \in CommandLines /\ ToSet(l \o s) = ToSet(l) \cup ToSet(s)
        /\ Only(l \o s, S) = Only(l, S) \o Only(s, S)
    BY <1>2
  <2>3. Append(s, e) \in CommandLines /\ ToSet(Append(s, e)) = ToSet(s) \cup {e}
    BY LineGrows
  <2>4. l \o Append(s, e) = Append(l \o s, e)
    BY <2>1
  <2>5. Append(l \o s, e) \in CommandLines /\ ToSet(Append(l \o s, e)) = ToSet(l \o s) \cup {e}
    BY <2>2, LineGrows
  <2>6. Only(Append(s, e), S) = IF e \in S THEN Append(Only(s, S), e) ELSE Only(s, S)
    BY OnlyIs
  <2>7. Only(Append(l \o s, e), S) =
            IF e \in S THEN Append(Only(l \o s, S), e) ELSE Only(l \o s, S)
    BY <2>2, OnlyIs
  <2>8. Only(l, S) \o Append(Only(s, S), e) = Append(Only(l, S) \o Only(s, S), e)
    BY <2>1, OnlyIs
  <2>9. Only(l \o Append(s, e), S) = Only(l, S) \o Only(Append(s, e), S)
    BY <2>2, <2>4, <2>6, <2>7, <2>8
  <2> QED BY <2>2, <2>3, <2>4, <2>5, <2>9
<1> HIDE DEF Good
<1>3. \A s \in CommandLines : s \in Good
  BY <1>1, <1>2, LineInduction
<1> QED BY <1>3 DEF Good

-------------------------------------------------------------------------------
(* Replace leaves one value of the key, if there was any, and the rest.    *)
LEMMA ReplaceIs ==
    ASSUME NEW a \in Arguments, a[2] # Bare
    PROVE  \A s \in CommandLines :
                /\ \A S : S \cap Setting(a[1]) = {} => Only(Replace(s, a), S) = Only(s, S)
                /\ Only(Replace(s, a), Setting(a[1])) = IF Sets(s, a[1]) THEN <<a>> ELSE <<>>
                /\ ToSet(Replace(s, a)) \subseteq ToSet(s) \cup {a}
<1> DEFINE K == Setting(a[1])
           Others(s) == \A S : S \cap K = {} => Only(Replace(s, a), S) = Only(s, S)
           Value(s) == Only(Replace(s, a), K) = IF Sets(s, a[1]) THEN <<a>> ELSE <<>>
           Within(s) == ToSet(Replace(s, a)) \subseteq ToSet(s) \cup {a}
           Good == {s \in CommandLines : Others(s) /\ Value(s) /\ Within(s)}
<1>0. a \in K
  BY SettersAre DEF SetsKey
<1>1. <<>> \in Good
  <2>1. ~Sets(<<>>, a[1])
    BY LineGrows DEF Sets
  <2> QED BY <2>1, OnlyIs, ReplaceGoes, LineGrows
<1>2. ASSUME NEW s \in CommandLines, NEW e \in Arguments, s \in Good
      PROVE  Append(s, e) \in Good
  <2> DEFINE t == Append(s, e)
             r == Replace(s, a)
             q == Replace(t, a)
  <2>1. Others(s) /\ Value(s) /\ Within(s) /\ r \in CommandLines
    BY <1>2, ReplaceGoes
  <2>2. t \in CommandLines /\ ToSet(t) = ToSet(s) \cup {e}
    BY LineGrows
  <2>3. Sets(t, a[1]) <=> Sets(s, a[1]) \/ e \in K
    BY <2>2, SettersAre
  <2>4. \A S : Only(t, S) = IF e \in S THEN Append(Only(s, S), e) ELSE Only(s, S)
    BY OnlyIs
  <2>5. /\ q = IF e \notin K THEN Append(r, e)
               ELSE IF Sets(r, a[1]) THEN r ELSE Append(r, a)
        /\ q \in CommandLines
    BY <2>2, ReplaceGoes, SettersAre
  <2>6. \A S, x : x \in Arguments =>
            Only(Append(r, x), S) = IF x \in S THEN Append(Only(r, S), x) ELSE Only(r, S)
    BY <2>1, OnlyIs
  <2>7. \A x \in Arguments : ToSet(Append(r, x)) = ToSet(r) \cup {x}
    BY <2>1, LineGrows
  <2>8. Only(r, K) = IF Sets(s, a[1]) THEN <<a>> ELSE <<>>
    BY <2>1
  <2>9. Sets(r, a[1]) <=> Sets(s, a[1])
    <3>1. ToSet(<<a>>) = {a} /\ ToSet(<<>>) = {}
      <4>1. <<a>> = Append(<<>>, a)
        OBVIOUS
      <4> QED BY <4>1, LineGrows
    <3>2. ToSet(Only(r, K)) = ToSet(r) \cap K
      BY <2>1, OnlyHas
    <3>3. Sets(r, a[1]) <=> ToSet(r) \cap K # {}
      BY <2>1, SettersAre
    <3> QED BY <2>8, <3>1, <3>2, <3>3
  <2>10. \A S : S \cap K = {} => Only(r, S) = Only(s, S)
    BY <2>1
  <2>11. ToSet(r) \subseteq ToSet(s) \cup {a}
    BY <2>1
  <2> HIDE DEF K, t, r, q
  <2>12. Others(t)
    <3> SUFFICES ASSUME NEW S, S \cap K = {} PROVE Only(q, S) = Only(t, S)
      BY DEF q
    <3> QED BY <1>0, <2>4, <2>5, <2>6, <2>10
  <2>13. Value(t)
    <3>1. CASE e \notin K
      BY <2>3, <2>5, <2>6, <2>8, <3>1 DEF q
    <3>2. CASE e \in K /\ Sets(r, a[1])
      BY <2>3, <2>5, <2>8, <2>9, <3>2 DEF q
    <3>3. CASE e \in K /\ ~Sets(r, a[1])
      <4>1. Append(<<>>, a) = <<a>>
        OBVIOUS
      <4> QED BY <1>0, <2>3, <2>5, <2>6, <2>8, <2>9, <3>3, <4>1 DEF q
    <3> QED BY <3>1, <3>2, <3>3
  <2>14. Within(t)
    BY <2>2, <2>5, <2>7, <2>11 DEF q
  <2> QED BY <2>2, <2>12, <2>13, <2>14 DEF t
<1>3. \A s \in CommandLines : s \in Good
  <2> HIDE DEF Good
  <2> QED BY <1>1, <1>2, LineInduction
<1> QED BY <1>3

(* The arguments that a may change or repeat. *)
Touched(a) == IF a[2] = Bare THEN {a} ELSE Setting(a[1])

(* One argument merged is there, alone if it is a value; the rest stays.   *)
LEMMA MergeOneIs ==
    ASSUME NEW line \in CommandLines, NEW a \in Arguments
    PROVE  LET merged == MergeOne(line, a)
           IN  /\ merged \in CommandLines
               /\ \A S : S \cap Touched(a) = {} => Only(merged, S) = Only(line, S)
               /\ IF a[2] = Bare THEN a \in ToSet(merged)
                  ELSE Only(merged, Setting(a[1])) = <<a>>
               /\ ToSet(merged) \subseteq ToSet(line) \cup {a}
<1> DEFINE merged == MergeOne(line, a)
<1>1. /\ Append(line, a) \in CommandLines /\ ToSet(Append(line, a)) = ToSet(line) \cup {a}
      /\ \A S : Only(Append(line, a), S) =
                    IF a \in S THEN Append(Only(line, S), a) ELSE Only(line, S)
  BY LineGrows, OnlyIs
<1>2. CASE a[2] = Bare
  <2>1. (merged = line /\ a \in ToSet(line)) \/ merged = Append(line, a)
    BY <1>2 DEF MergeOne, MergeFlag
  <2>2. Touched(a) = {a}
    BY <1>2 DEF Touched
  <2> HIDE DEF merged
  <2>3. \A S : S \cap {a} = {} => Only(merged, S) = Only(line, S)
    BY <1>1, <2>1
  <2> QED BY <1>1, <1>2, <2>1, <2>2, <2>3 DEF merged
<1>3. CASE a[2] # Bare
  <2>1. Touched(a) = Setting(a[1]) /\ a \in Setting(a[1])
    BY <1>3, SettersAre DEF Touched, SetsKey
  <2>2. CASE Sets(line, a[1])
    <3>1. merged = Replace(line, a) /\ merged \in CommandLines
      BY <1>3, <2>2, ReplaceGoes DEF MergeOne, MergeValue
    <3>2. /\ \A S : S \cap Setting(a[1]) = {} => Only(Replace(line, a), S) = Only(line, S)
          /\ Only(Replace(line, a), Setting(a[1])) = IF Sets(line, a[1]) THEN <<a>> ELSE <<>>
          /\ ToSet(Replace(line, a)) \subseteq ToSet(line) \cup {a}
      BY <1>3, ReplaceIs
    <3> QED BY <1>3, <2>1, <2>2, <3>1, <3>2
  <2>3. CASE ~Sets(line, a[1])
    <3>1. merged = Append(line, a)
      BY <1>3, <2>3 DEF MergeOne, MergeValue
    <3>2. ToSet(Only(line, Setting(a[1]))) = {}
      BY <2>3, SettersAre, OnlyHas
    <3>3. Only(line, Setting(a[1])) = <<>>
      <4>1. Only(line, Setting(a[1])) \in Seq(Arguments)
        BY OnlyIs DEF CommandLines
      <4> QED BY <3>2, <4>1, NothingLeft
    <3>4. Append(<<>>, a) = <<a>>
      OBVIOUS
    <3> HIDE DEF merged
    <3>5. Only(merged, Setting(a[1])) = <<a>>
      BY <1>1, <2>1, <3>1, <3>3, <3>4
    <3>6. \A S : S \cap Setting(a[1]) = {} => Only(merged, S) = Only(line, S)
      BY <1>1, <2>1, <3>1
    <3> QED BY <1>1, <1>3, <2>1, <3>1, <3>5, <3>6 DEF merged
  <2> QED BY <2>2, <2>3
<1> QED BY <1>2, <1>3

(* Merge goes through the arguments to merge one by one. *)
LEMMA MergeGoes ==
    ASSUME NEW line \in CommandLines
    PROVE  /\ Merge(line, <<>>) = line
           /\ \A s \in CommandLines : Merge(line, s) \in CommandLines
           /\ \A s \in CommandLines, e \in Arguments :
                Merge(line, Append(s, e)) = MergeOne(Merge(line, s), e)
<1> DEFINE T == CommandLines
           Turn(v, e) == MergeOne(v, e)
           turn == [p \in T \X Arguments |-> Turn(p[1], p[2])]
           IsLoop(f, s) == f = [n \in 0 .. Len(s) |->
                                IF n = 0 THEN line ELSE Turn(f[n - 1], s[n])]
           out == [s \in T |-> Merge(line, s)]
<1>1. line \in T /\ <<>> \in T /\ \A v \in T, e \in Arguments : Turn(v, e) \in T
  BY MergeOneIs, LineGrows
<1>2. \A s : Merge(line, s) = (CHOOSE f : IsLoop(f, s))[Len(s)]
  BY DEF Merge
<1>3. turn \in [T \X Arguments -> T]
  <2> HIDE DEF T, Turn
  <2> QED BY <1>1
<1>4. \A v \in T, e \in Arguments : turn[<<v, e>>] = Turn(v, e)
  OBVIOUS
<1> HIDE DEF Turn, turn
<1>5. ASSUME NEW s \in Seq(Arguments) PROVE IsResult(out[s], T, turn, line, s)
  <2> DEFINE g == CHOOSE h : IsLoop(h, s)
             N == Len(s)
  <2> HIDE DEF T
  <2>1. PICK f : IsRun(f, T, turn, line, s)
    BY <1>1, <1>3, RunExists
  <2>2. /\ N \in Nat /\ f[0] = line /\ f \in [0 .. N -> T]
        /\ \A n \in 1 .. N : s[n] \in Arguments /\ f[n - 1] \in T
                             /\ f[n] = turn[<<f[n - 1], s[n]>>]
    <3>1. f \in [0 .. N -> T]
      BY <2>1 DEF IsRun
    <3> QED BY <2>1, <3>1, RunStays
  <2>3. \A n \in 1 .. N : f[n] = Turn(f[n - 1], s[n])
    BY <1>4, <2>2
  <2>4. IsLoop(f, s)
    BY <2>2, <2>3
  <2>5. IsLoop(g, s)
    <3> HIDE DEF IsLoop
    <3> QED BY <2>4
  <2> HIDE DEF g
  <2>6. g[0] = line /\ \A n \in 1 .. N : g[n] = Turn(g[n - 1], s[n])
    <3>1. g = [n \in 0 .. N |-> IF n = 0 THEN line ELSE Turn(g[n - 1], s[n])]
      BY <2>5
    <3>2. 0 \in 0 .. N /\ \A n \in 1 .. N : n \in 0 .. N /\ n # 0
      BY <2>2
    <3> HIDE DEF IsLoop, N
    <3> QED BY <3>1, <3>2
  <2>7. LoopsAlike(g, T, turn, line, s)
    BY <1>4, <2>2, <2>6 DEF LoopsAlike
  <2>8. g[N] = f[N]
    BY <2>1, <2>2, <2>7, RunIs
  <2>9. out[s] = g[N]
    BY <1>2 DEF g, T, CommandLines
  <2> QED BY <2>1, <2>8, <2>9 DEF IsResult
<1>6. Results(out, Arguments, T, turn, line)
  <2> HIDE DEF T, out
  <2> QED BY <1>1, <1>3, <1>5, ResultsAre
<1>7. \A s \in T : out[s] = Merge(line, s)
  OBVIOUS
<1>8. \A s \in T, e \in Arguments : Append(s, e) \in T
  BY DEF CommandLines
<1>9. \A s : s \in T <=> s \in Seq(Arguments)
  BY DEF CommandLines
<1> HIDE DEF T, out
<1>10. Merge(line, <<>>) = line /\ \A s \in T : Merge(line, s) \in T
  BY <1>1, <1>6, <1>7, <1>9 DEF Results
<1>11. ASSUME NEW s \in T, NEW e \in Arguments
       PROVE  Merge(line, Append(s, e)) = Turn(Merge(line, s), e)
  <2>1. out[Append(s, e)] = turn[<<out[s], e>>]
    BY <1>6, <1>9 DEF Results
  <2> QED BY <1>4, <1>7, <1>8, <1>10, <2>1
<1> QED BY <1>10, <1>11 DEF T, Turn

(***************************************************************************)
(* What Merge promises: what it need not touch stays as it is, in order;   *)
(* each key it is given is set once, as it is set last; each flag is       *)
(* there; and all arguments come from the line or are merged.              *)
(***************************************************************************)
Merged(line, set, merged) ==
    /\ \A S : (\A b \in ToSet(set) : S \cap Touched(b) = {}) => Only(merged, S) = Only(line, S)
    /\ \A k \in Keys(set) : Only(merged, Setting(k)) = <<Last(Only(set, Setting(k)))>>
    /\ Flags(set) \subseteq ToSet(merged)
    /\ ToSet(merged) \subseteq ToSet(line) \cup ToSet(set)

(* The keys and the flags of a line, as arguments are added. *)
LEMMA KeysAre ==
    /\ Keys(<<>>) = {} /\ Flags(<<>>) = {}
    /\ \A s \in CommandLines, e \in Arguments :
        /\ Keys(Append(s, e)) = IF e[2] = Bare THEN Keys(s) ELSE Keys(s) \cup {e[1]}
        /\ Flags(Append(s, e)) = IF e[2] = Bare THEN Flags(s) \cup {e} ELSE Flags(s)
    /\ \A s \in CommandLines : \A k : k \in Keys(s) <=> ToSet(s) \cap Setting(k) # {}
<1>1. Keys(<<>>) = {} /\ Flags(<<>>) = {}
  BY LineGrows DEF Keys, Flags
<1>2. ASSUME NEW s \in CommandLines, NEW e \in Arguments
      PROVE  /\ Keys(Append(s, e)) = IF e[2] = Bare THEN Keys(s) ELSE Keys(s) \cup {e[1]}
             /\ Flags(Append(s, e)) = IF e[2] = Bare THEN Flags(s) \cup {e} ELSE Flags(s)
  <2>1. ToSet(Append(s, e)) = ToSet(s) \cup {e}
    BY LineGrows
  <2> QED BY <2>1 DEF Keys, Flags
<1>3. ASSUME NEW s \in CommandLines, NEW k
      PROVE  k \in Keys(s) <=> ToSet(s) \cap Setting(k) # {}
  BY LineGrows, SettersAre DEF Keys, SetsKey
<1> QED BY <1>1, <1>2, <1>3

LEMMA MergeIs ==
    ASSUME NEW line \in CommandLines
    PROVE  \A set \in CommandLines : Merged(line, set, Merge(line, set))
<1> DEFINE Good == {set \in CommandLines : Merged(line, set, Merge(line, set))}
<1>1. <<>> \in Good
  <2>1. Merge(line, <<>>) = line
    BY MergeGoes
  <2> QED BY <2>1, LineGrows, KeysAre DEF Merged
<1>2. ASSUME NEW s \in CommandLines, NEW e \in Arguments, s \in Good
      PROVE  Append(s, e) \in Good
  <2> DEFINE t == Append(s, e)
             m == Merge(line, s)
             q == MergeOne(m, e)
  <2>1. Merged(line, s, m) /\ m \in CommandLines
    BY <1>2, MergeGoes
  <2>2. t \in CommandLines /\ ToSet(t) = ToSet(s) \cup {e}
    BY LineGrows
  <2>3. Merge(line, t) = q
    BY MergeGoes
  <2>4. \A S : Only(t, S) = IF e \in S THEN Append(Only(s, S), e) ELSE Only(s, S)
    BY OnlyIs
  <2>5. /\ q \in CommandLines
        /\ \A S : S \cap Touched(e) = {} => Only(q, S) = Only(m, S)
        /\ IF e[2] = Bare THEN e \in ToSet(q) ELSE Only(q, Setting(e[1])) = <<e>>
        /\ ToSet(q) \subseteq ToSet(m) \cup {e}
    BY <2>1, MergeOneIs
  <2>6. /\ Keys(t) = IF e[2] = Bare THEN Keys(s) ELSE Keys(s) \cup {e[1]}
        /\ Flags(t) = IF e[2] = Bare THEN Flags(s) \cup {e} ELSE Flags(s)
    BY KeysAre
  <2> HIDE DEF t, m, q
  <2>7. ASSUME NEW S, \A b \in ToSet(t) : S \cap Touched(b) = {}
        PROVE  Only(q, S) = Only(line, S)
    BY <2>1, <2>2, <2>5, <2>7 DEF Merged
  <2>8. ASSUME NEW k \in Keys(t) PROVE Only(q, Setting(k)) = <<Last(Only(t, Setting(k)))>>
    <3>1. CASE e[2] # Bare /\ e[1] = k
      <4>1. e \in Setting(k)
        BY <3>1, SettersAre DEF SetsKey
      <4>2. Only(s, Setting(k)) \in Seq(Arguments)
        BY OnlyIs DEF CommandLines
      <4>3. Last(Append(Only(s, Setting(k)), e)) = e
        BY <4>2, AppendIs DEF Last
      <4> QED BY <2>4, <2>5, <3>1, <4>1, <4>3
    <3>2. CASE ~(e[2] # Bare /\ e[1] = k)
      <4>1. k \in Keys(s)
        BY <2>6, <3>2
      <4>2. e \notin Setting(k)
        BY <3>2, SettersAre DEF SetsKey
      <4>3. Setting(k) \cap Touched(e) = {}
        BY <3>2, <4>2, SettersAre DEF Touched, SetsKey, Setting
      <4> QED BY <2>1, <2>4, <2>5, <4>1, <4>2, <4>3 DEF Merged
    <3> QED BY <3>1, <3>2
  <2>9. ASSUME NEW f \in Flags(t) PROVE f \in ToSet(q)
    <3>1. CASE f = e /\ e[2] = Bare
      BY <2>5, <3>1
    <3>2. CASE ~(f = e /\ e[2] = Bare)
      <4>1. f \in Flags(s) /\ f \in ToSet(m) /\ f[2] = Bare /\ f \in ToSet(s)
        BY <2>1, <2>6, <3>2 DEF Merged, Flags
      <4>2. {f} \cap Touched(e) = {}
        BY <3>2, <4>1 DEF Touched, Setting, SetsKey
      <4>3. Only(q, {f}) = Only(m, {f})
        BY <2>5, <4>2
      <4>4. ToSet(Only(q, {f})) = ToSet(q) \cap {f} /\ ToSet(Only(m, {f})) = ToSet(m) \cap {f}
        BY <2>1, <2>5, OnlyHas
      <4> QED BY <4>1, <4>3, <4>4
    <3> QED BY <3>1, <3>2
  <2>10. ToSet(q) \subseteq ToSet(line) \cup ToSet(t)
    BY <2>1, <2>2, <2>5 DEF Merged
  <2>11. Merged(line, t, q)
    BY <2>7, <2>8, <2>9, <2>10 DEF Merged
  <2> QED BY <2>2, <2>3, <2>11 DEF t
<1>3. \A s \in CommandLines : s \in Good
  <2> HIDE DEF Good
  <2> QED BY <1>1, <1>2, LineInduction
<1> QED BY <1>3

-------------------------------------------------------------------------------
LEMMA AppendExcept ==
    ASSUME NEW A, NEW s \in Seq(A), NEW e \in A, NEW a \in A
    PROVE  /\ [Append(s, e) EXCEPT ![Len(s) + 1] = a] = Append(s, a)
           /\ \A p \in 1 .. Len(s) :
                [Append(s, e) EXCEPT ![p] = a] = Append([s EXCEPT ![p] = a], e)
<1> DEFINE t == Append(s, e)
           N == Len(s)
<1>1. N \in Nat /\ DOMAIN s = 1 .. N
  OBVIOUS
<1>2. \A u \in Seq(A), x \in A :
        Append(u, x) = [i \in 1 .. Len(u) + 1 |-> IF i = Len(u) + 1 THEN x ELSE u[i]]
  <2>1. ASSUME NEW u \in Seq(A), NEW x \in A
        PROVE  Append(u, x) = [i \in 1 .. Len(u) + 1 |-> IF i = Len(u) + 1 THEN x ELSE u[i]]
    <3>1. Append(u, x) = [i \in 1 .. Len(Append(u, x)) |-> Append(u, x)[i]]
      <4>1. \A v \in Seq(A) : v = [i \in 1 .. Len(v) |-> v[i]]
        OBVIOUS
      <4>2. Append(u, x) \in Seq(A)
        OBVIOUS
      <4> QED BY <4>1, <4>2
    <3>2. Append(u, x) = [i \in 1 .. Len(u) + 1 |-> Append(u, x)[i]]
      <4>1. Len(Append(u, x)) = Len(u) + 1
        OBVIOUS
      <4> QED BY <3>1, <4>1
    <3>3. \A i \in 1 .. Len(u) + 1 : Append(u, x)[i] = IF i = Len(u) + 1 THEN x ELSE u[i]
      OBVIOUS
    <3> QED BY <3>2, <3>3
  <2> QED BY <2>1
<1>3. t = [i \in 1 .. N + 1 |-> IF i = N + 1 THEN e ELSE s[i]]
  BY <1>2
<1>4. \A p : [t EXCEPT ![p] = a] = [i \in 1 .. N + 1 |-> IF i = p THEN a ELSE t[i]]
  BY <1>3
<1>5. [t EXCEPT ![N + 1] = a] = Append(s, a)
  <2>1. Append(s, a) = [i \in 1 .. N + 1 |-> IF i = N + 1 THEN a ELSE s[i]]
    BY <1>2
  <2>2. \A i \in 1 .. N + 1 : i # N + 1 => t[i] = s[i]
    BY <1>3
  <2> HIDE DEF t, N
  <2> QED BY <1>4, <2>1, <2>2
<1>6. ASSUME NEW p \in 1 .. N
      PROVE  [t EXCEPT ![p] = a] = Append([s EXCEPT ![p] = a], e)
  <2> DEFINE u == [s EXCEPT ![p] = a]
  <2>1. u \in Seq(A) /\ Len(u) = N /\ \A i \in 1 .. N : u[i] = IF i = p THEN a ELSE s[i]
    <3>1. u = [i \in 1 .. N |-> IF i = p THEN a ELSE s[i]]
      BY <1>1
    <3>2. \A i \in 1 .. N : s[i] \in A
      OBVIOUS
    <3> HIDE DEF u, N
    <3> QED BY <1>1, <3>1, <3>2
  <2> HIDE DEF u
  <2>2. Append(u, e) = [i \in 1 .. N + 1 |-> IF i = N + 1 THEN e ELSE u[i]]
    BY <1>2, <2>1
  <2> HIDE DEF t, N
  <2>3. \A i \in 1 .. N + 1 :
            (IF i = p THEN a ELSE t[i]) = IF i = N + 1 THEN e ELSE u[i]
    <3>1. \A i \in 1 .. N + 1 : t[i] = IF i = N + 1 THEN e ELSE s[i]
      BY <1>3
    <3>2. \A i \in 1 .. N + 1 : i = N + 1 \/ i \in 1 .. N
      BY <1>1
    <3>3. p # N + 1
      BY <1>1
    <3> QED BY <2>1, <3>1, <3>2, <3>3
  <2> QED BY <1>4, <2>2, <2>3 DEF u
<1> QED BY <1>5, <1>6

(* Place p of a line is the only one that sets the key. *)
OnlyPlace(line, key, p) ==
    /\ SetsKey(line[p], key)
    /\ \A i \in 1 .. Len(line) : SetsKey(line[i], key) => i = p

(* In a line with one place that sets the key, Replace changes that place. *)
LEMMA ReplaceInPlace ==
    ASSUME NEW a \in Arguments, a[2] # Bare
    PROVE  \A s \in CommandLines : \A p :
                p \in 1 .. Len(s) /\ OnlyPlace(s, a[1], p) => Replace(s, a) = [s EXCEPT ![p] = a]
<1> DEFINE Free(s) == \A i \in 1 .. Len(s) : ~SetsKey(s[i], a[1])
           At(s, p) == OnlyPlace(s, a[1], p)
           Good == {s \in CommandLines :
                        /\ Free(s) => Replace(s, a) = s
                        /\ \A p \in 1 .. Len(s) : At(s, p) => Replace(s, a) = [s EXCEPT ![p] = a]}
<1>1. <<>> \in Good
  BY LineGrows, ReplaceGoes
<1>2. ASSUME NEW s \in CommandLines, NEW e \in Arguments, s \in Good
      PROVE  Append(s, e) \in Good
  <2> DEFINE t == Append(s, e)
             N == Len(s)
  <2>1. /\ t \in CommandLines /\ Len(t) = N + 1 /\ N \in Nat /\ s \in Seq(Arguments)
        /\ t \in Seq(Arguments)
        /\ \A i \in 1 .. N : t[i] = s[i]
        /\ t[N + 1] = e
    BY AppendIs DEF CommandLines
  <2>2. Replace(t, a) = IF ~SetsKey(e, a[1]) THEN Append(Replace(s, a), e)
                        ELSE IF Sets(Replace(s, a), a[1]) THEN Replace(s, a)
                        ELSE Append(Replace(s, a), a)
    BY ReplaceGoes
  <2>3. /\ Free(s) => Replace(s, a) = s
        /\ \A p \in 1 .. N : At(s, p) => Replace(s, a) = [s EXCEPT ![p] = a]
    BY <1>2
  <2>4. Free(t) <=> Free(s) /\ ~SetsKey(e, a[1])
    <3> HIDE DEF t, N
    <3> QED BY <2>1 DEF N
  <2>5. Free(t) => Replace(t, a) = t
    <3> HIDE DEF Free
    <3> QED BY <2>2, <2>3, <2>4
  <2>6. ASSUME NEW p \in 1 .. Len(t), At(t, p) PROVE Replace(t, a) = [t EXCEPT ![p] = a]
    <3>1. CASE p = N + 1
      <4>1. SetsKey(e, a[1]) /\ Free(s)
        <5> HIDE DEF t, N
        <5>1. \A i \in 1 .. N : SetsKey(t[i], a[1]) => i = N + 1
          BY <2>1, <2>6, <3>1 DEF OnlyPlace
        <5> QED BY <2>1, <2>6, <3>1, <5>1 DEF N, OnlyPlace
      <4>2. ~Sets(s, a[1])
        BY <2>1, <4>1 DEF Sets, ToSet
      <4>3. Replace(t, a) = Append(s, a)
        BY <2>2, <2>3, <4>1, <4>2
      <4>4. Append(s, a) = [t EXCEPT ![p] = a]
        BY <2>1, <3>1, AppendExcept
      <4> QED BY <4>3, <4>4
    <3>2. CASE p \in 1 .. N
      <4>1. ~SetsKey(e, a[1]) /\ At(s, p)
        <5> HIDE DEF t, N
        <5>1. SetsKey(t[N + 1], a[1]) => N + 1 = p
          BY <2>1, <2>6 DEF OnlyPlace
        <5>2. \A i \in 1 .. N : SetsKey(t[i], a[1]) => i = p
          BY <2>1, <2>6 DEF OnlyPlace
        <5> QED BY <2>1, <2>6, <3>2, <5>1, <5>2 DEF N, OnlyPlace
      <4>2. Replace(t, a) = Append([s EXCEPT ![p] = a], e)
        BY <2>2, <2>3, <3>2, <4>1
      <4>3. Append([s EXCEPT ![p] = a], e) = [t EXCEPT ![p] = a]
        BY <2>1, <3>2, AppendExcept
      <4> QED BY <4>2, <4>3
    <3> QED BY <2>1, <3>1, <3>2
  <2> QED BY <2>1, <2>5, <2>6
<1>3. \A s \in CommandLines : s \in Good
  <2> HIDE DEF Good
  <2> QED BY <1>1, <1>2, LineInduction
<1> QED BY <1>3

(* The last argument that sets a key sets it. *)
LEMMA LastSets ==
    ASSUME NEW set \in CommandLines, NEW k \in Keys(set)
    PROVE  Last(Only(set, Setting(k))) \in Setting(k)
<1> DEFINE o == Only(set, Setting(k))
<1>1. o \in Seq(Arguments) /\ ToSet(o) = ToSet(set) \cap Setting(k)
  BY OnlyIs, OnlyHas DEF CommandLines
<1>2. ToSet(o) # {}
  BY <1>1, KeysAre
<1> HIDE DEF o
<1>3. Len(o) \in 1 .. Len(o)
  BY <1>1, <1>2 DEF ToSet
<1>4. Last(o) \in ToSet(o)
  BY <1>1, <1>3 DEF Last, ToSet
<1> QED BY <1>1, <1>4 DEF o

(* The line with each value of a key in set as set has it last. *)
Put(line, set) ==
    [i \in 1 .. Len(line) |->
        IF line[i][2] # Bare /\ line[i][1] \in Keys(set)
        THEN Last(Only(set, Setting(line[i][1]))) ELSE line[i]]

(* The flags of set are in the line, and its keys in one place each. *)
InPlace(line, set) ==
    \A b \in ToSet(set) :
        IF b[2] = Bare THEN b \in ToSet(line)
        ELSE \E p \in 1 .. Len(line) : OnlyPlace(line, b[1], p)

LEMMA PutIs ==
    ASSUME NEW line \in CommandLines, NEW set \in CommandLines
    PROVE  /\ Put(line, set) \in CommandLines /\ Len(Put(line, set)) = Len(line)
           /\ \A i \in 1 .. Len(line) : \A k :
                SetsKey(Put(line, set)[i], k) <=> SetsKey(line[i], k)
           /\ \A i \in 1 .. Len(line) : line[i][2] = Bare => Put(line, set)[i] = line[i]
<1> DEFINE N == Len(line)
           put == Put(line, set)
           Value(i) == IF line[i][2] # Bare /\ line[i][1] \in Keys(set)
                       THEN Last(Only(set, Setting(line[i][1]))) ELSE line[i]
<1>1. N \in Nat /\ \A i \in 1 .. N : line[i] \in Arguments
  BY DEF CommandLines
<1>2. put = [i \in 1 .. N |-> Value(i)]
  BY DEF Put
<1>3. ASSUME NEW i \in 1 .. N
      PROVE  /\ Value(i) \in Arguments
             /\ line[i][2] = Bare => Value(i) = line[i]
             /\ \A k : SetsKey(Value(i), k) <=> SetsKey(line[i], k)
  <2>1. CASE line[i][2] # Bare /\ line[i][1] \in Keys(set)
    <3>1. Value(i) \in Setting(line[i][1])
      BY <2>1, LastSets
    <3> HIDE DEF Value
    <3> QED BY <2>1, <3>1 DEF Setting, SetsKey
  <2>2. CASE ~(line[i][2] # Bare /\ line[i][1] \in Keys(set))
    BY <1>1, <2>2
  <2> QED BY <2>1, <2>2
<1> HIDE DEF Value, put
<1>4. put \in Seq(Arguments) /\ Len(put) = N
  BY <1>1, <1>2, <1>3
<1>5. \A i \in 1 .. N : put[i] = Value(i)
  BY <1>2
<1> QED BY <1>3, <1>4, <1>5 DEF put, CommandLines

(* Merging what is in place only puts the values where they are.           *)
LEMMA MergePuts ==
    ASSUME NEW line \in CommandLines
    PROVE  \A set \in CommandLines : InPlace(line, set) => Merge(line, set) = Put(line, set)
<1> DEFINE Good == {set \in CommandLines :
                        InPlace(line, set) => Merge(line, set) = Put(line, set)}
           N == Len(line)
<1>0. N \in Nat /\ DOMAIN line = 1 .. N /\ line = [i \in 1 .. N |-> line[i]]
      /\ \A i \in 1 .. N : line[i] \in Arguments
  <2>1. \A v \in Seq(Arguments) : /\ Len(v) \in Nat /\ DOMAIN v = 1 .. Len(v)
                                  /\ v = [i \in 1 .. Len(v) |-> v[i]]
                                  /\ \A i \in 1 .. Len(v) : v[i] \in Arguments
    OBVIOUS
  <2> QED BY <2>1 DEF CommandLines
<1>1. <<>> \in Good
  <2>1. Put(line, <<>>) = [i \in 1 .. N |-> line[i]]
    BY KeysAre DEF Put
  <2> QED BY <1>0, <2>1, MergeGoes, LineGrows
<1>2. ASSUME NEW s \in CommandLines, NEW e \in Arguments, s \in Good
      PROVE  Append(s, e) \in Good
  <2> DEFINE t == Append(s, e)
             put == Put(line, s)
             V(u, i) == IF line[i][2] # Bare /\ line[i][1] \in Keys(u)
                        THEN Last(Only(u, Setting(line[i][1]))) ELSE line[i]
  <2>1. t \in CommandLines /\ ToSet(t) = ToSet(s) \cup {e}
    BY LineGrows
  <2>2. SUFFICES ASSUME InPlace(line, t) PROVE Merge(line, t) = Put(line, t)
    BY <2>1
  <2>3. InPlace(line, s)
    BY <2>1, <2>2 DEF InPlace
  <2>4. Merge(line, t) = MergeOne(put, e)
    BY <1>2, <2>3, MergeGoes
  <2>5. \A S : Only(t, S) = IF e \in S THEN Append(Only(s, S), e) ELSE Only(s, S)
    BY OnlyIs
  <2>6. Keys(t) = IF e[2] = Bare THEN Keys(s) ELSE Keys(s) \cup {e[1]}
    BY KeysAre
  <2>7. /\ put \in CommandLines /\ Len(put) = N
        /\ \A i \in 1 .. N : \A k : SetsKey(put[i], k) <=> SetsKey(line[i], k)
        /\ \A i \in 1 .. N : line[i][2] = Bare => put[i] = line[i]
    BY PutIs
  <2>8. put = [i \in 1 .. N |-> V(s, i)] /\ Put(line, t) = [i \in 1 .. N |-> V(t, i)]
    BY DEF Put
  <2> HIDE DEF t, put, N
  <2>9. CASE e[2] = Bare
    <3>1. e \in ToSet(line)
      BY <2>1, <2>2, <2>9 DEF InPlace
    <3>2. PICK i \in 1 .. N : line[i] = e
      BY <1>0, <3>1 DEF ToSet
    <3>3. put[i] = e
      BY <2>7, <2>9, <3>2
    <3>4. e \in ToSet(put)
      BY <2>8, <3>3 DEF ToSet
    <3>5. MergeOne(put, e) = put
      BY <2>9, <3>4 DEF MergeOne, MergeFlag
    <3>6. \A k : e \notin Setting(k)
      BY <2>9 DEF Setting, SetsKey
    <3>7. Keys(t) = Keys(s) /\ \A k : Only(t, Setting(k)) = Only(s, Setting(k))
      BY <2>5, <2>6, <2>9, <3>6
    <3>8. \A j \in 1 .. N : V(t, j) = V(s, j)
      BY <3>7
    <3> HIDE DEF V
    <3> QED BY <2>4, <2>8, <3>5, <3>8
  <2>10. CASE e[2] # Bare
    <3>1. PICK p \in 1 .. N : OnlyPlace(line, e[1], p)
      BY <2>1, <2>2, <2>10 DEF InPlace, N
    <3>2. OnlyPlace(put, e[1], p)
      BY <2>7, <3>1 DEF OnlyPlace, N
    <3>3. Sets(put, e[1])
      BY <2>7, <2>8, <3>2 DEF Sets, ToSet, OnlyPlace
    <3>4. MergeOne(put, e) = [put EXCEPT ![p] = e]
      <4>1. MergeOne(put, e) = Replace(put, e)
        BY <2>10, <3>3 DEF MergeOne, MergeValue
      <4> QED BY <2>7, <2>10, <3>2, <4>1, ReplaceInPlace
    <3>5. [put EXCEPT ![p] = e] = [i \in 1 .. N |-> IF i = p THEN e ELSE V(s, i)]
      <4> HIDE DEF V
      <4> QED BY <2>8
    <3>6. V(t, p) = e
      <4>1. line[p][2] # Bare /\ line[p][1] = e[1]
        BY <3>1 DEF OnlyPlace, SetsKey
      <4>2. e \in Setting(e[1]) /\ e[1] \in Keys(t)
        BY <2>6, <2>10, SettersAre DEF SetsKey
      <4>3. Only(s, Setting(e[1])) \in Seq(Arguments)
        BY OnlyIs DEF CommandLines
      <4>4. Last(Append(Only(s, Setting(e[1])), e)) = e
        BY <4>3, AppendIs DEF Last
      <4>5. Last(Only(t, Setting(e[1]))) = e
        BY <2>5, <4>2, <4>4
      <4> QED BY <4>1, <4>2, <4>5
    <3>7. ASSUME NEW i \in 1 .. N, i # p PROVE V(t, i) = V(s, i)
      <4>1. line[i][2] # Bare => line[i][1] # e[1]
        BY <3>1, <3>7 DEF OnlyPlace, SetsKey, N
      <4>2. line[i][2] # Bare => e \notin Setting(line[i][1])
        BY <4>1, SettersAre DEF SetsKey
      <4>3. line[i][2] # Bare => (line[i][1] \in Keys(t) <=> line[i][1] \in Keys(s))
        BY <2>6, <2>10, <4>1
      <4>4. line[i][2] # Bare => Only(t, Setting(line[i][1])) = Only(s, Setting(line[i][1]))
        BY <2>5, <4>2
      <4> QED BY <4>3, <4>4
    <3>8. \A i \in 1 .. N : V(t, i) = IF i = p THEN e ELSE V(s, i)
      <4> HIDE DEF V
      <4> QED BY <3>6, <3>7
    <3> HIDE DEF V
    <3> QED BY <2>4, <2>8, <3>4, <3>5, <3>8
  <2> QED BY <2>9, <2>10
<1>3. \A s \in CommandLines : s \in Good
  <2> HIDE DEF Good
  <2> QED BY <1>1, <1>2, LineInduction
<1> QED BY <1>3

(* Merging the same arguments again changes nothing. *)
LEMMA MergeTwice ==
    ASSUME NEW line \in CommandLines, NEW set \in CommandLines
    PROVE  Merge(Merge(line, set), set) = Merge(line, set)
<1> DEFINE m == Merge(line, set)
<1>1. m \in CommandLines /\ Merged(line, set, m)
  BY MergeGoes, MergeIs
<1> HIDE DEF m
<1>2. Len(m) \in Nat /\ m = [i \in 1 .. Len(m) |-> m[i]]
      /\ \A i \in 1 .. Len(m) : m[i] \in ToSet(m) /\ m[i] \in Arguments
  <2>1. \A v \in Seq(Arguments) : /\ Len(v) \in Nat /\ DOMAIN v = 1 .. Len(v)
                                  /\ v = [i \in 1 .. Len(v) |-> v[i]]
                                  /\ \A i \in 1 .. Len(v) : v[i] \in Arguments
    OBVIOUS
  <2> QED BY <1>1, <2>1 DEF CommandLines, ToSet
<1>3. \A k \in Keys(set) : Only(m, Setting(k)) = <<Last(Only(set, Setting(k)))>>
  BY <1>1 DEF Merged
<1>4. \A x : ToSet(<<x>>) = {x} /\ Len(<<x>>) = 1
  BY DEF ToSet
<1>5. ASSUME NEW k \in Keys(set), NEW i \in 1 .. Len(m), SetsKey(m[i], k)
      PROVE  m[i] = Last(Only(set, Setting(k)))
  <2>1. m[i] \in Setting(k)
    BY <1>2, <1>5, SettersAre
  <2>2. m[i] \in ToSet(Only(m, Setting(k)))
    BY <1>1, <1>2, <2>1, OnlyHas
  <2> QED BY <1>3, <1>4, <2>2
<1>6. ASSUME NEW k \in Keys(set) PROVE \E p \in 1 .. Len(m) : OnlyPlace(m, k, p)
  <2> DEFINE x == Last(Only(set, Setting(k)))
  <2>1. ToSet(Only(m, Setting(k))) = {x} /\ Len(Only(m, Setting(k))) = 1
    BY <1>3, <1>4
  <2> HIDE DEF x
  <2>2. x \in ToSet(m) \cap Setting(k)
    BY <1>1, <2>1, OnlyHas
  <2>3. PICK p \in 1 .. Len(m) : m[p] = x
    BY <1>1, <2>2 DEF ToSet, CommandLines
  <2>4. \A i \in 1 .. Len(m) : SetsKey(m[i], k) => m[i] \in Setting(k)
    BY <1>2, SettersAre
  <2>5. \A i \in 1 .. Len(m) : SetsKey(m[i], k) => i = p
    BY <1>1, <2>1, <2>2, <2>3, <2>4, OnlyOne
  <2>6. SetsKey(m[p], k)
    BY <2>2, <2>3 DEF Setting
  <2> QED BY <2>5, <2>6 DEF OnlyPlace
<1>7. InPlace(m, set)
  <2> SUFFICES ASSUME NEW b \in ToSet(set)
               PROVE  IF b[2] = Bare THEN b \in ToSet(m)
                      ELSE \E p \in 1 .. Len(m) : OnlyPlace(m, b[1], p)
    BY DEF InPlace
  <2>1. CASE b[2] = Bare
    BY <1>1, <2>1 DEF Merged, Flags
  <2>2. CASE b[2] # Bare
    <3>1. b[1] \in Keys(set)
      BY <2>2 DEF Keys
    <3> QED BY <1>6, <2>2, <3>1
  <2> QED BY <2>1, <2>2
<1>8. Put(m, set) = m
  <2> DEFINE V(i) == IF m[i][2] # Bare /\ m[i][1] \in Keys(set)
                     THEN Last(Only(set, Setting(m[i][1]))) ELSE m[i]
  <2>1. \A i \in 1 .. Len(m) : V(i) = m[i]
    BY <1>5 DEF SetsKey
  <2>2. Put(m, set) = [i \in 1 .. Len(m) |-> V(i)]
    BY DEF Put
  <2> HIDE DEF V
  <2> QED BY <1>2, <2>1, <2>2
<1> QED BY <1>1, <1>7, <1>8, MergePuts DEF m

-------------------------------------------------------------------------------
LEMMA GivenLines ==
    \A line \in UkiLines \cup ConfigLines \cup EnvLines : line \in CommandLines
<1> SUFFICES ASSUME NEW line \in UkiLines \cup ConfigLines \cup EnvLines
             PROVE  line \in Seq(Arguments)
  BY DEF CommandLines
<1>1. line \in Seq(ToSet(line))
  BY CommandLineAssumption DEF CommandLineAssumption
<1>2. ToSet(line) \subseteq Arguments
  BY DEF Arguments
<1> HIDE DEF Arguments
<1> QED BY <1>1, <1>2

(***************************************************************************)
(* The inductive invariant: past the plan the arguments are those of the   *)
(* inputs, KERNEL_ARGS over extraKernelArgs; a run that is done has merged *)
(* them into what it found; and what a run finds, the run before has       *)
(* merged its arguments into.                                              *)
(***************************************************************************)
ArgsInv ==
    /\ stage \in {"plan", "edit", "done"}
    /\ config \in CommandLines /\ env \in CommandLines
    /\ kargs \in CommandLines /\ last \in CommandLines
    /\ lines \in [Sections -> CommandLines] /\ before \in [Sections -> CommandLines]
    /\ stage # "plan" => kargs = Merge(config, env)
    /\ stage # "done" => lines = before
    /\ stage = "done" => \A s \in Sections : lines[s] = Merge(before[s], kargs)
    /\ \A s \in Sections : \E l \in CommandLines : lines[s] = Merge(l, last)

LEMMA ArgsInvariant == ArgsSpec => []ArgsInv
<1>1. ArgsInit => ArgsInv
  <2> SUFFICES ASSUME ArgsInit PROVE ArgsInv
    OBVIOUS
  <2>1. config \in CommandLines /\ env \in CommandLines /\ lines \in [Sections -> CommandLines]
    BY GivenLines DEF ArgsInit
  <2>2. \A s \in Sections : lines[s] = Merge(lines[s], last)
    BY <2>1, MergeGoes DEF ArgsInit
  <2>3. kargs \in CommandLines /\ last \in CommandLines
    BY LineGrows DEF ArgsInit
  <2> QED BY <2>1, <2>2, <2>3 DEF ArgsInit, ArgsInv
<1>2. ArgsInv /\ [ArgsNext]_argVars => ArgsInv'
  <2> SUFFICES ASSUME ArgsInv, [ArgsNext]_argVars PROVE ArgsInv'
    OBVIOUS
  <2>1. CASE MergeArgs
    <3>1. kargs' = Merge(config, env) /\ kargs' \in CommandLines
      BY <2>1, MergeGoes DEF MergeArgs, ArgsInv
    <3>2. stage' = (IF kargs' = <<>> THEN "done" ELSE "edit") /\ lines = before
      BY <2>1 DEF MergeArgs, ArgsInv
    <3>3. UNCHANGED <<config, env, lines, before, last>>
      BY <2>1 DEF MergeArgs, inputs
    <3>4. stage' = "done" => \A s \in Sections : lines'[s] = Merge(before'[s], kargs')
      BY <3>2, <3>3, MergeGoes DEF ArgsInv
    <3> QED BY <3>1, <3>2, <3>3, <3>4 DEF ArgsInv
  <2>2. CASE Edit
    <3>1. /\ stage' = "done" /\ stage = "edit" /\ last' = kargs
          /\ lines' = [s \in Sections |-> Merge(lines[s], kargs)]
          /\ UNCHANGED <<config, env, kargs, before>>
      BY <2>2 DEF Edit, inputs
    <3>2. \A s \in Sections : lines[s] \in CommandLines /\ Merge(lines[s], kargs) \in CommandLines
      BY MergeGoes DEF ArgsInv
    <3>3. lines' \in [Sections -> CommandLines]
      BY <3>1, <3>2
    <3>4. \A s \in Sections : lines'[s] = Merge(before[s], kargs)
      BY <3>1 DEF ArgsInv
    <3>5. \A s \in Sections : \E l \in CommandLines : lines'[s] = Merge(l, last')
      BY <3>1, <3>2
    <3> QED BY <3>1, <3>3, <3>4, <3>5 DEF ArgsInv
  <2>3. ASSUME NEW c \in ConfigLines, NEW e \in EnvLines, Rerun(c, e)
        PROVE  ArgsInv'
    <3>1. c \in CommandLines /\ e \in CommandLines
      BY GivenLines
    <3> QED BY <2>3, <3>1 DEF Rerun, ArgsInv
  <2>4. CASE UNCHANGED argVars
    BY <2>4 DEF argVars, inputs, ArgsInv
  <2> QED BY <2>1, <2>2, <2>3, <2>4 DEF ArgsNext
<1> QED BY <1>1, <1>2, PTL DEF ArgsSpec

(* The two layers of arguments merged, one after the other. *)
LEMMA BothLayers ==
    ASSUME NEW c \in CommandLines, NEW e \in CommandLines
    PROVE  LET both == c \o e
               args == Merge(c, e)
           IN  /\ both \in CommandLines /\ ToSet(both) = ToSet(c) \cup ToSet(e)
               /\ args \in CommandLines /\ ToSet(args) \subseteq ToSet(both)
               /\ \A k \in Keys(both) :
                    /\ k \in Keys(args)
                    /\ Last(Only(args, Setting(k))) = Last(Only(both, Setting(k)))
               /\ Flags(both) \subseteq Flags(args)
<1> DEFINE both == c \o e
           args == Merge(c, e)
<1>1. both \in CommandLines /\ ToSet(both) = ToSet(c) \cup ToSet(e)
  BY OnlyOfBoth
<1>2. args \in CommandLines /\ Merged(c, e, args)
  BY MergeGoes, MergeIs
<1>3. \A S : Only(both, S) = Only(c, S) \o Only(e, S)
  BY OnlyOfBoth
<1> HIDE DEF both, args
<1>4. ToSet(args) \subseteq ToSet(both)
  BY <1>1, <1>2 DEF Merged
<1>5. ASSUME NEW k \in Keys(both)
      PROVE  /\ k \in Keys(args)
             /\ Last(Only(args, Setting(k))) = Last(Only(both, Setting(k)))
  <2> DEFINE oc == Only(c, Setting(k))
             oe == Only(e, Setting(k))
             oa == Only(args, Setting(k))
  <2>1. /\ oc \in Seq(Arguments) /\ ToSet(oc) = ToSet(c) \cap Setting(k)
        /\ oe \in Seq(Arguments) /\ ToSet(oe) = ToSet(e) \cap Setting(k)
        /\ oa \in Seq(Arguments) /\ ToSet(oa) = ToSet(args) \cap Setting(k)
    BY <1>2, OnlyIs, OnlyHas DEF CommandLines
  <2>2. Only(both, Setting(k)) = oc \o oe
    BY <1>3
  <2>3. CASE k \in Keys(e)
    <3>1. oa = <<Last(oe)>>
      BY <1>2, <2>3 DEF Merged
    <3>2. ToSet(oe) # {}
      BY <2>1, <2>3, KeysAre
    <3> HIDE DEF oc, oe, oa
    <3>3. Len(oe) \in Nat \ {0}
      BY <2>1, <3>2 DEF ToSet
    <3>4. Last(oc \o oe) = Last(oe)
      BY <2>1, <3>3 DEF Last
    <3>5. Last(oa) = Last(oe) /\ ToSet(oa) # {}
      BY <3>1 DEF Last, ToSet
    <3> QED BY <1>2, <2>1, <2>2, <3>4, <3>5, KeysAre DEF oa
  <2>4. CASE k \notin Keys(e)
    <3>1. \A b \in ToSet(e) : Setting(k) \cap Touched(b) = {}
      BY <2>4, LineGrows DEF Touched, Setting, SetsKey, Keys
    <3>2. oa = oc
      BY <1>2, <3>1 DEF Merged
    <3>3. ToSet(oe) = {}
      BY <2>1, <2>4, KeysAre
    <3>4. ToSet(oc) # {}
      BY <1>1, <2>1, <3>3, KeysAre
    <3> HIDE DEF oc, oe, oa
    <3>5. oe = <<>>
      BY <2>1, <3>3, NothingLeft
    <3>6. oc \o oe = oc
      BY <2>1, <3>5
    <3> QED BY <1>2, <2>1, <2>2, <3>2, <3>4, <3>6, KeysAre DEF oa
  <2> QED BY <2>3, <2>4
<1>6. Flags(both) \subseteq Flags(args)
  <2> SUFFICES ASSUME NEW f \in Flags(both) PROVE f \in ToSet(args)
    BY DEF Flags
  <2>1. f[2] = Bare /\ (f \in ToSet(c) \/ f \in ToSet(e))
    BY <1>1 DEF Flags
  <2>2. CASE f \in ToSet(e)
    BY <1>2, <2>1, <2>2 DEF Merged, Flags
  <2>3. CASE f \notin ToSet(e)
    <3>1. \A b \in ToSet(e) : {f} \cap Touched(b) = {}
      BY <2>1, <2>3 DEF Touched, Setting, SetsKey
    <3>2. Only(args, {f}) = Only(c, {f})
      BY <1>2, <3>1 DEF Merged
    <3>3. ToSet(Only(args, {f})) = ToSet(args) \cap {f} /\ ToSet(Only(c, {f})) = ToSet(c) \cap {f}
      BY <1>2, OnlyHas
    <3> QED BY <2>1, <2>3, <3>2, <3>3
  <2> QED BY <2>2, <2>3
<1> QED BY <1>1, <1>2, <1>4, <1>5, <1>6 DEF both, args

(***************************************************************************)
(* Every key given ends up in every section exactly once, with the value   *)
(* given last, KERNEL_ARGS after extraKernelArgs, and every flag is there, *)
(* whatever the UKI came with and however often the action has run         *)
(* (settings.go:76, kargs.go:13-50).                                       *)
(***************************************************************************)
THEOREM LastValueWins == ArgsSpec => []LastWins
<1>1. ArgsInv => LastWins
  <2> SUFFICES ASSUME ArgsInv, stage = "done", NEW s \in Sections
               PROVE  /\ \A k \in Keys(config \o env) :
                            Values(lines[s], k) = <<Last(Values(config \o env, k))>>
                      /\ Flags(config \o env) \subseteq ToSet(lines[s])
    BY DEF LastWins
  <2> DEFINE both == config \o env
             line == lines[s]
  <2>1. /\ config \in CommandLines /\ env \in CommandLines
        /\ kargs = Merge(config, env) /\ kargs \in CommandLines
        /\ before[s] \in CommandLines /\ line = Merge(before[s], kargs)
    BY DEF ArgsInv
  <2>2. /\ both \in CommandLines
        /\ \A k \in Keys(both) :
            k \in Keys(kargs) /\ Last(Only(kargs, Setting(k))) = Last(Only(both, Setting(k)))
        /\ Flags(both) \subseteq Flags(kargs)
    BY <2>1, BothLayers
  <2>3. Merged(before[s], kargs, line)
    BY <2>1, MergeIs
  <2> HIDE DEF both, line
  <2>4. ASSUME NEW k \in Keys(both)
        PROVE  Values(line, k) = <<Last(Values(both, k))>>
    <3> DEFINE o == Only(both, Setting(k))
    <3>1. Only(line, Setting(k)) = <<Last(o)>>
      BY <2>2, <2>3 DEF Merged
    <3>2. o \in Seq(Arguments) /\ ToSet(o) # {}
      <4>1. ToSet(both) \cap Setting(k) # {}
        BY <2>2, <2>4, KeysAre
      <4> QED BY <2>2, <4>1, OnlyIs, OnlyHas DEF CommandLines
    <3> HIDE DEF o
    <3>3. Len(o) \in Nat \ {0} /\ DOMAIN o = 1 .. Len(o)
      BY <3>2 DEF ToSet
    <3>4. Values(both, k) = [i \in 1 .. Len(o) |-> o[i][2]]
      BY <3>3 DEF Values, o
    <3>5. Last(Values(both, k)) = Last(o)[2]
      BY <3>3, <3>4 DEF Last
    <3>6. Values(line, k) = [i \in 1 .. 1 |-> <<Last(o)>>[i][2]]
      BY <3>1 DEF Values
    <3>7. Values(line, k) = <<Last(o)[2]>>
      BY <3>6
    <3> QED BY <3>5, <3>7
  <2>5. Flags(both) \subseteq ToSet(line)
    BY <2>2, <2>3 DEF Merged
  <2> QED BY <2>4, <2>5 DEF both, line
<1> QED BY <1>1, ArgsInvariant, PTL

(***************************************************************************)
(* The arguments of the image that were not asked for are the same         *)
(* sequence after the merge as before it (kargs.go:9-12).                  *)
(***************************************************************************)
THEOREM OthersStay == ArgsSpec => []OthersKeepPlace
<1>1. ArgsInv => OthersKeepPlace
  <2> SUFFICES ASSUME ArgsInv, stage = "done", NEW s \in Sections
               PROVE  Rest(lines[s], config \o env) = Rest(before[s], config \o env)
    BY DEF OthersKeepPlace
  <2> DEFINE both == config \o env
             S == {a \in Arguments :
                        IF a[2] = Bare THEN a \notin Flags(both) ELSE a[1] \notin Keys(both)}
  <2>1. /\ config \in CommandLines /\ env \in CommandLines
        /\ kargs = Merge(config, env) /\ kargs \in CommandLines
        /\ before[s] \in CommandLines /\ lines[s] = Merge(before[s], kargs)
    BY DEF ArgsInv
  <2>2. ToSet(kargs) \subseteq ToSet(both)
    BY <2>1, BothLayers
  <2>3. Merged(before[s], kargs, lines[s])
    BY <2>1, MergeIs
  <2>4. ASSUME NEW b \in ToSet(kargs) PROVE S \cap Touched(b) = {}
    <3>1. CASE b[2] = Bare
      BY <2>2, <3>1 DEF Touched, Flags
    <3>2. CASE b[2] # Bare
      <4>1. b[1] \in Keys(both)
        BY <2>2, <3>2 DEF Keys
      <4> QED BY <3>2, <4>1 DEF Touched, Setting, SetsKey
    <3> QED BY <3>1, <3>2
  <2>5. Only(lines[s], S) = Only(before[s], S)
    <3> HIDE DEF S
    <3> QED BY <2>3, <2>4 DEF Merged
  <2> QED BY <2>5 DEF Rest
<1> QED BY <1>1, ArgsInvariant, PTL

(***************************************************************************)
(* Arguments merged by the run before are in place, each key with the      *)
(* value they give it last, so that merging them again writes nothing      *)
(* (cmdline.go:178-185).                                                   *)
(***************************************************************************)
THEOREM RerunLeavesUki == ArgsSpec => RerunRewritesNothing
<1>1. ArgsInv /\ [ArgsNext]_argVars => [stage = "edit" /\ kargs = last => ~rewritten']_argVars
  <2> SUFFICES ASSUME ArgsInv, ArgsNext, stage = "edit", kargs = last PROVE ~rewritten'
    OBVIOUS
  <2>1. Edit
    BY DEF ArgsNext, MergeArgs, Rerun
  <2>2. ASSUME NEW s \in Sections PROVE Merge(lines[s], kargs) = lines[s]
    <3>1. PICK l \in CommandLines : lines[s] = Merge(l, last)
      BY DEF ArgsInv
    <3> QED BY <3>1, MergeTwice DEF ArgsInv
  <2>3. lines' = lines
    <3>1. lines' = [s \in Sections |-> lines[s]]
      BY <2>1, <2>2 DEF Edit
    <3> QED BY <3>1 DEF ArgsInv
  <2> QED BY <2>1, <2>3 DEF Edit
<1> QED BY <1>1, ArgsInvariant, PTL DEF ArgsSpec, RerunRewritesNothing
===============================================================================
