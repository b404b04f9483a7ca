---------------------------- MODULE UkiLayoutProofs ----------------------------
(***************************************************************************)
(* Proofs about UkiLayout, for any number of sections, any alignments and  *)
(* any section table that validate accepts.                                *)
(***************************************************************************)
EXTENDS UkiLayout, TLAPS

(* Align rounds up, by less than the alignment. *)
LEMMA AlignUp ==
    ASSUME NEW v \in Nat, NEW a \in Nat \ {0}
    PROVE  /\ Align(v, a) \in Nat
           /\ v <= Align(v, a)
           /\ Align(v, a) < v + a
<1> DEFINE x == v + a - 1
           q == x \div a
           r == x % a
<1>1. x \in Nat /\ q \in Nat /\ r \in 0 .. a - 1
  OBVIOUS
<1>2. x = a * q + r
  OBVIOUS
<1>3. Align(v, a) = a * q
  BY <1>1 DEF Align
<1> HIDE DEF q, r
<1>4. a * q \in Nat
  BY <1>1
<1> QED BY <1>1, <1>2, <1>3, <1>4

(* A header field holds a number below Word as it is. *)
LEMMA Untruncated ==
    ASSUME NEW x \in Nat
    PROVE  /\ U32(x) \in Nat
           /\ x < Word => U32(x) = x
BY LayoutAssumption DEF U32, LayoutAssumption

(* Cutting a sum off at the width of a header field never raises it. *)
LEMMA CutDown ==
    ASSUME NEW x \in Nat
    PROVE  U32(x) \in Nat /\ U32(x) <= x
<1>1. Word \in Nat \ {0}
  BY LayoutAssumption DEF LayoutAssumption
<1>2. x % Word \in 0 .. Word - 1
  BY <1>1
<1>3. CASE x < Word
  BY <1>1, <1>3 DEF U32
<1>4. CASE ~(x < Word)
  BY <1>1, <1>2, <1>4 DEF U32
<1> QED BY <1>3, <1>4

(* The fields of a section header are numbers. *)
LEMMA Fields ==
    ASSUME NEW s \in [Index -> Section], NEW j \in Index
    PROVE  /\ s[j].va \in Nat /\ s[j].vsize \in Nat
           /\ s[j].off \in Nat /\ s[j].size \in Nat
           /\ s[j].kind \in Kinds
<1>1. s[j] \in Section
  OBVIOUS
<1> QED BY <1>1 DEF Section

(* A file holds at most the whole of a section. *)
LEMMA HeldBound ==
    ASSUME NEW j \in Index, sec[j] \in Section, end \in Nat
    PROVE  Held(j) \in Nat /\ Held(j) <= sec[j].size
<1>1. sec[j].off \in Nat /\ sec[j].size \in Nat
  BY DEF Section
<1> QED BY <1>1 DEF Held

-------------------------------------------------------------------------------
(* Every variable keeps its type (uki.go:85-92, 297-392).                    *)
THEOREM TypeCorrect == Spec => []TypeOK
<1> USE LayoutAssumption DEF LayoutAssumption, Index
<1>1. Init => TypeOK
  BY DEF Init, TypeOK
<1>2. TypeOK /\ [Next]_vars => TypeOK'
  <2> SUFFICES ASSUME TypeOK, [Next]_vars PROVE TypeOK'
    OBVIOUS
  <2> USE DEF TypeOK, input, totals, output
  <2>1. CASE Refuse BY <2>1 DEF Refuse
  <2>2. CASE Parse
    <3>1. PICK f \in Index : IsFirst(sec, f) /\ first' = f /\ i' = f
                              /\ va' = sec[f].va /\ off' = sec[f].off
      BY <2>2 DEF Parse
    <3>2. PICK l \in [{j \in Index : sec[j].kind = "cmdline"} -> Lengths] :
            len' = [j \in Index |-> IF sec[j].kind = "cmdline" THEN l[j] ELSE 0]
      BY <2>2 DEF Parse
    <3>3. len' \in [Index -> Nat]
      BY <3>2
    <3>4. sec[f] \in Section /\ va' \in Nat /\ off' \in Nat
      BY <3>1 DEF Section
    <3> QED BY <2>2, <3>1, <3>3, <3>4 DEF Parse
  <2>3. CASE Place
    <3>1. sec[i] \in Section /\ len[i] \in Nat /\ i \in Index
      BY <2>3 DEF Place
    <3>2. NewVSize(i) \in Nat /\ NewSize(i) \in Nat
      BY <3>1, AlignUp, Untruncated DEF NewVSize, NewSize, Section
    <3>3. U32(va) \in Nat /\ U32(off) \in Nat /\ U32(NewVSize(i)) \in Nat
      BY <3>2, Untruncated
    <3>4. NewHeader(i) \in Section
      BY <3>1, <3>2, <3>3 DEF NewHeader, Section
    <3>5. va + U32(NewVSize(i)) \in Nat
      BY <3>3
    <3>6. va' \in Nat
      BY <2>3, <3>5, AlignUp DEF Place
    <3>7. off' \in Nat
      <4>1. off' = off + NewSize(i)
        BY <2>3 DEF Place
      <4>2. off \in Nat
        OBVIOUS
      <4> QED BY ONLY <3>2, <4>1, <4>2
    <3> QED BY <2>3, <3>4, <3>6, <3>7 DEF Place
  <2>4. CASE WritePrefix
    <3>1. new[N] \in Section /\ N \in Index
      OBVIOUS
    <3>a. new[N].va \in Nat /\ new[N].vsize \in Nat
      BY <3>1, SMT DEF Section
    <3>2. new[N].va + new[N].vsize \in Nat
      BY <3>a
    <3>3. image' \in Nat
      BY <2>4, <3>2, AlignUp, Untruncated DEF WritePrefix
    <3>b. first \in Index
      BY <2>4 DEF WritePrefix
    <3>4. sec[first] \in Section
      BY <3>b
    <3>5. sec[first].off \in Nat
      BY <3>4 DEF Section
    <3> QED BY <2>4, <3>3, <3>5 DEF WritePrefix
  <2>5. CASE CopySection
    <3>1. pc = "copy" /\ i <= N
      BY <2>5 DEF CopySection
    <3>2. i \in Index
      BY <3>1
    <3>3. sec[i] \in Section /\ new[i] \in Section
      BY <3>2
    <3>4. sec[i].size \in Nat /\ new[i].size \in Nat
      BY <3>3 DEF Section
    <3>5. pos' \in Nat
      <4>1. Held(i) \in Nat
        BY <3>2, <3>3, HeldBound
      <4>2. pos' = pos + new[i].size \/ pos' = pos + Held(i)
        BY <2>5 DEF CopySection
      <4>3. pos \in Nat
        OBVIOUS
      <4> QED BY ONLY <3>4, <4>1, <4>2, <4>3
    <3>6. at' \in [Index -> Nat]
      BY <2>5, <3>2 DEF CopySection
    <3>7. short' \in 1 .. N + 1
      BY <2>5, <3>1 DEF CopySection
    <3> QED BY <2>5, <3>1, <3>5, <3>6, <3>7 DEF CopySection
  <2>6. CASE Finish BY <2>6 DEF Finish
  <2>9. CASE PrefixFails BY <2>9 DEF PrefixFails
  <2>7. CASE Again BY <2>7 DEF Again
  <2>8. CASE UNCHANGED vars BY <2>8 DEF vars
  <2> QED BY <2>1, <2>2, <2>3, <2>4, <2>5, <2>6, <2>7, <2>8, <2>9 DEF Next
<1> QED BY <1>1, <1>2, PTL DEF Spec

(***************************************************************************)
(* The invariant.  "top" is how far the loop over the headers has got.  As *)
(* long as the running totals fit, the headers behind it are contiguous in *)
(* the file, ordered in memory and end where the totals stand; the data    *)
(* behind i is where its header says, up to the first section copied       *)
(* short, and a command line is always written out in full.                *)
(***************************************************************************)
Busy == {"place", "copy", "done"}
Top  == IF pc = "place" THEN i ELSE N + 1
Placed(j) == first <= j /\ j < Top

Accepted ==
    pc \in Busy =>
        /\ IsFirst(sec, first) /\ Valid(sec, first)
        /\ \A j \in Index : new[j].kind = sec[j].kind
        /\ \A j \in Index : j < first => new[j] = sec[j]

MemoryOrdered ==
    pc \in Busy /\ Fits =>
        /\ \A j \in Index : Placed(j) => new[j].va + new[j].vsize <= va
        /\ \A j, k \in Index : j < k /\ Placed(j) /\ Placed(k) =>
            new[j].va + new[j].vsize <= new[k].va
        /\ Top = first => va = sec[first].va
        /\ Top > first => new[first].va = sec[first].va
        /\ Top > first => va = Align(new[Top - 1].va + new[Top - 1].vsize, SectAlign)

FileOrdered ==
    pc \in Busy /\ Fits =>
        /\ Top = first => off = sec[first].off
        /\ Top > first => new[first].off = sec[first].off
        /\ Top > first => off = new[Top - 1].off + new[Top - 1].size
        /\ \A j \in Index : Placed(j) /\ j + 1 < Top =>
            new[j + 1].off = new[j].off + new[j].size
        /\ \A j \in Index : Placed(j) =>
            IF sec[j].kind = "cmdline"
            THEN new[j].vsize <= new[j].size
            ELSE new[j].size = sec[j].size

Copied ==
    pc \in {"copy", "done"} /\ Fits =>
        /\ \A j \in Index : first <= j /\ j < i /\ j <= short => at[j] = new[j].off
        /\ \A j \in Index : first <= j /\ j < i /\ sec[j].kind = "cmdline" =>
            at[j] + new[j].size <= pos
        /\ pc = "copy" /\ i <= N /\ i <= short => pos = new[i].off
        /\ pc = "done" => i = N + 1
        /\ image = va

CodeKept ==
    /\ \A j \in Index : sec[j].kind = orig[j].kind
    /\ \A j \in Index : orig[j].kind = "code" => sec[j] = orig[j] /\ new[j] = orig[j]

LayoutInv == TypeOK /\ Accepted /\ MemoryOrdered /\ FileOrdered /\ Copied /\ CodeKept

-------------------------------------------------------------------------------
(* What Place writes as long as the totals fit. *)
LEMMA Header ==
    ASSUME TypeOK, Fits, pc = "place", i \in Index, first \in Index
    PROVE  /\ NewHeader(i).va = va
           /\ NewHeader(i).off = off
           /\ NewHeader(i).vsize = U32(NewVSize(i))
           /\ NewHeader(i).size = NewSize(i)
           /\ NewHeader(i).kind = sec[i].kind
           /\ NewSize(i) \in Nat /\ U32(NewVSize(i)) \in Nat
           /\ IF sec[i].kind = "cmdline"
              THEN U32(NewVSize(i)) <= NewSize(i)
              ELSE NewSize(i) = sec[i].size
<1>1. va \in Nat /\ off \in Nat /\ va < Word /\ off < Word
  BY DEF TypeOK, Fits
<1>2. U32(va) = va /\ U32(off) = off
  BY <1>1, Untruncated
<1>3. len[i] \in Nat /\ len[i] + FileAlign <= Word
  BY DEF TypeOK, Fits
<1>4. sec[i].vsize \in Nat /\ sec[i].size \in Nat
  BY Fields DEF TypeOK
<1>5. NewVSize(i) \in Nat
  BY <1>3, <1>4 DEF NewVSize
<1>6. U32(NewVSize(i)) \in Nat
  BY <1>5, Untruncated
<1>7. FileAlign \in Nat \ {0} /\ Word \in Nat
  BY LayoutAssumption DEF LayoutAssumption
<1>8. /\ Align(len[i], FileAlign) \in Nat
      /\ len[i] <= Align(len[i], FileAlign)
      /\ Align(len[i], FileAlign) < Word
  <2>1. /\ Align(len[i], FileAlign) \in Nat
        /\ len[i] <= Align(len[i], FileAlign)
        /\ Align(len[i], FileAlign) < len[i] + FileAlign
    BY <1>3, <1>7, AlignUp
  <2> QED BY <2>1, <1>3, <1>7
<1>9. CASE sec[i].kind = "cmdline"
  <2>1. NewSize(i) = Align(len[i], FileAlign)
    BY <1>8, <1>9, Untruncated DEF NewSize
  <2>2. len[i] < Word
    BY <1>3, <1>7
  <2>3. U32(NewVSize(i)) = len[i]
    BY <1>3, <1>9, <2>2, Untruncated DEF NewVSize
  <2> QED BY <1>2, <1>3, <1>6, <1>8, <1>9, <2>1, <2>3 DEF NewHeader
<1>10. CASE sec[i].kind # "cmdline"
  <2>1. NewSize(i) = sec[i].size
    BY <1>10 DEF NewSize
  <2> QED BY <1>2, <1>4, <1>6, <1>10, <2>1 DEF NewHeader
<1> QED BY <1>9, <1>10

(* The totals only grow, so what fits after a section fitted before it. *)
LEMMA TotalsGrow ==
    ASSUME TypeOK, Place
    PROVE  va <= va' /\ off <= off' /\ (Fits' => Fits)
<1>1. i \in Index /\ pc = "place"
  BY DEF TypeOK, Place, Index
<1>2. sec[i].vsize \in Nat /\ sec[i].size \in Nat /\ len[i] \in Nat
  BY <1>1, Fields DEF TypeOK
<1>3. NewVSize(i) \in Nat
  BY <1>2 DEF NewVSize
<1>4. FileAlign \in Nat \ {0} /\ SectAlign \in Nat \ {0} /\ Word \in Nat
  BY LayoutAssumption DEF LayoutAssumption
<1>5. NewSize(i) \in Nat
  BY <1>2, <1>4, AlignUp, Untruncated DEF NewSize
<1>6. va \in Nat /\ off \in Nat
  BY DEF TypeOK
<1>7. U32(NewVSize(i)) \in Nat
  BY <1>3, Untruncated
<1>8. va + U32(NewVSize(i)) \in Nat
  BY <1>6, <1>7
<1>9. va' \in Nat /\ va <= va'
  <2>1. /\ Align(va + U32(NewVSize(i)), SectAlign) \in Nat
        /\ va + U32(NewVSize(i)) <= Align(va + U32(NewVSize(i)), SectAlign)
    BY <1>4, <1>8, AlignUp
  <2>2. va' = Align(va + U32(NewVSize(i)), SectAlign)
    BY DEF Place
  <2> QED BY <1>6, <1>7, <2>1, <2>2
<1>10. off' \in Nat /\ off <= off'
  BY <1>5, <1>6 DEF Place
<1>11. len' = len
  BY DEF Place
<1> QED BY <1>4, <1>6, <1>9, <1>10, <1>11 DEF Fits

(***************************************************************************)
(* Place keeps the invariant: the header written to entry i continues the  *)
(* file and the memory image where the totals stood (uki.go:312-335).      *)
(***************************************************************************)
LEMMA PlaceKeeps ==
    ASSUME TypeOK, TypeOK', LayoutInv, Place
    PROVE  Accepted' /\ MemoryOrdered' /\ FileOrdered' /\ CodeKept'
<1>1. /\ pc = "place" /\ pc' = "place" /\ i \in Index /\ first \in Index /\ first <= i
      /\ i' = i + 1 /\ first' = first /\ sec' = sec /\ len' = len /\ orig' = orig
      /\ Top = i /\ Top' = i + 1
  BY DEF TypeOK, Place, Index, Top, input
<1>2. /\ IsFirst(sec, first) /\ Valid(sec, first)
      /\ \A j \in Index : new[j].kind = sec[j].kind
      /\ \A j \in Index : j < first => new[j] = sec[j]
  BY <1>1 DEF LayoutInv, Accepted, Busy
<1>3. new'[i] = NewHeader(i) /\ \A j \in Index : j # i => new'[j] = new[j]
  BY <1>1 DEF Place, TypeOK
<1>4. NewHeader(i).kind = sec[i].kind
  BY DEF NewHeader
<1>5. Accepted'
  <2>1. \A j \in Index : new'[j].kind = sec'[j].kind
    BY <1>1, <1>2, <1>3, <1>4
  <2>2. \A j \in Index : j < first' => new'[j] = sec'[j]
    <3> SUFFICES ASSUME NEW j \in Index, j < first PROVE new'[j] = sec[j]
      BY <1>1
    <3>1. j # i
      BY <1>1 DEF Index
    <3> QED BY <1>2, <1>3, <3>1
  <2> QED BY <1>1, <1>2, <2>1, <2>2 DEF Accepted, IsFirst, Valid, StoredInOrder, Movable
<1>6. CodeKept'
  <2>1. sec[i].kind # "code"
    BY <1>1, <1>2 DEF Valid, Movable
  <2> QED BY <1>1, <1>3, <2>1 DEF LayoutInv, CodeKept
<1>7. ASSUME Fits'
      PROVE  MemoryOrdered' /\ FileOrdered'
  <2>1. Fits
    BY <1>7, TotalsGrow
  <2>2. /\ new'[i].va = va /\ new'[i].off = off
        /\ new'[i].vsize = U32(NewVSize(i)) /\ new'[i].size = NewSize(i)
        /\ NewSize(i) \in Nat /\ U32(NewVSize(i)) \in Nat
        /\ IF sec[i].kind = "cmdline"
           THEN new'[i].vsize <= new'[i].size
           ELSE new'[i].size = sec[i].size
    BY <1>1, <1>3, <2>1, Header
  <2>3. va \in Nat /\ va' \in Nat /\ off \in Nat /\ SectAlign \in Nat \ {0}
    BY LayoutAssumption DEF TypeOK, LayoutAssumption
  <2>4. /\ va' = Align(new'[i].va + new'[i].vsize, SectAlign)
        /\ off' = new'[i].off + new'[i].size
    BY <2>2 DEF Place
  <2>5. new'[i].va + new'[i].vsize \in Nat
    BY <2>2, <2>3
  <2>6. new'[i].va + new'[i].vsize <= va'
    BY <2>3, <2>4, <2>5, AlignUp
  <2>7. va <= va'
    BY TotalsGrow
  <2>8. \A j \in Index : new[j].va \in Nat /\ new[j].vsize \in Nat
                          /\ new[j].off \in Nat /\ new[j].size \in Nat
    BY Fields DEF TypeOK
  <2>9. /\ \A j \in Index : Placed(j) => new[j].va + new[j].vsize <= va
        /\ \A j, k \in Index : j < k /\ Placed(j) /\ Placed(k) =>
            new[j].va + new[j].vsize <= new[k].va
    BY <1>1, <2>1 DEF LayoutInv, MemoryOrdered, Busy
  <2>10. \A j \in Index : Placed(j)' <=> Placed(j) \/ j = i
    BY <1>1 DEF Placed, Index
  <2>11. \A j \in Index : Placed(j) => j < i
    BY <1>1 DEF Placed, Index
  <2>12. Index \subseteq Nat /\ i \in Nat /\ first \in Nat /\ N \in Nat
    BY <1>1, LayoutAssumption DEF Index, LayoutAssumption
  <2>13. MemoryOrdered'
    <3>1. \A j \in Index : Placed(j)' => new'[j].va + new'[j].vsize <= va'
      <4> SUFFICES ASSUME NEW j \in Index, Placed(j)'
                   PROVE  new'[j].va + new'[j].vsize <= va'
        OBVIOUS
      <4>1. CASE j = i BY <4>1, <2>6
      <4>2. CASE j # i
        <5>1. Placed(j) /\ new'[j] = new[j]
          BY <1>3, <2>10, <4>2
        <5>2. new[j].va + new[j].vsize <= va
          BY <2>9, <5>1
        <5> QED BY <2>3, <2>7, <2>8, <5>1, <5>2
      <4> QED BY <4>1, <4>2
    <3>2. \A j, k \in Index : j < k /\ Placed(j)' /\ Placed(k)' =>
            new'[j].va + new'[j].vsize <= new'[k].va
      <4> SUFFICES ASSUME NEW j \in Index, NEW k \in Index,
                          j < k, Placed(j)', Placed(k)'
                   PROVE  new'[j].va + new'[j].vsize <= new'[k].va
        OBVIOUS
      <4>1. j # i
        BY <2>10, <2>11, <2>12
      <4>2. Placed(j) /\ new'[j] = new[j]
        BY <1>3, <2>10, <4>1
      <4>3. CASE k = i
        <5>1. new'[k].va = va
          BY <2>2, <4>3
        <5> QED BY <2>9, <4>2, <5>1
      <4>4. CASE k # i
        <5>1. Placed(k) /\ new'[k] = new[k]
          BY <1>3, <2>10, <4>4
        <5> QED BY <2>9, <4>2, <5>1
      <4> QED BY <4>3, <4>4
    <3>3. new'[Top' - 1] = new'[i]
      BY <1>1, <2>12
    <3>4. new'[first].va = sec[first].va
      <4>1. CASE i = first
        BY <1>1, <2>1, <2>2, <4>1 DEF LayoutInv, MemoryOrdered, Busy
      <4>2. CASE i # first
        <5>1. i > first /\ new'[first] = new[first]
          BY <1>1, <1>3, <2>12, <4>2
        <5> QED BY <1>1, <2>1, <5>1 DEF LayoutInv, MemoryOrdered, Busy
      <4> QED BY <4>1, <4>2
    <3>5. ~(Top' = first')
      BY <1>1, <2>12
    <3> QED BY <1>1, <2>4, <3>1, <3>2, <3>3, <3>4, <3>5 DEF MemoryOrdered
  <2>14. FileOrdered'
    <3>1. /\ i = first => off = sec[first].off
          /\ i > first => new[first].off = sec[first].off
          /\ i > first => off = new[i - 1].off + new[i - 1].size
          /\ \A j \in Index : Placed(j) /\ j + 1 < i =>
              new[j + 1].off = new[j].off + new[j].size
          /\ \A j \in Index : Placed(j) =>
              IF sec[j].kind = "cmdline"
              THEN new[j].vsize <= new[j].size
              ELSE new[j].size = sec[j].size
      BY <1>1, <2>1 DEF LayoutInv, FileOrdered, Busy
    <3>2. new'[first].off = sec[first].off
      <4>1. CASE i = first BY <2>2, <3>1, <4>1
      <4>2. CASE i # first
        <5>1. i > first /\ new'[first] = new[first]
          BY <1>1, <1>3, <4>2 DEF Index
        <5> QED BY <3>1, <5>1
      <4> QED BY <4>1, <4>2
    <3>3. off' = new'[Top' - 1].off + new'[Top' - 1].size
      <4>1. Top' - 1 = i
        BY <1>1, <2>12
      <4> QED BY <2>4, <4>1
    <3>4. \A j \in Index : Placed(j)' /\ j + 1 < Top' =>
            new'[j + 1].off = new'[j].off + new'[j].size
      <4> SUFFICES ASSUME NEW j \in Index, Placed(j)', j + 1 < Top'
                   PROVE  new'[j + 1].off = new'[j].off + new'[j].size
        OBVIOUS
      <4>a. j \in Nat /\ 1 <= j /\ i <= N /\ j + 1 < i + 1
        BY <1>1, <2>12 DEF Index
      <4>1. j < i /\ j # i /\ j + 1 \in Index
        BY <4>a, <2>12 DEF Index
      <4>2. Placed(j) /\ new'[j] = new[j]
        BY <1>3, <2>10, <4>1
      <4>3. CASE j + 1 = i
        <5>1. j = i - 1 /\ i > first
          BY <2>12, <4>a, <4>2, <4>3 DEF Placed
        <5>2. off = new[j].off + new[j].size
          BY <3>1, <5>1
        <5> QED BY <2>2, <4>2, <4>3, <5>2
      <4>4. CASE j + 1 # i
        <5>1. new'[j + 1] = new[j + 1] /\ j + 1 < i
          BY <1>3, <2>12, <4>1, <4>4
        <5> QED BY <3>1, <4>2, <5>1
      <4> QED BY <4>3, <4>4
    <3>5. \A j \in Index : Placed(j)' =>
            IF sec'[j].kind = "cmdline"
            THEN new'[j].vsize <= new'[j].size
            ELSE new'[j].size = sec'[j].size
      <4> SUFFICES ASSUME NEW j \in Index, Placed(j)'
                   PROVE  IF sec[j].kind = "cmdline"
                          THEN new'[j].vsize <= new'[j].size
                          ELSE new'[j].size = sec[j].size
        BY <1>1
      <4>1. CASE j = i BY <2>2, <4>1
      <4>2. CASE j # i
        <5>1. Placed(j) /\ new'[j] = new[j]
          BY <1>3, <2>10, <4>2
        <5> QED BY <3>1, <5>1
      <4> QED BY <4>1, <4>2
    <3>6. ~(Top' = first')
      BY <1>1, <2>12 DEF Index
    <3> QED BY <1>1, <3>2, <3>3, <3>4, <3>5, <3>6 DEF FileOrdered
  <2> QED BY <2>13, <2>14
<1>8. ~Fits' => MemoryOrdered' /\ FileOrdered'
  BY DEF MemoryOrdered, FileOrdered
<1> QED BY <1>5, <1>6, <1>7, <1>8

(* WritePrefix: the loop over the headers has left the totals at the end. *)
LEMMA PrefixKeeps ==
    ASSUME TypeOK, LayoutInv, WritePrefix
    PROVE  Copied'
<1>1. /\ pc = "place" /\ i = N + 1 /\ pc' = "copy" /\ i' = first /\ first' = first
      /\ new' = new /\ at' = at /\ va' = va /\ off' = off /\ len' = len /\ sec' = sec
      /\ first \in Index
  BY DEF TypeOK, WritePrefix, input
<1>2. N \in Nat \ {0} /\ first \in Nat /\ first <= N /\ Word \in Nat
  BY <1>1, LayoutAssumption DEF Index, LayoutAssumption
<1> SUFFICES ASSUME Fits' PROVE Copied'
  BY DEF Copied
<1>3. Fits /\ va \in Nat /\ va < Word
  BY <1>1 DEF Fits, TypeOK
<1>4. Top = N + 1 /\ Top > first
  BY <1>1, <1>2 DEF Top
<1>5. /\ new[first].off = sec[first].off
      /\ va = Align(new[N].va + new[N].vsize, SectAlign)
  <2>1. Top - 1 = N
    BY <1>2, <1>4
  <2> QED BY <1>1, <1>3, <1>4, <2>1 DEF LayoutInv, MemoryOrdered, FileOrdered, Busy
<1>6. image' = va
  BY <1>3, <1>5, Untruncated DEF WritePrefix
<1>7. pos' = new[first].off
  BY <1>5 DEF WritePrefix
<1>8. \A j \in Index : ~(first' <= j /\ j < i')
  BY <1>1, <1>2 DEF Index
<1> QED BY <1>1, <1>6, <1>7, <1>8 DEF Copied

(* CopySection: as much is written as the next header leaves room for, unless *)
(* the input ends too early, and then the section is noted in "short".        *)
LEMMA CopyKeeps ==
    ASSUME TypeOK, TypeOK', LayoutInv, CopySection
    PROVE  Copied'
<1>1. /\ pc = "copy" /\ pc' = "copy" /\ i \in Index /\ i' = i + 1 /\ first' = first
      /\ new' = new /\ va' = va /\ off' = off /\ len' = len /\ sec' = sec
      /\ image' = image /\ first \in Index /\ first <= i
  BY DEF TypeOK, CopySection, Index, input, totals
<1>2. /\ N \in Nat \ {0} /\ Index \subseteq Nat /\ i \in Nat /\ first \in Nat /\ i <= N
      /\ short \in Nat /\ short' \in Nat /\ pos \in Nat /\ pos' \in Nat
  BY <1>1, LayoutAssumption DEF Index, LayoutAssumption, TypeOK
<1> SUFFICES ASSUME Fits' PROVE Copied'
  BY DEF Copied
<1>3. Fits
  BY <1>1 DEF Fits
<1>4. /\ \A j \in Index : first <= j /\ j < i /\ j <= short => at[j] = new[j].off
      /\ \A j \in Index : first <= j /\ j < i /\ sec[j].kind = "cmdline" =>
          at[j] + new[j].size <= pos
      /\ i <= short => pos = new[i].off
      /\ image = va
  BY <1>1, <1>2, <1>3 DEF LayoutInv, Copied
<1>5. at'[i] = pos /\ \A j \in Index : j # i => at'[j] = at[j]
  BY <1>1 DEF CopySection, TypeOK
<1>6. \A j \in Index : /\ at[j] \in Nat /\ new[j].size \in Nat /\ new[j].off \in Nat
                       /\ sec[j].size \in Nat
  BY Fields DEF TypeOK
<1>7. Held(i) \in Nat /\ Held(i) <= sec[i].size
  BY <1>1, HeldBound DEF TypeOK
<1>8. /\ pos <= pos' /\ short' <= short
      /\ sec[i].kind = "cmdline" => pos' = pos + new[i].size
  BY <1>1, <1>2, <1>6, <1>7 DEF CopySection
<1>9. ASSUME i < short'
      PROVE  pos' = pos + new[i].size
  <2>1. CASE sec[i].kind = "cmdline"
    BY <1>8, <2>1
  <2>2. CASE sec[i].kind # "cmdline"
    <3>1. Held(i) = sec[i].size
      BY <1>1, <1>2, <1>6, <1>7, <1>9, <2>2 DEF CopySection
    <3>2. Placed(i)
      BY <1>1, <1>2 DEF Placed, Top
    <3>3. new[i].size = sec[i].size
      BY <1>1, <1>3, <2>2, <3>2 DEF LayoutInv, FileOrdered, Busy
    <3> QED BY <2>2, <3>1, <3>3 DEF CopySection
  <2> QED BY <2>1, <2>2
<1>10. \A j \in Index : first' <= j /\ j < i' /\ j <= short' => at'[j] = new'[j].off
  <2> SUFFICES ASSUME NEW j \in Index, first <= j, j < i + 1, j <= short'
               PROVE  at'[j] = new[j].off
    BY <1>1
  <2>1. j <= short
    BY <1>2, <1>8
  <2>2. CASE j = i BY <1>4, <1>5, <2>1, <2>2
  <2>3. CASE j # i
    <3>1. j < i
      BY <1>2, <2>3
    <3> QED BY <1>4, <1>5, <2>1, <2>3, <3>1
  <2> QED BY <2>2, <2>3
<1>11. \A j \in Index : first' <= j /\ j < i' /\ sec'[j].kind = "cmdline" =>
         at'[j] + new'[j].size <= pos'
  <2> SUFFICES ASSUME NEW j \in Index, first <= j, j < i + 1, sec[j].kind = "cmdline"
               PROVE  at'[j] + new[j].size <= pos'
    BY <1>1
  <2>1. CASE j = i
    <3>1. at'[j] = pos /\ pos' = pos + new[j].size
      BY <1>5, <1>8, <2>1
    <3> QED BY <1>2, <1>6, <3>1
  <2>2. CASE j # i
    <3>1. j < i
      BY <1>2, <2>2
    <3>2. at'[j] = at[j] /\ at[j] + new[j].size <= pos
      BY <1>4, <1>5, <2>2, <3>1
    <3> QED BY <1>2, <1>6, <1>8, <3>2
  <2> QED BY <2>1, <2>2
<1>12. ASSUME i' <= N, i' <= short'
      PROVE  pos' = new'[i'].off
  <2>1. Top = N + 1 /\ Placed(i) /\ i + 1 < Top
    BY <1>1, <1>2, <1>12 DEF Top, Placed
  <2>2. new[i + 1].off = new[i].off + new[i].size
    BY <1>1, <1>3, <2>1 DEF LayoutInv, FileOrdered, Busy
  <2>3. i < short' /\ i <= short
    BY <1>1, <1>2, <1>8, <1>12
  <2> QED BY <1>1, <1>4, <1>9, <2>2, <2>3
<1> QED BY <1>1, <1>4, <1>10, <1>11, <1>12 DEF Copied

(***************************************************************************)
(* The layout invariant holds in every state.                              *)
(***************************************************************************)
THEOREM LayoutInvariant == Spec => []LayoutInv
<1>1. Init => LayoutInv
  <2> SUFFICES ASSUME Init PROVE LayoutInv
    OBVIOUS
  <2>1. TypeOK
    BY LayoutAssumption DEF Init, TypeOK, LayoutAssumption, Index
  <2> QED BY <2>1 DEF Init, LayoutInv, Accepted, MemoryOrdered, FileOrdered, Copied,
                      CodeKept, Busy
<1>2. LayoutInv /\ TypeOK' /\ [Next]_vars => LayoutInv'
  <2> SUFFICES ASSUME LayoutInv, TypeOK', [Next]_vars PROVE LayoutInv'
    OBVIOUS
  <2> USE DEF input, totals, output
  <2>1. TypeOK
    BY DEF LayoutInv
  <2>2. CASE Refuse
    BY <2>2 DEF Refuse, LayoutInv, Accepted, MemoryOrdered, FileOrdered, Copied,
                CodeKept, Busy
  <2>3. CASE Parse
    <3>1. PICK f \in Index : IsFirst(sec, f) /\ Valid(sec, f) /\ first' = f /\ i' = f
                              /\ va' = sec[f].va /\ off' = sec[f].off
      BY <2>3 DEF Parse
    <3>2. pc' = "place" /\ sec' = sec /\ new' = sec /\ orig' = orig
      BY <2>3 DEF Parse
    <3>3. Accepted'
      BY <3>1, <3>2 DEF Accepted, IsFirst, Valid, StoredInOrder, Movable
    <3>4. CodeKept'
      BY <3>2 DEF LayoutInv, CodeKept
    <3>5. f \in Nat /\ \A j \in Index : j \in Nat
      BY LayoutAssumption DEF Index, LayoutAssumption
    <3>6. Top' = f /\ \A j \in Index : ~Placed(j)'
      BY <3>1, <3>2, <3>5 DEF Top, Placed
    <3>7. MemoryOrdered' /\ FileOrdered'
      BY <3>1, <3>2, <3>5, <3>6 DEF MemoryOrdered, FileOrdered
    <3>8. Copied'
      BY <3>2 DEF Copied
    <3> QED BY <3>3, <3>4, <3>7, <3>8 DEF LayoutInv
  <2>4. CASE Place
    <3>1. Copied'
      BY <2>4 DEF Place, Copied
    <3> QED BY <2>1, <2>4, <3>1, PlaceKeeps DEF LayoutInv
  <2>5. CASE WritePrefix
    <3>1. /\ pc = "place" /\ i = N + 1 /\ pc' = "copy" /\ i' = first
          /\ UNCHANGED <<sec, len, first, va, off, new, orig>>
      BY <2>5 DEF WritePrefix
    <3>2. Top' = Top
      BY <3>1 DEF Top
    <3>3. Accepted' /\ CodeKept'
      BY <3>1 DEF LayoutInv, Accepted, CodeKept, Busy, IsFirst, Valid, StoredInOrder, Movable
    <3>4. MemoryOrdered' /\ FileOrdered'
      BY <3>1, <3>2 DEF LayoutInv, MemoryOrdered, FileOrdered, Busy, Fits, Placed
    <3> QED BY <2>1, <2>5, <3>3, <3>4, PrefixKeeps DEF LayoutInv
  <2>6. CASE CopySection
    <3>1. /\ pc = "copy" /\ pc' = "copy"
          /\ UNCHANGED <<sec, len, first, va, off, new, orig>>
      BY <2>6 DEF CopySection
    <3>2. Top' = Top
      BY <3>1 DEF Top
    <3>3. Accepted' /\ CodeKept'
      BY <3>1 DEF LayoutInv, Accepted, CodeKept, Busy, IsFirst, Valid, StoredInOrder, Movable
    <3>4. MemoryOrdered' /\ FileOrdered'
      BY <3>1, <3>2 DEF LayoutInv, MemoryOrdered, FileOrdered, Busy, Fits, Placed
    <3> QED BY <2>1, <2>6, <3>3, <3>4, CopyKeeps DEF LayoutInv
  <2>7. CASE Finish
    <3>1. /\ pc = "copy" /\ i = N + 1 /\ pc' = "done"
          /\ UNCHANGED <<sec, len, first, i, va, off, new, pos, at, short, image, orig>>
      BY <2>7 DEF Finish
    <3>2. Top' = Top
      BY <3>1 DEF Top
    <3>3. Accepted' /\ CodeKept'
      BY <3>1 DEF LayoutInv, Accepted, CodeKept, Busy, IsFirst, Valid, StoredInOrder, Movable
    <3>4. MemoryOrdered' /\ FileOrdered'
      BY <3>1, <3>2 DEF LayoutInv, MemoryOrdered, FileOrdered, Busy, Fits, Placed
    <3>5. Copied'
      BY <3>1 DEF LayoutInv, Copied, Fits
    <3> QED BY <3>3, <3>4, <3>5 DEF LayoutInv
  <2>10. CASE PrefixFails
    <3>1. pc' = "refused" /\ UNCHANGED <<sec, new, orig>>
      BY <2>10 DEF PrefixFails
    <3> QED BY <3>1 DEF LayoutInv, Accepted, MemoryOrdered, FileOrdered, Copied, CodeKept,
                        Busy
  <2>8. CASE Again
    <3>1. pc = "done" /\ pc' = "parse" /\ sec' = new /\ new' = new /\ orig' = orig
      BY <2>8 DEF Again
    <3>2. \A j \in Index : new[j].kind = sec[j].kind
      BY <3>1 DEF LayoutInv, Accepted, Busy
    <3>3. CodeKept'
      BY <3>1, <3>2 DEF LayoutInv, CodeKept
    <3> QED BY <3>1, <3>3 DEF LayoutInv, Accepted, MemoryOrdered, FileOrdered, Copied, Busy
  <2>9. CASE UNCHANGED vars
    BY <2>9 DEF vars, LayoutInv, Accepted, MemoryOrdered, FileOrdered, Copied, CodeKept,
                Busy, Top, Placed, Fits, IsFirst, Valid, StoredInOrder, Movable
  <2> QED BY <2>2, <2>3, <2>4, <2>5, <2>6, <2>7, <2>8, <2>9, <2>10 DEF Next
<1> QED BY <1>1, <1>2, TypeCorrect, PTL DEF Spec

-------------------------------------------------------------------------------
(* In a finished output all sections from the first .cmdline on are placed.  *)
LEMMA AllPlaced ==
    ASSUME TypeOK, pc = "done"
    PROVE  /\ first \in Index /\ Top = N + 1 /\ N \in Nat /\ pc \in Busy
           /\ Index \subseteq Nat
           /\ \A j \in Index : j >= first => Placed(j)
BY LayoutAssumption DEF TypeOK, Top, Placed, Index, Busy, LayoutAssumption

(***************************************************************************)
(* The data of every section is stored where its header says, up to the    *)
(* first that the input did not hold in full, and every command line fits  *)
(* in what is stored of it (uki.go:312-392).                               *)
(***************************************************************************)
THEOREM HeadersFindData == Spec => []DataWhereHeadersSay
<1>1. LayoutInv => DataWhereHeadersSay
  <2> SUFFICES ASSUME LayoutInv, pc = "done", Fits, NEW j \in Index, j >= first
               PROVE  /\ j <= short => at[j] = new[j].off
                      /\ new[j].kind = "cmdline" => new[j].vsize <= new[j].size
    BY DEF DataWhereHeadersSay
  <2>1. TypeOK /\ Placed(j) /\ pc \in Busy /\ j \in Nat /\ N \in Nat /\ j <= N
    BY AllPlaced DEF LayoutInv, Index
  <2>2. i = N + 1 /\ j < i /\ first <= j
    BY <2>1 DEF LayoutInv, Copied, Placed
  <2>3. j <= short => at[j] = new[j].off
    BY <2>2 DEF LayoutInv, Copied
  <2>4. new[j].kind = sec[j].kind
    BY <2>1 DEF LayoutInv, Accepted
  <2>5. sec[j].kind = "cmdline" => new[j].vsize <= new[j].size
    BY <2>1 DEF LayoutInv, FileOrdered
  <2> QED BY <2>3, <2>4, <2>5
<1> QED BY <1>1, LayoutInvariant, PTL

(***************************************************************************)
(* No section from the first .cmdline on, and none that ended below it,    *)
(* reaches into a later one or past SizeOfImage (uki.go:160-171, 323-338). *)
(***************************************************************************)
THEOREM SectionsApart == Spec => []NoOverlap
<1>1. LayoutInv => NoOverlap
  <2> SUFFICES ASSUME LayoutInv, pc = "done", Fits,
                      NEW j \in Index, j >= first \/ Below(sec, j, first)
               PROVE  /\ \A k \in Index : k >= first /\ j < k => Below(new, j, k)
                      /\ new[j].va + new[j].vsize <= image
    BY DEF NoOverlap
  <2>1. TypeOK /\ pc \in Busy /\ first \in Index /\ Index \subseteq Nat /\ Top = N + 1
        /\ N \in Nat /\ \A k \in Index : k >= first => Placed(k)
    BY AllPlaced DEF LayoutInv
  <2>2. /\ \A k \in Index : Placed(k) => new[k].va + new[k].vsize <= va
        /\ \A k, l \in Index : k < l /\ Placed(k) /\ Placed(l) => Below(new, k, l)
        /\ new[first].va = sec[first].va
        /\ image = va
    BY <2>1 DEF LayoutInv, MemoryOrdered, Copied, Index, Below
  <2>3. \A k \in Index : /\ new[k].va \in Nat /\ new[k].vsize \in Nat
                         /\ sec[k].va \in Nat /\ sec[k].vsize \in Nat
    BY <2>1, Fields DEF TypeOK
  <2>4. va \in Nat
    BY <2>1 DEF TypeOK
  <2>5. CASE j >= first
    <3>1. \A k \in Index : k >= first /\ j < k => Below(new, j, k)
      BY <2>1, <2>2, <2>5
    <3> QED BY <2>1, <2>2, <2>5, <3>1
  <2>6. CASE ~(j >= first)
    <3>1. j < first /\ new[j] = sec[j]
      BY <2>1, <2>6 DEF LayoutInv, Accepted
    <3>2. new[j].va + new[j].vsize <= new[first].va
      BY <2>2, <2>6, <3>1 DEF Below
    <3>3. \A k \in Index : k >= first => new[first].va <= new[k].va
      <4> SUFFICES ASSUME NEW k \in Index, k >= first PROVE new[first].va <= new[k].va
        OBVIOUS
      <4>1. CASE k = first BY <2>1, <2>3, <4>1
      <4>2. CASE k # first
        <5>1. Below(new, first, k)
          BY <2>1, <2>2, <4>2
        <5> QED BY <2>1, <2>3, <5>1 DEF Below
      <4> QED BY <4>1, <4>2
    <3>4. \A k \in Index : k >= first => Below(new, j, k)
      <4> SUFFICES ASSUME NEW k \in Index, k >= first
                   PROVE  new[j].va + new[j].vsize <= new[k].va
        BY DEF Below
      <4>1. new[first].va <= new[k].va
        BY <3>3
      <4>2. /\ new[j].va \in Nat /\ new[j].vsize \in Nat
            /\ new[first].va \in Nat /\ new[k].va \in Nat
        BY <2>1, <2>3
      <4> QED BY ONLY <3>2, <4>1, <4>2
    <3>5. new[j].va + new[j].vsize <= image
      <4>1. first >= first
        BY <2>1
      <4>2. new[first].va + new[first].vsize <= va
        BY <2>1, <2>2, <4>1
      <4>3. /\ new[j].va \in Nat /\ new[j].vsize \in Nat
            /\ new[first].va \in Nat /\ new[first].vsize \in Nat
        BY <2>1, <2>3
      <4>4. new[j].va + new[j].vsize <= va
        BY ONLY <2>4, <3>2, <4>2, <4>3
      <4> QED BY <2>2, <4>4
    <3> QED BY <3>4, <3>5
  <2> QED BY <2>5, <2>6
<1> QED BY <1>1, LayoutInvariant, PTL

(***************************************************************************)
(* What was written passes validate and, if no section was ever copied     *)
(* short, holds its command lines, so the action can be rerun on it        *)
(* (uki.go:151-198, 323-335).                                              *)
(***************************************************************************)
THEOREM OutputIsAccepted == Spec => []AcceptedAgain
<1>1. LayoutInv => AcceptedAgain
  <2> SUFFICES ASSUME LayoutInv, pc = "done", Fits
               PROVE  /\ IsFirst(new, first) /\ Valid(new, first)
                      /\ short > N => Readable(new, pos)
    BY DEF AcceptedAgain
  <2>1. TypeOK /\ pc \in Busy /\ first \in Index /\ Index \subseteq Nat
        /\ Top = N + 1 /\ N \in Nat /\ \A j \in Index : j >= first => Placed(j)
    BY AllPlaced DEF LayoutInv
  <2>2. /\ IsFirst(sec, first) /\ Valid(sec, first)
        /\ \A j \in Index : new[j].kind = sec[j].kind
        /\ \A j \in Index : j < first => new[j] = sec[j]
    BY <2>1 DEF LayoutInv, Accepted
  <2>3. new[first].off = sec[first].off
    BY <2>1 DEF LayoutInv, FileOrdered, Index
  <2>4. IsFirst(new, first) /\ Movable(new, first)
    BY <2>2 DEF IsFirst, Valid, Movable
  <2>5. ASSUME NEW j \in Index, j > first
        PROVE  /\ new[j].off >= U32(new[j - 1].off + new[j - 1].size)
               /\ new[j].va >= U32(new[j - 1].va + new[j - 1].vsize)
    <3>1. /\ j - 1 \in Index /\ j - 1 >= first /\ j - 1 < j /\ (j - 1) + 1 = j
          /\ (j - 1) + 1 < Top
      BY <2>1, <2>5 DEF Index
    <3>2. Placed(j - 1) /\ Placed(j)
      BY <2>1, <2>5, <3>1
    <3>3. new[j].off = new[j - 1].off + new[j - 1].size
      BY <2>1, <3>1, <3>2 DEF LayoutInv, FileOrdered
    <3>4. new[j - 1].va + new[j - 1].vsize <= new[j].va
      BY <2>1, <3>1, <3>2 DEF LayoutInv, MemoryOrdered
    <3>5. /\ new[j].off \in Nat /\ new[j].va \in Nat
          /\ new[j - 1].off + new[j - 1].size \in Nat
          /\ new[j - 1].va + new[j - 1].vsize \in Nat
      BY <2>1, <3>1, Fields DEF TypeOK
    <3> QED BY <3>3, <3>4, <3>5, CutDown
  <2>6. StoredInOrder(new, first)
    <3>1. HeaderEnd <= new[first].off
      BY <2>2, <2>3 DEF Valid, StoredInOrder
    <3>2. \A j \in Index : j < first => new[j].off + new[j].size <= new[first].off
      BY <2>2, <2>3 DEF Valid, StoredInOrder
    <3> QED BY <2>5, <3>1, <3>2 DEF StoredInOrder
  <2>7. ASSUME short > N
        PROVE  Readable(new, pos)
    <3> SUFFICES ASSUME NEW j \in Index, new[j].kind = "cmdline"
                 PROVE  new[j].off + (IF new[j].size < new[j].vsize
                                      THEN new[j].size ELSE new[j].vsize) <= pos
      BY DEF Readable
    <3>1. j >= first /\ sec[j].kind = "cmdline" /\ j \in Nat /\ j <= N
      BY <2>1, <2>2 DEF IsFirst, Index
    <3>2. i = N + 1 /\ short \in Nat
      BY <2>1 DEF LayoutInv, Copied, TypeOK
    <3>3. at[j] = new[j].off /\ at[j] + new[j].size <= pos
      BY <2>1, <2>7, <3>1, <3>2 DEF LayoutInv, Copied
    <3>4. new[j].off \in Nat /\ new[j].size \in Nat /\ new[j].vsize \in Nat /\ pos \in Nat
      BY <2>1, Fields DEF TypeOK
    <3> QED BY <3>3, <3>4
  <2> QED BY <2>4, <2>6, <2>7 DEF Valid
<1> QED BY <1>1, LayoutInvariant, PTL

(***************************************************************************)
(* Code, writable data and relocations never move, however often the file  *)
(* is rewritten (uki.go:176-180).                                          *)
(***************************************************************************)
THEOREM CodeNeverMoves == Spec => []CodeStays
<1>1. LayoutInv => CodeStays
  BY DEF LayoutInv, CodeKept, CodeStays
<1> QED BY <1>1, LayoutInvariant, PTL
===============================================================================
