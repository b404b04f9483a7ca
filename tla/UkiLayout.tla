------------------------------- MODULE UkiLayout -------------------------------
(***************************************************************************)
(* pkg/uki: how parse accepts the sections of a UKI and write lays them    *)
(* out again around command lines of other lengths, and again and again as *)
(* the action is rerun on its own output.  The section headers hold 32-bit *)
(* numbers, the running totals of write are 64 bits wide.                  *)
(*                                                                         *)
(* Of a section its header is kept, how much of its data the input holds,  *)
(* and where write put that into the new file: nothing in the code         *)
(* compares the headers with the length of the file.  Kind "code" stands   *)
(* for everything that must not be moved: code, writable data and .reloc.  *)
(***************************************************************************)
EXTENDS Integers

CONSTANTS
    N,          \* sections
    FileAlign,  \* FileAlignment of the optional header
    SectAlign,  \* SectionAlignment
    Word,       \* 2^32: numbers in headers are below it
    HeaderEnd,  \* where the section table ends
    Layouts,    \* section tables a UKI comes with
    Ends,       \* lengths of the file it is in
    Lengths,    \* lengths of the merged command lines
    MaxPasses   \* bound: rewrites of one file

Index   == 1 .. N
Kinds   == {"cmdline", "data", "code"}
Section == [va : Nat, vsize : Nat, off : Nat, size : Nat, kind : Kinds]

ASSUME LayoutAssumption ==
    /\ N \in Nat \ {0}
    /\ FileAlign \in Nat \ {0} /\ SectAlign \in Nat \ {0}
    /\ Word \in Nat \ {0}
    /\ HeaderEnd \in Nat
    /\ Layouts \subseteq [Index -> Section]
    /\ Ends \subseteq Nat
    /\ Lengths \subseteq Nat
    /\ MaxPasses \in Nat

(* PE alignments are powers of two; align in the code clears low bits. *)
ASSUME AlignmentAssumption ==
    \A a \in {FileAlign, SectAlign} : \E k \in 0 .. 31 : a = 2 ^ k

VARIABLES
    pc,         \* "parse", "place", "copy", "done" or "refused"
    sec,        \* the section table of the input
    end,        \* the length of the input
    len,        \* section -> length of its new command line
    first,      \* the first .cmdline section
    i,          \* the section a loop has come to
    va, off,    \* running totals of write
    new,        \* the section table of the output
    pos,        \* bytes written to the output
    at,         \* section -> where its data begins in the output
    short,      \* the first section that was ever copied short, or N + 1
    image,      \* SizeOfImage
    orig,       \* the section table before the first rewrite
    passes

input  == <<sec, end, orig, passes>>
totals == <<va, off, new, image>>
output == <<pos, at, short>>
vars   == <<pc, input, len, first, i, totals, output>>

U32(x) == x % Word

AlignDown(v, a) == (v \div a) * a

Align(v, a) == ((v + a - 1) \div a) * a

Init ==
    /\ pc = "parse"
    /\ sec \in Layouts /\ end \in Ends
    /\ len = [j \in Index |-> 0]
    /\ first = 0 /\ i = 0
    /\ va = 0 /\ off = 0 /\ pos = 0 /\ image = 0
    /\ new = sec
    /\ at = [j \in Index |-> 0] /\ short = N + 1
    /\ orig = sec
    /\ passes = 0

-------------------------------------------------------------------------------
(* parse and validate. *)

IsFirst(s, f) ==
    /\ f \in Index /\ s[f].kind = "cmdline"
    /\ \A j \in Index : j < f => s[j].kind # "cmdline"

StoredInOrder(s, f) ==
    /\ HeaderEnd <= s[f].off
    /\ \A j \in Index : j < f => s[j].off + s[j].size <= s[f].off
    /\ \A j \in Index : j > f =>
        /\ s[j].off >= U32(s[j - 1].off + s[j - 1].size)
        /\ s[j].va >= U32(s[j - 1].va + s[j - 1].vsize)

MovableUnchecked(s, f) == TRUE

Movable(s, f) == \A j \in Index : j >= f => s[j].kind # "code"

Valid(s, f) == StoredInOrder(s, f) /\ Movable(s, f)

(* Inspect reads every command line before anything is written. *)
Readable(s, e) ==
    \A j \in Index : s[j].kind = "cmdline" /\ s[j].vsize > 0 /\ s[j].size > 0 =>
        s[j].off + (IF s[j].size < s[j].vsize THEN s[j].size ELSE s[j].vsize) <= e

Refuse ==
    /\ pc = "parse"
    /\ ~\E f \in Index : IsFirst(sec, f) /\ Valid(sec, f) /\ Readable(sec, end)
    /\ pc' = "refused"
    /\ UNCHANGED <<input, len, first, i, totals, output>>

ParseFromStart ==
    /\ pc = "parse"
    /\ \E f \in Index :
        /\ IsFirst(sec, f) /\ Valid(sec, f) /\ Readable(sec, end)
        /\ first' = f /\ i' = 1
        /\ va' = sec[f].va /\ off' = sec[f].off
    /\ \E l \in [{j \in Index : sec[j].kind = "cmdline"} -> Lengths] :
        len' = [j \in Index |-> IF sec[j].kind = "cmdline" THEN l[j] ELSE 0]
    /\ new' = sec
    /\ pc' = "place"
    /\ UNCHANGED <<input, image, output>>

(* Rewrite calls write with one line for each .cmdline section. *)
Parse ==
    /\ pc = "parse"
    /\ \E f \in Index :
        /\ IsFirst(sec, f) /\ Valid(sec, f) /\ Readable(sec, end)
        /\ first' = f /\ i' = f
        /\ va' = sec[f].va /\ off' = sec[f].off
    /\ \E l \in [{j \in Index : sec[j].kind = "cmdline"} -> Lengths] :
        len' = [j \in Index |-> IF sec[j].kind = "cmdline" THEN l[j] ELSE 0]
    /\ new' = sec
    /\ pc' = "place"
    /\ UNCHANGED <<input, image, output>>

-------------------------------------------------------------------------------
(* write: first the headers, then the data. *)

NewVSize(j) == IF sec[j].kind = "cmdline" THEN len[j] ELSE sec[j].vsize

NewSizeUnpadded(j) == IF sec[j].kind = "cmdline" THEN U32(AlignDown(len[j], FileAlign)) ELSE sec[j].size

NewSize(j) ==
    IF sec[j].kind = "cmdline" THEN U32(Align(len[j], FileAlign)) ELSE sec[j].size

NewHeader(j) ==
    [va |-> U32(va), vsize |-> U32(NewVSize(j)), off |-> U32(off), size |-> NewSize(j),
     kind |-> sec[j].kind]

PlaceByOldSize ==
    /\ pc = "place" /\ i <= N
    /\ new' = [new EXCEPT ![i] = NewHeader(i)]
    /\ va' = Align(va + sec[i].vsize, SectAlign)
    /\ off' = off + sec[i].size
    /\ i' = i + 1
    /\ UNCHANGED <<pc, input, len, first, image, output>>

Place ==
    /\ pc = "place" /\ i <= N
    /\ new' = [new EXCEPT ![i] = NewHeader(i)]
    /\ va' = Align(va + U32(NewVSize(i)), SectAlign)
    /\ off' = off + NewSize(i)
    /\ i' = i + 1
    /\ UNCHANGED <<pc, input, len, first, image, output>>

(* SizeOfImage, and the bytes before the first .cmdline, read in one piece. *)
WritePrefix ==
    /\ pc = "place" /\ i = N + 1
    /\ sec[first].off <= end
    /\ image' = U32(Align(new[N].va + new[N].vsize, SectAlign))
    /\ pos' = sec[first].off
    /\ i' = first
    /\ pc' = "copy"
    /\ UNCHANGED <<input, len, first, va, off, new, at, short>>

PrefixFails ==
    /\ pc = "place" /\ i = N + 1
    /\ sec[first].off > end
    /\ pc' = "refused"
    /\ UNCHANGED <<input, len, first, i, totals, output>>

(* The bytes of section j that the input holds. *)
Held(j) ==
    IF sec[j].off + sec[j].size <= end THEN sec[j].size
    ELSE IF sec[j].off < end THEN end - sec[j].off ELSE 0

(***************************************************************************)
(* A command line and its padding, or the bytes of the old section:        *)
(* io.Copy takes the end of the file for the end of the section, and that  *)
(* is no error.                                                            *)
(***************************************************************************)
CopySection ==
    /\ pc = "copy" /\ i <= N
    /\ at' = [at EXCEPT ![i] = pos]
    /\ \/ /\ sec[i].kind = "cmdline"
          /\ pos' = pos + new[i].size
          /\ UNCHANGED short
       \/ /\ sec[i].kind # "cmdline"
          /\ pos' = pos + Held(i)
          /\ short' = IF Held(i) < sec[i].size /\ i < short THEN i ELSE short
    /\ i' = i + 1
    /\ UNCHANGED <<pc, input, len, first, totals>>

Finish ==
    /\ pc = "copy" /\ i = N + 1
    /\ pc' = "done"
    /\ UNCHANGED <<input, len, first, i, totals, output>>

-------------------------------------------------------------------------------
(* The totals stayed below 2^32, so no header was cut off. *)
Fits == va < Word /\ off < Word /\ \A j \in Index : len[j] + FileAlign <= Word

(* The action is run on its output with other arguments. *)
Again ==
    /\ pc = "done" /\ Fits /\ passes < MaxPasses
    /\ pc' = "parse"
    /\ sec' = new /\ end' = pos
    /\ passes' = passes + 1
    /\ UNCHANGED <<len, first, i, totals, output, orig>>

Next ==
    \/ Refuse \/ Parse
    \/ Place \/ WritePrefix \/ PrefixFails \/ CopySection \/ Finish
    \/ Again

Spec == Init /\ [][Next]_vars

-------------------------------------------------------------------------------
TypeOK ==
    /\ pc \in {"parse", "place", "copy", "done", "refused"}
    /\ sec \in [Index -> Section] /\ new \in [Index -> Section] /\ orig \in [Index -> Section]
    /\ len \in [Index -> Nat]
    /\ first \in 0 .. N /\ i \in 0 .. N + 1
    /\ pc \in {"place", "copy", "done"} => first \in Index /\ i >= first
    /\ va \in Nat /\ off \in Nat /\ pos \in Nat /\ image \in Nat
    /\ at \in [Index -> Nat]
    /\ end \in Nat /\ short \in 1 .. N + 1
    /\ passes \in 0 .. MaxPasses

(***************************************************************************)
(* The headers of the output say where its data is: the sections from the  *)
(* first .cmdline on were written at their PointerToRawData, and a command *)
(* line fits in what is stored of it.  That is promised up to the first    *)
(* section which the file did not hold in full, in this rewrite or an      *)
(* earlier one; what follows it lies too early, and no error says so       *)
(* (uki.go:312-392).                                                       *)
(***************************************************************************)
DataWhereHeadersSay ==
    pc = "done" /\ Fits =>
        \A j \in Index : j >= first =>
            /\ j <= short => at[j] = new[j].off
            /\ new[j].kind = "cmdline" => new[j].vsize <= new[j].size

(***************************************************************************)
(* In memory no section from the first .cmdline on reaches into a later    *)
(* one, and none grows into a section of the table's earlier part that     *)
(* ended below the first .cmdline; SizeOfImage covers all of these.  Of    *)
(* the earlier sections validate checks no address: one that lies above    *)
(* the first .cmdline may be grown into and is not promised anything       *)
(* (uki.go:160-171, 323-338).                                              *)
(***************************************************************************)
Below(s, j, f) == s[j].va + s[j].vsize <= s[f].va

NoOverlap ==
    pc = "done" /\ Fits =>
        \A j \in Index : j >= first \/ Below(sec, j, first) =>
            /\ \A k \in Index : k >= first /\ j < k => Below(new, j, k)
            /\ new[j].va + new[j].vsize <= image

(***************************************************************************)
(* What was written is accepted again: a second run on the same UKI does   *)
(* not fail in validate, and if no section was ever copied short it finds  *)
(* every command line in the file (uki.go:151-198).                        *)
(***************************************************************************)
AcceptedAgain ==
    pc = "done" /\ Fits =>
        /\ IsFirst(new, first) /\ Valid(new, first)
        /\ short > N => Readable(new, pos)

(***************************************************************************)
(* However often a UKI is rewritten, code, writable data and relocations   *)
(* stay where they were, in the file and in memory (uki.go:176-180,        *)
(* 349-374).                                                               *)
(***************************************************************************)
CodeStays == \A j \in Index : orig[j].kind = "code" => new[j] = orig[j]
===============================================================================
