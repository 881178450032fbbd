-------------------------------- MODULE Linker --------------------------------
(***************************************************************************)
(* The back half of the linker: what struct.cpp does with the segments     *)
(* that Collect has marked.  OrderSegments groups them into collections,   *)
(* CalcAddresses gives every section, segment and import jump its address, *)
(* and CreateImages lays out the sections' bytes, stores the fixups and    *)
(* lists the places the loader must relocate.  The image is a Windows one  *)
(* (IMAGE_FORMAT PE), without Java imports.                                *)
(***************************************************************************)
EXTENDS Collect, SequencesExt

CONSTANTS
  ObjectOffset,  \* xObjectOffset: sections start at multiples of it
  ImageBase,     \* xImageBase
  HighLimit      \* HIGH_MEMORY_LIMIT

ASSUME LinkerAssumption == ObjectOffset \in Nat \ {0} /\ ImageBase \in Nat

VARIABLES
  collections,  \* section |-> its collections in order, each a group's segments
  vadr,         \* VASA->addr
  address,      \* segment |-> address
  start, size,  \* section |-> CodeStart..., CodeLen...
  jumps,        \* imported function |-> address of its jump, ImportStart on
  image,        \* segment |-> where its text is in its section's image
  stored,       \* <<segment, fixup>> |-> what ProcessFixup adds there
  fix,          \* Fix: the relocations, in the order they are met
  imaged        \* sections whose fixups have been processed

lvars == <<collections, vadr, address, start, size, jumps, image, stored, fix,
           imaged>>
allLinkerVars == <<cvars, lvars>>
segments == <<files, segs, fixups, used, marked, stack, lookup>>

Sections == <<"code", "code16", "data", "bss", "const", "idata">>
SectionSet == ToSet(Sections)
SectionOf(s) == IF segs[s].clazz \in SectionSet THEN segs[s].clazz ELSE "data"
Empty == [x \in {} |-> 0]

LInit ==
  /\ Init
  /\ collections = [x \in SectionSet |-> <<>>]
  /\ vadr = ImageBase + ObjectOffset
  /\ address = Empty /\ start = Empty /\ size = Empty /\ jumps = Empty
  /\ image = Empty /\ stored = Empty /\ fix = <<>> /\ imaged = {}

Extended(f, g) ==
  [x \in DOMAIN f \cup DOMAIN g |-> IF x \in DOMAIN g THEN g[x] ELSE f[x]]
-----------------------------------------------------------------------------
(* OrderSegments *)

\* InsertSegment: next to the segments of its file, those with more fixups
\* first; files in the order of their first segment.
Inserted(q, s) ==
  LET mine == {i \in DOMAIN q : segs[q[i]].file = segs[s].file}
      first == Least(mine)
      stops == {i \in first..(Len(q) + 1) :
                  \/ i = Len(q) + 1 \/ i \notin mine
                  \/ Len(fixups[q[i]]) < Len(fixups[s])} IN
  IF mine = {} THEN Append(q, s) ELSE InsertAt(q, Least(stops), s)

\* AddCollection: the groups of the import section and of the constants are
\* sorted by name, the others keep the order of their first segment.
Sorted(x) == x \in {"idata", "const"}
Added(cs, s) ==
  LET n == segs[s].name
      sort == Sorted(SectionOf(s))
      same == {k \in DOMAIN cs : cs[k].name = n}
      after == {k \in DOMAIN cs : sort /\ n < cs[k].name}
      new == [name |-> n, segs |-> <<s>>] IN
  IF same # {}
  THEN [cs EXCEPT ![Least(same)].segs = IF sort THEN Inserted(@, s) ELSE Append(@, s)]
  ELSE IF after # {} THEN InsertAt(cs, Least(after), new) ELSE Append(cs, new)

\* OrderSegments comes to the segments one by one, in the order of their files.
isCollected(s) ==
  \E k \in DOMAIN collections[SectionOf(s)] :
    s \in ToSet(collections[SectionOf(s)][k].segs)
Uncollected == {s \in marked \ {0} : ~isCollected(s)}

OrderSegments ==
  /\ pc = "collected" /\ (errors # {} \/ Uncollected = {})
  /\ pc' = IF errors # {} THEN "ended" ELSE "ordered"
  /\ UNCHANGED <<reading, roots, segments, names, errors, NFixups, lvars>>

AddCollection ==
  /\ pc = "collected" /\ errors = {} /\ Uncollected # {}
  /\ LET s == Least(Uncollected) IN
     collections' = [collections EXCEPT ![SectionOf(s)] = Added(@, s)]
  /\ UNCHANGED <<pc, reading, roots, segments, names, errors, NFixups, vadr,
                 address, start, size, jumps, image, stored, fix, imaged>>

InSection(x) ==
  FlattenSeq([k \in DOMAIN collections[x] |-> collections[x][k].segs])
-----------------------------------------------------------------------------
(* CalcAddresses, a section at a time *)

AlignUp(a, n) == ((a + n - 1) \div n) * n

\* The segments ss laid out from address from on: where each ends, and starts.
SegmentEnds(ss, from) ==
  LET e[i \in 0..Len(ss)] ==
        IF i = 0 THEN from
        ELSE AlignUp(e[i - 1], segs[ss[i]].align) + segs[ss[i]].len IN e
EndOf(ss, from) == SegmentEnds(ss, from)[Len(ss)]
Placed(ss, from) ==
  [s \in ToSet(ss) |->
     SegmentEnds(ss, from)[CHOOSE i \in DOMAIN ss : ss[i] = s] - segs[s].len]

\* The imports in use, in any order, and the number of their DLLs.
UsedImports == {n \in Declared : names[n].kind = "import" /\ n \in used}
Ndlls == Cardinality({names[n].arg.dll : n \in UsedImports})
Functions == SetToSeq({n \in UsedImports : names[n].arg.func})
JumpSize == 6
DllSize == 4 * 5
ImportStart(end) == AlignUp(end, 2)
Jump(n, end) == ImportStart(end) +
  JumpSize * ((CHOOSE i \in DOMAIN Functions : Functions[i] = n) - 1)

\* m & n for numbers of 16 bits.
Bits == 16
And(m, n) ==
  LET Bit(k, i) == (k \div 2^i) % 2
      low[i \in 0..Bits] ==
        IF i = 0 THEN 0
        ELSE low[i - 1] + 2^(i - 1) * (Bit(m, i - 1) * Bit(n, i - 1)) IN
  low[Bits]

\* The precedence of the source: - binds more tightly than &.
Width == 2^Bits
\* Slip: the length is rounded down (ImagesMatch notices).
Code16LenDown(end, from) == ((end - from) \div 2) * 2

Code16Len(end, from) == And(end + 1, (Width - 2 - from) % Width)

\* Slip: no room is left for the jumps (Apart notices).
LengthNoJumps(x, end, from) ==
  IF x = "code16" THEN Code16Len(end, from) ELSE end - from

Length(x, end, from) ==
  CASE x = "code" -> AlignUp(ImportStart(end) + JumpSize * Len(Functions), 2) - from
    [] x = "code16" -> Code16Len(end, from)
    [] OTHER -> end - from

\* Where a section's own segments start, and its bytes: after the DLL table in
\* the import section.
Base(x, from) == IF x = "idata" THEN from + Ndlls * DllSize ELSE from

CalcAddresses ==
  /\ pc = "ordered"
  /\ LET x == Sections[Cardinality(DOMAIN start) + 1]
         from == AlignUp(vadr, ObjectOffset)
         end == EndOf(InSection(x), Base(x, from))
         l == Length(x, end, Base(x, from)) IN
     /\ address' = Extended(address, Placed(InSection(x), Base(x, from)))
     /\ start' = Extended(start, [y \in {x} |-> from])
     /\ size' = Extended(size, [y \in {x} |-> l])
     /\ IF x = "code"
        THEN /\ jumps' = [n \in ToSet(Functions) |-> Jump(n, end)]
             /\ NFixups' = NFixups + Len(Functions)
        ELSE UNCHANGED <<jumps, NFixups>>
     /\ IF x = "idata"
        THEN /\ pc' = "addressed" /\ vadr' = from
             /\ names' = [n \in Declared |->  \* SetOffset
                  IF names[n].seg \in DOMAIN address'
                  THEN [names[n] EXCEPT !.off = @ + address'[names[n].seg]]
                  ELSE names[n]]
        ELSE /\ pc' = IF from + l >= HighLimit THEN "aborted" ELSE pc
             /\ vadr' = from + l
             /\ UNCHANGED names
  /\ UNCHANGED <<reading, roots, segments, errors, collections, image, stored,
                 fix, imaged>>
-----------------------------------------------------------------------------
(* CreateImages *)

Imaged == <<"code", "code16", "data", "const", "idata">>
CreateCollectionImage ==
  /\ pc = "addressed"
  /\ image' = [s \in {t \in DOMAIN address : SectionOf(t) # "bss"} |->
                 Placed(InSection(SectionOf(s)), 0)[s]]
  /\ pc' = IF \A x \in ToSet(Imaged) : EndOf(InSection(x), 0) <= size[x]
           THEN "imaged" ELSE "aborted"
  /\ UNCHANGED <<reading, roots, segments, names, errors, NFixups, collections,
                 vadr, address, start, size, jumps, stored, fix, imaged>>

\* base_vadr of the collection that 16-bit segment s is in.
CollectionStart(s) ==
  LET x == SectionOf(s)
      k == CHOOSE i \in DOMAIN collections[x] :
             s \in ToSet(collections[x][i].segs)
      last == Last(collections[x][k - 1].segs) IN
  IF k = 1 THEN start[x] ELSE address[last] + segs[last].len

\* ProcessFixup: what a fixup that stands at place j of segment s adds.
Target(f) ==
  f.off +
  CASE f.tk = "seg" /\ segs[f.target].clazz = "code16" ->
         address[f.target] - CollectionStart(f.target)
    [] f.tk = "seg" -> address[f.target]
    [] OTHER -> IF names[f.target].arg.func THEN jumps[f.target] ELSE 0
Value(s, j) ==
  LET f == fixups[s][j] IN
  CASE f.kind = "selfrel" -> Target(f) - 4 - address[s] - j
    [] f.kind = "offset32nb" -> Target(f) - ImageBase
    [] OTHER -> Target(f)

Ordinary(s) == {j \in DOMAIN fixups[s] : fixups[s][j].kind \notin Special}
Relocated(s) ==
  FlattenSeq([j \in DOMAIN fixups[s] |->
    IF Counts(fixups[s][j]) THEN <<address[s] + j>> ELSE <<>>])
RelocationsOf(ss) == FlattenSeq([i \in DOMAIN ss |-> Relocated(ss[i])])
\* The jumps' relocations come between the code's and the data's.
JumpRelocations ==
  [i \in DOMAIN Functions |-> jumps[Functions[i]] + 2]

ProcessFixups ==
  /\ pc = "imaged"
  /\ LET x == Imaged[Cardinality(imaged) + 1] IN
     /\ imaged' = imaged \cup {x}
     /\ stored' = Extended(stored,
          [p \in UNION {{<<s, j>> : j \in Ordinary(s)} : s \in ToSet(InSection(x))}
             |-> Value(p[1], p[2])])
     /\ fix' = fix \o RelocationsOf(InSection(x)) \o
                 (IF x = "code16" THEN JumpRelocations ELSE <<>>)
     /\ pc' = IF x = "idata" THEN "processed" ELSE pc
  /\ UNCHANGED <<reading, roots, segments, names, errors, NFixups, collections,
                 vadr, address, start, size, jumps, image>>

\* What qsort makes of q: the i-th is the element that has fewer than i below it.
InOrder(q) ==
  LET below(a) == {k \in DOMAIN q : q[k] < a}
      upTo(a) == {k \in DOMAIN q : q[k] <= a} IN
  [i \in DOMAIN q |->
     CHOOSE a \in ToSet(q) : Cardinality(below(a)) < i /\ i <= Cardinality(upTo(a))]

\* Slip: Fix is not sorted (RelocationsComplete notices).
SortFixupsNever ==
  /\ pc = "processed"
  /\ pc' = IF Len(fix) = NFixups THEN "linked" ELSE "aborted"
  /\ UNCHANGED <<reading, roots, segments, names, errors, NFixups, collections,
                 vadr, address, start, size, jumps, image, stored, fix, imaged>>

\* ASSERT, and the sort.
SortFixups ==
  /\ pc = "processed"
  /\ pc' = IF Len(fix) = NFixups THEN "linked" ELSE "aborted"
  /\ fix' = IF Len(fix) = NFixups THEN InOrder(fix) ELSE fix
  /\ UNCHANGED <<reading, roots, segments, names, errors, NFixups, collections,
                 vadr, address, start, size, jumps, image, stored, imaged>>

LNext ==
  \/ CollectNext /\ UNCHANGED lvars
  \/ OrderSegments \/ AddCollection \/ CalcAddresses \/ CreateCollectionImage \/ ProcessFixups
  \/ SortFixups

LSpec == LInit /\ [][LNext]_allLinkerVars /\ WF_allLinkerVars(LNext)
-----------------------------------------------------------------------------
(* What is right of the output. *)

Laid == DOMAIN address
Bytes(s) == address[s]..(address[s] + segs[s].len - 1)
JumpBytes(n) == jumps[n]..(jumps[n] + JumpSize - 1)
InSpan(x, B0) == B0 \subseteq start[x]..(start[x] + size[x] +
                   (IF x = "idata" THEN Ndlls * DllSize ELSE 0) - 1)

\* CalcAddresses: every segment of the image is placed, on a multiple of its
\* alignment and inside of its section, and nothing overlaps anything else.
Apart ==
  pc \in {"addressed", "linked"} =>
    /\ Laid = marked \ {0}
    /\ \A s \in Laid : /\ address[s] % segs[s].align = 0
                        /\ InSpan(SectionOf(s), Bytes(s))
    /\ \A s, t \in Laid : s # t => Bytes(s) \cap Bytes(t) = {}
    /\ \A n \in DOMAIN jumps :
         /\ InSpan("code", JumpBytes(n))
         /\ \A s \in Laid : Bytes(s) \cap JumpBytes(n) = {}
         /\ \A m \in DOMAIN jumps : m # n => JumpBytes(m) \cap JumpBytes(n) = {}
    /\ \A x, y \in SectionSet : x # y /\ size[x] > 0 /\ size[y] > 0 =>
         start[x] + size[x] <= start[y] \/ start[y] + size[y] <= start[x]

\* CreateCollectionImage lays the texts out a second time, from 0; ProcessFixups
\* and the program find them by their addresses.
ImagesMatch ==
  \A s \in DOMAIN image :
    /\ image[s] = address[s] - Base(SectionOf(s), start[SectionOf(s)])
    /\ image[s] + segs[s].len <= size[SectionOf(s)]

\* What the loader relocates are the stored addresses and the jumps, each once,
\* in order: a fixup counted twice or forgotten would move a wrong word.
RelocationsComplete ==
  pc = "linked" =>
    /\ \A i, j \in DOMAIN fix : i < j => fix[i] < fix[j]
    /\ ToSet(fix) = {jumps[n] + 2 : n \in DOMAIN jumps} \cup
         {address[p[1]] + p[2] :
            p \in {q \in DOMAIN stored : fixups[q[1]][q[2]].kind = "address32"}}

\* A fixup to a name stores the address that SetOffset gives the name, which is
\* the one exported and written to the map file.
NamesAgree ==
  pc = "linked" =>
    \A p \in DOMAIN stored :
      LET f == fixups[p[1]][p[2]] IN
      f.ref \in Declared /\ f.kind = "address32" /\ f.tk = "seg" =>
        stored[p] = names[f.ref].off + f.addend
=============================================================================
