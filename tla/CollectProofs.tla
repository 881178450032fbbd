---------------------------- MODULE CollectProofs ----------------------------
(***************************************************************************)
(* Proofs about Collect, for any names and any well-formed inputs: what is *)
(* marked is closed under references, whatever the recursion has done, and *)
(* the relocations are counted for a table that is never too small.        *)
(***************************************************************************)
EXTENDS Collect, FiniteSetTheorems, SequenceTheorems, WellFoundedInduction, TLAPS

\* Whatever refers to a segment refers to one that exists.
Pointers ==
  /\ \A s \in 0..Len(segs) : \A j \in DOMAIN fixups[s] : Pointed(fixups[s][j])
  /\ \A k \in DOMAIN exports : exports[k].seg \in Segments \cup {NULL}
  /\ \A k \in DOMAIN todo : todo[k].seg \in Segments \cup {NULL}

Phases ==
  /\ pc \in {"reading", "entry"} => marked = {0} /\ stack = <<>>
  /\ pc = "collected" => stack = <<>>

\* The relocations passed are finitely many and all counted.
Counted == IsFiniteSet(Passed) /\ FixNeverOverrun

IInv == TypeOK /\ Pointers /\ Phases /\ MarkedIsDone /\ Counted

-----------------------------------------------------------------------------
(* Numbers and records. *)

\* Least is what its name says: the subsets 0..n of a set of numbers are
\* well-founded, and the smallest of them belongs to the smallest number.
LEMMA LeastIn ==
  ASSUME NEW S \in SUBSET Nat, S # {}
  PROVE  Least(S) \in S /\ \A t \in S : Least(S) <= t
<1> DEFINE T == {0..n : n \in S}
<1>1. T \subseteq FiniteSubsetsOf(Nat) /\ T # {}
  <2>1. \A n \in S : 0..n \in SUBSET Nat
    OBVIOUS
  <2>2. \A n \in S : IsFiniteSet(0..n)
    BY FS_Interval
  <2> QED BY <2>1, <2>2, Zenon DEF FiniteSubsetsOf
<1>2. PICK x \in T : \A y \in T : <<y, x>> \notin StrictSubsetOrdering(Nat)
  <2> HIDE DEF T
  <2> QED BY <1>1, WFMin, FS_StrictSubsetOrderingWellFounded
<1>3. PICK m \in S : x = 0..m
  OBVIOUS
<1>4. \A t \in S : m <= t
  <2> SUFFICES ASSUME NEW t \in S, t < m PROVE FALSE
    OBVIOUS
  <2>1. 0..t \in SUBSET Nat /\ 0..m \in SUBSET Nat /\ 0..t \in T
    OBVIOUS
  <2>2. 0..t \subseteq 0..m /\ 0..t # 0..m
    <3>1. m \in 0..m /\ m \notin 0..t
      OBVIOUS
    <3> QED BY <3>1
  <2>3. <<0..t, 0..m>> \in StrictSubsetOrdering(Nat)
    BY <2>1, <2>2 DEF StrictSubsetOrdering
  <2> QED BY <1>2, <1>3, <2>1, <2>3
<1> QED BY <1>4 DEF Least

LEMMA RecordTypes ==
  ASSUME NEW r \in ObjectRecord
  PROVE  /\ r.op = "file" => /\ r.lib \in Name \cup {NULL}
                             /\ r.smart \in BOOLEAN /\ r.extrnls \in Seq(Name)
         /\ r.op = "segment" => /\ r.name \in Address /\ r.clazz \in Clazz
                                /\ r.dollar \in Seq(STRING)
                                /\ r.len \in Nat /\ r.align \in Nat \ {0}
         /\ r.op = "fixup" => r.seg \in Nat /\ r.fixup \in Fixup
         /\ r.op = "entry" => r.fixup \in Fixup
         /\ r.op = "public" => r.name \in Name /\ r.off \in Int
         /\ r.op = "common" => r.name \in Name /\ r.len \in Nat
         /\ r.op = "import" => r.name \in Name
         /\ r.op = "weak" => r.name \in Name /\ r.def \in Name
         /\ r.op = "export" => r.export \in Exported
BY DEF ObjectRecord

LEMMA NextRecord ==
  ASSUME TypeOK, NEW op, Next1(op), Took
  PROVE  Head(input) \in ObjectRecord /\ Head(input).op = op
         /\ input' \in Seq(ObjectRecord)
BY DEF TypeOK, Next1, Took

-----------------------------------------------------------------------------
(* Types and pointers while the records are read. *)

\* The parts of TypeOK that are about marking, and those about the records.
MarkingTypes ==
  /\ todo \in Seq(Exported)
  /\ marked \subseteq 0..Len(segs) /\ 0 \in marked
  /\ stack \in Seq([seg : marked, at : Nat \ {0}])
  /\ lookup \in Name \cup {NULL}
  /\ walk \in [at : Nat, inside : BOOLEAN, changed : BOOLEAN]
  /\ NFixups \in Nat
NameTypes ==
  /\ Declared \subseteq Name
  /\ \A n \in Declared :
       /\ names[n] = Info(names[n].kind, names[n].seg, names[n].off, names[n].arg)
       /\ names[n].kind \in {"public", "common", "weak", "import"}
       /\ names[n].seg \in Segments \cup {NULL} /\ names[n].off \in Int
       /\ names[n].kind = "weak" => names[n].arg \in Name
       /\ names[n].kind = "common" => names[n].arg \in Nat
TypesAnd ==
  /\ input \in Seq(ObjectRecord) /\ files \in Seq(File) /\ segs \in Seq(Segment)
  /\ fixups \in [0..Len(segs) -> Seq(Fixup)]
  /\ exports \in Seq(Exported)

LEMMA NewFileKeeps ==
  ASSUME TypeOK, Pointers, NewFile PROVE TypeOK' /\ Pointers'
<1>1. /\ Head(input) \in ObjectRecord /\ Head(input).op = "file"
      /\ input' \in Seq(ObjectRecord)
  BY NextRecord DEF NewFile
<1>2. /\ Head(input).lib \in Name \cup {NULL} /\ Head(input).smart \in BOOLEAN
      /\ Head(input).extrnls \in Seq(Name)
  BY <1>1, RecordTypes
<1>3. files' \in Seq(File)
  BY <1>2 DEF NewFile, TypeOK, File
<1> QED
  BY <1>1, <1>3 DEF NewFile, TypeOK, Pointers, Pointed, Known1, Segments, Declared,
     marking, roots

LEMMA GrownTypes ==
  ASSUME TypeOK, Pointers, NEW x \in Segment, segs' = Append(segs, x),
         fixups' = Grown
  PROVE  /\ segs' \in Seq(Segment) /\ Len(segs') = Len(segs) + 1
         /\ fixups' \in [0..Len(segs') -> Seq(Fixup)]
         /\ \A s \in 0..Len(segs) : fixups'[s] = fixups[s]
         /\ fixups'[Len(segs) + 1] = <<>>
         /\ Segments \subseteq Segments'
         /\ \A s \in 0..Len(segs') : \A j \in DOMAIN fixups'[s] : Pointed(fixups[s][j])'
<1>1. segs' \in Seq(Segment) /\ Len(segs') = Len(segs) + 1 /\ Len(segs) \in Nat
  BY DEF TypeOK
<1>2. fixups' = [s \in 0..(Len(segs) + 1) |->
                   IF s \in 0..Len(segs) THEN fixups[s] ELSE <<>>]
  BY DEF Grown, TypeOK
<1>3. fixups' \in [0..Len(segs') -> Seq(Fixup)]
  BY <1>1, <1>2 DEF TypeOK
<1>4. /\ \A s \in 0..Len(segs) : fixups'[s] = fixups[s]
      /\ fixups'[Len(segs) + 1] = <<>>
  BY <1>1, <1>2
<1>5. Segments = 1..Len(segs) /\ Segments' = 1..Len(segs')
  BY <1>1 DEF Segments, TypeOK
<1>6. ASSUME NEW s \in 0..Len(segs'), NEW j \in DOMAIN fixups'[s]
      PROVE Pointed(fixups[s][j])'
  <2>1. CASE s \in 0..Len(segs)
    BY <1>1, <1>4, <1>5, <1>6, <2>1 DEF Pointers, Pointed, Known1
  <2>2. CASE s = Len(segs) + 1
    BY <1>4, <1>6, <2>2
  <2> QED BY <1>1, <2>1, <2>2
<1> QED BY <1>1, <1>3, <1>4, <1>5, <1>6

LEMMA NewSegmentKeeps ==
  ASSUME TypeOK, Pointers, NewSegment PROVE TypeOK' /\ Pointers'
<1>1. /\ Head(input) \in ObjectRecord /\ Head(input).op = "segment"
      /\ input' \in Seq(ObjectRecord)
  BY NextRecord DEF NewSegment
<1> DEFINE x == [file |-> Current, name |-> Head(input).name,
                 clazz |-> Head(input).clazz, dollar |-> Head(input).dollar,
                 len |-> Head(input).len, align |-> Head(input).align]
<1>2. x \in Segment
  <2>1. Current \in Nat
    BY DEF Current, TypeOK
  <2> QED BY <1>1, <2>1, RecordTypes DEF Segment
<1>3. segs' = Append(segs, x) /\ fixups' = Grown
  BY DEF NewSegment
<1>4. /\ segs' \in Seq(Segment) /\ Len(segs') = Len(segs) + 1
      /\ fixups' \in [0..Len(segs') -> Seq(Fixup)] /\ Segments \subseteq Segments'
      /\ \A s \in 0..Len(segs') : \A j \in DOMAIN fixups'[s] : Pointed(fixups[s][j])'
  <2> HIDE DEF x
  <2> QED BY <1>2, <1>3, GrownTypes
<1>5. 0..Len(segs) \subseteq 0..Len(segs')
  BY <1>4 DEF TypeOK
<1>6. MarkingTypes' /\ NameTypes'
  BY <1>4, <1>5 DEF NewSegment, TypeOK, MarkingTypes, NameTypes, marking, roots, Declared, Info
<1>7. TypesAnd'
  BY <1>1, <1>4 DEF NewSegment, TypeOK, TypesAnd
<1>8. TypeOK'
  BY <1>6, <1>7 DEF TypeOK, TypesAnd, NameTypes, MarkingTypes
<1>9. exports' = exports /\ todo' = todo
  BY DEF NewSegment, marking, roots
<1> QED BY <1>4, <1>8, <1>9 DEF Pointers

LEMMA FixupAdded ==
  ASSUME TypeOK, Pointers, NEW s \in 0..Len(segs), NEW f \in Fixup, Pointed(f),
         fixups' = [fixups EXCEPT ![s] = Append(@, f)], segs' = segs
  PROVE  /\ fixups' \in [0..Len(segs') -> Seq(Fixup)]
         /\ \A t \in 0..Len(segs') : \A j \in DOMAIN fixups'[t] : Pointed(fixups[t][j])'
<1>1. Append(fixups[s], f) \in Seq(Fixup)
  <2>1. fixups[s] \in Seq(Fixup)
    BY DEF TypeOK
  <2> QED BY <2>1, AppendProperties
<1>2. fixups' \in [0..Len(segs') -> Seq(Fixup)]
  BY <1>1 DEF TypeOK
<1>3. ASSUME NEW t \in 0..Len(segs'), NEW j \in DOMAIN fixups'[t]
      PROVE Pointed(fixups[t][j])'
  <2>1. fixups'[t][j] = f \/ (j \in DOMAIN fixups[t] /\ fixups'[t][j] = fixups[t][j])
    <3>1. CASE t = s
      <4>1. fixups[s] \in Seq(Fixup) /\ fixups'[s] = Append(fixups[s], f)
        BY <1>3, <3>1 DEF TypeOK
      <4> QED BY <3>1, <4>1, <1>3
    <3>2. CASE t # s
      BY <1>3, <3>2 DEF TypeOK
    <3> QED BY <3>1, <3>2
  <2> QED BY <2>1, <1>3 DEF Pointers, Pointed, Known1, Segments
<1> QED BY <1>2, <1>3

LEMMA NewFixupKeeps ==
  ASSUME TypeOK, Pointers, addFixup PROVE TypeOK' /\ Pointers'
<1>1. /\ Head(input) \in ObjectRecord /\ Head(input).op = "fixup"
      /\ input' \in Seq(ObjectRecord)
  BY NextRecord DEF addFixup
<1>2. Head(input).seg \in 0..Len(segs) /\ Head(input).fixup \in Fixup
  <2>1. Head(input).fixup \in Fixup
    BY <1>1, RecordTypes
  <2>2. Segments = 1..Len(segs) /\ Len(segs) \in Nat
    BY DEF Segments, TypeOK
  <2>3. Head(input).seg \in Segments
    BY DEF addFixup, Known1
  <2> QED BY <2>1, <2>2, <2>3
<1>3. /\ fixups' \in [0..Len(segs') -> Seq(Fixup)]
      /\ \A t \in 0..Len(segs') : \A j \in DOMAIN fixups'[t] : Pointed(fixups[t][j])'
  BY <1>2, FixupAdded DEF addFixup
<1>4. /\ UNCHANGED <<files, segs, names, exports, marked, stack, lookup, NFixups>>
      /\ todo' = todo /\ walk' = walk
  BY DEF addFixup, marking, roots
<1> QED BY <1>1, <1>3, <1>4 DEF TypeOK, Pointers, Segments, Declared, Info

LEMMA EntryPointKeeps ==
  ASSUME TypeOK, Pointers, setEntryPoint PROVE TypeOK' /\ Pointers'
<1>1. /\ Head(input) \in ObjectRecord /\ Head(input).op = "entry"
      /\ input' \in Seq(ObjectRecord)
  BY NextRecord DEF setEntryPoint
<1>2. Head(input).fixup \in Fixup /\ 0 \in 0..Len(segs)
  BY <1>1, RecordTypes DEF TypeOK
<1>3. /\ fixups' \in [0..Len(segs') -> Seq(Fixup)]
      /\ \A t \in 0..Len(segs') : \A j \in DOMAIN fixups'[t] : Pointed(fixups[t][j])'
  <2>1. CASE fixups[0] # <<>>
    BY <2>1 DEF setEntryPoint, TypeOK, Pointers, Pointed, Known1, Segments
  <2>2. CASE fixups[0] = <<>>
    <3>1. Append(fixups[0], Head(input).fixup) = <<Head(input).fixup>>
      BY <2>2
    <3>2. fixups' = [fixups EXCEPT ![0] = Append(@, Head(input).fixup)]
      BY <2>2, <3>1 DEF setEntryPoint
    <3> QED BY <1>2, <3>2, FixupAdded DEF setEntryPoint
  <2> QED BY <2>1, <2>2
<1>4. /\ UNCHANGED <<files, segs, names, exports, marked, stack, lookup, NFixups>>
      /\ todo' = todo /\ walk' = walk
  BY DEF setEntryPoint, marking, roots
<1> QED BY <1>1, <1>3, <1>4 DEF TypeOK, Pointers, Segments, Declared, Info

LEMMA Declares ==
  ASSUME NameTypes, NEW n \in Name, segs' = segs,
         NEW kind \in {"public", "common", "weak", "import"},
         NEW seg \in Segments \cup {NULL}, NEW off \in Int, NEW arg,
         kind = "weak" => arg \in Name, kind = "common" => arg \in Nat,
         Declare(n, Info(kind, seg, off, arg))
  PROVE  NameTypes'
BY DEF NameTypes, Declare, Declared, Info, Segments

\* A record that declares a name.
LEMMA NameKeeps ==
  ASSUME TypeOK, Pointers, NameTypes', input' \in Seq(ObjectRecord),
         UNCHANGED <<files, segs, fixups, exports, marking>>
  PROVE  TypeOK' /\ Pointers'
<1>1. /\ UNCHANGED <<marked, stack, lookup, NFixups>>
      /\ todo' = todo /\ walk' = walk
  BY DEF marking, roots
<1> QED BY <1>1 DEF TypeOK, NameTypes, Pointers, Segments, Pointed, Known1

LEMMA NamesKeep ==
  ASSUME TypeOK, Pointers,
         NewPublicName \/ NewCommonName \/ NewImportName \/ NewWeakName
  PROVE  TypeOK' /\ Pointers'
<1>1. NameTypes
  BY DEF TypeOK, NameTypes
<1>2. CASE NewPublicName
  <2>1. /\ Head(input) \in ObjectRecord /\ Head(input).op = "public"
        /\ input' \in Seq(ObjectRecord)
    BY <1>2, NextRecord DEF NewPublicName
  <2>2. Head(input).name \in Name /\ Head(input).off \in Int
    BY <2>1, RecordTypes
  <2>3. NameTypes'
    BY <1>1, <1>2, <2>2, Declares DEF NewPublicName, Known1, NameTypes, Declared, Segments, Info
  <2> QED BY <1>2, <2>1, <2>3, NameKeeps DEF NewPublicName
<1>3. CASE NewCommonName
  <2>1. /\ Head(input) \in ObjectRecord /\ Head(input).op = "common"
        /\ input' \in Seq(ObjectRecord)
    BY <1>3, NextRecord DEF NewCommonName
  <2>2. Head(input).name \in Name /\ Head(input).len \in Nat
    BY <2>1, RecordTypes
  <2> DEFINE n == Head(input).name
             l == Head(input).len
             longest == IF l > names[n].arg THEN l ELSE names[n].arg
  <2>3. \/ /\ n \in Declared /\ names[n].kind = "common"
           /\ Declare(n, Info("common", NULL, 0, longest))
        \/ Declare(n, Info("common", NULL, 0, l))
        \/ names' = names
    BY <1>3 DEF NewCommonName
  <2>4. names' = names => NameTypes'
    BY <1>1, <1>3 DEF NewCommonName, NameTypes, Declared, Segments, Info
  <2>5. n \in Declared /\ names[n].kind = "common" => longest \in Nat
    BY <1>1, <2>2 DEF NameTypes
  <2>6. NameTypes'
    <3> HIDE DEF n, l, longest
    <3>1. n \in Name /\ l \in Nat /\ segs' = segs
      BY <2>2, <1>3 DEF n, l, NewCommonName
    <3> QED BY <1>1, <2>3, <2>4, <2>5, <3>1, Declares
  <2> QED BY <1>3, <2>1, <2>6, NameKeeps DEF NewCommonName
<1>4. CASE NewImportName
  <2>1. /\ Head(input) \in ObjectRecord /\ Head(input).op = "import"
        /\ input' \in Seq(ObjectRecord)
    BY <1>4, NextRecord DEF NewImportName
  <2>2. Head(input).name \in Name
    BY <2>1, RecordTypes
  <2>3. \/ Declare(Head(input).name, Info("import", NULL, 0, Head(input).entry))
        \/ names' = names
    BY <1>4 DEF NewImportName
  <2>4. names' = names => NameTypes'
    BY <1>1, <1>4 DEF NewImportName, NameTypes, Declared, Segments, Info
  <2>5. NameTypes'
    BY <1>1, <1>4, <2>2, <2>3, <2>4, Declares DEF NewImportName
  <2> QED BY <1>4, <2>1, <2>5, NameKeeps DEF NewImportName
<1>5. CASE NewWeakName
  <2>1. /\ Head(input) \in ObjectRecord /\ Head(input).op = "weak"
        /\ input' \in Seq(ObjectRecord)
    BY <1>5, NextRecord DEF NewWeakName
  <2>2. Head(input).name \in Name
    BY <2>1, RecordTypes
  <2>3. NameTypes'
    BY <1>1, <1>5, <2>2, Declares DEF NewWeakName, ForwardName, NameTypes, Declared, Segments, Info
  <2> QED BY <1>5, <2>1, <2>3, NameKeeps DEF NewWeakName
<1> QED BY <1>2, <1>3, <1>4, <1>5

LEMMA ExportKeeps ==
  ASSUME TypeOK, Pointers, NewExport PROVE TypeOK' /\ Pointers'
<1> DEFINE r == Head(input).export
           old == {i \in DOMAIN exports : exports[i].ext = r.ext}
           k == CHOOSE i \in old : TRUE
           e == exports[k]
           stronger == [e EXCEPT !.int = IF r.int # NULL THEN r.int ELSE @,
                                 !.seg = IF r.seg # NULL THEN r.seg ELSE @,
                                 !.ordinal = IF r.ordinal # 0 THEN r.ordinal ELSE @]
           also == [e EXCEPT !.flag = @ \cup r.flag]
           Fine(x) == x \in Exported /\ x.seg \in Segments \cup {NULL}
<1>1. /\ Head(input) \in ObjectRecord /\ Head(input).op = "export"
      /\ input' \in Seq(ObjectRecord)
  BY NextRecord DEF NewExport
<1>2. Fine(r)
  BY <1>1, RecordTypes DEF NewExport, Known1
<1>3. /\ exports \in Seq(Exported) /\ DOMAIN exports = 1..Len(exports)
      /\ \A i \in DOMAIN exports : Fine(exports[i])
  BY DEF TypeOK, Pointers
<1>4. \/ exports' = <<r>> \o exports
      \/ exports' = exports
      \/ old # {} /\ exports' = [exports EXCEPT ![k] = stronger]
      \/ old # {} /\ exports' = [exports EXCEPT ![k] = also]
  BY DEF NewExport
<1>5. old # {} => k \in DOMAIN exports /\ Fine(stronger) /\ Fine(also)
  <2> SUFFICES ASSUME old # {} PROVE k \in DOMAIN exports /\ Fine(stronger) /\ Fine(also)
    OBVIOUS
  <2>1. k \in old
    OBVIOUS
  <2>2. k \in DOMAIN exports /\ Fine(e)
    BY <2>1, <1>3
  <2> HIDE DEF e, k, r
  <2>3. Fine(stronger)
    BY <2>2, <1>2 DEF Exported
  <2>4. Fine(also)
    BY <2>2, <1>2 DEF Exported
  <2> QED BY <2>2, <2>3, <2>4
<1>6. exports' \in Seq(Exported) /\ \A i \in DOMAIN exports' : Fine(exports'[i])
  <2> HIDE DEF r, old, k, stronger, also
  <2>1. CASE exports' = <<r>> \o exports
    <3>1. <<r>> \in Seq(Exported) /\ Len(<<r>>) = 1 /\ <<r>>[1] = r
      BY <1>2
    <3>2. exports' \in Seq(Exported) /\ Len(exports') = Len(exports) + 1
      BY <2>1, <3>1, <1>3, ConcatProperties
    <3>3. exports'[1] = r /\ \A i \in 2..Len(exports') : exports'[i] = exports[i - 1]
      BY <2>1, <3>1, <3>2, <1>3
    <3> QED BY <1>2, <1>3, <3>2, <3>3
  <2>2. CASE exports' = exports
    BY <2>2, <1>3
  <2>3. ASSUME NEW x, old # {}, exports' = [exports EXCEPT ![k] = x], Fine(x)
        PROVE exports' \in Seq(Exported) /\ \A i \in DOMAIN exports' : Fine(exports'[i])
    BY <2>3, <1>3, <1>5
  <2> QED BY <1>4, <1>5, <2>1, <2>2, <2>3
<1>7. /\ UNCHANGED <<files, segs, fixups, names, marked, stack, lookup, NFixups>>
      /\ todo' = todo /\ walk' = walk
  BY DEF NewExport, marking, roots
<1> HIDE DEF r, old, k, stronger, also
<1>8. TypeOK'
  BY <1>1, <1>6, <1>7 DEF TypeOK, Segments, Declared, Info
<1> QED BY <1>6, <1>7, <1>8 DEF Pointers, Pointed, Known1, Segments

LEMMA ReadingEndsKeeps ==
  ASSUME TypeOK, Pointers, ReadingEnds PROVE TypeOK' /\ Pointers'
<1>1. /\ UNCHANGED <<input, files, segs, fixups, names, exports, marked, stack, lookup, NFixups>>
      /\ todo' = todo /\ walk' = walk
  BY DEF ReadingEnds, roots
<1> QED BY <1>1 DEF TypeOK, Pointers, Segments, Declared, Pointed, Known1, Info

\* The readers neither mark nor count anything.
LEMMA ReadingKeeps ==
  ASSUME IInv, Reading PROVE IInv'
<1>1. TypeOK' /\ Pointers'
  BY NewFileKeeps, NewSegmentKeeps, NewFixupKeeps, EntryPointKeeps, NamesKeep,
     ExportKeeps, ReadingEndsKeeps DEF IInv, Reading
<1>2. /\ pc = "reading" /\ pc' \in {"reading", "ended", "aborted", "entry"}
      /\ UNCHANGED <<marked, stack, NFixups>>
  BY DEF Reading, NewFile, NewSegment, addFixup, setEntryPoint, NewPublicName,
     NewCommonName, NewImportName, NewWeakName, NewExport, ReadingEnds, Next1, marking
<1>3. marked' = {0} /\ Phases'
  BY <1>2 DEF IInv, Phases
<1>4. MarkedIsDone'
  BY <1>2 DEF MarkedIsDone, Marking
<1>5. Passed' = {}
  BY <1>3 DEF Passed
<1>6. Counted'
  BY <1>1, <1>5, FS_EmptySet DEF Counted, FixNeverOverrun, TypeOK
<1> QED BY <1>1, <1>3, <1>4, <1>6 DEF IInv

-----------------------------------------------------------------------------
(* The stack of activations. *)

Frames(M) == [seg : M, at : Nat \ {0}]

\* Pending for any stack.
PendingIn(q, s, j) == \E i \in DOMAIN q : q[i].seg = s /\ q[i].at <= j

LEMMA TopProperties ==
  ASSUME TypeOK, stack # <<>>
  PROVE  /\ Top \in Frames(marked) /\ Top = stack[1]
         /\ Top.seg \in marked /\ Top.seg \in 0..Len(segs) /\ Top.at \in Nat \ {0}
         /\ Tail(stack) \in Seq(Frames(marked)) /\ 1 \in DOMAIN stack
         /\ Places = Len(fixups[Top.seg]) /\ Places \in Nat
         /\ DOMAIN fixups[Top.seg] = 1..Places
<1>1. stack \in Seq(Frames(marked)) /\ marked \subseteq 0..Len(segs)
  BY DEF TypeOK, Frames
<1>2. Top \in Frames(marked) /\ Top = stack[1] /\ Tail(stack) \in Seq(Frames(marked))
      /\ 1 \in DOMAIN stack
  BY <1>1, HeadTailProperties, ElementOfSeq, LenProperties, EmptySeq DEF Top
<1>3. Top.seg \in marked /\ Top.at \in Nat \ {0}
  BY <1>2 DEF Frames
<1>4. fixups[Top.seg] \in Seq(Fixup)
  BY <1>1, <1>3 DEF TypeOK
<1> QED BY <1>1, <1>2, <1>3, <1>4, LenProperties DEF Places

\* Going on to a later place settles only the places in between.
LEMMA OnProperties ==
  ASSUME TypeOK, stack # <<>>, NEW k \in Nat
  PROVE  /\ On(k) \in Seq(Frames(marked))
         /\ \A s, j : PendingIn(stack, s, j) =>
              PendingIn(On(k), s, j) \/ (s = Top.seg /\ Top.at <= j /\ ~(Top.at + k <= j))
<1>1. /\ Top \in Frames(marked) /\ Top = stack[1] /\ Top.at \in Nat \ {0}
      /\ Tail(stack) \in Seq(Frames(marked)) /\ stack \in Seq(Frames(marked))
  BY TopProperties DEF TypeOK, Frames
<1> DEFINE g == [Top EXCEPT !.at = @ + k]
<1>2. g \in Frames(marked) /\ g.seg = Top.seg /\ g.at = Top.at + k
  BY <1>1 DEF Frames
<1>3. On(k) = <<g>> \o Tail(stack)
  BY DEF On
<1> HIDE DEF g
<1>4. <<g>> \in Seq(Frames(marked)) /\ Len(<<g>>) = 1 /\ <<g>>[1] = g
  BY <1>2
<1>5. /\ On(k) \in Seq(Frames(marked)) /\ Len(On(k)) = 1 + Len(Tail(stack))
      /\ On(k)[1] = g
      /\ \A i \in 2..Len(On(k)) : On(k)[i] = Tail(stack)[i - 1]
  BY <1>1, <1>3, <1>4, ConcatProperties
<1>6. /\ Len(stack) = 1 + Len(Tail(stack))
      /\ \A i \in 2..Len(stack) : stack[i] = Tail(stack)[i - 1]
  BY <1>1, HeadTailProperties
<1>7. ASSUME NEW s, NEW j, PendingIn(stack, s, j)
      PROVE PendingIn(On(k), s, j) \/ (s = Top.seg /\ Top.at <= j /\ ~(Top.at + k <= j))
  <2>1. PICK i \in 1..Len(stack) : stack[i].seg = s /\ stack[i].at <= j
    BY <1>1, <1>7, LenProperties DEF PendingIn
  <2>2. CASE i = 1
    <3>1. 1 \in DOMAIN On(k)
      BY <1>5, <1>6, <1>1, LenProperties
    <3> QED BY <1>1, <1>2, <1>5, <2>1, <2>2, <3>1 DEF PendingIn
  <2>3. CASE i # 1
    <3>1. i \in DOMAIN On(k) /\ On(k)[i] = stack[i]
      BY <1>1, <1>5, <1>6, <2>3
    <3> QED BY <2>1, <3>1 DEF PendingIn
  <2> QED BY <2>2, <2>3
<1> QED BY <1>5, <1>7

\* A visit marks s and leaves all places of what it has marked to be visited.
LEMMA VisitProperties ==
  ASSUME TypeOK, NEW s \in 0..Len(segs) \cup {NULL},
         NEW rest \in Seq(Frames(marked)),
         Visit(s, rest) \/ (s # NULL /\ VisitAgain(s, rest))
  PROVE  /\ marked' = marked \cup ({s} \ {NULL})
         /\ marked' \subseteq 0..Len(segs)
         /\ stack' \in Seq(Frames(marked'))
         /\ \A t, j : PendingIn(rest, t, j) => PendingIn(stack', t, j)
         /\ \A t \in marked' \ marked : \A j \in Nat \ {0} : PendingIn(stack', t, j)
<1>1. CASE stack' = rest /\ marked' = marked /\ (s = NULL \/ s \in marked)
  BY <1>1 DEF TypeOK
<1>2. CASE s # NULL /\ stack' = <<Frame(s)>> \o rest /\ marked' = marked \cup {s}
  <2>1. Frame(s) \in Frames(marked') /\ Frame(s).seg = s /\ Frame(s).at = 1
    BY <1>2 DEF Frame, Frames
  <2>2. rest \in Seq(Frames(marked'))
    <3>1. Frames(marked) \subseteq Frames(marked')
      BY <1>2 DEF Frames
    <3> QED BY <3>1, SeqMonotonic
  <2>3. <<Frame(s)>> \in Seq(Frames(marked')) /\ Len(<<Frame(s)>>) = 1
    BY <2>1
  <2>4. /\ stack' \in Seq(Frames(marked')) /\ Len(stack') = 1 + Len(rest)
        /\ stack'[1] = Frame(s)
        /\ \A i \in 2..Len(stack') : stack'[i] = rest[i - 1]
    BY <1>2, <2>2, <2>3, ConcatProperties
  <2>5. ASSUME NEW t, NEW j, PendingIn(rest, t, j) PROVE PendingIn(stack', t, j)
    <3>1. PICK i \in 1..Len(rest) : rest[i].seg = t /\ rest[i].at <= j
      BY <2>2, <2>5, LenProperties DEF PendingIn
    <3>2. i + 1 \in DOMAIN stack' /\ stack'[i + 1] = rest[i]
      BY <2>2, <2>4, LenProperties
    <3> QED BY <3>1, <3>2 DEF PendingIn
  <2>6. ASSUME NEW t \in marked' \ marked, NEW j \in Nat \ {0} PROVE PendingIn(stack', t, j)
    <3>1. t = s /\ 1 \in DOMAIN stack'
      BY <1>2, <2>2, <2>4, <2>6, LenProperties
    <3> QED BY <2>1, <2>4, <3>1 DEF PendingIn
  <2> QED BY <1>2, <2>4, <2>5, <2>6 DEF TypeOK
<1> QED BY <1>1, <1>2 DEF Visit, VisitAgain

-----------------------------------------------------------------------------
(* Steps that move the stack on and leave what has been read as it is. *)

still == <<input, files, segs, fixups, names, exports>>

\* What an activation has left behind is done.
Done(s, j) == Resolved(fixups[s][j]) /\ Leads(fixups[s][j]) \subseteq marked

LEMMA MovesKeep ==
  ASSUME IInv, pc \in Marking, UNCHANGED <<segs, fixups, names>>,
         marked \subseteq marked', TypeOK',
         \A t \in marked' \ marked : \A j \in Nat \ {0} : PendingIn(stack', t, j),
         \A t \in marked : \A j \in DOMAIN fixups[t] :
           PendingIn(stack, t, j) => PendingIn(stack', t, j) \/ Done(t, j)'
  PROVE  MarkedIsDone'
<1> SUFFICES ASSUME NEW t \in marked', NEW j \in DOMAIN fixups[t],
                    ~PendingIn(stack', t, j)
             PROVE  Done(t, j)'
  BY DEF MarkedIsDone, Pending, PendingIn, Done
<1>1. t \in marked
  <2> SUFFICES ASSUME t \notin marked PROVE FALSE
    OBVIOUS
  <2>2. fixups[t] \in Seq(Fixup)
    BY DEF IInv, TypeOK
  <2> QED BY <2>2, LenProperties
<1>2. Done(t, j) \/ PendingIn(stack, t, j)
  BY <1>1 DEF IInv, MarkedIsDone, Pending, PendingIn, Done
<1>3. Done(t, j) => Done(t, j)'
  BY DEF Done, Resolved, Leads, Declared
<1> QED BY <1>1, <1>2, <1>3

\* Counting is right if whatever is newly passed is counted.
LEMMA CountsKeep ==
  ASSUME IInv, NFixups' = NFixups, Passed' \subseteq Passed
  PROVE  Counted'
<1>1. IsFiniteSet(Passed) /\ Cardinality(Passed) <= NFixups /\ NFixups \in Nat
  BY DEF IInv, Counted, FixNeverOverrun, TypeOK
<1>2. IsFiniteSet(Passed') /\ Cardinality(Passed') <= Cardinality(Passed)
  BY <1>1, FS_Subset
<1>3. Cardinality(Passed) \in Nat /\ Cardinality(Passed') \in Nat
  BY <1>1, <1>2, FS_CardinalityType
<1> QED BY <1>1, <1>2, <1>3 DEF Counted, FixNeverOverrun

LEMMA CountsOneMore ==
  ASSUME IInv, NFixups' = NFixups + 1, NEW p, Passed' \subseteq Passed \cup {p}
  PROVE  Counted'
<1>1. IsFiniteSet(Passed) /\ Cardinality(Passed) <= NFixups /\ NFixups \in Nat
  BY DEF IInv, Counted, FixNeverOverrun, TypeOK
<1>2. /\ IsFiniteSet(Passed \cup {p})
      /\ Cardinality(Passed) \in Nat
      /\ Cardinality(Passed \cup {p}) <= Cardinality(Passed) + 1
  <2>1. /\ IsFiniteSet(Passed \cup {p})
        /\ Cardinality(Passed \cup {p}) =
             IF p \in Passed THEN Cardinality(Passed) ELSE Cardinality(Passed) + 1
    BY <1>1, FS_AddElement, Zenon
  <2>2. Cardinality(Passed) \in Nat
    BY <1>1, FS_CardinalityType
  <2> QED BY <2>1, <2>2
<1>3. IsFiniteSet(Passed') /\ Cardinality(Passed') <= Cardinality(Passed \cup {p})
  BY <1>2, FS_Subset
<1>4. Cardinality(Passed \cup {p}) \in Nat /\ Cardinality(Passed') \in Nat
  BY <1>2, <1>3, FS_CardinalityType
<1> QED BY <1>1, <1>2, <1>3, <1>4 DEF Counted, FixNeverOverrun

\* A place is passed if it holds a relocation and no activation waits there.
LEMMA PassedPlaces ==
  ASSUME NEW s, NEW j
  PROVE  <<s, j>> \in Passed <=>
           /\ s \in marked \ {0} /\ j \in DOMAIN fixups[s]
           /\ Counts(fixups[s][j]) /\ ~PendingIn(stack, s, j)
BY DEF Passed, Pending, PendingIn

LEMMA PassedArePairs == \A p \in Passed : p = <<p[1], p[2]>>
BY DEF Passed

LEMMA MovesCount ==
  ASSUME TypeOK', UNCHANGED <<segs, fixups>>,
         \A t \in marked' \ marked : \A j \in Nat \ {0} : PendingIn(stack', t, j),
         NEW X,
         \A t \in marked : \A j \in DOMAIN fixups[t] :
           PendingIn(stack, t, j) => \/ PendingIn(stack', t, j)
                                     \/ t = 0 \/ ~Counts(fixups[t][j]) \/ <<t, j>> \in X
  PROVE  Passed' \subseteq Passed \cup X
<1> SUFFICES ASSUME NEW p \in Passed' PROVE p \in Passed \cup X
  OBVIOUS
<1>1. PICK s, j : p = <<s, j>>
  BY DEF Passed
<1>2. /\ s \in marked' \ {0} /\ j \in DOMAIN fixups'[s]
      /\ Counts(fixups'[s][j]) /\ ~PendingIn(stack', s, j)
  BY <1>1 DEF Passed, Pending, PendingIn, Counts
<1>3. j \in Nat \ {0}
  <2>1. fixups'[s] \in Seq(Fixup)
    BY <1>2 DEF TypeOK
  <2> QED BY <1>2, <2>1, LenProperties
<1>4. s \in marked
  BY <1>2, <1>3
<1>5. PendingIn(stack, s, j) => p \in X
  BY <1>1, <1>2, <1>4
<1>6. ~PendingIn(stack, s, j) => p \in Passed
  BY <1>1, <1>2, <1>4, PassedPlaces
<1> QED BY <1>5, <1>6

\* The two together, with what every step of this kind leaves alone.
LEMMA Stills ==
  ASSUME TypeOK, Pointers, UNCHANGED <<segs, fixups, names>>, UNCHANGED reading,
         files' \in Seq(File), NFixups' \in Nat,
         lookup' \in Name \cup {NULL}, marked \subseteq marked',
         marked' \subseteq 0..Len(segs), stack' \in Seq(Frames(marked')),
         todo' = todo \/ todo' = exports \/ (todo # <<>> /\ todo' = Tail(todo)),
         walk' \in [at : Nat, inside : BOOLEAN, changed : BOOLEAN]
  PROVE  TypeOK' /\ Pointers'
<1>1. todo' \in Seq(Exported) /\ \A k \in DOMAIN todo' : todo'[k].seg \in Segments \cup {NULL}
  <2>1. CASE todo' = todo \/ todo' = exports
    BY <2>1 DEF TypeOK, Pointers
  <2>2. CASE todo # <<>> /\ todo' = Tail(todo)
    <3>1. todo \in Seq(Exported) /\ todo' \in Seq(Exported) /\ Len(todo) = 1 + Len(todo')
          /\ \A k \in 1..Len(todo') : todo'[k] = todo[k + 1]
      BY <2>2, HeadTailProperties DEF TypeOK
    <3>2. \A k \in DOMAIN todo' : k + 1 \in DOMAIN todo /\ todo'[k] = todo[k + 1]
      BY <3>1, LenProperties
    <3> QED BY <3>1, <3>2 DEF Pointers
  <2> QED BY <2>1, <2>2
<1> QED BY <1>1 DEF TypeOK, Pointers, Segments, Declared, Pointed, Known1, Info,
             reading, Frames

-----------------------------------------------------------------------------
(* The steps of CollectFixup and CollectSegments, one by one. *)

LEMMA RunningIsMarking ==
  ASSUME IInv, Running
  PROVE  /\ TypeOK /\ Pointers /\ stack # <<>>
         /\ pc \in {"exports", "all"} /\ pc \in Marking
BY DEF IInv, Phases, Running, Marking

LEMMA PlaceProperties ==
  ASSUME IInv, AtFixup
  PROVE  /\ Top.at \in DOMAIN fixups[Top.seg] /\ Fx \in Fixup /\ Pointed(Fx)
         /\ Top.seg \in 0..Len(segs) /\ Top.at \in Nat \ {0} /\ Top.seg \in marked
<1>1. Running /\ Top.at <= Places
  BY DEF AtFixup
<1>2. /\ TypeOK /\ Pointers /\ Top.seg \in 0..Len(segs) /\ Top.at \in Nat \ {0}
      /\ Places \in Nat /\ DOMAIN fixups[Top.seg] = 1..Places /\ Top.seg \in marked
  BY <1>1, RunningIsMarking, TopProperties
<1>3. Top.at \in DOMAIN fixups[Top.seg] /\ fixups[Top.seg] \in Seq(Fixup)
  BY <1>1, <1>2 DEF TypeOK
<1> QED BY <1>2, <1>3, ElementOfSeq, LenProperties DEF Fx, Pointers

LEMMA CollectFixupKeeps ==
  ASSUME IInv, CollectFixup PROVE IInv'
<1> DEFINE s == IF TypeNamed THEN names[Fx.target].seg
                ELSE IF Fx.kind \notin Special /\ Fx.tk = "seg" THEN Fx.target
                ELSE NULL
<1>1. /\ TypeOK /\ Pointers /\ stack # <<>> /\ pc \in {"exports", "all"} /\ pc \in Marking
  BY RunningIsMarking DEF CollectFixup, AtFixup
<1>2. /\ Top.at \in DOMAIN fixups[Top.seg] /\ Fx \in Fixup /\ Pointed(Fx)
      /\ Top.seg \in 0..Len(segs) /\ Top.at \in Nat \ {0}
  BY PlaceProperties DEF CollectFixup
<1>3. s \in 0..Len(segs) \cup {NULL} /\ Leads(Fx) = {s} \ {NULL}
  <2>1. CASE TypeNamed
    BY <1>1, <2>1 DEF TypeNamed, TypeOK, Leads, Segments
  <2>2. CASE ~TypeNamed /\ Fx.kind \notin Special /\ Fx.tk = "seg"
    <3>1. Fx.target \in DOMAIN segs
      BY <1>2, <2>2 DEF Pointed, Known1, Segments
    <3>2. Fx.target \in 1..Len(segs) /\ Fx.target # NULL
      <4>1. segs \in Seq(Segment)
        BY <1>1 DEF TypeOK
      <4> QED BY <3>1, <4>1, LenProperties, CollectAssumption
    <3>3. s = Fx.target
      BY <2>2
    <3>4. Leads(Fx) = {Fx.target}
      BY <2>2 DEF Leads, Special
    <3> QED BY <3>2, <3>3, <3>4
  <2>3. CASE ~TypeNamed /\ ~(Fx.kind \notin Special /\ Fx.tk = "seg")
    BY <2>3 DEF TypeNamed, Leads
  <2> QED BY <2>1, <2>2, <2>3
<1>4. Visit(s, On(1)) /\ Resolved(Fx)
  BY DEF CollectFixup, Resolved
<1> HIDE DEF s
<1>5. /\ On(1) \in Seq(Frames(marked))
      /\ \A t, j : PendingIn(stack, t, j) =>
           PendingIn(On(1), t, j) \/ (t = Top.seg /\ Top.at <= j /\ ~(Top.at + 1 <= j))
  BY <1>1, OnProperties
<1>6. /\ marked' = marked \cup ({s} \ {NULL}) /\ marked' \subseteq 0..Len(segs)
      /\ stack' \in Seq(Frames(marked'))
      /\ \A t, j : PendingIn(On(1), t, j) => PendingIn(stack', t, j)
      /\ \A t \in marked' \ marked : \A j \in Nat \ {0} : PendingIn(stack', t, j)
  BY <1>1, <1>3, <1>4, <1>5, VisitProperties
<1>7. /\ UNCHANGED <<files, segs, fixups, names>> /\ UNCHANGED reading
      /\ pc' = pc /\ todo' = todo /\ walk' = walk /\ lookup' = lookup
      /\ NFixups' = IF Counts(Fx) /\ Top.seg # 0 THEN NFixups + 1 ELSE NFixups
  BY DEF CollectFixup, Steady, roots
<1>8. TypeOK' /\ Pointers'
  <2>1. /\ files' \in Seq(File) /\ NFixups' \in Nat /\ lookup' \in Name \cup {NULL}
        /\ walk' \in [at : Nat, inside : BOOLEAN, changed : BOOLEAN]
        /\ marked \subseteq marked'
    BY <1>1, <1>6, <1>7 DEF TypeOK
  <2> QED BY <1>1, <1>6, <1>7, <2>1, Stills
<1>9. ASSUME NEW t \in marked, NEW j \in DOMAIN fixups[t], PendingIn(stack, t, j)
      PROVE  PendingIn(stack', t, j) \/ (t = Top.seg /\ j = Top.at)
  <2>1. j \in Nat
    <3>1. marked \subseteq 0..Len(segs) /\ fixups \in [0..Len(segs) -> Seq(Fixup)]
      BY <1>1 DEF TypeOK
    <3>2. fixups[t] \in Seq(Fixup)
      BY <3>1
    <3> QED BY <3>2, LenProperties
  <2> QED BY <1>2, <1>5, <1>6, <1>9, <2>1
<1>10. ASSUME NEW t, NEW j, t = Top.seg, j = Top.at PROVE Done(t, j)'
  <2>1. Resolved(fixups[t][j]) /\ Leads(fixups[t][j]) \subseteq marked'
    BY <1>3, <1>4, <1>6, <1>10 DEF Fx
  <2> QED BY <2>1, <1>7 DEF Done, Leads, Resolved, Declared
<1>11. MarkedIsDone'
  BY <1>1, <1>6, <1>7, <1>8, <1>9, <1>10, MovesKeep
<1>12. Counted'
  <2> DEFINE here == <<Top.seg, Top.at>>
  <2>1. CASE Counts(Fx) /\ Top.seg # 0
    <3>1. Passed' \subseteq Passed \cup {here}
      BY <1>6, <1>7, <1>8, <1>9, MovesCount
    <3> QED BY <2>1, <3>1, <1>7, CountsOneMore
  <2>2. CASE ~(Counts(Fx) /\ Top.seg # 0)
    <3>1. Passed' \subseteq Passed \cup {}
      BY <1>6, <1>7, <1>8, <1>9, <2>2, MovesCount DEF Fx
    <3> QED BY <2>2, <3>1, <1>7, CountsKeep
  <2> QED BY <2>1, <2>2
<1>13. Phases'
  BY <1>1, <1>7 DEF Phases
<1> QED BY <1>8, <1>11, <1>12, <1>13 DEF IInv

\* A step that leaves only places past the fixups, or no activation at all, and
\* visits a segment or none.
LEMMA VisitKeeps ==
  ASSUME IInv, pc \in {"exports", "all"}, pc' = pc,
         NEW s \in 0..Len(segs) \cup {NULL}, NEW rest \in Seq(Frames(marked)),
         \A t \in marked : \A j \in DOMAIN fixups[t] :
           PendingIn(stack, t, j) => PendingIn(rest, t, j),
         Visit(s, rest) \/ (s # NULL /\ VisitAgain(s, rest)),
         UNCHANGED <<segs, fixups, names, lookup, NFixups>>, UNCHANGED reading,
         files' \in Seq(File),
         todo' = todo \/ (todo # <<>> /\ todo' = Tail(todo)),
         walk' \in [at : Nat, inside : BOOLEAN, changed : BOOLEAN]
  PROVE  IInv'
<1>1. TypeOK /\ Pointers /\ pc \in Marking
  BY DEF IInv, Marking
<1>2. /\ marked' = marked \cup ({s} \ {NULL}) /\ marked' \subseteq 0..Len(segs)
      /\ stack' \in Seq(Frames(marked'))
      /\ \A t, j : PendingIn(rest, t, j) => PendingIn(stack', t, j)
      /\ \A t \in marked' \ marked : \A j \in Nat \ {0} : PendingIn(stack', t, j)
  BY <1>1, VisitProperties
<1>3. TypeOK' /\ Pointers'
  <2>1. NFixups' \in Nat /\ lookup' \in Name \cup {NULL} /\ marked \subseteq marked'
    BY <1>1, <1>2 DEF TypeOK
  <2> QED BY <1>1, <1>2, <2>1, Stills
<1>4. \A t \in marked : \A j \in DOMAIN fixups[t] :
        PendingIn(stack, t, j) => PendingIn(stack', t, j)
  BY <1>2
<1>5. Phases'
  BY <1>1 DEF Phases
<1>6. MarkedIsDone'
  BY <1>1, <1>2, <1>3, <1>4, MovesKeep
<1>7. Counted'
  <2>1. Passed' \subseteq Passed \cup {}
    BY <1>2, <1>3, <1>4, MovesCount
  <2> QED BY <2>1, CountsKeep
<1> QED BY <1>3, <1>5, <1>6, <1>7 DEF IInv

\* Once the fixups of a segment are passed, going on or returning settles no
\* place any more.
LEMMA PastProperties ==
  ASSUME IInv, Running, Top.at > Places, NEW k \in Nat
  PROVE  /\ On(k) \in Seq(Frames(marked)) /\ Tail(stack) \in Seq(Frames(marked))
         /\ \A t \in marked : \A j \in DOMAIN fixups[t] :
              PendingIn(stack, t, j) =>
                PendingIn(On(k), t, j) /\ PendingIn(Tail(stack), t, j)
<1>1. TypeOK /\ stack # <<>>
  BY RunningIsMarking
<1>2. /\ Top.at \in Nat \ {0} /\ Places \in Nat /\ DOMAIN fixups[Top.seg] = 1..Places
      /\ Tail(stack) \in Seq(Frames(marked)) /\ Top = stack[1]
  BY <1>1, TopProperties
<1>3. /\ On(k) \in Seq(Frames(marked))
      /\ \A s, j : PendingIn(stack, s, j) =>
           PendingIn(On(k), s, j) \/ (s = Top.seg /\ Top.at <= j /\ ~(Top.at + k <= j))
  BY <1>1, OnProperties
<1>4. ASSUME NEW t \in marked, NEW j \in DOMAIN fixups[t], PendingIn(stack, t, j)
      PROVE  PendingIn(On(k), t, j) /\ PendingIn(Tail(stack), t, j)
  <2>1. PendingIn(On(k), t, j)
    BY <1>2, <1>3, <1>4
  <2>2. stack \in Seq(Frames(marked)) /\ Len(stack) = 1 + Len(Tail(stack))
        /\ \A i \in 2..Len(stack) : stack[i] = Tail(stack)[i - 1]
    BY <1>1, HeadTailProperties DEF TypeOK, Frames
  <2>3. PICK i \in 1..Len(stack) : stack[i].seg = t /\ stack[i].at <= j
    BY <1>4, <2>2, LenProperties DEF PendingIn
  <2>4. i # 1
    BY <1>2, <1>4, <2>3
  <2>5. i - 1 \in DOMAIN Tail(stack) /\ stack[i] = Tail(stack)[i - 1]
    BY <1>2, <2>2, <2>4, LenProperties
  <2>6. PendingIn(Tail(stack), t, j)
    BY <2>3, <2>5 DEF PendingIn
  <2> QED BY <2>1, <2>6
<1> QED BY <1>2, <1>3, <1>4

LEMMA FirstProperties ==
  ASSUME TypeOK, NEW S \in SUBSET Segments
  PROVE  /\ Segments \subseteq 0..Len(segs)
         /\ First(S) \in 0..Len(segs) \cup {NULL}
         /\ S # {} => Least(S) \in S
<1>1. Segments = 1..Len(segs) /\ Len(segs) \in Nat
  BY DEF TypeOK, Segments
<1>2. Segments \subseteq 0..Len(segs) /\ S \in SUBSET Nat /\ S \subseteq 0..Len(segs)
  BY <1>1
<1>3. S # {} => Least(S) \in S
  BY <1>2, LeastIn
<1>4. First(S) \in S \cup {NULL}
  BY <1>3 DEF First
<1> QED BY <1>2, <1>3, <1>4

LEMMA FileChanged ==
  ASSUME NEW q \in Seq(File), NEW f
  PROVE  /\ [q EXCEPT ![f].idata = TRUE] \in Seq(File)
         /\ [q EXCEPT ![f].processed = TRUE] \in Seq(File)
<1>1. ASSUME NEW e, f \in DOMAIN q => e \in File PROVE [q EXCEPT ![f] = e] \in Seq(File)
  <2>1. CASE f \in 1..Len(q)
    BY <1>1, <2>1, ExceptSeq, LenProperties
  <2>2. CASE f \notin 1..Len(q)
    <3>1. q \in [1..Len(q) -> File]
      BY LenProperties
    <3>2. [q EXCEPT ![f] = e] = q
      BY <2>2, <3>1
    <3> QED BY <3>2
  <2> QED BY <2>1, <2>2
<1>2. f \in DOMAIN q => q[f] \in File
  BY LenProperties, ElementOfSeq
<1>3. f \in DOMAIN q => [q[f] EXCEPT !.idata = TRUE] \in File
                        /\ [q[f] EXCEPT !.processed = TRUE] \in File
  BY <1>2 DEF File
<1> QED BY <1>1, <1>3

LEMMA CollectDescriptorKeeps ==
  ASSUME IInv, CollectDescriptor PROVE IInv'
<1>1. /\ TypeOK /\ pc \in {"exports", "all"} /\ Running /\ Top.at > Places
  <2>1. Running /\ Top.at = Places + 1
    BY DEF CollectDescriptor, Past
  <2> QED BY <2>1, RunningIsMarking, TopProperties
<1>2. /\ UNCHANGED <<segs, fixups, names, lookup, NFixups>> /\ UNCHANGED reading
      /\ pc' = pc /\ todo' = todo /\ walk' = walk
      /\ walk' \in [at : Nat, inside : BOOLEAN, changed : BOOLEAN]
  BY <1>1 DEF CollectDescriptor, Steady, roots, TypeOK
<1> DEFINE f == segs[Top.seg].file
           descriptors == {p \in InFile(f) : IsIDATA_DOLLAR(p, "2") /\ p \notin marked}
<1>3. CASE files' = [files EXCEPT ![f].idata = TRUE] /\ Visit(First(descriptors), On(1))
  <2>1. descriptors \in SUBSET Segments
    BY DEF InFile
  <2>2. files' \in Seq(File)
    BY <1>1, <1>3, FileChanged DEF TypeOK
  <2> HIDE DEF descriptors, f
  <2>3. First(descriptors) \in 0..Len(segs) \cup {NULL}
    BY <1>1, <2>1, FirstProperties
  <2> QED BY <1>1, <1>2, <1>3, <2>2, <2>3, PastProperties, VisitKeeps
<1>4. CASE stack' = On(2) /\ UNCHANGED <<files, marked>>
  <2>1. Visit(NULL, On(2)) /\ files' \in Seq(File)
    BY <1>1, <1>4 DEF Visit, TypeOK
  <2> QED BY <1>1, <1>2, <2>1, PastProperties, VisitKeeps
<1> QED BY <1>3, <1>4 DEF CollectDescriptor

LEMMA ReturnKeeps ==
  ASSUME IInv, Return PROVE IInv'
<1>1. /\ TypeOK /\ pc \in {"exports", "all"} /\ Running /\ Top.at > Places
  <2>1. Running /\ Top.at >= Places + 3
    BY DEF Return
  <2> QED BY <2>1, RunningIsMarking, TopProperties
<1>2. Visit(NULL, Tail(stack)) /\ files' \in Seq(File)
  BY <1>1 DEF Return, Visit, TypeOK
<1>3. /\ UNCHANGED <<segs, fixups, names, lookup, NFixups>> /\ UNCHANGED reading
      /\ pc' = pc /\ todo' = todo /\ walk' = walk
      /\ walk' \in [at : Nat, inside : BOOLEAN, changed : BOOLEAN]
  BY <1>1 DEF Return, Steady, roots, TypeOK
<1> QED BY <1>1, <1>2, <1>3, PastProperties, VisitKeeps

\* A step that changes neither what has been read, nor the marks, nor the stack.
Quiet ==
  /\ UNCHANGED <<still, marked, stack, NFixups>> /\ todo' = todo
  /\ lookup' \in Name \cup {NULL}
  /\ walk' \in [at : Nat, inside : BOOLEAN, changed : BOOLEAN]

LEMMA QuietKeeps ==
  ASSUME IInv, Quiet, pc \in Marking, pc' \in Marking \cup {"aborted"},
         pc' = "collected" => stack = <<>>
  PROVE  IInv'
<1>1. TypeOK' /\ Pointers' /\ Phases'
  BY DEF Quiet, IInv, TypeOK, Pointers, Phases, still, Segments, Declared, Pointed,
         Known1, Info, Marking
<1>2. MarkedIsDone'
  BY DEF Quiet, IInv, MarkedIsDone, still, Pending, Resolved, Leads, Declared
<1>3. Passed' = Passed
  BY DEF Quiet, Passed, still, Pending, Counts
<1> QED BY <1>1, <1>2, <1>3 DEF IInv, Counted, FixNeverOverrun, Quiet

LEMMA CollectAddressesKeeps ==
  ASSUME IInv, CollectAddresses PROVE IInv'
<1>1. /\ TypeOK /\ pc \in {"exports", "all"} /\ Running /\ Top.at > Places /\ pc \in Marking
  <2>1. Running /\ Top.at = Places + 3
    BY DEF CollectAddresses, Past
  <2> QED BY <2>1, RunningIsMarking, TopProperties
<1> DEFINE later == {p \in InFile(segs[Top.seg].file) : p > Top.seg}
<1>2. CASE pc' = "aborted" /\ UNCHANGED <<stack, marked>>
  <2>1. Quiet
    BY <1>1, <1>2 DEF CollectAddresses, still, reading, roots, Quiet, TypeOK
  <2> QED BY <1>1, <1>2, <2>1, QuietKeeps
<1>3. CASE later # {} /\ VisitAgain(Least(later), On(1)) /\ pc' = pc
  <2>1. later \in SUBSET Segments
    BY DEF InFile
  <2>2. Least(later) \in 0..Len(segs) /\ Least(later) # NULL
    <3> HIDE DEF later
    <3> QED BY <1>1, <1>3, <2>1, FirstProperties, CollectAssumption
  <2>3. /\ UNCHANGED <<segs, fixups, names, lookup, NFixups>> /\ UNCHANGED reading
        /\ files' \in Seq(File) /\ todo' = todo
        /\ walk' \in [at : Nat, inside : BOOLEAN, changed : BOOLEAN]
    BY <1>1 DEF CollectAddresses, roots, TypeOK
  <2> HIDE DEF later
  <2> QED BY <1>1, <1>3, <2>2, <2>3, PastProperties, VisitKeeps
<1> QED BY <1>2, <1>3 DEF CollectAddresses

Aimed(f, tk, t, off) == [f EXCEPT !.tk = tk, !.target = t, !.off = @ + off]

LEMMA FixupChanged ==
  ASSUME NEW f \in Fixup, NEW tk \in TargetKind, NEW t \in Name \cup Address, NEW off \in Int
  PROVE  /\ Aimed(f, tk, t, off) \in Fixup
         /\ Aimed(f, tk, t, off).tk = tk /\ Aimed(f, tk, t, off).target = t
<1> SUFFICES ASSUME NEW x, x = [f EXCEPT !.tk = tk, !.target = t, !.off = @ + off]
             PROVE  x \in Fixup /\ x.tk = tk /\ x.target = t
  BY DEF Aimed
<1>1. f = [kind |-> f.kind, tk |-> f.tk, target |-> f.target, off |-> f.off,
           ref |-> f.ref, addend |-> f.addend]
  BY DEF Fixup
<1>2. /\ f.kind \in FixupKind /\ f.off + off \in Int
      /\ f.ref \in Name \cup {NULL} /\ f.addend \in Int
  BY DEF Fixup
<1>3. x = [kind |-> f.kind, tk |-> tk, target |-> t, off |-> f.off + off,
           ref |-> f.ref, addend |-> f.addend]
  BY <1>1
<1> QED BY <1>2, <1>3 DEF Fixup

\* Resolving replaces the fixup at which the recursion is by one with another
\* target, and leaves all others.
Retargeted(h, g, L, tk, t) ==
  /\ h \in [0..L -> Seq(Fixup)]
  /\ \A s \in 0..L : DOMAIN h[s] = DOMAIN g[s]
  /\ \A s \in 0..L : \A j \in DOMAIN g[s] :
       \/ h[s][j] = g[s][j]
       \/ /\ s = Top.seg /\ j = Top.at /\ PendingIn(stack, s, j)
          /\ h[s][j].tk = tk /\ h[s][j].target = t

LEMMA RetargetProperties ==
  ASSUME IInv, AtFixup, NEW L \in Nat, Len(segs) <= L,
         NEW g \in [0..L -> Seq(Fixup)], \A s \in 0..Len(segs) : g[s] = fixups[s],
         NEW tk \in TargetKind, NEW t \in Name \cup Address, NEW off \in Int,
         NEW h, h = Retarget(g, tk, t, off)
  PROVE  Retargeted(h, g, L, tk, t)
<1> DEFINE x == Aimed(Fx, tk, t, off)
           a == Top.seg
           b == Top.at
<1>1. /\ b \in DOMAIN fixups[a] /\ Fx \in Fixup /\ a \in 0..Len(segs) /\ b \in Nat \ {0}
      /\ Top = stack[1] /\ 1 \in DOMAIN stack /\ Len(segs) \in Nat
  <2>1. TypeOK /\ stack # <<>>
    BY RunningIsMarking DEF AtFixup
  <2>2. Len(segs) \in Nat
    BY <2>1, LenProperties DEF TypeOK
  <2> QED BY <2>1, <2>2, PlaceProperties, TopProperties
<1> HIDE DEF a, b
<1>2. x \in Fixup /\ x.tk = tk /\ x.target = t
  BY <1>1, FixupChanged
<1>3. h = [g EXCEPT ![a] = [g[a] EXCEPT ![b] = x]]
  BY DEF Retarget, Aimed, a, b
<1> HIDE DEF x
<1>4. a \in 0..L /\ g[a] \in Seq(Fixup) /\ b \in 1..Len(g[a]) /\ PendingIn(stack, a, b)
  <2>1. a \in 0..L /\ g[a] = fixups[a]
    BY <1>1
  <2>2. g[a] \in Seq(Fixup) /\ b \in 1..Len(g[a])
    BY <1>1, <2>1, LenProperties
  <2>3. PendingIn(stack, a, b)
    <3>1. stack[1].seg = a /\ stack[1].at = b
      BY <1>1 DEF a, b
    <3>2. stack[1].at <= b
      BY <1>1, <3>1
    <3> QED BY <1>1, <3>1, <3>2 DEF PendingIn
  <2> QED BY <2>1, <2>2, <2>3
<1>5. /\ [g[a] EXCEPT ![b] = x] \in Seq(Fixup)
      /\ Len([g[a] EXCEPT ![b] = x]) = Len(g[a])
      /\ \A j \in 1..Len(g[a]) : [g[a] EXCEPT ![b] = x][j] = IF j = b THEN x ELSE g[a][j]
  BY <1>2, <1>4, ExceptSeq
<1>6. h \in [0..L -> Seq(Fixup)]
  BY <1>3, <1>4, <1>5
<1>7. ASSUME NEW s \in 0..L
      PROVE  /\ DOMAIN h[s] = DOMAIN g[s]
             /\ \A j \in DOMAIN g[s] :
                  \/ h[s][j] = g[s][j]
                  \/ /\ s = a /\ j = b /\ PendingIn(stack, s, j)
                     /\ h[s][j].tk = tk /\ h[s][j].target = t
  <2>1. CASE s = a
    BY <1>2, <1>3, <1>4, <1>5, <2>1, LenProperties
  <2>2. CASE s # a
    BY <1>3, <1>4, <2>2
  <2> QED BY <2>1, <2>2
<1> QED BY <1>6, <1>7 DEF a, b, Retargeted

\* A step that resolves a fixup, and does nothing else to what is marked.
LEMMA ResolveKeeps ==
  ASSUME IInv, AtFixup, pc' = pc, NEW tk \in TargetKind, NEW t \in Name \cup Address,
         NEW off \in Int, tk = "seg" => t \in Segments,
         fixups' = Retarget(fixups, tk, t, off),
         UNCHANGED <<files, segs, names, marked, stack, NFixups, reading, walk>>,
         todo' = todo, lookup' \in Name \cup {NULL}
  PROVE  IInv'
<1>1. /\ TypeOK /\ Pointers /\ pc \in Marking /\ Len(segs) \in Nat
      /\ fixups \in [0..Len(segs) -> Seq(Fixup)]
  BY RunningIsMarking DEF AtFixup, TypeOK
<1>2. /\ fixups' \in [0..Len(segs) -> Seq(Fixup)]
      /\ \A s \in 0..Len(segs) : DOMAIN fixups'[s] = DOMAIN fixups[s]
      /\ \A s \in 0..Len(segs) : \A j \in DOMAIN fixups[s] :
              \/ fixups'[s][j] = fixups[s][j]
              \/ /\ PendingIn(stack, s, j)
                 /\ fixups'[s][j].tk = tk /\ fixups'[s][j].target = t
  <2>1. Retargeted(fixups', fixups, Len(segs), tk, t)
    BY <1>1, RetargetProperties
  <2> QED BY <2>1 DEF Retargeted
<1>3. TypeOK'
  BY <1>1, <1>2 DEF TypeOK, reading, Segments, Declared, Info
<1>4. Pointers'
  BY <1>1, <1>2 DEF Pointers, reading, Segments, Pointed, Known1
<1>5. MarkedIsDone'
  <2> SUFFICES ASSUME NEW s \in marked, NEW j \in DOMAIN fixups'[s], ~PendingIn(stack, s, j)
               PROVE  Done(s, j)'
    BY DEF MarkedIsDone, Pending, PendingIn, Done
  <2>1. s \in 0..Len(segs) /\ j \in DOMAIN fixups[s] /\ fixups'[s][j] = fixups[s][j]
    BY <1>1, <1>2 DEF TypeOK
  <2>2. Done(s, j)
    BY <1>1, <2>1 DEF IInv, MarkedIsDone, Pending, PendingIn, Done
  <2> QED BY <2>1, <2>2 DEF Done, Resolved, Leads, Declared
<1>6. Passed' \subseteq Passed
  <2> SUFFICES ASSUME NEW p \in Passed' PROVE p \in Passed
    OBVIOUS
  <2>1. PICK s, j : /\ p = <<s, j>> /\ s \in marked \ {0} /\ j \in DOMAIN fixups'[s]
                    /\ Counts(fixups'[s][j]) /\ ~PendingIn(stack, s, j)
    BY DEF Passed, Pending, PendingIn, Counts
  <2>2. j \in DOMAIN fixups[s] /\ fixups'[s][j] = fixups[s][j]
    BY <1>1, <1>2, <2>1 DEF TypeOK
  <2> QED BY <2>1, <2>2, PassedPlaces
<1>7. Phases'
  BY <1>1, RunningIsMarking DEF Phases, AtFixup
<1> QED BY <1>3, <1>4, <1>5, <1>6, <1>7, CountsKeep DEF IInv

\* What CreateSegment does to files, segments and names.
LEMMA CreatedTypes ==
  ASSUME TypeOK, NEW n \in Declared, names[n].kind = "common", NEW fx,
         CreateSegment(n, fx)
  PROVE  /\ files' \in Seq(File) /\ segs' \in Seq(Segment)
         /\ Len(segs') = Len(segs) + 1 /\ Len(segs) \in Nat
         /\ Segments = 1..Len(segs) /\ Segments' = 1..Len(segs')
         /\ names' = [names EXCEPT ![n].seg = Len(segs) + 1]
         /\ marked' = marked \cup {Len(segs) + 1} /\ fixups' = fx
<1> DEFINE f == IF CommonsAreLast THEN Len(files) ELSE Len(files) + 1
           l == names[n].arg
           sg == [file |-> f, name |-> NULL, clazz |-> "bss", dollar |-> <<>>,
                  len |-> l, align |-> Alignment(l)]
           fl == [lib |-> NULL, extrnls |-> <<>>,
                  smart |-> files # <<>> => files[Len(files)].smart,
                  processed |-> FALSE, idata |-> FALSE, commons |-> TRUE]
<1>1. segs' = Append(segs, sg) /\ (files' = files \/ files' = Append(files, fl))
  BY DEF CreateSegment
<1>2. l \in Nat /\ Len(files) \in Nat /\ f \in Nat /\ Len(segs) \in Nat
  BY DEF TypeOK
<1>3. Alignment(l) \in Nat \ {0}
  BY DEF Alignment
<1>4. sg \in Segment
  <2>1. <<>> \in Seq(STRING) /\ NULL \in Address
    BY DEF Address
  <2>2. ASSUME NEW a \in Nat, NEW b \in Nat, NEW c \in Nat \ {0},
               NEW d \in Seq(STRING), NEW e \in Address, NEW g \in Clazz
        PROVE  [file |-> a, name |-> e, clazz |-> g, dollar |-> d,
                len |-> b, align |-> c] \in Segment
    BY DEF Segment
  <2>3. "bss" \in Clazz
    BY DEF Clazz
  <2> HIDE DEF f, l
  <2> QED BY <1>2, <1>3, <2>1, <2>2, <2>3
<1>5. fl \in File
  <2>1. (files # <<>> => files[Len(files)].smart) \in BOOLEAN
    BY Zenon
  <2>2. <<>> \in Seq(Name)
    OBVIOUS
  <2> QED BY <2>1, <2>2 DEF File
<1> HIDE DEF sg, fl
<1>6. files' \in Seq(File) /\ segs' \in Seq(Segment) /\ Len(segs') = Len(segs) + 1
  <2>1. files \in Seq(File) /\ segs \in Seq(Segment)
    BY DEF TypeOK
  <2> QED BY <1>1, <1>4, <1>5, <2>1, AppendProperties
<1>7. Segments = 1..Len(segs) /\ Segments' = 1..Len(segs')
  BY <1>6, LenProperties DEF Segments, TypeOK
<1> QED BY <1>2, <1>6, <1>7 DEF CreateSegment

\* A common variable becomes a segment: nothing leads out of it, and what leads
\* to it through its name finds it marked.
LEMMA CreateKeeps ==
  ASSUME IInv, pc \in {"exports", "all"}, pc' = pc,
         NEW n \in Declared, names[n].kind = "common", names[n].seg = NULL, NEW fx,
         CreateSegment(n, fx),
         fx \in [0..(Len(segs) + 1) -> Seq(Fixup)], fx[Len(segs) + 1] = <<>>,
         \A s \in 0..Len(segs) : DOMAIN fx[s] = DOMAIN fixups[s],
         \A s \in 0..Len(segs) : \A j \in DOMAIN fixups[s] :
           \/ fx[s][j] = fixups[s][j]
           \/ PendingIn(stack', s, j) /\ (fx[s][j].tk = "seg" => fx[s][j].target \in 1..(Len(segs) + 1)),
         stack' \in Seq(Frames(marked)),
         \A t \in marked : \A j \in DOMAIN fixups[t] :
           PendingIn(stack, t, j) => PendingIn(stack', t, j),
         UNCHANGED NFixups, UNCHANGED reading, lookup' \in Name \cup {NULL},
         todo' = todo \/ (todo # <<>> /\ todo' = Tail(todo)), walk' = walk
  PROVE  IInv'
<1>1. TypeOK /\ Pointers /\ pc \in Marking /\ MarkedIsDone
  BY DEF IInv, Marking
<1>2. /\ files' \in Seq(File) /\ segs' \in Seq(Segment)
      /\ Len(segs') = Len(segs) + 1 /\ Len(segs) \in Nat
      /\ Segments = 1..Len(segs) /\ Segments' = 1..Len(segs')
      /\ names' = [names EXCEPT ![n].seg = Len(segs) + 1]
      /\ marked' = marked \cup {Len(segs) + 1} /\ fixups' = fx
  BY <1>1, CreatedTypes
<1>3. NameTypes'
  <2>1. DOMAIN names' = DOMAIN names /\ Segments \subseteq Segments' /\ NameTypes
    BY <1>1, <1>2 DEF TypeOK, NameTypes
  <2>2. names[n] = [kind |-> names[n].kind, seg |-> names[n].seg,
                    off |-> names[n].off, arg |-> names[n].arg]
    BY <2>1 DEF NameTypes, Info
  <2>3. names'[n] = [kind |-> names[n].kind, seg |-> Len(segs) + 1,
                     off |-> names[n].off, arg |-> names[n].arg]
    BY <1>2, <2>2 DEF Declared
  <2>4. ASSUME NEW m \in Declared, m # n PROVE names'[m] = names[m]
    BY <1>2, <2>4 DEF Declared
  <2>5. Len(segs) + 1 \in Segments'
    BY <1>2
  <2>6. ASSUME NEW m \in Declared
        PROVE  /\ names'[m] = Info(names'[m].kind, names'[m].seg, names'[m].off, names'[m].arg)
               /\ names'[m].kind \in {"public", "common", "weak", "import"}
               /\ names'[m].seg \in Segments' \cup {NULL} /\ names'[m].off \in Int
               /\ names'[m].kind = "weak" => names'[m].arg \in Name
               /\ names'[m].kind = "common" => names'[m].arg \in Nat
    <3>1. CASE m = n
      <4>1. /\ names[n].kind \in {"public", "common", "weak", "import"}
            /\ names[n].off \in Int
            /\ names[n].kind = "weak" => names[n].arg \in Name
            /\ names[n].kind = "common" => names[n].arg \in Nat
        BY <2>1 DEF NameTypes
      <4>2. /\ names'[n].kind = names[n].kind /\ names'[n].seg = Len(segs) + 1
            /\ names'[n].off = names[n].off /\ names'[n].arg = names[n].arg
        BY <2>3
      <4> QED BY <2>3, <2>5, <3>1, <4>1, <4>2 DEF Info
    <3>2. CASE m # n
      BY <2>1, <2>4, <3>2 DEF NameTypes, Info
    <3> QED BY <3>1, <3>2
  <2> QED BY <2>1, <2>6 DEF NameTypes, Declared, Info
<1>4. todo' \in Seq(Exported) /\ \A k \in DOMAIN todo' : todo'[k].seg \in Segments \cup {NULL}
  <2>1. CASE todo' = todo
    BY <1>1, <2>1 DEF TypeOK, Pointers
  <2>2. CASE todo # <<>> /\ todo' = Tail(todo)
    <3>1. todo \in Seq(Exported) /\ todo' \in Seq(Exported) /\ Len(todo) = 1 + Len(todo')
          /\ \A k \in 1..Len(todo') : todo'[k] = todo[k + 1]
      BY <1>1, <2>2, HeadTailProperties DEF TypeOK
    <3>2. \A k \in DOMAIN todo' : k + 1 \in DOMAIN todo /\ todo'[k] = todo[k + 1]
      BY <3>1, LenProperties
    <3> QED BY <1>1, <3>1, <3>2 DEF Pointers
  <2> QED BY <2>1, <2>2
<1>5. MarkingTypes'
  <2>1. marked' \subseteq 0..Len(segs') /\ 0 \in marked'
    BY <1>1, <1>2 DEF TypeOK
  <2>2. stack' \in Seq(Frames(marked'))
    <3>1. Frames(marked) \subseteq Frames(marked')
      BY <1>2 DEF Frames
    <3> QED BY <3>1, SeqMonotonic
  <2> QED BY <1>1, <1>4, <2>1, <2>2 DEF MarkingTypes, Frames, TypeOK
<1>6. TypeOK'
  <2>1. TypesAnd'
    BY <1>1, <1>2 DEF TypeOK, TypesAnd, reading
  <2> QED BY <1>3, <1>5, <2>1 DEF TypeOK, TypesAnd, NameTypes, MarkingTypes
<1>7. Pointers'
  <2>1. ASSUME NEW s \in 0..Len(segs'), NEW j \in DOMAIN fixups'[s]
        PROVE  Pointed(fixups[s][j])'
    <3>1. s \in 0..Len(segs)
      BY <1>2, <2>1
    <3>2. j \in DOMAIN fixups[s]
      BY <1>2, <2>1, <3>1
    <3> QED BY <1>1, <1>2, <3>1, <3>2 DEF Pointers, Pointed, Known1
  <2>2. exports' = exports
    BY DEF reading
  <2> QED BY <1>1, <1>2, <1>4, <2>1, <2>2 DEF Pointers
<1>8. ASSUME NEW s \in marked', NEW j \in DOMAIN fixups'[s], ~PendingIn(stack', s, j)
      PROVE  /\ s \in marked /\ j \in DOMAIN fixups[s] /\ fixups'[s][j] = fixups[s][j]
             /\ ~PendingIn(stack, s, j)
  <2>1. s \in marked /\ s \in 0..Len(segs)
    BY <1>1, <1>2, <1>8 DEF TypeOK
  <2> QED BY <1>2, <1>8, <2>1
<1>9. MarkedIsDone'
  <2> SUFFICES ASSUME NEW s \in marked', NEW j \in DOMAIN fixups'[s], ~PendingIn(stack', s, j)
               PROVE  Done(s, j)'
    BY DEF MarkedIsDone, Pending, PendingIn, Done
  <2>1. fixups'[s][j] = fixups[s][j] /\ Done(s, j)
    BY <1>1, <1>8 DEF MarkedIsDone, Pending, PendingIn, Done
  <2>2. DOMAIN names' = DOMAIN names
        /\ \A m \in Declared : names'[m].seg \in {names[m].seg, Len(segs) + 1}
    BY <1>1, <1>2 DEF TypeOK, Declared, Info
  <2> QED BY <1>2, <2>1, <2>2 DEF Done, Resolved, Leads, Declared
<1>10. Passed' \subseteq Passed
  <2> SUFFICES ASSUME NEW p \in Passed' PROVE p \in Passed
    OBVIOUS
  <2>1. PICK s, j : /\ p = <<s, j>> /\ s \in marked' \ {0} /\ j \in DOMAIN fixups'[s]
                    /\ Counts(fixups'[s][j]) /\ ~PendingIn(stack', s, j)
    BY DEF Passed, Pending, PendingIn, Counts
  <2> QED BY <1>8, <2>1, PassedPlaces
<1>11. Phases'
  BY DEF Phases
<1> QED BY <1>6, <1>7, <1>9, <1>10, <1>11, CountsKeep DEF IInv

-----------------------------------------------------------------------------
(* Resolving a name. *)

LEMMA SoughtTypes ==
  ASSUME IInv, ByName
  PROVE  /\ AtFixup /\ TypeOK /\ pc \in {"exports", "all"} /\ pc \in Marking
         /\ Sought \in Declared =>
              /\ Sought \in Name /\ names[Sought].seg \in Segments \cup {NULL}
              /\ names[Sought].off \in Int
              /\ names[Sought].kind = "weak" => names[Sought].arg \in Name
<1>1. AtFixup /\ TypeOK /\ pc \in {"exports", "all"} /\ pc \in Marking
  BY RunningIsMarking DEF ByName, AtFixup
<1> QED BY <1>1 DEF TypeOK

LEMMA ResolveForwardKeeps ==
  ASSUME IInv, ResolveForward PROVE IInv'
<1>1. /\ AtFixup /\ TypeOK /\ pc \in Marking
  BY RunningIsMarking DEF ResolveForward, AtFixup
<1> DEFINE later == {s \in InFile(segs[Top.seg].file) :
                       s > Top.seg /\ segs[s].name = Fx.target}
<1>2. CASE pc' = "aborted" /\ UNCHANGED fixups
  <2>1. Quiet
    BY <1>1, <1>2 DEF ResolveForward, still, reading, roots, Quiet, TypeOK
  <2> QED BY <1>1, <1>2, <2>1, QuietKeeps
<1>3. CASE later # {} /\ fixups' = Retarget(fixups, "seg", Least(later), 0) /\ pc' = pc
  <2>1. later \in SUBSET Segments
    BY DEF InFile
  <2>2. UNCHANGED <<files, segs, names, marked, stack, NFixups, reading, walk>>
        /\ todo' = todo /\ lookup' \in Name \cup {NULL}
    BY <1>1 DEF ResolveForward, roots, TypeOK
  <2> HIDE DEF later
  <2>3. Least(later) \in Segments /\ Segments \subseteq 0..Len(segs)
    BY <1>1, <1>3, <2>1, FirstProperties
  <2>4. Least(later) \in Name \cup Address
    <3>1. Len(segs) \in Nat /\ Segments = 1..Len(segs)
      BY <1>1 DEF TypeOK, Segments
    <3>2. Least(later) \in Nat
      BY <2>3, <3>1
    <3> QED BY <3>2 DEF Address
  <2>5. "seg" \in TargetKind /\ 0 \in Int
    BY DEF TargetKind
  <2> QED BY <1>1, <1>3, <2>2, <2>3, <2>4, <2>5, ResolveKeeps
<1> QED BY <1>2, <1>3 DEF ResolveForward

LEMMA ResolveUndefinedKeeps ==
  ASSUME IInv, ResolveUndefined PROVE IInv'
<1>1. AtFixup
  BY SoughtTypes DEF ResolveUndefined
<1>2. NULL \in Name \cup Address /\ "invalid" \in TargetKind /\ "invalid" # "seg"
  BY DEF Address, TargetKind
<1>3. /\ UNCHANGED <<files, segs, names, marked, stack, NFixups, reading, walk>>
      /\ todo' = todo /\ lookup' \in Name \cup {NULL} /\ pc' = pc
      /\ fixups' = Retarget(fixups, "invalid", NULL, 0)
  BY DEF ResolveUndefined, Steady, roots
<1> QED BY <1>1, <1>2, <1>3, ResolveKeeps

LEMMA ResolveDefinedKeeps ==
  ASSUME IInv, ResolveDefined PROVE IInv'
<1>1. /\ AtFixup /\ names[Sought].seg \in Segments /\ names[Sought].off \in Int /\ TypeOK
  BY SoughtTypes DEF ResolveDefined
<1>2. names[Sought].seg \in Name \cup Address /\ "seg" \in TargetKind
  BY <1>1 DEF Address, Segments, TypeOK, TargetKind
<1>3. /\ UNCHANGED <<files, segs, names, marked, stack, NFixups, reading, walk>>
      /\ todo' = todo /\ lookup' \in Name \cup {NULL} /\ pc' = pc
      /\ fixups' = Retarget(fixups, "seg", names[Sought].seg, names[Sought].off)
  BY DEF ResolveDefined, Steady, roots
<1> QED BY <1>1, <1>2, <1>3, ResolveKeeps

LEMMA ResolveImportKeeps ==
  ASSUME IInv, ResolveImport PROVE IInv'
<1>1. AtFixup /\ Sought \in Name
  BY SoughtTypes DEF ResolveImport, Known
<1>2. Sought \in Name \cup Address /\ "import" \in TargetKind /\ "import" # "seg"
  BY <1>1 DEF TargetKind
<1>3. /\ UNCHANGED <<files, segs, names, marked, stack, NFixups, reading, walk>>
      /\ todo' = todo /\ lookup' \in Name \cup {NULL} /\ pc' = pc
      /\ fixups' = Retarget(fixups, "import", Sought, 0)
  BY DEF ResolveImport, Steady, roots
<1> QED BY <1>1, <1>2, <1>3, ResolveKeeps

\* A weak name only sends the loop on to another one.
LEMMA ResolveWeakKeeps ==
  ASSUME IInv, ResolveWeak PROVE IInv'
<1>1. /\ pc' = pc /\ pc \in {"exports", "all"} /\ pc \in Marking /\ TypeOK
      /\ lookup' \in Name \cup {NULL}
  BY SoughtTypes DEF ResolveWeak, Known, Steady
<1>2. Quiet
  BY <1>1 DEF ResolveWeak, Steady, roots, still, reading, Quiet, TypeOK
<1> QED BY <1>1, <1>2, QuietKeeps

LEMMA ResolveAbsoluteKeeps ==
  ASSUME IInv, ResolveAbsolute PROVE IInv'
<1>1. pc \in Marking /\ pc' = "aborted" /\ TypeOK
  BY SoughtTypes DEF ResolveAbsolute
<1>2. Quiet
  BY <1>1 DEF ResolveAbsolute, still, reading, roots, Quiet, TypeOK
<1> QED BY <1>1, <1>2, QuietKeeps

\* Grown only makes room for a segment without fixups.
LEMMA GrownProperties ==
  ASSUME TypeOK
  PROVE  /\ Grown \in [0..(Len(segs) + 1) -> Seq(Fixup)] /\ Grown[Len(segs) + 1] = <<>>
         /\ \A s \in 0..Len(segs) : Grown[s] = fixups[s]
         /\ Len(segs) \in Nat
<1>1. Len(segs) \in Nat /\ fixups \in [0..Len(segs) -> Seq(Fixup)]
  BY LenProperties DEF TypeOK
<1>2. Grown = [s \in 0..(Len(segs) + 1) |->
                 IF s \in 0..Len(segs) THEN fixups[s] ELSE <<>>]
  BY <1>1 DEF Grown
<1> QED BY <1>1, <1>2

LEMMA ResolveCommonKeeps ==
  ASSUME IInv, ResolveCommon PROVE IInv'
<1>1. /\ AtFixup /\ TypeOK /\ pc \in {"exports", "all"} /\ stack # <<>>
      /\ Sought \in Declared /\ names[Sought].kind = "common" /\ names[Sought].seg = NULL
  BY SoughtTypes, RunningIsMarking DEF ResolveCommon, Known, ByName, AtFixup
<1> DEFINE L == Len(segs) + 1
           fx == Retarget(Grown, "seg", L, 0)
<1>2. /\ Grown \in [0..L -> Seq(Fixup)] /\ Grown[L] = <<>>
      /\ \A s \in 0..Len(segs) : Grown[s] = fixups[s]
      /\ Len(segs) \in Nat
  BY <1>1, GrownProperties
<1>3. L \in Nat /\ Len(segs) <= L /\ L \in Name \cup Address /\ "seg" \in TargetKind /\ 0 \in Int
      /\ 0..Len(segs) \subseteq 0..L /\ L \in 0..L /\ L \notin 0..Len(segs) /\ L \in 1..L
  BY <1>2 DEF Address, TargetKind
<1>4. Top.seg \in 0..Len(segs)
  BY <1>1, PlaceProperties
<1> HIDE DEF L
<1>5. /\ fx \in [0..L -> Seq(Fixup)]
      /\ \A s \in 0..L : DOMAIN fx[s] = DOMAIN Grown[s]
      /\ \A s \in 0..L : \A j \in DOMAIN Grown[s] :
           \/ fx[s][j] = Grown[s][j]
           \/ /\ s = Top.seg /\ j = Top.at /\ PendingIn(stack, s, j)
              /\ fx[s][j].tk = "seg" /\ fx[s][j].target = L
  <2>1. Retargeted(fx, Grown, L, "seg", L)
    BY <1>1, <1>2, <1>3, RetargetProperties
  <2> HIDE DEF fx
  <2> QED BY <2>1 DEF Retargeted
<1>6. fx[L] = <<>>
  BY <1>2, <1>3, <1>4, <1>5 DEF Retarget
<1>7. /\ CreateSegment(Sought, fx) /\ stack' = stack /\ NFixups' = NFixups
      /\ UNCHANGED reading /\ lookup' \in Name \cup {NULL} /\ todo' = todo
      /\ walk' = walk /\ pc' = pc
  BY DEF ResolveCommon, Steady, roots, L
<1>8. stack' \in Seq(Frames(marked))
  BY <1>1, <1>7 DEF TypeOK, Frames
<1> HIDE DEF fx
<1>9. /\ \A s \in 0..Len(segs) : DOMAIN fx[s] = DOMAIN fixups[s]
      /\ \A s \in 0..Len(segs) : \A j \in DOMAIN fixups[s] :
           \/ fx[s][j] = fixups[s][j]
           \/ PendingIn(stack', s, j) /\ (fx[s][j].tk = "seg" => fx[s][j].target \in 1..L)
  <2>1. ASSUME NEW s \in 0..Len(segs)
        PROVE  /\ s \in 0..L /\ Grown[s] = fixups[s] /\ DOMAIN fx[s] = DOMAIN fixups[s]
    BY <1>2, <1>3, <1>5
  <2>2. ASSUME NEW s \in 0..Len(segs), NEW j \in DOMAIN fixups[s]
        PROVE  \/ fx[s][j] = fixups[s][j]
               \/ PendingIn(stack', s, j) /\ (fx[s][j].tk = "seg" => fx[s][j].target \in 1..L)
    <3>1. s \in 0..L /\ j \in DOMAIN Grown[s] /\ Grown[s][j] = fixups[s][j]
      BY <2>1
    <3>2. \/ fx[s][j] = Grown[s][j]
          \/ PendingIn(stack, s, j) /\ fx[s][j].target = L
      BY <1>5, <3>1
    <3> QED BY <1>3, <1>7, <3>1, <3>2
  <2> QED BY <2>1, <2>2
<1>10. \A t \in marked : \A j \in DOMAIN fixups[t] :
         PendingIn(stack, t, j) => PendingIn(stack', t, j)
  BY <1>7
<1> QED BY <1>1, <1>5, <1>6, <1>7, <1>8, <1>9, <1>10, CreateKeeps DEF L

LEMMA CollectNameKeeps ==
  ASSUME IInv, pc \in {"exports", "all"}, pc' = pc, NEW n, NEW rest \in Seq(Frames(marked)),
         \A t \in marked : \A j \in DOMAIN fixups[t] :
           PendingIn(stack, t, j) => PendingIn(rest, t, j),
         CollectName(n, rest),
         UNCHANGED NFixups, UNCHANGED reading, lookup' = lookup,
         todo' = todo \/ (todo # <<>> /\ todo' = Tail(todo)), walk' = walk
  PROVE  IInv'
<1>1. /\ TypeOK /\ walk' \in [at : Nat, inside : BOOLEAN, changed : BOOLEAN]
      /\ lookup' \in Name \cup {NULL}
  BY DEF IInv, TypeOK
<1>2. CASE n \notin Declared
  <2>1. /\ Visit(NULL, rest) /\ UNCHANGED <<segs, fixups, names, lookup, NFixups>>
        /\ files' \in Seq(File)
    BY <1>1, <1>2 DEF CollectName, Visit, TypeOK
  <2> QED BY <1>1, <2>1, VisitKeeps
<1>3. CASE n \in Declared /\ names[n].kind = "common" /\ names[n].seg = NULL
  <2>1. CreateSegment(n, Grown) /\ stack' = rest
    BY <1>3 DEF CollectName
  <2>2. /\ Grown \in [0..(Len(segs) + 1) -> Seq(Fixup)] /\ Grown[Len(segs) + 1] = <<>>
        /\ \A s \in 0..Len(segs) : Grown[s] = fixups[s]
    BY <1>1, GrownProperties
  <2> QED BY <1>1, <1>3, <2>1, <2>2, CreateKeeps
<1>4. CASE n \in Declared /\ ~(names[n].kind = "common" /\ names[n].seg = NULL)
  <2>1. /\ Visit(names[n].seg, rest) /\ UNCHANGED <<segs, fixups, names, lookup, NFixups>>
        /\ files' \in Seq(File)
    BY <1>1, <1>4 DEF CollectName, TypeOK
  <2>2. names[n].seg \in 0..Len(segs) \cup {NULL}
    BY <1>1, <1>4 DEF TypeOK, Segments
  <2> QED BY <1>1, <2>1, <2>2, VisitKeeps
<1> QED BY <1>2, <1>3, <1>4

LEMMA CollectExternalKeeps ==
  ASSUME IInv, CollectExternal PROVE IInv'
<1>1. /\ TypeOK /\ pc \in {"exports", "all"} /\ Running /\ Top.at > Places /\ pc \in Marking
  <2>1. Running /\ Top.at = Places + 2
    BY DEF CollectExternal, Past
  <2> QED BY <2>1, RunningIsMarking, TopProperties
<1> DEFINE e == files[segs[Top.seg].file].extrnls
<1>2. UNCHANGED <<reading, roots, lookup, NFixups>>
  BY DEF CollectExternal
<1>3. CASE /\ pc' = "aborted"
           /\ UNCHANGED <<files, segs, fixups, names, marked, used, errors, stack>>
  <2>1. Quiet
    BY <1>1, <1>2, <1>3 DEF still, reading, roots, Quiet, TypeOK
  <2> QED BY <1>1, <1>3, <2>1, QuietKeeps
<1>4. CASE CollectName(Head(e), On(1)) /\ pc' = pc
  <2>1. todo' = todo /\ walk' = walk
    BY <1>2 DEF roots
  <2>2. /\ On(1) \in Seq(Frames(marked))
        /\ \A t \in marked : \A j \in DOMAIN fixups[t] :
             PendingIn(stack, t, j) => PendingIn(On(1), t, j)
    BY <1>1, PastProperties
  <2> HIDE DEF e
  <2> QED BY <1>1, <1>2, <1>4, <2>1, <2>2, CollectNameKeeps
<1> QED BY <1>3, <1>4 DEF CollectExternal

-----------------------------------------------------------------------------
(* The steps of PrepareSections and CollectAll. *)

\* Nothing waits when there is no activation.
LEMMA NoneWaits ==
  ASSUME stack = <<>>
  PROVE  /\ <<>> \in Seq(Frames(marked))
         /\ \A t, j : ~PendingIn(stack, t, j)
BY DEF PendingIn

LEMMA EntryFirstKeeps ==
  ASSUME IInv, EntryFirst PROVE IInv'
<1>1. /\ TypeOK /\ Pointers /\ marked = {0} /\ stack = <<>> /\ pc' = "exports"
      /\ UNCHANGED <<files, segs, fixups, names, marked, lookup, walk, NFixups>>
      /\ UNCHANGED reading /\ todo' = exports
      /\ stack' = IF fixups[0] = <<>> THEN <<>> ELSE <<Frame(0)>>
  BY DEF IInv, Phases, EntryFirst, Idle, kept
<1>2. stack' \in Seq(Frames(marked'))
  <2>1. Frame(0) \in Frames(marked')
    BY <1>1 DEF Frame, Frames
  <2>2. ASSUME NEW S, NEW x \in S PROVE <<x>> \in Seq(S) /\ <<>> \in Seq(S)
    OBVIOUS
  <2> QED BY <1>1, <2>1, <2>2
<1>3. TypeOK' /\ Pointers'
  <2>1. /\ files' \in Seq(File) /\ NFixups' \in Nat /\ lookup' \in Name \cup {NULL}
        /\ marked \subseteq marked' /\ marked' \subseteq 0..Len(segs)
        /\ walk' \in [at : Nat, inside : BOOLEAN, changed : BOOLEAN]
    BY <1>1 DEF TypeOK
  <2> QED BY <1>1, <1>2, <2>1, Stills
<1>4. MarkedIsDone'
  <2> SUFFICES ASSUME NEW j \in DOMAIN fixups[0] PROVE PendingIn(stack', 0, j)
    BY <1>1 DEF MarkedIsDone, Pending, PendingIn
  <2>1. fixups[0] \in Seq(Fixup)
    BY <1>1 DEF TypeOK
  <2>2. j \in Nat \ {0} /\ fixups[0] # <<>>
    BY <2>1, LenProperties, EmptySeq
  <2>3. stack' = <<Frame(0)>>
    BY <1>1, <2>2
  <2>4. 1 \in DOMAIN stack' /\ stack'[1] = Frame(0)
    BY <2>3
  <2>5. Frame(0).seg = 0 /\ Frame(0).at = 1
    BY DEF Frame
  <2> QED BY <2>2, <2>4, <2>5 DEF PendingIn
<1>5. Passed' = {}
  BY <1>1 DEF Passed
<1>6. Counted'
  BY <1>3, <1>5, FS_EmptySet DEF Counted, FixNeverOverrun, TypeOK
<1> QED BY <1>1, <1>3, <1>4, <1>6 DEF IInv, Phases

LEMMA ExportNextKeeps ==
  ASSUME IInv, ExportNext PROVE IInv'
<1>1. /\ TypeOK /\ Pointers /\ pc = "exports" /\ pc' = pc /\ stack = <<>>
      /\ todo # <<>> /\ todo' = Tail(todo) /\ walk' = walk /\ lookup' = lookup
      /\ UNCHANGED NFixups /\ UNCHANGED reading
      /\ walk' \in [at : Nat, inside : BOOLEAN, changed : BOOLEAN]
  BY DEF IInv, ExportNext, Idle, TypeOK
<1>2. <<>> \in Seq(Frames(marked)) /\ \A t, j : ~PendingIn(stack, t, j)
  BY <1>1, NoneWaits
<1>3. CASE Head(todo).seg # NULL
  <2>1. Head(todo).seg \in Segments
    <3>1. todo \in Seq(Exported)
      BY <1>1 DEF TypeOK
    <3>2. 1 \in DOMAIN todo /\ Head(todo) = todo[1]
      BY <1>1, <3>1
    <3> QED BY <1>1, <1>3, <3>2 DEF Pointers
  <2>2. Head(todo).seg \in 0..Len(segs)
    BY <1>1, <2>1 DEF TypeOK, Segments
  <2>3. /\ VisitAgain(Head(todo).seg, <<>>) /\ UNCHANGED <<segs, fixups, names, lookup, NFixups>>
        /\ files' \in Seq(File)
    BY <1>1, <1>3 DEF ExportNext, TypeOK
  <2> QED BY <1>1, <1>2, <1>3, <2>2, <2>3, VisitKeeps
<1>4. CASE Head(todo).seg = NULL
  <2>1. CollectName(Head(todo).int, <<>>)
    BY <1>4 DEF ExportNext
  <2> QED BY <1>1, <1>2, <2>1, CollectNameKeeps
<1> QED BY <1>3, <1>4

LEMMA ExportsEndKeeps ==
  ASSUME IInv, ExportsEnd PROVE IInv'
<1>1. /\ pc \in Marking /\ pc' \in Marking /\ stack = <<>> /\ TypeOK
  BY DEF IInv, ExportsEnd, Idle, Marking
<1>2. Quiet
  BY <1>1 DEF ExportsEnd, kept, roots, reading, still, Quiet, TypeOK
<1> QED BY <1>1, <1>2, QuietKeeps

LEMMA WalkTypes ==
  ASSUME NEW w \in [at : Nat, inside : BOOLEAN, changed : BOOLEAN], NEW x,
         \/ x = w \/ x = [w EXCEPT !.inside = TRUE] \/ x = [w EXCEPT !.changed = TRUE]
         \/ x = [w EXCEPT !.at = @ + 1] \/ x = [w EXCEPT !.inside = FALSE, !.at = @ + 1]
         \/ x = [w EXCEPT !.at = 1, !.changed = FALSE]
  PROVE  x \in [at : Nat, inside : BOOLEAN, changed : BOOLEAN]
<1>1. w.at + 1 \in Nat /\ 1 \in Nat
  OBVIOUS
<1> QED BY <1>1, Zenon

LEMMA AllNextFileKeeps ==
  ASSUME IInv, AllNextFile PROVE IInv'
<1>1. /\ pc = "all" /\ pc' = pc /\ TypeOK
  BY DEF IInv, AllNextFile, Idle
<1>2. walk' \in [at : Nat, inside : BOOLEAN, changed : BOOLEAN]
  <2>1. walk \in [at : Nat, inside : BOOLEAN, changed : BOOLEAN]
    BY <1>1 DEF TypeOK
  <2>2. walk' = [walk EXCEPT !.inside = TRUE] \/ walk' = [walk EXCEPT !.at = @ + 1]
    BY DEF AllNextFile
  <2> QED BY <2>1, <2>2, WalkTypes, Zenon
<1>3. Quiet
  BY <1>1, <1>2 DEF AllNextFile, kept, reading, still, Quiet, TypeOK
<1> QED BY <1>1, <1>3, QuietKeeps DEF Marking

LEMMA AllNextSegmentKeeps ==
  ASSUME IInv, AllNextSegment PROVE IInv'
<1>1. /\ TypeOK /\ pc = "all" /\ pc' = pc /\ stack = <<>> /\ todo' = todo
      /\ UNCHANGED <<segs, fixups, names, lookup, NFixups>> /\ UNCHANGED reading
  BY DEF IInv, AllNextSegment, Idle
<1>2. <<>> \in Seq(Frames(marked)) /\ \A t, j : ~PendingIn(stack, t, j)
  BY <1>1, NoneWaits
<1>3. walk' \in [at : Nat, inside : BOOLEAN, changed : BOOLEAN]
  <2>1. walk \in [at : Nat, inside : BOOLEAN, changed : BOOLEAN]
    BY <1>1 DEF TypeOK
  <2>2. \/ walk' = [walk EXCEPT !.changed = TRUE]
        \/ walk' = [walk EXCEPT !.inside = FALSE, !.at = @ + 1]
    BY DEF AllNextSegment
  <2> QED BY <2>1, <2>2, WalkTypes, Zenon
<1> DEFINE left == {s \in InFile(walk.at) : isLinkable(s) /\ s \notin marked}
<1>4. CASE left # {} /\ VisitAgain(Least(left), <<>>) /\ files' = files
  <2>1. left \in SUBSET Segments
    BY DEF InFile
  <2> HIDE DEF left
  <2>2. Least(left) \in 0..Len(segs) /\ Least(left) # NULL
    BY <1>1, <1>4, <2>1, FirstProperties, CollectAssumption
  <2>3. files' \in Seq(File)
    BY <1>1, <1>4 DEF TypeOK
  <2> QED BY <1>1, <1>2, <1>3, <1>4, <2>2, <2>3, VisitKeeps
<1>5. CASE /\ files' = [files EXCEPT ![walk.at].processed = TRUE]
           /\ UNCHANGED <<marked, stack>>
  <2>1. Visit(NULL, <<>>)
    BY <1>1, <1>5 DEF Visit
  <2>2. files' \in Seq(File)
    BY <1>1, <1>5, FileChanged DEF TypeOK
  <2> QED BY <1>1, <1>2, <1>3, <2>1, <2>2, VisitKeeps
<1> QED BY <1>4, <1>5 DEF AllNextSegment

LEMMA AllPassEndsKeeps ==
  ASSUME IInv, AllPassEnds PROVE IInv'
<1>1. pc \in Marking /\ pc' \in Marking /\ stack = <<>> /\ TypeOK
  BY DEF IInv, AllPassEnds, Idle, Marking
<1>2. walk' \in [at : Nat, inside : BOOLEAN, changed : BOOLEAN]
  <2>1. walk \in [at : Nat, inside : BOOLEAN, changed : BOOLEAN]
    BY <1>1 DEF TypeOK
  <2>2. walk' = [walk EXCEPT !.at = 1, !.changed = FALSE] \/ walk' = walk
    BY DEF AllPassEnds
  <2> QED BY <2>1, <2>2, WalkTypes, Zenon
<1>3. Quiet
  BY <1>1, <1>2 DEF AllPassEnds, kept, reading, still, Quiet, TypeOK
<1> QED BY <1>1, <1>3, QuietKeeps

-----------------------------------------------------------------------------
(* The theorems. *)

LEMMA InitHolds == Init => IInv
<1> SUFFICES ASSUME Init PROVE IInv
  OBVIOUS
<1>1. Len(segs) = 0 /\ fixups \in [0..0 -> Seq(Fixup)] /\ fixups[0] = <<>>
  BY DEF Init
<1>2. TypeOK
  BY <1>1, InputsAssumption DEF Init, TypeOK, Declared
<1>3. Pointers /\ Phases /\ MarkedIsDone
  BY <1>1 DEF Init, Pointers, Phases, MarkedIsDone, Marking
<1>4. Passed = {}
  BY DEF Init, Passed
<1> QED BY <1>2, <1>3, <1>4, FS_EmptySet DEF IInv, Counted, FixNeverOverrun, TypeOK

LEMMA NextKeeps == IInv /\ [CollectNext]_cvars => IInv'
<1> SUFFICES ASSUME IInv, [CollectNext]_cvars PROVE IInv'
  OBVIOUS
<1>1. CASE Reading
  BY <1>1, ReadingKeeps
<1>2. CASE Collecting
  BY <1>2, ResolveForwardKeeps, ResolveUndefinedKeeps, ResolveDefinedKeeps,
     ResolveCommonKeeps, ResolveWeakKeeps, ResolveImportKeeps, ResolveAbsoluteKeeps,
     CollectFixupKeeps, CollectDescriptorKeeps, CollectExternalKeeps,
     CollectAddressesKeeps, ReturnKeeps, EntryFirstKeeps, ExportNextKeeps,
     ExportsEndKeeps, AllNextFileKeeps, AllNextSegmentKeeps, AllPassEndsKeeps
     DEF Collecting
<1>3. CASE UNCHANGED cvars
  <2>1. /\ UNCHANGED <<input, files, segs, fixups, names, exports, pc, marked, stack>>
        /\ UNCHANGED <<lookup, todo, walk, NFixups>>
    BY <1>3 DEF cvars
  <2>2. TypeOK' /\ Pointers' /\ Phases'
    BY <2>1 DEF IInv, TypeOK, Pointers, Phases, Segments, Declared, Pointed, Known1, Info
  <2>3. MarkedIsDone'
    BY <2>1 DEF IInv, MarkedIsDone, Pending, Resolved, Leads, Declared
  <2>4. Passed' = Passed
    BY <2>1 DEF Passed, Pending, Counts
  <2> QED BY <2>1, <2>2, <2>3, <2>4 DEF IInv, Counted, FixNeverOverrun
<1> QED BY <1>1, <1>2, <1>3 DEF CollectNext

LEMMA Invariance == Spec => []IInv
<1> QED BY InitHolds, NextKeeps, PTL DEF Spec

\* Every segment number, name and place that marking uses is one that the object
\* files have declared, whatever they contain and however marking recurses
\* (struct.cpp:1097-1233).
THEOREM TypesRight == Spec => []TypeOK
<1>1. IInv => TypeOK
  BY DEF IInv
<1> QED BY <1>1, Invariance, PTL

\* At every moment of the recursion of CollectSegments and CollectFixup, a fixup
\* of a marked segment waits for an activation or is done
\* (struct.cpp:1097-1157, 1183-1213).
THEOREM NothingForgotten == Spec => []MarkedIsDone
<1>1. IInv => MarkedIsDone
  BY DEF IInv
<1> QED BY <1>1, Invariance, PTL

LEMMA ClosedThen == IInv => Closed
<1> SUFFICES ASSUME IInv, pc = "collected", NEW s \in marked, NEW j \in DOMAIN fixups[s]
             PROVE  Resolved(fixups[s][j]) /\ Leads(fixups[s][j]) \subseteq marked
  BY DEF Closed
<1>1. stack = <<>> /\ pc \in Marking
  BY DEF IInv, Phases, Marking
<1>2. ~Pending(s, j)
  BY <1>1 DEF Pending
<1> QED BY <1>1, <1>2 DEF IInv, MarkedIsDone

\* When PrepareSections is through with marking (struct.cpp:1049), no segment of
\* the image refers to one outside of it.
THEOREM ImageClosed == Spec => []Closed
<1> QED BY ClosedThen, Invariance, PTL

\* Fix, allocated for NFixups relocations (struct.cpp:1835), has room for each
\* relocation that ProcessFixup makes of a fixup passed by CollectFixup.
THEOREM FixHasRoom == Spec => []FixNeverOverrun
<1>1. IInv => FixNeverOverrun
  BY DEF IInv, Counted
<1> QED BY <1>1, Invariance, PTL
=============================================================================
