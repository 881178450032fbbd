------------------------------- MODULE Collect -------------------------------
(***************************************************************************)
(* The front half of the linker: xLink/src/struct.cpp as link.cpp drives   *)
(* it.  The readers declare files, segments, fixups, names and exports;    *)
(* PrepareSections then marks the segments that go into the image.         *)
(*                                                                         *)
(* Reading takes the records of the object files one by one from input.    *)
(* Marking is the code's recursion over CollectSegments and CollectFixup   *)
(* with its stack made explicit: a frame is a segment and the place in it, *)
(* that is the number of a fixup or, past the last fixup, one of the three *)
(* steps of the code's hack for COFF imports.  Segment 0 stands for the    *)
(* caller: its only fixup is EntryPoint.                                   *)
(***************************************************************************)
EXTENDS Integers, Sequences, FiniteSets

CONSTANTS
  Name,    \* identifiers: public, common, weak, imported and external names
  Inputs,  \* what may be read: sequences of object file records
  NULL     \* no segment, no library, no name

ASSUME CollectAssumption == NULL \notin Name /\ NULL \notin Nat

VARIABLES
  input,    \* the records not read yet
  files,    \* FileList
  segs,     \* all segments in the order of their creation
  fixups,   \* fixups[s]: the fixups of segment s; fixups[0]: EntryPoint
  names,    \* NAMES: what is known of the names declared so far
  used,     \* the names with K_USED
  exports,  \* Exports, in the order of the table's insertions
  pc,       \* where Link() is
  marked,   \* the segments with sf_processed, and 0
  stack,    \* activations of CollectSegments, the running one first
  lookup,   \* name in resolveFixupTarget's loop, NULL before the first turn
  todo,     \* exports that PrepareSections has not come to
  walk,     \* CollectAll: the file it is at, inside it or not, changed
  errors,   \* names about which an error has been reported
  NFixups   \* relocations counted

cvars == <<input, files, segs, fixups, names, used, exports, pc, marked, stack,
           lookup, todo, walk, errors, NFixups>>
reading == <<input, exports>>
roots == <<todo, walk>>

Files == DOMAIN files
Segments == DOMAIN segs
Declared == DOMAIN names
Current == Len(files)

(* What the variables hold.  ref and addend of a fixup are what the object *)
(* file says of it, kept beside what resolving makes of it: history.       *)
Address == Nat \cup {NULL}
Entry == [dll : Name, func : BOOLEAN, as : Name]
File == [lib : Name \cup {NULL}, smart : BOOLEAN, extrnls : Seq(Name),
         processed : BOOLEAN, idata : BOOLEAN, commons : BOOLEAN]
Clazz == {"code", "code16", "data", "bss", "const", "idata", "debug"}
Segment == [file : Nat, name : Address, clazz : Clazz, dollar : Seq(STRING),
            len : Nat, align : Nat \ {0}]
FixupKind == {"address32", "selfrel", "offset32nb", "far", "tdindex", "string"}
TargetKind == {"seg", "id", "fwd", "import", "invalid", "target32"}
Fixup == [kind : FixupKind, tk : TargetKind, target : Name \cup Address,
          off : Int, ref : Name \cup {NULL}, addend : Int]
Exported == [ext : Name, int : Name, seg : Address, ordinal : Nat,
             flag : SUBSET Nat]

\* What the readers make of an object file's records; no absolute segments, of
\* which the OMF reader makes segments of alignment 0.
ObjectRecord ==
  [op : {"file"}, lib : Name \cup {NULL}, smart : BOOLEAN, extrnls : Seq(Name)]
  \cup [op : {"segment"}, name : Address, clazz : Clazz, dollar : Seq(STRING),
        len : Nat, align : Nat \ {0}]
  \cup [op : {"fixup"}, seg : Nat, fixup : Fixup]
  \cup [op : {"entry"}, fixup : Fixup]
  \cup [op : {"public"}, name : Name, seg : Address, off : Int]
  \cup [op : {"common"}, name : Name, len : Nat]
  \cup [op : {"import"}, name : Name, entry : Entry]
  \cup [op : {"weak"}, name : Name, def : Name]
  \cup [op : {"export"}, export : Exported]

ASSUME InputsAssumption == Inputs \subseteq Seq(ObjectRecord)

Init ==
  /\ input \in Inputs
  /\ files = <<>> /\ segs = <<>> /\ exports = <<>>
  /\ fixups = [s \in {0} |-> <<>>]
  /\ names = [n \in {} |-> NULL]
  /\ pc = "reading"
  /\ marked = {0} /\ stack = <<>> /\ lookup = NULL
  /\ todo = <<>> /\ walk = [at |-> 1, inside |-> FALSE, changed |-> FALSE]
  /\ used = {} /\ errors = {} /\ NFixups = 0

-----------------------------------------------------------------------------
(* Reading: one action per kind of record. *)

\* The next record is of kind op; r is that record.
Next1(op) == pc = "reading" /\ input # <<>> /\ Head(input).op = op
Took == input' = Tail(input)
marking == <<pc, marked, stack, lookup, roots, used, NFixups>>

\* fixups with room for one more segment.
Grown ==
  [s \in 0..(Len(segs) + 1) |-> IF s \in DOMAIN fixups THEN fixups[s] ELSE <<>>]

\* Records refer to segments by pointers to what has been read before.
Known1(s) == s \in Segments
Pointed(f) == f.tk = "seg" => Known1(f.target)

NewFile ==
  /\ Next1("file") /\ Took
  /\ files' = Append(files, [lib |-> Head(input).lib,
                             smart |-> Head(input).smart,
                             extrnls |-> Head(input).extrnls,
                             processed |-> FALSE, idata |-> FALSE,
                             commons |-> FALSE])
  /\ UNCHANGED <<segs, fixups, names, exports, errors, marking>>

NewSegment ==
  /\ Next1("segment") /\ Took /\ files # <<>>
  /\ segs' = Append(segs, [file |-> Current, name |-> Head(input).name,
                           clazz |-> Head(input).clazz,
                           dollar |-> Head(input).dollar,
                           len |-> Head(input).len,
                           align |-> Head(input).align])
  /\ fixups' = Grown
  /\ UNCHANGED <<files, names, exports, errors, marking>>

addFixup ==
  /\ Next1("fixup") /\ Took
  /\ Known1(Head(input).seg) /\ Pointed(Head(input).fixup)
  /\ fixups' = [fixups EXCEPT ![Head(input).seg] =
                  Append(@, Head(input).fixup)]
  /\ UNCHANGED <<files, segs, names, exports, errors, marking>>

\* A later entry point is ignored with a warning.
setEntryPoint ==
  /\ Next1("entry") /\ Took /\ Pointed(Head(input).fixup)
  /\ fixups' = IF fixups[0] # <<>> THEN fixups
               ELSE [fixups EXCEPT ![0] = <<Head(input).fixup>>]
  /\ UNCHANGED <<files, segs, names, exports, errors, marking>>

\* TwiceDeclared only warns when warn is TRUE and the two declarations are
\* not in the same library.
SameLib(n) ==
  /\ names[n].seg # NULL /\ files[Current].lib # NULL
  /\ files[segs[names[n].seg].file].lib = files[Current].lib
TwiceDeclared(n, warn) ==
  errors' = IF warn /\ ~SameLib(n) THEN errors ELSE errors \cup {n}

Info(kind, seg, off, arg) ==
  [kind |-> kind, seg |-> seg, off |-> off, arg |-> arg]
Declare(n, info) ==
  names' = [m \in Declared \cup {n} |-> IF m = n THEN info ELSE names[m]]
Overridable(n) == n \notin Declared \/ names[n].kind \in {"weak", "common"}

NewPublicName ==
  /\ Next1("public") /\ Took
  /\ Known1(Head(input).seg) \/ Head(input).seg = NULL
  /\ LET n == Head(input).name IN
     IF Overridable(n)
     THEN /\ Declare(n, Info("public", Head(input).seg, Head(input).off, NULL))
          /\ UNCHANGED errors
     ELSE /\ TwiceDeclared(n, files[Current].lib # NULL)
          /\ UNCHANGED names
  /\ UNCHANGED <<files, segs, fixups, exports, marking>>

\* arg is the length: commons of one name are merged into the longest.
NewCommonName ==
  /\ Next1("common") /\ Took
  /\ LET n == Head(input).name
         l == Head(input).len IN
     IF n \in Declared /\ names[n].kind = "common"
     THEN /\ Declare(n, Info("common", NULL, 0,
                             IF l > names[n].arg THEN l ELSE names[n].arg))
          /\ UNCHANGED errors
     ELSE IF Overridable(n)
     THEN Declare(n, Info("common", NULL, 0, l)) /\ UNCHANGED errors
     ELSE TwiceDeclared(n, files[Current].lib # NULL) /\ UNCHANGED names
  /\ UNCHANGED <<files, segs, fixups, exports, marking>>

\* arg is the entry: DLL, and name or ordinal in it.
NewImportName ==
  /\ Next1("import") /\ Took
  /\ LET n == Head(input).name
         i == Info("import", NULL, 0, Head(input).entry) IN
     IF n \notin Declared THEN Declare(n, i) /\ UNCHANGED errors
     ELSE /\ IF names[n].kind = "import" /\ names[n].arg = i.arg
             THEN UNCHANGED errors ELSE TwiceDeclared(n, TRUE)
          /\ UNCHANGED names
  /\ UNCHANGED <<files, segs, fixups, exports, marking>>

\* The name a weak external falls back on: the reader finds the symbol that
\* the auxiliary record designates, checks it, and then takes the name of the
\* weak external itself.
ForwardName(symbol, def) == symbol

NewWeakName ==
  /\ Next1("weak") /\ Took
  /\ LET n == Head(input).name
         d == ForwardName(n, Head(input).def) IN
     IF n \in Declared THEN UNCHANGED names
     ELSE Declare(n, IF d \in Declared /\ names[d].seg # NULL
                     THEN Info("weak", names[d].seg, names[d].off, d)
                     ELSE Info("weak", NULL, 0, d))
  /\ UNCHANGED <<files, segs, fixups, exports, errors, marking>>

\* Definitions of one external name from several sources: a stronger source
\* overrides what a weaker one gave, but the entry keeps the weaker one's mark.
NewExport ==
  /\ Next1("export") /\ Took
  /\ Known1(Head(input).export.seg) \/ Head(input).export.seg = NULL
  /\ LET r == Head(input).export
         old == {k \in DOMAIN exports : exports[k].ext = r.ext}
         k == CHOOSE i \in old : TRUE
         e == exports[k] IN
     IF old = {}
     THEN exports' = <<r>> \o exports /\ UNCHANGED errors
     ELSE IF r.flag \subseteq e.flag
     THEN errors' = errors \cup {r.ext} /\ UNCHANGED exports
     ELSE /\ exports' = [exports EXCEPT ![k] =
               IF \A a \in e.flag, b \in r.flag : a < b
               THEN [e EXCEPT !.int = IF r.int # NULL THEN r.int ELSE @,
                              !.seg = IF r.seg # NULL THEN r.seg ELSE @,
                              !.ordinal = IF r.ordinal # 0 THEN r.ordinal ELSE @]
               ELSE [e EXCEPT !.flag = @ \cup r.flag]]
          /\ UNCHANGED errors
  /\ UNCHANGED <<files, segs, fixups, names, marking>>

\* Link(), once the readers are through, and PrepareExport.
ReadingEnds ==
  /\ pc = "reading" /\ input = <<>>
  /\ IF errors # {} THEN pc' = "ended" /\ UNCHANGED errors
     ELSE IF fixups[0] = <<>> /\ exports = <<>>
     THEN pc' = "aborted" /\ UNCHANGED errors
     ELSE /\ pc' = "entry"
          /\ errors' = {exports[k].int : k \in
               {j \in DOMAIN exports : /\ exports[j].seg = NULL
                                       /\ exports[j].int \notin Declared}}
  /\ UNCHANGED <<input, files, segs, fixups, names, exports, marked, stack,
                 lookup, roots, used, NFixups>>

Reading ==
  \/ NewFile \/ NewSegment \/ addFixup \/ setEntryPoint \/ NewPublicName
  \/ NewCommonName \/ NewImportName \/ NewWeakName \/ NewExport \/ ReadingEnds

-----------------------------------------------------------------------------
(* Marking. *)

Frame(s) == [seg |-> s, at |-> 1]
Top == Head(stack)
Fx == fixups[Top.seg][Top.at]
Places == Len(fixups[Top.seg])
Running == pc \in {"entry", "exports", "all"} /\ stack # <<>>
AtFixup == Running /\ Top.at <= Places
Past(k) == Running /\ Top.at = Places + k

\* The stack when the running activation has gone k places on.
On(k) == <<[Top EXCEPT !.at = @ + k]>> \o Tail(stack)

\* Slip: what s itself refers to is not looked at (Closed notices).
VisitMarking(s, rest) ==
  stack' = rest /\ marked' = marked \cup ({s} \ {NULL})

\* CollectSegments(s) unless s is processed or NULL, over the rest of the stack.
Visit(s, rest) ==
  IF s = NULL \/ s \in marked THEN stack' = rest /\ UNCHANGED marked
  ELSE stack' = <<Frame(s)>> \o rest /\ marked' = marked \cup {s}
\* CollectSegments(s) whether or not s has been processed.
VisitAgain(s, rest) ==
  stack' = <<Frame(s)>> \o rest /\ marked' = marked \cup {s}

Least(S) == CHOOSE s \in S : \A t \in S : s <= t
First(S) == IF S = {} THEN NULL ELSE Least(S)
InFile(f) == {s \in Segments : segs[s].file = f}

\* commonNameInfo::createSegment: a BSS segment of a file of its own, never
\* put on the stack.  fx is what fixups becomes.
Alignment(l) == IF l <= 2 THEN (IF l = 2 THEN 2 ELSE 1)
                ELSE IF l <= 4 THEN 4 ELSE IF l <= 8 THEN 8 ELSE 16
CommonsAreLast == files # <<>> /\ files[Len(files)].commons

CreateSegment(n, fx) ==
  LET f == IF CommonsAreLast THEN Len(files) ELSE Len(files) + 1
      l == names[n].arg
      s == Len(segs) + 1 IN
  /\ files' = IF CommonsAreLast THEN files
              ELSE Append(files, [lib |-> NULL, extrnls |-> <<>>,
                     smart |-> files # <<>> => files[Len(files)].smart,
                     processed |-> FALSE, idata |-> FALSE, commons |-> TRUE])
  /\ segs' = Append(segs, [file |-> f, name |-> NULL, clazz |-> "bss",
                           dollar |-> <<>>, len |-> l, align |-> Alignment(l)])
  /\ names' = [names EXCEPT ![n].seg = s]
  /\ marked' = marked \cup {s}
  /\ fixups' = fx

Steady == UNCHANGED <<reading, pc, roots>>

\* setFixupTarget, and the offset of the name that is its target.
\* Slip: the name's offset in its segment is forgotten (NamesAgree notices).
RetargetStart(fx, tk, t, off) ==
  [fx EXCEPT ![Top.seg][Top.at] = [Fx EXCEPT !.tk = tk, !.target = t]]

Retarget(fx, tk, t, off) ==
  [fx EXCEPT ![Top.seg][Top.at] =
     [Fx EXCEPT !.tk = tk, !.target = t, !.off = @ + off]]
Special == {"tdindex", "string"}
ByName == AtFixup /\ Fx.kind \notin Special /\ Fx.tk = "id"
Sought == IF lookup = NULL THEN Fx.target ELSE lookup
Known(kind) == Sought \in Declared /\ names[Sought].kind = kind
Uses == used' = used \cup {Sought}

ResolveForward ==
  /\ AtFixup /\ Fx.kind \notin Special /\ Fx.tk = "fwd"
  /\ LET later == {s \in InFile(segs[Top.seg].file) :
                     s > Top.seg /\ segs[s].name = Fx.target} IN
     IF later = {} THEN pc' = "aborted" /\ UNCHANGED fixups
     ELSE fixups' = Retarget(fixups, "seg", Least(later), 0) /\ UNCHANGED pc
  /\ UNCHANGED <<reading, roots, files, segs, names, used, marked, stack,
                 lookup, errors, NFixups>>

ResolveUndefined ==
  /\ ByName /\ Sought \notin Declared
  /\ errors' = errors \cup {Sought}
  /\ fixups' = Retarget(fixups, "invalid", NULL, 0)
  /\ lookup' = NULL
  /\ UNCHANGED <<files, segs, names, used, marked, stack, NFixups>> /\ Steady

ResolveDefined ==
  /\ ByName /\ Sought \in Declared /\ names[Sought].seg # NULL
  /\ fixups' = Retarget(fixups, "seg", names[Sought].seg, names[Sought].off)
  /\ lookup' = NULL /\ Uses
  /\ UNCHANGED <<files, segs, names, errors, marked, stack, NFixups>> /\ Steady

ResolveCommon ==
  /\ ByName /\ Known("common") /\ names[Sought].seg = NULL
  /\ CreateSegment(Sought, Retarget(Grown, "seg", Len(segs) + 1, 0))
  /\ lookup' = NULL /\ Uses
  /\ UNCHANGED <<errors, stack, NFixups>> /\ Steady

ResolveWeak ==
  /\ ByName /\ Known("weak") /\ names[Sought].seg = NULL
  /\ lookup' = names[Sought].arg /\ Uses
  /\ UNCHANGED <<files, segs, fixups, names, errors, marked, stack, NFixups>>
  /\ Steady

ResolveImport ==
  /\ ByName /\ Known("import")
  /\ fixups' = Retarget(fixups, "import", Sought, 0)
  /\ lookup' = NULL /\ Uses
  /\ UNCHANGED <<files, segs, names, errors, marked, stack, NFixups>> /\ Steady

\* ASSERT_FALSE: an absolute public name has no segment.
ResolveAbsolute ==
  /\ ByName /\ Known("public") /\ names[Sought].seg = NULL
  /\ pc' = "aborted" /\ Uses
  /\ UNCHANGED <<reading, roots, files, segs, fixups, names, errors, marked,
                 stack, lookup, NFixups>>

\* CollectFixup, the target being resolved.  A type descriptor's fixup stays
\* a name; the strings' ones have their values elsewhere.
Counts(f) == f.kind = "address32" /\ f.tk \in {"seg", "import"}
TypeNamed == Fx.kind = "tdindex" /\ Fx.target \in Declared
\* Slip: only the fixup that leads to a segment first is counted
\* (FixNeverOverrun notices).
CollectFixupOnce ==
  /\ AtFixup /\ (Fx.kind \in Special \/ Fx.tk \notin {"id", "fwd"})
  /\ Visit(IF TypeNamed THEN names[Fx.target].seg
           ELSE IF Fx.kind \notin Special /\ Fx.tk = "seg" THEN Fx.target
           ELSE NULL, On(1))
  /\ used' = used \cup (IF TypeNamed THEN {Fx.target} ELSE {})
  /\ NFixups' = IF Counts(Fx) /\ Top.seg # 0 /\ Fx.target \notin marked THEN NFixups + 1 ELSE NFixups
  /\ UNCHANGED <<files, segs, fixups, names, errors, lookup>> /\ Steady

CollectFixup ==
  /\ AtFixup /\ (Fx.kind \in Special \/ Fx.tk \notin {"id", "fwd"})
  /\ Visit(IF TypeNamed THEN names[Fx.target].seg
           ELSE IF Fx.kind \notin Special /\ Fx.tk = "seg" THEN Fx.target
           ELSE NULL, On(1))
  /\ used' = used \cup (IF TypeNamed THEN {Fx.target} ELSE {})
  /\ NFixups' = IF Counts(Fx) /\ Top.seg # 0 THEN NFixups + 1 ELSE NFixups
  /\ UNCHANGED <<files, segs, fixups, names, errors, lookup>> /\ Steady

CollectName(n, rest) ==
  IF n \notin Declared
  THEN /\ errors' = errors \cup {n} /\ stack' = rest
       /\ UNCHANGED <<files, segs, fixups, names, marked, used>>
  ELSE /\ used' = used \cup {n} /\ UNCHANGED errors
       /\ IF names[n].kind = "common" /\ names[n].seg = NULL
          THEN CreateSegment(n, Grown) /\ stack' = rest
          ELSE /\ Visit(names[n].seg, rest)
               /\ UNCHANGED <<files, segs, fixups, names>>

\* The name of s is .idata$ and dollar; the code compares its character 8,
\* which is the one after the digit.
IsIDATA(s) == s # 0 /\ segs[s].dollar # <<>>
IsIDATA_DOLLAR(s, c) == Len(segs[s].dollar) > 1 /\ segs[s].dollar[2] = c

\* Slip: any segment of the file is taken, not .idata$2 (TakenAsAsked notices).
CollectDescriptorAny ==
  /\ Past(1)
  /\ IF IsIDATA(Top.seg) /\ ~files[segs[Top.seg].file].idata
     THEN /\ files' = [files EXCEPT ![segs[Top.seg].file].idata = TRUE]
          /\ Visit(First(InFile(segs[Top.seg].file) \ marked), On(1))
     ELSE stack' = On(2) /\ UNCHANGED <<files, marked>>
  /\ UNCHANGED <<segs, fixups, names, used, errors, lookup, NFixups>> /\ Steady

\* The hack for COFF imports: .idata$2 of the file, then its first external
\* name, once per file; then .idata$4 after .idata$5.
CollectDescriptor ==
  /\ Past(1)
  /\ IF IsIDATA(Top.seg) /\ ~files[segs[Top.seg].file].idata
     THEN LET f == segs[Top.seg].file IN
          /\ files' = [files EXCEPT ![f].idata = TRUE]
          /\ Visit(First({p \in InFile(f) :
                            IsIDATA_DOLLAR(p, "2") /\ p \notin marked}), On(1))
     ELSE stack' = On(2) /\ UNCHANGED <<files, marked>>
  /\ UNCHANGED <<segs, fixups, names, used, errors, lookup, NFixups>> /\ Steady

\* The file may have no external name: extrnls is NULL then.
CollectExternal ==
  /\ Past(2)
  /\ LET e == files[segs[Top.seg].file].extrnls IN
     IF e = <<>>
     THEN /\ pc' = "aborted"
          /\ UNCHANGED <<files, segs, fixups, names, marked, used, errors, stack>>
     ELSE CollectName(Head(e), On(1)) /\ UNCHANGED pc
  /\ UNCHANGED <<reading, roots, lookup, NFixups>>

\* ASSERT: a .idata$4 follows.
CollectAddresses ==
  /\ Past(3) /\ IsIDATA(Top.seg) /\ IsIDATA_DOLLAR(Top.seg, "5")
  /\ LET later == {p \in InFile(segs[Top.seg].file) : p > Top.seg} IN
     IF later # {} /\ IsIDATA_DOLLAR(Least(later), "4")
     THEN VisitAgain(Least(later), On(1)) /\ UNCHANGED pc
     ELSE pc' = "aborted" /\ UNCHANGED <<stack, marked>>
  /\ UNCHANGED <<reading, roots, files, segs, fixups, names, used, errors,
                 lookup, NFixups>>

Return ==
  /\ Running /\ Top.at >= Places + 3
  /\ ~(Past(3) /\ IsIDATA(Top.seg) /\ IsIDATA_DOLLAR(Top.seg, "5"))
  /\ stack' = Tail(stack)
  /\ UNCHANGED <<files, segs, fixups, names, used, marked, errors, lookup,
                 NFixups>>
  /\ Steady

-----------------------------------------------------------------------------
(* PrepareSections and CollectAll. *)

Idle(where) == pc = where /\ stack = <<>>
kept == <<files, segs, fixups, names, used, errors, marked>>

EntryFirst ==
  /\ Idle("entry") /\ pc' = "exports" /\ todo' = exports
  /\ stack' = IF fixups[0] = <<>> THEN <<>> ELSE <<Frame(0)>>
  /\ UNCHANGED <<reading, kept, walk, lookup, NFixups>>

\* Slip: every export is taken to be that of a segment (TypeOK notices).
ExportNextSegment ==
  /\ Idle("exports") /\ todo # <<>> /\ todo' = Tail(todo)
  /\ VisitAgain(Head(todo).seg, <<>>)
  /\ UNCHANGED <<files, segs, fixups, names, used, errors>>
  /\ UNCHANGED <<reading, pc, walk, lookup, NFixups>>

ExportNext ==
  /\ Idle("exports") /\ todo # <<>> /\ todo' = Tail(todo)
  /\ LET e == Head(todo) IN
     IF e.seg # NULL
     THEN /\ VisitAgain(e.seg, <<>>)
          /\ UNCHANGED <<files, segs, fixups, names, used, errors>>
     ELSE CollectName(e.int, <<>>)
  /\ UNCHANGED <<reading, pc, walk, lookup, NFixups>>

\* xSmart is that of the file read last.
xSmart == files = <<>> \/ files[Len(files)].smart
ExportsEnd ==
  /\ Idle("exports") /\ todo = <<>>
  /\ pc' = IF xSmart THEN "collected" ELSE "all"
  /\ UNCHANGED <<reading, kept, roots, stack, lookup, NFixups>>

isLinkable(s) == segs[s].clazz # "debug"
Wanted(f) ==
  /\ ~files[f].smart /\ ~files[f].processed
  /\ files[f].lib = NULL \/ InFile(f) \cap marked # {}

\* One file of CollectAll's pass.  Once something has changed the rest of the
\* pass calls CollectAllSegments no more.
AllNextFile ==
  /\ Idle("all") /\ ~walk.inside /\ walk.at \in Files
  /\ walk' = IF Wanted(walk.at) /\ ~walk.changed
             THEN [walk EXCEPT !.inside = TRUE]
             ELSE [walk EXCEPT !.at = @ + 1]
  /\ UNCHANGED <<reading, kept, pc, todo, stack, lookup, NFixups>>

AllNextSegment ==
  /\ Idle("all") /\ walk.inside
  /\ LET left == {s \in InFile(walk.at) : isLinkable(s) /\ s \notin marked} IN
     IF left # {}
     THEN /\ VisitAgain(Least(left), <<>>)
          /\ walk' = [walk EXCEPT !.changed = TRUE]
          /\ UNCHANGED files
     ELSE /\ files' = [files EXCEPT ![walk.at].processed = TRUE]
          /\ walk' = [walk EXCEPT !.inside = FALSE, !.at = @ + 1]
          /\ UNCHANGED <<marked, stack>>
  /\ UNCHANGED <<reading, segs, fixups, names, used, errors, pc, todo, lookup,
                 NFixups>>

\* Slip: changed is not reset before a pass (Ends notices).
AllPassEndsChanged ==
  /\ Idle("all") /\ ~walk.inside /\ walk.at \notin Files
  /\ IF walk.changed THEN walk' = [walk EXCEPT !.at = 1] /\ UNCHANGED pc
     ELSE pc' = "collected" /\ UNCHANGED walk
  /\ UNCHANGED <<reading, kept, todo, stack, lookup, NFixups>>

AllPassEnds ==
  /\ Idle("all") /\ ~walk.inside /\ walk.at \notin Files
  /\ IF walk.changed
     THEN walk' = [walk EXCEPT !.at = 1, !.changed = FALSE] /\ UNCHANGED pc
     ELSE pc' = "collected" /\ UNCHANGED walk
  /\ UNCHANGED <<reading, kept, todo, stack, lookup, NFixups>>

Collecting ==
  \/ ResolveForward \/ ResolveUndefined \/ ResolveDefined \/ ResolveCommon
  \/ ResolveWeak \/ ResolveImport \/ ResolveAbsolute
  \/ CollectFixup \/ CollectDescriptor \/ CollectExternal
  \/ CollectAddresses \/ Return
  \/ EntryFirst \/ ExportNext \/ ExportsEnd
  \/ AllNextFile \/ AllNextSegment \/ AllPassEnds

CollectNext == Reading \/ Collecting

\* Link() is one thread that does nothing else.
Spec == Init /\ [][CollectNext]_cvars /\ WF_cvars(CollectNext)
-----------------------------------------------------------------------------
(* What is right of the marking. *)

TypeOK ==
  /\ input \in Seq(ObjectRecord)
  /\ files \in Seq(File)
  /\ segs \in Seq(Segment)
  /\ fixups \in [0..Len(segs) -> Seq(Fixup)]
  /\ Declared \subseteq Name
  /\ \A n \in Declared :
       /\ names[n] = Info(names[n].kind, names[n].seg, names[n].off, names[n].arg)
       /\ names[n].kind \in {"public", "common", "weak", "import"}
       /\ names[n].seg \in Segments \cup {NULL} /\ names[n].off \in Int
       /\ names[n].kind = "weak" => names[n].arg \in Name
       /\ names[n].kind = "common" => names[n].arg \in Nat
  /\ exports \in Seq(Exported) /\ todo \in Seq(Exported)
  /\ marked \subseteq 0..Len(segs) /\ 0 \in marked
  /\ stack \in Seq([seg : marked, at : Nat \ {0}])
  /\ lookup \in Name \cup {NULL}
  /\ walk \in [at : Nat, inside : BOOLEAN, changed : BOOLEAN]
  /\ NFixups \in Nat

Marking == {"exports", "all", "collected"}
Resolved(f) == f.kind \in Special \/ f.tk \notin {"id", "fwd"}

\* The segments that fixup f leads to as things are now.
Leads(f) ==
  IF f.kind = "tdindex" /\ f.target \in Declared
  THEN {names[f.target].seg} \ {NULL}
  ELSE IF f.kind \notin Special /\ f.tk = "seg" THEN {f.target} ELSE {}

\* Place j of segment s is still to be visited by an activation.
Pending(s, j) == \E i \in DOMAIN stack : stack[i].seg = s /\ stack[i].at <= j

\* At every moment of the recursion of CollectSegments and CollectFixup: a
\* fixup of a marked segment either waits for one of the activations, or has
\* been resolved and what it leads to is marked as well.
MarkedIsDone ==
  pc \in Marking =>
    \A s \in marked : \A j \in DOMAIN fixups[s] :
      Pending(s, j) \/ (Resolved(fixups[s][j]) /\ Leads(fixups[s][j]) \subseteq marked)

\* Once PrepareSections is through with marking (struct.cpp:1049), no segment of
\* the image refers to one outside of it, or to a name never looked up.
Closed ==
  pc = "collected" =>
    \A s \in marked : \A j \in DOMAIN fixups[s] :
      Resolved(fixups[s][j]) /\ Leads(fixups[s][j]) \subseteq marked

\* R contains whatever the code has a reason to take in: the entry point, what
\* the exports name, what the fixups of its segments lead to, and what the hack
\* for COFF imports adds.
SegOf(n) == IF n \in Declared THEN {names[n].seg} \ {NULL} ELSE {}
Requires(s) ==
  (UNION {Leads(fixups[s][j]) : j \in DOMAIN fixups[s]}) \cup
  (IF ~IsIDATA(s) THEN {}
   ELSE LET f == segs[s].file IN
        {p \in InFile(f) : IsIDATA_DOLLAR(p, "2") \/ IsIDATA_DOLLAR(p, "4")} \cup
        (IF files[f].extrnls = <<>> THEN {} ELSE SegOf(Head(files[f].extrnls))))
SelfContained(R) ==
  /\ 0 \in R
  /\ \A k \in DOMAIN exports :
       ({exports[k].seg} \ {NULL}) \cup SegOf(exports[k].int) \subseteq R
  /\ \A s \in R : Requires(s) \subseteq R

\* "the linker uses the option SMART to detect unreachable code and omit it"
\* (Doc/Comp/src/xlink.tex:128): a smart link marks nothing but what is in every
\* set of segments that the entry point and the exports require.
OnlyReachable ==
  xSmart => \A R \in SUBSET (0..Len(segs)) : SelfContained(R) => marked \subseteq R

\* The relocations that no activation has still to pass.
Passed ==
  UNION {{s} \X {j \in DOMAIN fixups[s] : Counts(fixups[s][j]) /\ ~Pending(s, j)} :
         s \in marked \ {0}}

\* Fix is allocated for NFixups relocations (struct.cpp:1835) before
\* ProcessFixup stores one for each fixup that CollectFixup counted: the count
\* is never too small, in whatever order and however often segments are visited.
FixNeverOverrun == Cardinality(Passed) <= NFixups

\* CollectAll: files read with /NOSMART are taken whole, those of libraries if
\* anything of them is taken, although its loop skips the rest of a pass.
WholeFiles ==
  pc = "collected" /\ ~xSmart =>
    \A f \in Files :
      ~files[f].smart /\ (files[f].lib = NULL \/ InFile(f) \cap marked # {})
        => {s \in InFile(f) : isLinkable(s)} \subseteq marked

\* PrepareSections takes in what was asked for, in either mode of linking.
TakenAsAsked == OnlyReachable /\ WholeFiles
=============================================================================
