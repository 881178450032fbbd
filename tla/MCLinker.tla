------------------------------- MODULE MCLinker -------------------------------
(***************************************************************************)
(* Small links.  Each family of inputs is a set of sequences of records as *)
(* the object file readers make them; the state space is the sum of the    *)
(* links, each of which is deterministic.                                  *)
(***************************************************************************)
EXTENDS Linker

CONSTANTS A, B, C  \* names

ObjFile(lib, smart, ext) ==
  <<[op |-> "file", lib |-> lib, smart |-> smart, extrnls |-> ext]>>
Seg(n, c, l, a) ==
  <<[op |-> "segment", name |-> n, clazz |-> c, dollar |-> <<>>, len |-> l,
     align |-> a]>>
Dollar(d) ==
  <<[op |-> "segment", name |-> 9, clazz |-> "idata", dollar |-> d, len |-> 4,
     align |-> 4]>>
F(k, tk, t, o) ==
  [kind |-> k, tk |-> tk, target |-> t, off |-> o,
   ref |-> IF tk = "id" THEN t ELSE NULL, addend |-> o]
Fix1(s, f) == <<[op |-> "fixup", seg |-> s, fixup |-> f]>>
EntryPoint(f) == <<[op |-> "entry", fixup |-> f]>>
Public(n, s, o) == <<[op |-> "public", name |-> n, seg |-> s, off |-> o]>>
Common(n, l) == <<[op |-> "common", name |-> n, len |-> l]>>
Import(n, d, f) ==
  <<[op |-> "import", name |-> n, entry |-> [dll |-> d, func |-> f, as |-> n]]>>
Weak(n, d) == <<[op |-> "weak", name |-> n, def |-> d]>>
Export(e, i, s, o, fl) ==
  <<[op |-> "export", export |-> [ext |-> e, int |-> i, seg |-> s,
                                  ordinal |-> o, flag |-> fl]]>>
EntryAt(s) == EntryPoint(F("far", "seg", s, 0))

\* Two files and three segments, each with a fixup to any of them or none, and
\* an exported name or none.
Ref(s, t, k) == IF t = NULL THEN <<>> ELSE Fix1(s, F(k, "seg", t, 1))
Links ==
  {ObjFile(NULL, smart, <<>>) \o Seg(1, "code", 5, 4) \o Seg(2, "data", 3, 2)
     \o ObjFile(lib, smart, <<>>) \o Seg(1, "code", 2, 8) \o Public(B, 3, 1)
     \o Ref(1, x, "address32") \o Ref(2, y, "address32") \o Ref(3, z, "selfrel")
     \o Ref(3, x, "offset32nb") \o EntryAt(1)
     \o (IF exp THEN Export(B, B, NULL, 0, {1}) ELSE <<>>) :
   smart \in BOOLEAN, lib \in {NULL, C}, x \in {1, 2, 3, NULL},
   y \in {1, 3, NULL}, z \in {2, 3, NULL}, exp \in BOOLEAN}

\* One name declared twice, in an object file and in another or a library, and
\* a reference to it.
Declarations(s) ==
  {<<>>, Public(A, s, 2), Public(A, NULL, 5), Common(A, 3), Common(A, 7),
   Weak(A, B), Import(A, C, TRUE), Import(A, C, FALSE)}
Names ==
  {ObjFile(NULL, smart, <<>>) \o Seg(1, "code", 5, 4) \o first
     \o ObjFile(lib, smart, <<>>) \o Seg(2, "data", 3, 2) \o Public(B, 2, 0) \o second
     \o Fix1(1, F("address32", "id", A, 3)) \o Fix1(2, F(k, "id", A, 0))
     \o EntryAt(1) :
   smart \in BOOLEAN, lib \in {NULL, C}, k \in {"address32", "tdindex"},
   first \in Declarations(1), second \in Declarations(2)}

\* The sections of an import library, with the names they have and with names
\* one character longer.
Idata ==
  {ObjFile(NULL, TRUE, ext) \o Seg(1, "code", 4, 4) \o Dollar(x) \o Dollar(y)
     \o Dollar(z) \o decl \o Fix1(1, F("address32", "seg", 2, 0))
     \o Fix1(2, F("address32", "fwd", 9, 0)) \o EntryAt(1) :
   ext \in {<<>>, <<A>>, <<B>>}, decl \in {Public(A, 4, 0), Common(A, 2)}, x \in {<<"5">>, <<"x", "5">>},
   y \in {<<"4">>, <<"x", "4">>}, z \in {<<"2">>, <<"x", "2">>}}

\* Exports of names from several sources, and a program without an entry.
Exporting ==
  {ObjFile(NULL, smart, <<>>) \o Seg(1, "code", 4, 4) \o Seg(2, "data", 4, 4)
     \o Public(A, 1, 0) \o Common(B, 2) \o Fix1(2, F("address32", "seg", 1, 0))
     \o Export(A, i, NULL, 0, {f}) \o Export(A, B, s, 3, {g})
     \o (IF entry THEN EntryAt(1) \o EntryAt(2) ELSE <<>>) :
   smart \in BOOLEAN, i \in {A, C}, f \in {1, 4}, g \in {1, 2}, s \in {NULL, 2},
   entry \in BOOLEAN}

\* All sections; constants of two groups from two files, with more and fewer
\* fixups; 16-bit code, debug information and a string.
Group == {1, 2}
Layouts ==
  {ObjFile(NULL, FALSE, <<>>) \o Seg(1, "const", l, a) \o Seg(g, "const", 3, 2)
     \o Seg(1, "debug", 2, 1) \o Seg(3, "code16", 9, 1) \o Seg(4, "code16", 3, 2)
     \o ObjFile(NULL, FALSE, <<>>) \o Seg(h, "const", 1, 1) \o Seg(1, "const", 2, 4)
     \o Seg(2, "bss", 5, 8) \o Seg(5, "code", 3, 8)
     \o Fix1(2, F("address32", "seg", 4, 0)) \o Fix1(7, F("address32", "seg", 6, 1))
     \o Fix1(7, F("string", "target32", NULL, 0))
     \o Fix1(9, F("address32", "id", A, 0)) \o Fix1(4, F("selfrel", "seg", 5, 0))
     \o Fix1(5, F("address32", "seg", 9, 2))
     \o Import(A, C, f) \o Import(B, C, TRUE) \o EntryAt(9) \o Export(B, B, NULL, 0, {1})
     \o more :
   l \in {0, 4}, a \in {1, 8}, g \in Group, h \in Group, f \in BOOLEAN,
   more \in {<<>>, Fix1(2, F("address32", "seg", 8, 0)),
             Fix1(6, F("address32", "fwd", 2, 0)),
             Fix1(6, F("address32", "fwd", 7, 0))}}

Empties == {<<>>, ObjFile(NULL, TRUE, <<>>) \o Seg(1, "code", 1, 1)}

\* A segment that the program refers to and that is exported as well.
ExportedSegment ==
  {ObjFile(NULL, TRUE, <<>>) \o Seg(1, "code", 4, 4) \o Seg(2, "data", 4, 4)
     \o Fix1(1, F("address32", "seg", 2, 0)) \o Fix1(2, F(k, "seg", 1, 0))
     \o Export(A, A, s, 0, {1}) \o Public(A, 2, 0) \o EntryAt(1) :
   s \in {NULL, 1, 2}, k \in {"address32", "selfrel"}}

AllInputs ==
  Links \cup Names \cup Idata \cup Exporting \cup ExportedSegment \cup Layouts
    \cup Empties

-----------------------------------------------------------------------------
(* That a link comes to an end. *)

Looping == lookup \in Declared /\ names[lookup].kind = "weak" /\
             names[lookup].seg = NULL /\ names[lookup].arg = lookup

\* resolveFixupTarget's contract, its target being a segment, an import or a
\* string when it is through: "ASSERT ((f->k_target == TK_SEG) || ..."
\* (struct.cpp:392).  Once it has begun to follow names it gets there.
LookupEnds == (lookup # NULL) ~> (lookup = NULL)

\* Link() comes to an end: no list of exports, no recursion and no pass of
\* CollectAll goes on for ever, except where resolveFixupTarget follows a weak
\* external that falls back on itself.
Ends == <>(pc \in {"ended", "aborted", "linked"} \/ Looping)
-----------------------------------------------------------------------------
\* A weak external that is not defined, and B that it should fall back on.
WeakInputs ==
  {ObjFile(NULL, TRUE, <<>>) \o Seg(1, "code", 4, 4) \o Seg(2, "code", 4, 4)
     \o first \o second \o Fix1(1, F("selfrel", "id", A, 0)) \o EntryAt(1) :
   first \in {Public(B, 2, 0), Weak(A, B)}, second \in {Public(B, 2, 0), Weak(A, B)}}
=============================================================================

