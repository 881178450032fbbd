----------------------------- MODULE ReachProofs -----------------------------
(***************************************************************************)
(* Proofs about Collect, for any names and any well-formed inputs: that    *)
(* PrepareSections takes in what was asked for.  A smart link marks        *)
(* nothing that is not required, a link that is not smart takes whole      *)
(* files.                                                                  *)
(***************************************************************************)
EXTENDS CollectProofs

\* Every segment is in a file that has been read.
Filed == \A s \in Segments : segs[s].file \in Files

\* What PrepareSections has not come to are exports.
Listed ==
  /\ \A k \in DOMAIN todo : \E j \in DOMAIN exports : todo[k] = exports[j]
  /\ pc \in {"reading", "entry"} => todo = <<>>

\* The external name of a file is collected for the sake of an .idata$ segment.
External(g) == g.at = Len(fixups[g.seg]) + 2 => IsIDATA(g.seg)
Externals == \A i \in DOMAIN stack : External(stack[i])

Modes ==
  /\ pc = "all" => ~xSmart
  /\ pc \in {"reading", "entry", "exports"} =>
       /\ walk = [at |-> 1, inside |-> FALSE, changed |-> FALSE]
       /\ \A f \in Files : ~files[f].processed

linkable(f) == {s \in InFile(f) : isLinkable(s)}

\* A processed file has been taken, and in a pass that has changed nothing the
\* files passed are not wanted.
Whole ==
  /\ \A f \in Files : files[f].processed => linkable(f) \subseteq marked
  /\ pc = "all" => walk.at \in Nat \ {0}
  /\ pc = "all" /\ ~walk.changed =>
       stack = <<>> /\ \A f \in Files : f < walk.at => ~Wanted(f)
  /\ pc = "collected" /\ ~xSmart => \A f \in Files : ~Wanted(f)

ReachInv ==
  IInv /\ Filed /\ Listed /\ Externals /\ Modes /\ OnlyReachable /\ Whole

-----------------------------------------------------------------------------
(* While marking goes on, what was required stays required. *)

\* What was read stays as it was, but that fixups that led nowhere may lead
\* somewhere, names that had no segment may have one, and segments may be new.
Grows ==
  /\ Segments \subseteq Segments' /\ 0..Len(segs) \subseteq 0..Len(segs')
  /\ \A s \in Segments : segs'[s] = segs[s]
  /\ \A s \in 0..Len(segs) :
       /\ DOMAIN fixups'[s] = DOMAIN fixups[s] /\ Len(fixups'[s]) = Len(fixups[s])
       /\ \A j \in DOMAIN fixups[s] : Leads(fixups[s][j]) \subseteq Leads(fixups[s][j])'
  /\ \A n \in Declared : SegOf(n) \subseteq SegOf(n)' /\ n \in Declared'
  /\ exports' = exports

\* The files stay as they were, but for marks; one may be new.
FilesGrow ==
  /\ Files \subseteq Files'
  /\ \A f \in Files : /\ files'[f].extrnls = files[f].extrnls
                      /\ files'[f].smart = files[f].smart
                      /\ files'[f].lib = files[f].lib
  /\ xSmart' = xSmart

\* Nothing that a segment requires lies outside of the segments there are.
LEMMA RequiresKnown ==
  ASSUME IInv, Filed, NEW s \in 0..Len(segs)
  PROVE  Requires(s) \subseteq 0..Len(segs)
<1>1. /\ TypeOK /\ Pointers /\ Segments \subseteq 0..Len(segs) /\ NULL \notin Segments
      /\ Segments = 1..Len(segs) /\ Len(segs) \in Nat
  <2>1. TypeOK /\ Pointers
    BY DEF IInv
  <2>2. Segments = 1..Len(segs) /\ Len(segs) \in Nat
    BY <2>1 DEF TypeOK, Segments
  <2> QED BY <2>1, <2>2, CollectAssumption
<1>2. \A n \in Name : SegOf(n) \subseteq 0..Len(segs)
  BY <1>1 DEF TypeOK, SegOf
<1>3. ASSUME NEW j \in DOMAIN fixups[s] PROVE Leads(fixups[s][j]) \subseteq 0..Len(segs)
  BY <1>1 DEF Leads, Pointers, Pointed, Known1, TypeOK
<1>4. \A f : InFile(f) \subseteq 0..Len(segs)
  BY <1>1 DEF InFile
<1>5. ASSUME IsIDATA(s), files[segs[s].file].extrnls # <<>>
      PROVE  Head(files[segs[s].file].extrnls) \in Name
  <2>1. s \in Segments
    BY <1>1, <1>5 DEF IsIDATA
  <2>2. files[segs[s].file] \in File
    <3>1. files \in Seq(File)
      BY <1>1 DEF TypeOK
    <3>2. segs[s].file \in DOMAIN files
      BY <2>1 DEF Filed, Files
    <3> QED BY <3>1, <3>2, ElementOfSeq, LenProperties
  <2>3. files[segs[s].file].extrnls \in Seq(Name)
    BY <2>2 DEF File
  <2> QED BY <1>5, <2>3, HeadTailProperties, Zenon
<1> QED BY <1>2, <1>3, <1>4, <1>5 DEF Requires

\* The three reasons that s gives to take something in.
Led(s) == UNION {Leads(fixups[s][j]) : j \in DOMAIN fixups[s]}
Described(s) ==
  {p \in InFile(segs[s].file) : IsIDATA_DOLLAR(p, "2") \/ IsIDATA_DOLLAR(p, "4")}
FirstNamed(s) ==
  IF files[segs[s].file].extrnls = <<>> THEN {}
  ELSE SegOf(Head(files[segs[s].file].extrnls))

LEMMA Reasons ==
  ASSUME NEW s
  PROVE  Requires(s) = Led(s) \cup IF IsIDATA(s) THEN Described(s) \cup FirstNamed(s) ELSE {}
BY DEF Requires, Led, Described, FirstNamed

LEMMA ReasonsThen ==
  ASSUME NEW s
  PROVE  Requires(s)' =
           Led(s)' \cup IF IsIDATA(s)' THEN Described(s)' \cup FirstNamed(s)' ELSE {}
BY DEF Requires, Led, Described, FirstNamed

LEMMA RequiresGrow ==
  ASSUME IInv, Filed, Grows, FilesGrow, NEW s \in 0..Len(segs)
  PROVE  Requires(s) \subseteq Requires(s)'
<1>0. Segments = 1..Len(segs) /\ Len(segs) \in Nat
  BY DEF IInv, TypeOK, Segments
<1>1. Led(s) \subseteq Led(s)'
  <2> SUFFICES ASSUME NEW j \in DOMAIN fixups[s], NEW x \in Leads(fixups[s][j])
               PROVE  j \in DOMAIN fixups'[s] /\ x \in Leads(fixups[s][j])'
    BY DEF Led
  <2> QED BY DEF Grows
<1>2. ASSUME IsIDATA(s)
      PROVE  IsIDATA(s)' /\ Described(s) \subseteq Described(s)' /\ FirstNamed(s) \subseteq FirstNamed(s)'
  <2>1. /\ s \in Segments /\ segs'[s] = segs[s] /\ segs[s].file \in Files
        /\ files'[segs[s].file].extrnls = files[segs[s].file].extrnls
    BY <1>0, <1>2 DEF IsIDATA, Grows, Filed, FilesGrow
  <2>2. ASSUME NEW p \in Described(s) PROVE p \in Described(s)'
    <3>1. p \in Segments /\ p \in Segments' /\ segs'[p] = segs[p]
      BY DEF Described, InFile, Grows
    <3> QED BY <2>1, <3>1 DEF Described, InFile, IsIDATA_DOLLAR
  <2>3. \A n : SegOf(n) \subseteq SegOf(n)'
    BY DEF SegOf, Grows
  <2>4. FirstNamed(s) \subseteq FirstNamed(s)'
    <3>1. PICK x : x = files[segs[s].file].extrnls
      OBVIOUS
    <3>2. FirstNamed(s) = IF x = <<>> THEN {} ELSE SegOf(Head(x))
      BY <3>1 DEF FirstNamed
    <3>3. FirstNamed(s)' = IF x = <<>> THEN {} ELSE SegOf(Head(x))'
      BY <2>1, <3>1 DEF FirstNamed, SegOf
    <3> QED BY <2>3, <3>2, <3>3
  <2>5. IsIDATA(s)'
    BY <1>2, <2>1 DEF IsIDATA
  <2> QED BY <2>2, <2>4, <2>5
<1> QED BY <1>1, <1>2, Reasons, ReasonsThen

\* Whatever holds the requirements afterwards held them before.
LEMMA Backwards ==
  ASSUME IInv, Filed, Grows, FilesGrow, NEW R, SelfContained(R)'
  PROVE  SelfContained(R \cap (0..Len(segs)))
<1> DEFINE Q == R \cap (0..Len(segs))
<1>0. /\ TypeOK /\ Pointers /\ Segments \subseteq 0..Len(segs) /\ 0 \in 0..Len(segs)
      /\ Segments = 1..Len(segs) /\ exports' = exports
  <2>1. TypeOK /\ Pointers
    BY DEF IInv
  <2>2. Segments = 1..Len(segs) /\ Len(segs) \in Nat
    BY <2>1 DEF TypeOK, Segments
  <2> QED BY <2>1, <2>2 DEF Grows
<1>1. 0 \in Q
  BY <1>0 DEF SelfContained
<1>2. ASSUME NEW k \in DOMAIN exports
      PROVE  ({exports[k].seg} \ {NULL}) \cup SegOf(exports[k].int) \subseteq Q
  <2>1. ({exports[k].seg} \ {NULL}) \cup SegOf(exports[k].int)' \subseteq R
    BY <1>0 DEF SelfContained
  <2>2. exports[k].seg \in Segments \cup {NULL}
    BY <1>0 DEF Pointers
  <2>3. SegOf(exports[k].int) \subseteq 0..Len(segs)
    BY <1>0 DEF SegOf, TypeOK
  <2>4. SegOf(exports[k].int) \subseteq SegOf(exports[k].int)'
    BY DEF Grows, SegOf
  <2> QED BY <1>0, <2>1, <2>2, <2>3, <2>4
<1>3. ASSUME NEW s \in Q PROVE Requires(s) \subseteq Q
  <2>1. s \in 0..Len(segs) /\ Requires(s)' \subseteq R
    BY DEF SelfContained
  <2>2. Requires(s) \subseteq 0..Len(segs)
    BY <2>1, RequiresKnown
  <2>3. Requires(s) \subseteq Requires(s)'
    BY <2>1, RequiresGrow
  <2> QED BY <2>1, <2>2, <2>3
<1> QED BY <1>1, <1>2, <1>3 DEF SelfContained

\* There is a reason, after the step, to take s in.
Justified(s) ==
  \/ \E t \in marked : s \in Requires(t)'
  \/ \E k \in DOMAIN exports :
       s \in ({exports[k].seg} \ {NULL}) \cup SegOf(exports[k].int)'

LEMMA ReachKept ==
  ASSUME IInv, Filed, OnlyReachable, Grows, FilesGrow,
         xSmart => \A s \in marked' \ marked : Justified(s)
  PROVE  OnlyReachable'
<1> SUFFICES ASSUME xSmart', NEW R, SelfContained(R)', NEW s \in marked' PROVE s \in R
  BY DEF OnlyReachable
<1>1. xSmart /\ exports' = exports
  BY DEF Grows, FilesGrow
<1>2. marked \subseteq R
  <2> DEFINE Q == R \cap (0..Len(segs))
  <2>1. SelfContained(Q) /\ Q \in SUBSET (0..Len(segs))
    BY Backwards
  <2> HIDE DEF Q
  <2>2. marked \subseteq Q
    BY <1>1, <2>1 DEF OnlyReachable
  <2> QED BY <2>2 DEF Q
<1>3. CASE s \in marked
  BY <1>2, <1>3
<1>4. CASE \E t \in marked : s \in Requires(t)'
  <2>1. \A t \in R : Requires(t)' \subseteq R
    BY DEF SelfContained
  <2> QED BY <1>2, <1>4, <2>1
<1>5. CASE \E k \in DOMAIN exports :
             s \in ({exports[k].seg} \ {NULL}) \cup SegOf(exports[k].int)'
  <2>1. \A k \in DOMAIN exports :
          ({exports[k].seg} \ {NULL}) \cup SegOf(exports[k].int)' \subseteq R
    BY <1>1 DEF SelfContained
  <2> QED BY <1>5, <2>1
<1> QED BY <1>1, <1>3, <1>4, <1>5 DEF Justified

\* A step of marking, whatever it marks, keeps the invariant if it has a reason.
LEMMA MarkingKeeps ==
  ASSUME ReachInv, IInv', Grows, FilesGrow,
         pc \in {"exports", "all"}, pc' \in {pc, "aborted"},
         todo' = todo \/ (todo # <<>> /\ todo' = Tail(todo)),
         walk' = walk \/ (pc = "all" /\ walk' = [walk EXCEPT !.changed = TRUE]),
         pc = "all" => walk'.changed,
         marked \subseteq marked',
         \A s \in Segments' \ Segments : s \in marked' /\ segs'[s].file \in Files',
         \A f \in Files : files'[f].processed = files[f].processed,
         \A f \in Files' \ Files : ~files'[f].processed,
         xSmart => \A s \in marked' \ marked : Justified(s),
         Externals'
  PROVE  ReachInv'
<1>1. /\ IInv /\ Filed /\ Listed /\ Externals /\ Modes /\ OnlyReachable /\ Whole
      /\ TypeOK
  BY DEF ReachInv, IInv
<1>2. OnlyReachable'
  BY <1>1, ReachKept
<1>3. Filed'
  BY <1>1 DEF Filed, Grows, FilesGrow
<1>4. Listed'
  <2>1. \A k \in DOMAIN todo' : \E j \in DOMAIN todo : todo'[k] = todo[j]
    <3>1. ASSUME todo # <<>>, todo' = Tail(todo), NEW k \in DOMAIN todo'
          PROVE  k + 1 \in DOMAIN todo /\ todo'[k] = todo[k + 1]
      <4>1. todo \in Seq(Exported)
        BY <1>1 DEF TypeOK
      <4> QED BY <3>1, <4>1, HeadTailProperties, LenProperties
    <3> QED BY <3>1
  <2>2. pc' \notin {"reading", "entry"} /\ exports' = exports
    BY DEF Grows
  <2> QED BY <1>1, <2>1, <2>2 DEF Listed
<1>5. Modes'
  BY <1>1 DEF Modes, FilesGrow
<1>6. Whole'
  <2>1. ASSUME NEW f \in Files', files'[f].processed PROVE linkable(f)' \subseteq marked'
    <3>1. f \in Files /\ linkable(f) \subseteq marked
      BY <1>1, <2>1 DEF Whole
    <3> SUFFICES ASSUME NEW s \in Segments', segs'[s].file = f, segs'[s].clazz # "debug"
                 PROVE  s \in marked'
      BY DEF linkable, InFile, isLinkable
    <3>2. CASE s \in Segments
      BY <3>1, <3>2 DEF Grows, linkable, InFile, isLinkable
    <3> QED BY <3>2
  <2>2. pc' = "all" => pc = "all" /\ walk'.at \in Nat \ {0} /\ walk'.changed
    <3>1. pc = "all" => walk.at \in Nat \ {0}
      BY <1>1 DEF Whole
    <3>2. walk \in [at : Nat, inside : BOOLEAN, changed : BOOLEAN]
      BY <1>1 DEF TypeOK
    <3>3. walk'.at = walk.at
      BY <3>2
    <3> QED BY <3>1, <3>3
  <2>3. pc' # "collected"
    OBVIOUS
  <2> QED BY <2>1, <2>2, <2>3 DEF Whole
<1> QED BY <1>2, <1>3, <1>4, <1>5, <1>6 DEF ReachInv

-----------------------------------------------------------------------------
(* What the parts of a step do to the files, the fixups and the stack. *)

LEMMA StillGrows ==
  ASSUME UNCHANGED <<segs, fixups, names>>, exports' = exports PROVE Grows
BY DEF Grows, Segments, Declared, SegOf, Leads

LEMMA FilesMarked ==
  ASSUME TypeOK, NEW f,
         \/ files' = files \/ files' = [files EXCEPT ![f].idata = TRUE]
         \/ files' = [files EXCEPT ![f].processed = TRUE]
  PROVE  /\ FilesGrow /\ Files' = Files
         /\ \A g \in Files :
              \/ files'[g].processed = files[g].processed
              \/ g = f /\ files' = [files EXCEPT ![f].processed = TRUE]
<1>1. /\ files \in Seq(File) /\ Len(files) \in Nat /\ Files = 1..Len(files)
  BY LenProperties DEF TypeOK, Files
<1>2. /\ Files' = Files /\ Len(files') = Len(files)
      /\ files # <<>> => files' # <<>>
      /\ files = <<>> => files' = <<>>
  BY <1>1 DEF Files
<1>3. ASSUME NEW g \in Files
      PROVE  /\ files'[g].extrnls = files[g].extrnls /\ files'[g].smart = files[g].smart
             /\ files'[g].lib = files[g].lib
             /\ \/ files'[g].processed = files[g].processed
                \/ g = f /\ files' = [files EXCEPT ![f].processed = TRUE]
  <2>1. files[g] \in File
    BY <1>1, ElementOfSeq
  <2>2. DOMAIN files[g] = {"lib", "smart", "extrnls", "processed", "idata", "commons"}
    BY <2>1 DEF File
  <2> QED BY <2>2 DEF Files
<1>4. xSmart' = xSmart
  <2>1. files # <<>> => Len(files) \in Files
    BY <1>1, EmptySeq DEF Files
  <2> QED BY <1>2, <1>3, <2>1 DEF xSmart
<1> QED BY <1>2, <1>3, <1>4 DEF FilesGrow

\* Frames of segments there are, at places that IsIDATA allows.
Sound(q) ==
  \A i \in DOMAIN q : /\ q[i].seg \in 0..Len(segs) /\ q[i].at \in Nat \ {0}
                      /\ External(q[i])

LEMMA StackSound ==
  ASSUME ReachInv
  PROVE  /\ Sound(stack) /\ Sound(<<>>)
         /\ stack # <<>> => Sound(Tail(stack))
<1>1. TypeOK /\ Externals
  BY DEF ReachInv, IInv
<1>2. stack \in Seq(Frames(marked))
  BY <1>1 DEF TypeOK, Frames
<1>3. ASSUME NEW i \in DOMAIN stack
      PROVE  stack[i].seg \in 0..Len(segs) /\ stack[i].at \in Nat \ {0} /\ External(stack[i])
  <2>1. stack[i] \in Frames(marked)
    BY <1>2, ElementOfSeq, LenProperties
  <2> QED BY <1>1, <2>1 DEF Frames, Externals, TypeOK
<1>4. ASSUME stack # <<>>, NEW i \in DOMAIN Tail(stack)
      PROVE  i + 1 \in DOMAIN stack /\ Tail(stack)[i] = stack[i + 1]
  BY <1>2, <1>4, HeadTailProperties, LenProperties
<1> QED BY <1>3, <1>4 DEF Sound

LEMMA OnTop ==
  ASSUME NEW M, NEW q \in Seq(M), NEW x, NEW j \in DOMAIN (<<x>> \o q)
  PROVE  \/ (<<x>> \o q)[j] = x
         \/ \E i \in DOMAIN q : (<<x>> \o q)[j] = q[i]
<1>1. q \in Seq(M \cup {x}) /\ <<x>> \in Seq(M \cup {x}) /\ Len(<<x>>) = 1 /\ <<x>>[1] = x
  <2>1. M \subseteq M \cup {x}
    OBVIOUS
  <2> QED BY <2>1, SeqMonotonic
<1>2. /\ Len(<<x>> \o q) = 1 + Len(q) /\ <<x>> \o q \in Seq(M \cup {x})
      /\ (<<x>> \o q)[1] = x
      /\ \A k \in 2..Len(<<x>> \o q) : (<<x>> \o q)[k] = q[k - 1]
  BY <1>1, ConcatProperties
<1>3. j \in 1..(1 + Len(q)) /\ Len(q) \in Nat /\ DOMAIN q = 1..Len(q)
  BY <1>1, <1>2, LenProperties
<1>4. j = 1 \/ (j \in 2..Len(<<x>> \o q) /\ j - 1 \in DOMAIN q)
  BY <1>2, <1>3
<1> QED BY <1>2, <1>4

LEMMA OnSound ==
  ASSUME ReachInv, Running, NEW k \in Nat,
         Top.at + k = Places + 2 => IsIDATA(Top.seg)
  PROVE  Sound(On(k))
<1>1. TypeOK /\ stack # <<>>
  BY RunningIsMarking DEF ReachInv
<1>2. /\ Top \in Frames(marked) /\ Top.seg \in 0..Len(segs) /\ Top.at \in Nat \ {0}
      /\ Tail(stack) \in Seq(Frames(marked))
  BY <1>1, TopProperties
<1> DEFINE g == [Top EXCEPT !.at = @ + k]
<1>3. g.seg = Top.seg /\ g.at = Top.at + k /\ Top.at + k \in Nat \ {0}
  <2>1. Top.at + k \in Nat \ {0}
    BY <1>2
  <2>2. g.seg = Top.seg /\ g.at = Top.at + k
    BY <1>2 DEF Frames
  <2> QED BY <2>1, <2>2
<1>4. External(g)
  BY <1>3 DEF External, Places
<1> HIDE DEF g
<1>5. On(k) = <<g>> \o Tail(stack)
  BY DEF On, g
<1>6. ASSUME NEW i \in DOMAIN On(k)
      PROVE  On(k)[i] = g \/ \E j \in DOMAIN Tail(stack) : On(k)[i] = Tail(stack)[j]
  BY <1>2, <1>5, OnTop
<1>7. Sound(Tail(stack))
  BY <1>1, StackSound
<1> QED BY <1>2, <1>3, <1>4, <1>6, <1>7 DEF Sound

LEMMA SoundKept ==
  ASSUME ReachInv, IInv', Grows, NEW q \in Seq(Frames(marked)), Sound(q),
         NEW s, stack' = q \/ stack' = <<Frame(s)>> \o q
  PROVE  Externals'
<1> SUFFICES \A i \in DOMAIN stack' : \A g : g = stack'[i] => External(g)'
  BY Zenon DEF Externals, External, IsIDATA
<1> TAKE i \in DOMAIN stack'
<1> TAKE g
<1> HAVE g = stack'[i]
<1>1. TypeOK /\ TypeOK'
  BY DEF ReachInv, IInv
<1>2. Segments = 1..Len(segs) /\ Len(segs) \in Nat
  BY <1>1 DEF TypeOK, Segments
<1>3. g = Frame(s) \/ \E j \in DOMAIN q : g = q[j]
  <2>1. CASE stack' = q
    BY <2>1
  <2>2. CASE stack' = <<Frame(s)>> \o q
    <3>1. i \in DOMAIN (<<Frame(s)>> \o q) /\ g = (<<Frame(s)>> \o q)[i]
      BY <2>2
    <3> QED BY <3>1, OnTop
  <2> QED BY <2>1, <2>2
<1>4. CASE g = Frame(s)
  <2>1. stack' \in Seq(Frames(marked'))
    BY <1>1 DEF TypeOK, Frames
  <2>2. Frame(s) \in Frames(marked')
    BY <1>4, <2>1, ElementOfSeq, LenProperties
  <2>3. Frame(s).seg = s /\ Frame(s).at = 1
    BY DEF Frame
  <2>4. s \in 0..Len(segs')
    BY <1>1, <2>2, <2>3 DEF Frames, TypeOK
  <2>5. Len(fixups'[s]) \in Nat
    <3>1. fixups'[s] \in Seq(Fixup)
      BY <1>1, <2>4 DEF TypeOK
    <3> QED BY <3>1, LenProperties
  <2> QED BY <1>4, <2>3, <2>5 DEF External
<1>5. ASSUME NEW j \in DOMAIN q, g = q[j] PROVE External(g)'
  <2>1. g.seg \in 0..Len(segs) /\ External(g)
    BY <1>5 DEF Sound
  <2>2. Len(fixups'[g.seg]) = Len(fixups[g.seg])
    BY <2>1 DEF Grows
  <2>3. IsIDATA(g.seg) => IsIDATA(g.seg)'
    BY <1>2, <2>1 DEF IsIDATA, Grows
  <2> QED BY <2>1, <2>2, <2>3 DEF External
<1> QED BY <1>3, <1>4, <1>5

-----------------------------------------------------------------------------
(* Steps that leave segments, fixups and names as they are. *)

LEMMA RunningChanged ==
  ASSUME ReachInv, Running
  PROVE  /\ pc \in {"exports", "all"} /\ (pc = "all" => walk.changed)
         /\ TypeOK /\ stack # <<>> /\ stack \in Seq(Frames(marked))
<1>1. TypeOK /\ stack # <<>> /\ pc \in {"exports", "all"} /\ Whole
  BY RunningIsMarking DEF ReachInv
<1> QED BY <1>1 DEF Whole, TypeOK, Frames

LEMMA StillKeeps ==
  ASSUME ReachInv, IInv', UNCHANGED <<segs, fixups, names>>, UNCHANGED reading,
         files' = files \/ \E f : files' = [files EXCEPT ![f].idata = TRUE],
         pc \in {"exports", "all"}, pc' \in {pc, "aborted"},
         todo' = todo \/ (todo # <<>> /\ todo' = Tail(todo)),
         walk' = walk \/ (pc = "all" /\ walk' = [walk EXCEPT !.changed = TRUE]),
         pc = "all" => walk'.changed,
         marked \subseteq marked',
         xSmart => \A s \in marked' \ marked : Justified(s),
         NEW q \in Seq(Frames(marked)), Sound(q),
         stack' = q \/ \E s : stack' = <<Frame(s)>> \o q
  PROVE  ReachInv'
<1>1. Grows /\ TypeOK
  BY StillGrows DEF reading, ReachInv, IInv
<1>2. /\ FilesGrow /\ Files' = Files
      /\ \A g \in Files : files'[g].processed = files[g].processed
  <2>1. PICK f : files' = files \/ files' = [files EXCEPT ![f].idata = TRUE]
    OBVIOUS
  <2>2. /\ FilesGrow /\ Files' = Files
        /\ \A g \in Files :
             \/ files'[g].processed = files[g].processed
             \/ g = f /\ files' = [files EXCEPT ![f].processed = TRUE]
    BY <1>1, <2>1, FilesMarked
  <2>3. ASSUME NEW g \in Files PROVE files'[g].processed = files[g].processed
    <3>1. files[g] \in File
      BY <1>1, ElementOfSeq, LenProperties DEF TypeOK, Files
    <3>2. DOMAIN files[g] = {"lib", "smart", "extrnls", "processed", "idata", "commons"}
      BY <3>1 DEF File
    <3> QED BY <2>1, <3>2 DEF Files
  <2> QED BY <2>2, <2>3
<1>3. Externals'
  <2>1. CASE stack' = q
    BY <1>1, <2>1, SoundKept
  <2>2. ASSUME NEW s, stack' = <<Frame(s)>> \o q PROVE Externals'
    BY <1>1, <2>2, SoundKept
  <2> QED BY <2>1, <2>2
<1>4. Segments' = Segments
  BY DEF Segments
<1> QED BY <1>1, <1>2, <1>3, <1>4, MarkingKeeps

\* A step of an activation that marks nothing.
LEMMA StepsOn ==
  ASSUME ReachInv, IInv', Running, UNCHANGED <<files, segs, fixups, names, marked>>,
         UNCHANGED reading, UNCHANGED roots, pc' \in {pc, "aborted"},
         stack' = stack \/ stack' = Tail(stack)
  PROVE  ReachInv'
<1>1. /\ pc \in {"exports", "all"} /\ (pc = "all" => walk.changed)
      /\ TypeOK /\ stack # <<>> /\ stack \in Seq(Frames(marked))
  BY RunningChanged
<1>2. /\ Sound(stack) /\ Sound(Tail(stack)) /\ Tail(stack) \in Seq(Frames(marked))
  BY <1>1, StackSound, TopProperties
<1>3. /\ todo' = todo /\ walk' = walk /\ files' = files /\ (pc = "all" => walk'.changed)
      /\ marked \subseteq marked' /\ marked' \ marked = {}
      /\ UNCHANGED <<segs, fixups, names>>
  BY <1>1 DEF roots
<1>4. CASE stack' = stack
  BY <1>1, <1>2, <1>3, <1>4, StillKeeps
<1>5. CASE stack' = Tail(stack)
  BY <1>1, <1>2, <1>3, <1>5, StillKeeps
<1> QED BY <1>4, <1>5

\* A step of an activation that goes k places on and visits s.
LEMMA VisitsOn ==
  ASSUME ReachInv, IInv', Running, UNCHANGED <<segs, fixups, names>>, UNCHANGED reading,
         UNCHANGED roots, pc' = pc,
         files' = files \/ \E f : files' = [files EXCEPT ![f].idata = TRUE],
         NEW k \in Nat, Top.at + k = Places + 2 => IsIDATA(Top.seg),
         NEW s, Visit(s, On(k)) \/ VisitAgain(s, On(k)) \/ (stack' = On(k) /\ marked' = marked),
         s \notin marked \cup {NULL} => s \in Requires(Top.seg)
  PROVE  ReachInv'
<1>1. /\ pc \in {"exports", "all"} /\ (pc = "all" => walk.changed)
      /\ TypeOK /\ stack # <<>>
  BY RunningChanged
<1>2. Top.seg \in marked /\ Top.seg \in 0..Len(segs)
  BY <1>1, TopProperties
<1>3. Sound(On(k)) /\ On(k) \in Seq(Frames(marked))
  BY <1>1, OnSound, OnProperties
<1>4. todo' = todo /\ walk' = walk /\ (pc = "all" => walk'.changed)
  BY <1>1 DEF roots
<1>5. /\ marked \subseteq marked' /\ marked' \subseteq marked \cup {s}
      /\ s \notin {NULL} \/ marked' = marked \/ VisitAgain(s, On(k))
      /\ stack' = On(k) \/ stack' = <<Frame(s)>> \o On(k)
  BY DEF Visit, VisitAgain
<1>6. NULL \notin marked'
  <2>1. marked' \subseteq 0..Len(segs') /\ Len(segs') \in Nat
    BY LenProperties DEF IInv, TypeOK
  <2> QED BY <2>1, CollectAssumption
<1>7. PICK t : t = Top.seg
  OBVIOUS
<1>8. Requires(t) \subseteq Requires(t)'
  <2>1. Grows
    BY StillGrows DEF reading
  <2>2. FilesGrow
    BY <1>1, FilesMarked
  <2> QED BY <1>2, <1>7, <2>1, <2>2, RequiresGrow DEF ReachInv
<1>9. ASSUME NEW x \in marked' \ marked PROVE Justified(x)
  <2>1. x = s /\ x \in Requires(t)'
    BY <1>5, <1>6, <1>7, <1>8
  <2> QED BY <1>2, <1>7, <2>1 DEF Justified
<1> QED BY <1>1, <1>3, <1>4, <1>5, <1>9, StillKeeps

LEMMA CollectFixupReach ==
  ASSUME ReachInv, IInv', CollectFixup PROVE ReachInv'
<1> DEFINE s == IF TypeNamed THEN names[Fx.target].seg
                ELSE IF Fx.kind \notin Special /\ Fx.tk = "seg" THEN Fx.target
                ELSE NULL
<1>1. /\ AtFixup /\ Running /\ IInv /\ TypeOK /\ Visit(s, On(1)) /\ pc' = pc /\ files' = files
      /\ UNCHANGED <<segs, fixups, names>> /\ UNCHANGED reading /\ UNCHANGED roots
  BY DEF CollectFixup, Steady, AtFixup, ReachInv, IInv
<1>2. Top.at <= Places /\ Places \in Nat /\ Top.at \in Nat \ {0}
  BY <1>1, TopProperties DEF AtFixup, Running
<1>3. Top.at \in DOMAIN fixups[Top.seg]
  BY <1>1, PlaceProperties
<1>4. s # NULL => s \in Leads(fixups[Top.seg][Top.at])
  BY DEF TypeNamed, Fx, Leads, Special
<1>5. s # NULL => s \in Requires(Top.seg)
  BY <1>3, <1>4, Reasons DEF Led
<1> HIDE DEF s
<1>6. Top.at + 1 # Places + 2
  BY <1>2
<1> QED BY <1>1, <1>5, <1>6, VisitsOn

LEMMA CollectDescriptorReach ==
  ASSUME ReachInv, IInv', CollectDescriptor PROVE ReachInv'
<1>1. /\ Running /\ IInv /\ TypeOK /\ Top.at = Places + 1 /\ pc' = pc
      /\ UNCHANGED <<segs, fixups, names>> /\ UNCHANGED reading /\ UNCHANGED roots
  BY DEF CollectDescriptor, Past, Steady, ReachInv, IInv
<1>2. Places \in Nat /\ Top.at \in Nat \ {0}
  BY <1>1, TopProperties DEF Running
<1> DEFINE S == {p \in InFile(segs[Top.seg].file) : IsIDATA_DOLLAR(p, "2") /\ p \notin marked}
<1>3. CASE /\ IsIDATA(Top.seg)
           /\ files' = [files EXCEPT ![segs[Top.seg].file].idata = TRUE]
           /\ Visit(First(S), On(1))
  <2>1. S \in SUBSET Segments /\ S \subseteq Described(Top.seg)
    BY DEF InFile, Described
  <2> HIDE DEF S
  <2>2. First(S) # NULL => First(S) \in S
    BY <1>1, <2>1, FirstProperties DEF First
  <2>3. First(S) # NULL => First(S) \in Requires(Top.seg)
    BY <1>3, <2>1, <2>2, Reasons
  <2> QED BY <1>1, <1>3, <2>3, VisitsOn
<1>4. CASE stack' = On(2) /\ files' = files /\ marked' = marked
  <2>1. Top.at + 2 # Places + 2
    BY <1>1, <1>2
  <2>2. NULL \in marked \cup {NULL}
    OBVIOUS
  <2> QED BY <1>1, <1>4, <2>1, <2>2, VisitsOn
<1> QED BY <1>3, <1>4 DEF CollectDescriptor

LEMMA CollectAddressesReach ==
  ASSUME ReachInv, IInv', CollectAddresses PROVE ReachInv'
<1>1. /\ Running /\ IInv /\ TypeOK /\ Top.at = Places + 3 /\ IsIDATA(Top.seg)
      /\ UNCHANGED <<files, segs, fixups, names>> /\ UNCHANGED reading /\ UNCHANGED roots
  BY DEF CollectAddresses, Past, ReachInv, IInv
<1> DEFINE later == {p \in InFile(segs[Top.seg].file) : p > Top.seg}
<1>2. CASE /\ later # {} /\ IsIDATA_DOLLAR(Least(later), "4")
           /\ VisitAgain(Least(later), On(1)) /\ pc' = pc
  <2>1. later \in SUBSET Segments /\ later \subseteq InFile(segs[Top.seg].file)
    BY DEF InFile
  <2> HIDE DEF later
  <2>2. Least(later) \in later
    BY <1>1, <1>2, <2>1, FirstProperties
  <2>3. Least(later) \in Requires(Top.seg)
    BY <1>1, <1>2, <2>1, <2>2, Reasons DEF Described
  <2> QED BY <1>1, <1>2, <2>3, VisitsOn
<1>3. CASE pc' = "aborted" /\ UNCHANGED <<stack, marked>>
  BY <1>1, <1>3, StepsOn
<1> QED BY <1>2, <1>3 DEF CollectAddresses

LEMMA QuietReach ==
  ASSUME ReachInv, IInv', Return \/ ResolveWeak \/ ResolveAbsolute PROVE ReachInv'
<1>1. Running
  BY DEF Return, ResolveWeak, ResolveAbsolute, ByName, AtFixup
<1>2. /\ UNCHANGED <<files, segs, fixups, names, marked>> /\ UNCHANGED reading
      /\ UNCHANGED roots /\ pc' \in {pc, "aborted"}
      /\ stack' = stack \/ stack' = Tail(stack)
  BY DEF Return, ResolveWeak, ResolveAbsolute, Steady, roots
<1> QED BY <1>1, <1>2, StepsOn

-----------------------------------------------------------------------------
(* Steps that resolve a fixup. *)

\* A fixup that names something leads nowhere yet.
LEMMA AimGrows ==
  ASSUME IInv, AtFixup, Fx.kind \notin Special, Fx.tk \in {"id", "fwd"},
         NEW L \in Nat, Len(segs) <= L, NEW g, NEW tk, NEW t,
         \A s \in 0..Len(segs) : g[s] = fixups[s],
         Retargeted(fixups', g, L, tk, t),
         Segments \subseteq Segments', 0..Len(segs) \subseteq 0..Len(segs'),
         \A s \in Segments : segs'[s] = segs[s],
         \A n \in Declared : SegOf(n) \subseteq SegOf(n)' /\ n \in Declared',
         exports' = exports
  PROVE  Grows
<1>1. TypeOK /\ Len(segs) \in Nat
  BY DEF IInv, TypeOK
<1>2. ASSUME NEW s \in 0..Len(segs)
      PROVE  /\ DOMAIN fixups'[s] = DOMAIN fixups[s]
             /\ Len(fixups'[s]) = Len(fixups[s])
             /\ \A j \in DOMAIN fixups[s] : Leads(fixups[s][j]) \subseteq Leads(fixups[s][j])'
  <2>1. s \in 0..L /\ g[s] = fixups[s]
    BY <1>1
  <2>2. DOMAIN fixups'[s] = DOMAIN fixups[s]
    BY <2>1 DEF Retargeted
  <2>3. Len(fixups'[s]) = Len(fixups[s])
    <3>1. fixups[s] \in Seq(Fixup) /\ fixups'[s] \in Seq(Fixup)
      BY <1>1, <2>1 DEF TypeOK, Retargeted
    <3> QED BY <2>2, <3>1, LenProperties
  <2>4. ASSUME NEW j \in DOMAIN fixups[s]
        PROVE  Leads(fixups[s][j]) \subseteq Leads(fixups[s][j])'
    <3>1. CASE fixups'[s][j] = fixups[s][j]
      BY <3>1 DEF Leads, SegOf, Special
    <3>2. CASE s = Top.seg /\ j = Top.at
      BY <3>2 DEF Leads, Fx, Special
    <3> QED BY <2>1, <3>1, <3>2 DEF Retargeted
  <2> QED BY <2>2, <2>3, <2>4
<1> QED BY <1>2 DEF Grows

LEMMA AimedInPlace ==
  ASSUME IInv, AtFixup,
         NEW tk \in TargetKind, NEW t \in Name \cup Address, NEW off \in Int,
         fixups' = Retarget(fixups, tk, t, off)
  PROVE  Retargeted(fixups', fixups, Len(segs), tk, t)
<1>1. Len(segs) \in Nat /\ fixups \in [0..Len(segs) -> Seq(Fixup)]
  BY LenProperties DEF IInv, TypeOK
<1>2. Len(segs) <= Len(segs) /\ \A s \in 0..Len(segs) : fixups[s] = fixups[s]
  BY <1>1
<1> QED BY <1>1, <1>2, RetargetProperties

LEMMA AimKeeps ==
  ASSUME ReachInv, IInv', AtFixup, pc' = pc, Fx.kind \notin Special, Fx.tk \in {"id", "fwd"},
         NEW tk \in TargetKind, NEW t \in Name \cup Address, NEW off \in Int,
         fixups' = Retarget(fixups, tk, t, off),
         UNCHANGED <<files, segs, names, marked, stack>>, UNCHANGED reading, UNCHANGED roots
  PROVE  ReachInv'
<1>1. /\ IInv /\ pc \in {"exports", "all"} /\ (pc = "all" => walk.changed)
      /\ TypeOK /\ stack \in Seq(Frames(marked)) /\ Sound(stack)
      /\ fixups \in [0..Len(segs) -> Seq(Fixup)] /\ Len(segs) \in Nat
  <2>1. Running /\ IInv
    BY DEF AtFixup, ReachInv
  <2>2. /\ pc \in {"exports", "all"} /\ (pc = "all" => walk.changed)
        /\ TypeOK /\ stack \in Seq(Frames(marked))
    BY <2>1, RunningChanged
  <2>3. Sound(stack)
    BY StackSound
  <2> QED BY <2>1, <2>2, <2>3, LenProperties DEF TypeOK
<1>2. Retargeted(fixups', fixups, Len(segs), tk, t)
  BY <1>1, AimedInPlace
<1>3. Grows
  <2>1. Segments' = Segments /\ segs' = segs /\ exports' = exports
    BY DEF Segments, reading
  <2>2. \A n \in Declared : SegOf(n) \subseteq SegOf(n)' /\ n \in Declared'
    BY DEF SegOf, Declared
  <2> QED BY <1>1, <1>2, <2>1, <2>2, AimGrows
<1>4. FilesGrow /\ Files' = Files
  BY <1>1, FilesMarked
<1>5. Externals'
  BY <1>1, <1>3, SoundKept
<1>6. /\ todo' = todo /\ walk' = walk /\ (pc = "all" => walk'.changed)
      /\ marked' = marked /\ Segments' = Segments /\ files' = files
  BY <1>1 DEF roots, Segments
<1>7. \A f \in Files : files'[f].processed = files[f].processed
  BY <1>6
<1>8. Files' \ Files = {} /\ Segments' \ Segments = {} /\ marked' \ marked = {}
  BY <1>4, <1>6
<1> QED BY <1>1, <1>3, <1>4, <1>5, <1>6, <1>7, <1>8, MarkingKeeps

LEMMA ResolveReach ==
  ASSUME ReachInv, IInv', ResolveUndefined \/ ResolveDefined \/ ResolveImport
  PROVE  ReachInv'
<1>1. /\ AtFixup /\ IInv /\ TypeOK /\ Fx.kind \notin Special /\ Fx.tk = "id" /\ pc' = pc
      /\ UNCHANGED <<files, segs, names, marked, stack>> /\ UNCHANGED reading
      /\ UNCHANGED roots
  BY DEF ResolveUndefined, ResolveDefined, ResolveImport, ByName, Steady, ReachInv, IInv
<1>2. CASE ResolveUndefined
  <2>1. NULL \in Name \cup Address /\ "invalid" \in TargetKind /\ 0 \in Int
    BY DEF Address, TargetKind
  <2> QED BY <1>1, <1>2, <2>1, AimKeeps DEF ResolveUndefined
<1>3. CASE ResolveDefined
  <2>1. names[Sought].seg \in Segments /\ names[Sought].off \in Int
    BY <1>1, <1>3, SoughtTypes DEF ResolveDefined
  <2>2. names[Sought].seg \in Name \cup Address /\ "seg" \in TargetKind
    BY <1>1, <2>1 DEF Address, Segments, TypeOK, TargetKind
  <2> QED BY <1>1, <1>3, <2>1, <2>2, AimKeeps DEF ResolveDefined
<1>4. CASE ResolveImport
  <2>1. Sought \in Name
    BY <1>1, <1>4, SoughtTypes DEF ResolveImport, Known
  <2>2. Sought \in Name \cup Address /\ "import" \in TargetKind /\ 0 \in Int
    BY <2>1 DEF TargetKind
  <2> QED BY <1>1, <1>4, <2>2, AimKeeps DEF ResolveImport
<1> QED BY <1>2, <1>3, <1>4

LEMMA ResolveForwardReach ==
  ASSUME ReachInv, IInv', ResolveForward PROVE ReachInv'
<1>1. /\ AtFixup /\ Running /\ IInv /\ TypeOK /\ Fx.kind \notin Special /\ Fx.tk = "fwd"
      /\ UNCHANGED <<files, segs, names, marked, stack>> /\ UNCHANGED reading
      /\ UNCHANGED roots
  BY DEF ResolveForward, AtFixup, ReachInv, IInv
<1> DEFINE later == {s \in InFile(segs[Top.seg].file) :
                       s > Top.seg /\ segs[s].name = Fx.target}
<1>2. CASE pc' = "aborted" /\ UNCHANGED fixups
  BY <1>1, <1>2, StepsOn
<1>3. CASE later # {} /\ fixups' = Retarget(fixups, "seg", Least(later), 0) /\ pc' = pc
  <2>1. later \in SUBSET Segments
    BY DEF InFile
  <2> HIDE DEF later
  <2>2. Least(later) \in Segments
    BY <1>1, <1>3, <2>1, FirstProperties
  <2>3. Least(later) \in Name \cup Address
    <3>1. Len(segs) \in Nat /\ Segments = 1..Len(segs)
      BY <1>1 DEF TypeOK, Segments
    <3> QED BY <2>2, <3>1 DEF Address
  <2>4. "seg" \in TargetKind /\ 0 \in Int
    BY DEF TargetKind
  <2> QED BY <1>1, <1>3, <2>3, <2>4, AimKeeps
<1> QED BY <1>2, <1>3 DEF ResolveForward

-----------------------------------------------------------------------------
(* Steps that look a name up. *)

\* What CreateSegment leaves as it was.
LEMMA CreatedGrows ==
  ASSUME ReachInv, NEW n \in Declared, names[n].kind = "common", names[n].seg = NULL,
         NEW fx, CreateSegment(n, fx)
  PROVE  /\ Len(segs') = Len(segs) + 1 /\ Len(segs) \in Nat
         /\ Segments \subseteq Segments' /\ 0..Len(segs) \subseteq 0..Len(segs')
         /\ Segments' \ Segments = {Len(segs) + 1} /\ marked' = marked \cup {Len(segs) + 1}
         /\ \A s \in Segments : segs'[s] = segs[s]
         /\ \A m \in Declared : SegOf(m) \subseteq SegOf(m)' /\ m \in Declared'
         /\ SegOf(n)' = {Len(segs) + 1} /\ names'[n].seg = Len(segs) + 1
         /\ FilesGrow /\ segs'[Len(segs) + 1].file \in Files'
         /\ \A f \in Files : files'[f].processed = files[f].processed
         /\ \A f \in Files' \ Files : ~files'[f].processed
<1>1. TypeOK
  BY DEF ReachInv, IInv
<1>2. /\ files' \in Seq(File) /\ segs' \in Seq(Segment)
      /\ Len(segs') = Len(segs) + 1 /\ Len(segs) \in Nat
      /\ Segments = 1..Len(segs) /\ Segments' = 1..Len(segs')
      /\ names' = [names EXCEPT ![n].seg = Len(segs) + 1]
      /\ marked' = marked \cup {Len(segs) + 1} /\ fixups' = fx
  BY <1>1, CreatedTypes
<1> DEFINE L == Len(segs) + 1
<1>3. L \in Segments' /\ L \notin Segments /\ L # NULL /\ Segments' \ Segments = {L}
  BY <1>2, CollectAssumption
<1>4. /\ Segments \subseteq Segments' /\ 0..Len(segs) \subseteq 0..Len(segs')
      /\ \A s \in Segments : segs'[s] = segs[s]
  <2>1. PICK x : segs' = Append(segs, x)
    BY DEF CreateSegment
  <2>2. \A s \in Segments : segs'[s] = segs[s]
    BY <1>1, <1>2, <2>1 DEF TypeOK
  <2> QED BY <1>2, <2>2
<1>5. /\ \A m \in Declared : m \in Declared' /\ (m # n => names'[m] = names[m])
      /\ names'[n].seg = L
  <2>1. DOMAIN names[n] = {"kind", "seg", "off", "arg"}
    BY <1>1 DEF TypeOK, Info
  <2> QED BY <1>2, <2>1 DEF Declared
<1>6. /\ \A m \in Declared : SegOf(m) \subseteq SegOf(m)'
      /\ SegOf(n)' = {L}
  BY <1>3, <1>5 DEF SegOf
<1>7. /\ FilesGrow /\ segs'[L].file \in Files'
      /\ \A f \in Files : files'[f].processed = files[f].processed
      /\ \A f \in Files' \ Files : ~files'[f].processed
  <2> DEFINE fl == [lib |-> NULL, extrnls |-> <<>>,
                    smart |-> files # <<>> => files[Len(files)].smart,
                    processed |-> FALSE, idata |-> FALSE, commons |-> TRUE]
             f == IF CommonsAreLast THEN Len(files) ELSE Len(files) + 1
  <2>1. segs'[L].file = f
    <3>1. PICK x : segs' = Append(segs, x) /\ x.file = f
      BY DEF CreateSegment
    <3> QED BY <1>1, <3>1 DEF TypeOK
  <2>2. Files = 1..Len(files) /\ Len(files) \in Nat /\ files \in Seq(File)
    BY <1>1, LenProperties DEF Files, TypeOK
  <2>3. CASE CommonsAreLast
    <3>1. files' = files /\ f = Len(files) /\ files # <<>>
      BY <2>3 DEF CreateSegment, CommonsAreLast
    <3>2. Len(files) \in Files
      BY <2>2, <3>1, EmptySeq
    <3>3. Files' = Files /\ xSmart' = xSmart
      BY <3>1 DEF Files, xSmart
    <3> HIDE DEF f
    <3> QED BY <2>1, <3>1, <3>2, <3>3 DEF FilesGrow
  <2>4. CASE ~CommonsAreLast
    <3>1. files' = Append(files, fl) /\ f = Len(files) + 1
      BY <2>4 DEF CreateSegment
    <3>2. fl.smart = (files # <<>> => files[Len(files)].smart) /\ fl.processed = FALSE
      OBVIOUS
    <3> HIDE DEF fl
    <3>3. /\ Files' = 1..(Len(files) + 1) /\ Len(files') = Len(files) + 1
          /\ \A g \in Files : files'[g] = files[g]
          /\ files'[Len(files) + 1] = fl /\ files' # <<>>
      BY <2>2, <3>1 DEF Files
    <3>4. xSmart' = xSmart
      <4>1. xSmart' <=> files'[Len(files')].smart
        BY <3>3 DEF xSmart
      <4>2. files'[Len(files')] = fl
        BY <3>3
      <4>3. xSmart' <=> (files # <<>> => files[Len(files)].smart)
        BY <3>2, <4>1, <4>2
      <4> QED BY <4>3 DEF xSmart
    <3>5. Files \subseteq Files' /\ f \in Files' /\ Files' \ Files = {Len(files) + 1}
      BY <2>2, <3>1, <3>3
    <3> QED BY <2>1, <3>2, <3>3, <3>4, <3>5 DEF FilesGrow
  <2> QED BY <2>3, <2>4
<1> QED BY <1>2, <1>3, <1>4, <1>5, <1>6, <1>7

LEMMA ResolveCommonReach ==
  ASSUME ReachInv, IInv', ResolveCommon PROVE ReachInv'
<1>1. /\ AtFixup /\ Running /\ IInv /\ TypeOK /\ Fx.kind \notin Special /\ Fx.tk = "id"
      /\ pc' = pc /\ stack' = stack /\ UNCHANGED reading /\ UNCHANGED roots
      /\ Sought \in Declared /\ names[Sought].kind = "common" /\ names[Sought].seg = NULL
  BY DEF ResolveCommon, ByName, AtFixup, Known, Steady, ReachInv, IInv
<1>2. /\ pc \in {"exports", "all"} /\ (pc = "all" => walk.changed)
      /\ stack # <<>> /\ stack \in Seq(Frames(marked)) /\ Sound(stack)
  BY <1>1, RunningChanged, StackSound
<1> DEFINE L == Len(segs) + 1
           fx == Retarget(Grown, "seg", L, 0)
<1>3. /\ Grown \in [0..L -> Seq(Fixup)]
      /\ \A s \in 0..Len(segs) : Grown[s] = fixups[s]
      /\ Len(segs) \in Nat
  BY <1>1, GrownProperties
<1>4. L \in Nat /\ Len(segs) <= L /\ L \in Name \cup Address /\ "seg" \in TargetKind /\ 0 \in Int
  BY <1>3 DEF Address, TargetKind
<1>5. CreateSegment(Sought, fx)
  BY DEF ResolveCommon
<1>6. fixups' = fx
  BY <1>5 DEF CreateSegment
<1>7. Retargeted(fixups', Grown, L, "seg", L)
  BY <1>1, <1>3, <1>4, <1>6, RetargetProperties
<1>8. /\ Segments \subseteq Segments' /\ 0..Len(segs) \subseteq 0..Len(segs')
      /\ Segments' \ Segments = {L} /\ marked' = marked \cup {L}
      /\ \A s \in Segments : segs'[s] = segs[s]
      /\ \A m \in Declared : SegOf(m) \subseteq SegOf(m)' /\ m \in Declared'
      /\ FilesGrow /\ segs'[L].file \in Files'
      /\ \A f \in Files : files'[f].processed = files[f].processed
      /\ \A f \in Files' \ Files : ~files'[f].processed
  <2> HIDE DEF fx
  <2> QED BY <1>1, <1>5, CreatedGrows
<1>9. Grows
  <2>1. exports' = exports
    BY <1>1 DEF reading
  <2> HIDE DEF L, fx
  <2> QED BY <1>1, <1>3, <1>4, <1>7, <1>8, <2>1, AimGrows
<1>10. PICK t, j : t = Top.seg /\ j = Top.at
  OBVIOUS
<1>11. L \in Led(t)'
  <2>1. t \in 0..Len(segs) /\ j \in DOMAIN fixups[t] /\ fixups[t][j] = Fx
    BY <1>1, <1>10, PlaceProperties DEF Fx
  <2>2. t \in 0..L /\ Grown[t] = fixups[t]
    BY <1>3, <2>1
  <2>3. fixups' = [Grown EXCEPT ![t][j] = [Fx EXCEPT !.tk = "seg", !.target = L, !.off = @ + 0]]
    BY <1>6, <1>10 DEF Retarget
  <2>4. fixups'[t][j] = [Fx EXCEPT !.tk = "seg", !.target = L, !.off = @ + 0]
        /\ j \in DOMAIN fixups'[t]
    BY <1>3, <2>1, <2>2, <2>3
  <2>5. Fx \in Fixup
    BY <1>1, PlaceProperties
  <2>6. /\ fixups'[t][j].kind \notin Special /\ fixups'[t][j].tk = "seg"
        /\ fixups'[t][j].target = L
    BY <1>1, <2>4, <2>5 DEF Fixup
  <2>7. L \in Leads(fixups[t][j])'
    BY <2>6 DEF Leads, Special
  <2> QED BY <2>4, <2>7 DEF Led
<1>12. \A s \in marked' \ marked : Justified(s)
  <2>1. t \in marked
    BY <1>1, <1>10, PlaceProperties
  <2>2. L \in Requires(t)'
    BY <1>11, ReasonsThen
  <2> QED BY <1>8, <2>1, <2>2 DEF Justified
<1>13. Externals'
  BY <1>1, <1>2, <1>9, SoundKept
<1>14. /\ todo' = todo /\ walk' = walk /\ (pc = "all" => walk'.changed)
       /\ marked \subseteq marked' /\ L \in marked'
  BY <1>1, <1>2, <1>8 DEF roots
<1> HIDE DEF L, fx
<1> QED BY <1>1, <1>2, <1>8, <1>9, <1>12, <1>13, <1>14, MarkingKeeps

\* An export or an .idata$ segment asks for the name n.
Asked(n) ==
  \/ \E k \in DOMAIN exports : n = exports[k].int
  \/ \E t \in marked : /\ IsIDATA(t) /\ files[segs[t].file].extrnls # <<>>
                       /\ n = Head(files[segs[t].file].extrnls)

LEMMA AskedJustified ==
  ASSUME IInv, Filed, Grows, FilesGrow, NEW n, Asked(n), NEW s \in SegOf(n)'
  PROVE  Justified(s)
<1>1. CASE \E k \in DOMAIN exports : n = exports[k].int
  <2>1. PICK k \in DOMAIN exports : n = exports[k].int
    BY <1>1
  <2>2. exports'[k].int = n
    BY <2>1 DEF Grows
  <2>3. s \in SegOf(exports[k].int)'
    BY <2>2 DEF SegOf
  <2> QED BY <2>3 DEF Justified
<1>2. ASSUME NEW t \in marked, IsIDATA(t), files[segs[t].file].extrnls # <<>>,
             n = Head(files[segs[t].file].extrnls)
      PROVE  Justified(s)
  <2>1. t \in Segments /\ segs'[t] = segs[t] /\ segs[t].file \in Files
    BY <1>2 DEF IInv, TypeOK, Segments, IsIDATA, Grows, Filed
  <2>2. PICK f : f = segs[t].file
    OBVIOUS
  <2>3. /\ segs'[t].file = f /\ files'[f].extrnls # <<>>
        /\ n = Head(files'[f].extrnls)
    BY <1>2, <2>1, <2>2 DEF FilesGrow
  <2>4. IsIDATA(t)'
    BY <1>2, <2>1 DEF IsIDATA
  <2>5. s \in FirstNamed(t)'
    BY <2>3 DEF FirstNamed, SegOf
  <2>6. s \in Requires(t)'
    BY <2>4, <2>5, ReasonsThen
  <2> QED BY <2>6 DEF Justified
<1> QED BY <1>1, <1>2 DEF Asked

LEMMA CollectNameReach ==
  ASSUME ReachInv, IInv', NEW n, NEW rest \in Seq(Frames(marked)), Sound(rest),
         CollectName(n, rest), Asked(n), UNCHANGED reading, pc' = pc, walk' = walk,
         pc \in {"exports", "all"}, pc = "all" => walk.changed,
         todo' = todo \/ (todo # <<>> /\ todo' = Tail(todo))
  PROVE  ReachInv'
<1>1. IInv /\ TypeOK /\ Filed
  BY DEF ReachInv, IInv
<1>2. CASE n \notin Declared
  <2>1. /\ stack' = rest /\ UNCHANGED <<segs, fixups, names>> /\ files' = files
        /\ marked \subseteq marked' /\ marked' \ marked = {}
    BY <1>2 DEF CollectName
  <2> QED BY <2>1, StillKeeps
<1>3. CASE n \in Declared /\ names[n].kind = "common" /\ names[n].seg = NULL
  <2> DEFINE L == Len(segs) + 1
  <2>1. CreateSegment(n, Grown) /\ stack' = rest
    BY <1>3 DEF CollectName
  <2>2. fixups' = Grown
    BY <2>1 DEF CreateSegment
  <2>3. \A s \in 0..Len(segs) : fixups'[s] = fixups[s]
    BY <1>1, <2>2, GrownProperties
  <2>4. /\ Segments \subseteq Segments' /\ 0..Len(segs) \subseteq 0..Len(segs')
        /\ Segments' \ Segments = {L} /\ marked' = marked \cup {L}
        /\ \A s \in Segments : segs'[s] = segs[s]
        /\ \A m \in Declared : SegOf(m) \subseteq SegOf(m)' /\ m \in Declared'
        /\ SegOf(n)' = {L}
        /\ FilesGrow /\ segs'[L].file \in Files'
        /\ \A f \in Files : files'[f].processed = files[f].processed
        /\ \A f \in Files' \ Files : ~files'[f].processed
    BY <1>3, <2>1, CreatedGrows
  <2> HIDE DEF L
  <2>5. Grows
    <3>1. ASSUME NEW s \in 0..Len(segs), NEW j \in DOMAIN fixups[s]
          PROVE  Leads(fixups[s][j]) \subseteq Leads(fixups[s][j])'
      <4>1. PICK x : x = fixups[s][j]
        OBVIOUS
      <4>2. fixups'[s][j] = x
        BY <2>3, <4>1
      <4>3. \A m \in Declared : SegOf(m) \subseteq SegOf(m)' /\ m \in Declared'
        BY <2>4
      <4> QED BY <4>1, <4>2, <4>3 DEF Leads, SegOf, Special
    <3>2. exports' = exports
      BY DEF reading
    <3> QED BY <2>3, <2>4, <3>1, <3>2 DEF Grows
  <2>6. \A s \in marked' \ marked : Justified(s)
    BY <1>1, <2>4, <2>5, AskedJustified
  <2>7. Externals'
    BY <2>1, <2>5, SoundKept
  <2>8. marked \subseteq marked' /\ L \in marked'
    BY <2>4
  <2> QED BY <2>4, <2>5, <2>6, <2>7, <2>8, MarkingKeeps
<1>4. CASE n \in Declared /\ ~(names[n].kind = "common" /\ names[n].seg = NULL)
  <2>1. /\ Visit(names[n].seg, rest) /\ UNCHANGED <<segs, fixups, names>> /\ files' = files
    BY <1>4 DEF CollectName
  <2>2. Grows /\ FilesGrow
    BY <1>1, <2>1, StillGrows, FilesMarked DEF reading
  <2>3. /\ marked \subseteq marked'
        /\ stack' = rest \/ stack' = <<Frame(names[n].seg)>> \o rest
        /\ marked' \ marked \subseteq {names[n].seg} \ {NULL}
    BY <2>1 DEF Visit
  <2>4. \A s \in marked' \ marked : s \in SegOf(n)'
    BY <1>4, <2>1, <2>3 DEF SegOf, Declared
  <2>5. \A s \in marked' \ marked : Justified(s)
    BY <1>1, <2>2, <2>4, AskedJustified
  <2> QED BY <2>1, <2>3, <2>5, StillKeeps
<1> QED BY <1>2, <1>3, <1>4

LEMMA CollectExternalReach ==
  ASSUME ReachInv, IInv', CollectExternal PROVE ReachInv'
<1>1. /\ Running /\ Top.at = Places + 2 /\ UNCHANGED reading /\ UNCHANGED roots
      /\ IInv /\ TypeOK /\ Externals
  BY DEF CollectExternal, Past, ReachInv, IInv
<1>2. /\ pc \in {"exports", "all"} /\ (pc = "all" => walk.changed) /\ stack # <<>>
  BY <1>1, RunningChanged
<1>3. IsIDATA(Top.seg) /\ Top.seg \in marked /\ Places \in Nat /\ Top.at \in Nat \ {0}
  <2>1. Top = stack[1] /\ 1 \in DOMAIN stack /\ Top.seg \in marked /\ Places \in Nat
        /\ Top.at \in Nat \ {0}
    BY <1>1, <1>2, TopProperties
  <2>2. External(Top)
    BY <1>1, <2>1 DEF Externals
  <2> QED BY <1>1, <2>1, <2>2 DEF External, Places
<1> DEFINE e == files[segs[Top.seg].file].extrnls
<1>4. CASE /\ pc' = "aborted"
           /\ UNCHANGED <<files, segs, fixups, names, marked, used, errors, stack>>
  BY <1>1, <1>4, StepsOn
<1>5. CASE e # <<>> /\ CollectName(Head(e), On(1)) /\ pc' = pc
  <2>1. Asked(Head(e))
    BY <1>3, <1>5 DEF Asked
  <2>2. On(1) \in Seq(Frames(marked))
    BY <1>1, <1>2, OnProperties
  <2>3. Top.at + 1 # Places + 2
    BY <1>1, <1>3
  <2>4. Sound(On(1))
    BY <1>1, <2>3, OnSound
  <2>5. walk' = walk /\ todo' = todo
    BY <1>1 DEF roots
  <2> HIDE DEF e
  <2> QED BY <1>1, <1>2, <1>5, <2>1, <2>2, <2>4, <2>5, CollectNameReach
<1> QED BY <1>4, <1>5 DEF CollectExternal

LEMMA ExportNextReach ==
  ASSUME ReachInv, IInv', ExportNext PROVE ReachInv'
<1>1. /\ pc = "exports" /\ pc' = pc /\ stack = <<>> /\ todo # <<>> /\ todo' = Tail(todo)
      /\ walk' = walk /\ UNCHANGED reading /\ IInv /\ TypeOK /\ Filed /\ Listed
  BY DEF ExportNext, Idle, ReachInv, IInv
<1>2. <<>> \in Seq(Frames(marked)) /\ Sound(<<>>)
  BY StackSound
<1>3. PICK k \in DOMAIN exports : Head(todo) = exports[k]
  <2>1. 1 \in DOMAIN todo /\ Head(todo) = todo[1]
    BY <1>1, EmptySeq, LenProperties DEF TypeOK
  <2> QED BY <1>1, <2>1 DEF Listed
<1>4. CASE exports[k].seg # NULL
  <2>1. /\ VisitAgain(exports[k].seg, <<>>) /\ UNCHANGED <<segs, fixups, names>>
        /\ files' = files
    BY <1>3, <1>4 DEF ExportNext
  <2>2. /\ marked' = marked \cup {exports[k].seg}
        /\ stack' = <<Frame(exports[k].seg)>> \o <<>>
    BY <2>1 DEF VisitAgain
  <2>3. \A s \in marked' \ marked : Justified(s)
    BY <1>4, <2>2 DEF Justified
  <2>4. marked \subseteq marked'
    BY <2>2
  <2> QED BY <1>1, <1>2, <2>1, <2>2, <2>3, <2>4, StillKeeps
<1>5. CASE exports[k].seg = NULL
  <2>1. CollectName(exports[k].int, <<>>)
    BY <1>3, <1>5 DEF ExportNext
  <2>2. Asked(exports[k].int)
    BY DEF Asked
  <2> QED BY <1>1, <1>2, <2>1, <2>2, CollectNameReach
<1> QED BY <1>4, <1>5

-----------------------------------------------------------------------------
(* The steps of PrepareSections and CollectAll that mark nothing. *)

\* What they keep of the invariant: fixups, segments, names and marks stay.
LEMMA WalkKeeps ==
  ASSUME ReachInv, UNCHANGED <<segs, fixups, names, marked>>, UNCHANGED reading,
         \/ files' = files
         \/ \E f : files' = [files EXCEPT ![f].processed = TRUE]
  PROVE  Filed' /\ OnlyReachable' /\ Files' = Files /\ xSmart' = xSmart
<1>1. IInv /\ TypeOK /\ Filed /\ OnlyReachable
  BY DEF ReachInv, IInv
<1>2. Grows
  BY StillGrows DEF reading
<1>3. FilesGrow /\ Files' = Files
  BY <1>1, FilesMarked
<1>4. OnlyReachable'
  BY <1>1, <1>2, <1>3, ReachKept
<1>5. Filed'
  BY <1>1, <1>3 DEF Filed, Segments
<1> QED BY <1>3, <1>4, <1>5 DEF FilesGrow

\* As long as files and marks stay, so do the wishes.
LEMMA WantedStays ==
  ASSUME UNCHANGED <<segs, marked, files>>, NEW f
  PROVE  (Wanted(f)' <=> Wanted(f)) /\ linkable(f)' = linkable(f)
BY DEF Wanted, linkable, InFile, isLinkable, Segments

LEMMA EntryFirstReach ==
  ASSUME ReachInv, IInv', EntryFirst PROVE ReachInv'
<1>1. /\ pc = "entry" /\ pc' = "exports" /\ todo' = exports /\ stack = <<>>
      /\ walk' = walk /\ UNCHANGED <<files, segs, fixups, names, marked>>
      /\ UNCHANGED reading /\ exports' = exports
      /\ stack' = <<>> \/ stack' = <<Frame(0)>>
  BY DEF EntryFirst, Idle, kept, reading
<1>2. IInv /\ TypeOK /\ Listed /\ Modes /\ Whole
  BY DEF ReachInv, IInv
<1>3. Filed' /\ OnlyReachable' /\ Files' = Files /\ xSmart' = xSmart
  BY <1>1, WalkKeeps
<1>4. Listed'
  BY <1>1 DEF Listed
<1>5. Externals'
  <2>1. <<Frame(0)>> = <<Frame(0)>> \o <<>>
    OBVIOUS
  <2>2. <<>> \in Seq(Frames(marked)) /\ Sound(<<>>) /\ Grows
    BY <1>1, StackSound, StillGrows
  <2> QED BY <1>1, <2>1, <2>2, SoundKept
<1>6. Modes'
  BY <1>1, <1>2, <1>3 DEF Modes
<1>7. Whole'
  BY <1>1, <1>2, <1>3, WantedStays DEF Whole
<1> QED BY <1>3, <1>4, <1>5, <1>6, <1>7 DEF ReachInv

LEMMA ExportsEndReach ==
  ASSUME ReachInv, IInv', ExportsEnd PROVE ReachInv'
<1>1. /\ pc = "exports" /\ pc' = (IF xSmart THEN "collected" ELSE "all")
      /\ todo' = todo /\ stack' = <<>> /\ walk' = walk
      /\ UNCHANGED <<files, segs, fixups, names, marked>>
      /\ UNCHANGED reading /\ exports' = exports
  BY DEF ExportsEnd, Idle, kept, reading, roots
<1>2. IInv /\ TypeOK /\ Listed /\ Modes /\ Whole
  BY DEF ReachInv, IInv
<1>3. Filed' /\ OnlyReachable' /\ Files' = Files /\ xSmart' = xSmart
  BY <1>1, WalkKeeps
<1>4. Listed' /\ Externals' /\ Modes'
  BY <1>1, <1>2, <1>3 DEF Listed, Externals, Modes
<1>5. walk.at = 1
  BY <1>1, <1>2 DEF Modes
<1>6. \A f \in Files : ~(f < 1)
  BY <1>2 DEF TypeOK, Files
<1>7. Whole'
  BY <1>1, <1>2, <1>3, <1>5, <1>6, WantedStays DEF Whole
<1> QED BY <1>3, <1>4, <1>7 DEF ReachInv

\* A step of CollectAll's loop over the files.
LEMMA PassKeeps ==
  ASSUME ReachInv, IInv', pc = "all", stack = <<>>, stack' = <<>>, todo' = todo,
         UNCHANGED <<segs, fixups, names, marked>>, UNCHANGED reading,
         pc' \in {"all", "collected"}, walk'.at \in Nat \ {0},
         \/ files' = files
         \/ /\ files' = [files EXCEPT ![walk.at].processed = TRUE]
            /\ linkable(walk.at) \subseteq marked,
         ~walk'.changed \/ pc' = "collected" =>
           \A f \in Files : pc' = "collected" \/ f < walk'.at => ~Wanted(f)'
  PROVE  ReachInv'
<1>1. IInv /\ TypeOK /\ Listed /\ Modes /\ Whole /\ exports' = exports /\ ~xSmart
  BY DEF ReachInv, IInv, reading, Modes
<1>2. Filed' /\ OnlyReachable' /\ Files' = Files /\ xSmart' = xSmart
  BY WalkKeeps
<1>3. Listed' /\ Externals' /\ Modes'
  BY <1>1, <1>2 DEF Listed, Externals, Modes
<1>4. ASSUME NEW f \in Files, files'[f].processed PROVE linkable(f)' \subseteq marked'
  <2>1. linkable(f)' = linkable(f)
    BY DEF linkable, InFile, isLinkable, Segments
  <2>2. files[f].processed \/ (f = walk.at /\ linkable(walk.at) \subseteq marked)
    BY <1>4 DEF Files
  <2> QED BY <1>1, <2>1, <2>2 DEF Whole
<1>5. Whole'
  BY <1>1, <1>2, <1>4 DEF Whole
<1> QED BY <1>2, <1>3, <1>5 DEF ReachInv

LEMMA AllNextFileReach ==
  ASSUME ReachInv, IInv', AllNextFile PROVE ReachInv'
<1>1. /\ pc = "all" /\ stack = <<>> /\ stack' = <<>> /\ todo' = todo /\ pc' = "all"
      /\ UNCHANGED <<files, segs, fixups, names, marked>> /\ UNCHANGED reading
      /\ walk' = IF Wanted(walk.at) /\ ~walk.changed
                 THEN [walk EXCEPT !.inside = TRUE]
                 ELSE [walk EXCEPT !.at = @ + 1]
  BY DEF AllNextFile, Idle, kept
<1>2. /\ walk \in [at : Nat, inside : BOOLEAN, changed : BOOLEAN] /\ walk.at \in Nat \ {0}
      /\ ~walk.changed => \A f \in Files : f < walk.at => ~Wanted(f)
      /\ Files \subseteq Nat
  BY <1>1 DEF ReachInv, IInv, TypeOK, Whole, Files
<1>3. CASE Wanted(walk.at) /\ ~walk.changed
  <2>1. walk'.at = walk.at /\ walk'.changed = walk.changed
    BY <1>1, <1>2, <1>3
  <2>2. \A f \in Files : f < walk'.at => ~Wanted(f)'
    BY <1>1, <1>2, <1>3, <2>1, WantedStays
  <2> QED BY <1>1, <1>2, <2>1, <2>2, PassKeeps
<1>4. CASE ~(Wanted(walk.at) /\ ~walk.changed)
  <2>1. walk'.at = walk.at + 1 /\ walk'.changed = walk.changed
    BY <1>1, <1>2, <1>4
  <2>2. ASSUME ~walk.changed, NEW f \in Files, f < walk'.at PROVE ~Wanted(f)'
    <3>1. f < walk.at \/ f = walk.at
      BY <1>2, <2>1, <2>2
    <3> QED BY <1>1, <1>2, <1>4, <2>2, <3>1, WantedStays
  <2>3. walk'.at \in Nat \ {0} /\ pc' # "collected"
    BY <1>1, <1>2, <2>1
  <2> QED BY <1>1, <2>1, <2>2, <2>3, PassKeeps
<1> QED BY <1>3, <1>4

LEMMA AllNextSegmentReach ==
  ASSUME ReachInv, IInv', AllNextSegment PROVE ReachInv'
<1>1. /\ pc = "all" /\ stack = <<>> /\ todo' = todo /\ pc' = "all"
      /\ UNCHANGED <<segs, fixups, names>> /\ UNCHANGED reading
  BY DEF AllNextSegment, Idle
<1>2. /\ walk \in [at : Nat, inside : BOOLEAN, changed : BOOLEAN] /\ walk.at \in Nat \ {0}
      /\ ~walk.changed => \A f \in Files : f < walk.at => ~Wanted(f)
      /\ Files = 1..Len(files) /\ ~xSmart /\ files \in Seq(File)
  <2>1. TypeOK /\ Whole /\ Modes
    BY DEF ReachInv, IInv
  <2> QED BY <1>1, <2>1, LenProperties DEF TypeOK, Whole, Files, Modes
<1> DEFINE left == {s \in InFile(walk.at) : isLinkable(s) /\ s \notin marked}
<1>3. CASE /\ VisitAgain(Least(left), <<>>)
           /\ walk' = [walk EXCEPT !.changed = TRUE] /\ files' = files
  <2>1. <<>> \in Seq(Frames(marked)) /\ Sound(<<>>)
    BY StackSound
  <2>2. marked \subseteq marked' /\ \E s : stack' = <<Frame(s)>> \o <<>>
    BY <1>3 DEF VisitAgain
  <2>3. walk'.changed
    BY <1>2, <1>3
  <2> HIDE DEF left
  <2> QED BY <1>1, <1>2, <1>3, <2>1, <2>2, <2>3, StillKeeps
<1>4. CASE /\ left = {}
           /\ files' = [files EXCEPT ![walk.at].processed = TRUE]
           /\ walk' = [walk EXCEPT !.inside = FALSE, !.at = @ + 1]
           /\ UNCHANGED <<marked, stack>>
  <2>1. walk'.at = walk.at + 1 /\ walk'.changed = walk.changed /\ stack' = <<>>
    BY <1>1, <1>2, <1>4
  <2>2. linkable(walk.at) \subseteq marked
    BY <1>4 DEF linkable
  <2>3. ASSUME ~walk.changed, NEW f \in Files, f < walk'.at PROVE ~Wanted(f)'
    <3>1. files[f] \in File
      BY <1>2, ElementOfSeq
    <3>2. CASE f = walk.at
      <4>1. files'[f].processed
        BY <1>4, <3>1, <3>2 DEF Files, File
      <4> QED BY <4>1 DEF Wanted
    <3>3. CASE f # walk.at
      <4>1. f < walk.at /\ files'[f] = files[f]
        BY <1>2, <1>4, <2>1, <2>3, <3>3 DEF Files
      <4>2. ~Wanted(f)
        BY <1>2, <2>3, <4>1
      <4> QED BY <1>1, <1>4, <4>1, <4>2 DEF Wanted, InFile, Segments
    <3> QED BY <3>2, <3>3
  <2>4. walk'.at \in Nat \ {0} /\ pc' # "collected"
    BY <1>1, <1>2, <2>1
  <2> HIDE DEF left
  <2> QED BY <1>1, <1>4, <2>1, <2>2, <2>3, <2>4, PassKeeps
<1> QED BY <1>3, <1>4 DEF AllNextSegment

LEMMA AllPassEndsReach ==
  ASSUME ReachInv, IInv', AllPassEnds PROVE ReachInv'
<1>1. /\ pc = "all" /\ stack = <<>> /\ stack' = <<>> /\ todo' = todo
      /\ UNCHANGED <<files, segs, fixups, names, marked>> /\ UNCHANGED reading
      /\ walk.at \notin Files
  BY DEF AllPassEnds, Idle, kept
<1>2. /\ walk \in [at : Nat, inside : BOOLEAN, changed : BOOLEAN] /\ walk.at \in Nat \ {0}
      /\ ~walk.changed => \A f \in Files : f < walk.at => ~Wanted(f)
      /\ Files = 1..Len(files) /\ Len(files) \in Nat
  <2>1. TypeOK /\ Whole
    BY DEF ReachInv, IInv
  <2> QED BY <1>1, <2>1, LenProperties DEF TypeOK, Whole, Files
<1>3. CASE walk.changed /\ walk' = [walk EXCEPT !.at = 1, !.changed = FALSE] /\ pc' = pc
  <2>1. walk'.at = 1
    BY <1>2, <1>3
  <2>2. \A f \in Files : ~(f < walk'.at)
    BY <1>2, <2>1
  <2>3. pc' = "all" /\ walk'.at \in Nat \ {0}
    BY <1>1, <1>3, <2>1
  <2> QED BY <1>1, <2>2, <2>3, PassKeeps
<1>4. CASE ~walk.changed /\ pc' = "collected" /\ walk' = walk
  <2>1. \A f \in Files : f < walk.at
    BY <1>1, <1>2
  <2>2. \A f \in Files : ~Wanted(f)'
    BY <1>1, <1>2, <1>4, <2>1, WantedStays
  <2> QED BY <1>1, <1>2, <1>4, <2>2, PassKeeps
<1> QED BY <1>3, <1>4 DEF AllPassEnds

-----------------------------------------------------------------------------
(* Reading, and the theorem. *)

\* While records are read nothing is marked but the caller, and no file is done.
LEMMA ReadingReach ==
  ASSUME ReachInv, IInv', Reading PROVE ReachInv'
<1>1. /\ pc = "reading" /\ pc' \in {"reading", "entry", "ended", "aborted"}
      /\ UNCHANGED <<marked, stack, roots>>
      /\ \/ files' = files
         \/ \E x : files' = Append(files, x) /\ ~x.processed /\ segs' = segs
      /\ \/ segs' = segs
         \/ \E x : segs' = Append(segs, x) /\ x.file = Len(files) /\ files # <<>> /\ files' = files
  <2>1. CASE NewFile
    <3>1. PICK x : files' = Append(files, x) /\ x.processed = FALSE
      BY <2>1 DEF NewFile
    <3> QED BY <2>1, <3>1 DEF NewFile, Next1, marking
  <2>2. CASE NewSegment
    <3>1. PICK x : segs' = Append(segs, x) /\ x.file = Len(files)
      BY <2>2 DEF NewSegment, Current
    <3> QED BY <2>2, <3>1 DEF NewSegment, Next1, marking
  <2>3. CASE \/ addFixup \/ setEntryPoint \/ NewPublicName \/ NewCommonName
             \/ NewImportName \/ NewWeakName \/ NewExport
    BY <2>3 DEF addFixup, setEntryPoint, NewPublicName, NewCommonName, NewImportName,
       NewWeakName, NewExport, Next1, marking
  <2>4. CASE ReadingEnds
    BY <2>4 DEF ReadingEnds
  <2> QED BY <2>1, <2>2, <2>3, <2>4 DEF Reading
<1>2. /\ IInv /\ TypeOK /\ Filed /\ Listed /\ Modes /\ marked = {0} /\ stack = <<>>
      /\ todo = <<>> /\ walk = [at |-> 1, inside |-> FALSE, changed |-> FALSE]
      /\ \A f \in Files : ~files[f].processed
  BY <1>1 DEF ReachInv, IInv, Phases, Listed, Modes
<1>3. files \in Seq(File) /\ Files = 1..Len(files) /\ Len(files) \in Nat
  BY <1>2, LenProperties DEF TypeOK, Files
<1>4. /\ Files \subseteq Files' /\ \A f \in Files' : ~files'[f].processed
  BY <1>1, <1>2, <1>3 DEF Files
<1>5. Filed'
  <2>1. CASE segs' = segs
    BY <1>2, <1>4, <2>1 DEF Filed, Segments
  <2>2. ASSUME NEW x, segs' = Append(segs, x), x.file = Len(files), files # <<>>,
               files' = files
        PROVE  Filed'
    <3>1. Len(files) \in Files'
      BY <1>3, <1>4, <2>2, EmptySeq
    <3>2. segs \in Seq(Segment)
      BY <1>2 DEF TypeOK
    <3>3. \A s \in DOMAIN segs' : segs'[s] = x \/ (s \in DOMAIN segs /\ segs'[s] = segs[s])
      BY <2>2, <3>2
    <3> QED BY <1>2, <1>4, <2>2, <3>1, <3>3 DEF Filed, Segments
  <2> QED BY <1>1, <2>1, <2>2
<1>6. Listed' /\ Externals'
  BY <1>1, <1>2 DEF Listed, Externals, roots
<1>7. Modes' /\ Whole'
  BY <1>1, <1>2, <1>4 DEF Modes, Whole, roots
<1>8. OnlyReachable'
  <2>1. marked' = {0}
    BY <1>1, <1>2
  <2> QED BY <2>1 DEF OnlyReachable, SelfContained
<1> QED BY <1>5, <1>6, <1>7, <1>8 DEF ReachInv

LEMMA ReachInit == Init => ReachInv
<1> SUFFICES ASSUME Init PROVE ReachInv
  OBVIOUS
<1>1. /\ IInv /\ marked = {0} /\ Files = {} /\ Segments = {} /\ DOMAIN stack = {}
      /\ DOMAIN todo = {} /\ todo = <<>> /\ pc = "reading"
      /\ walk = [at |-> 1, inside |-> FALSE, changed |-> FALSE]
  BY InitHolds DEF Init, Files, Segments
<1>2. OnlyReachable
  BY <1>1 DEF OnlyReachable, SelfContained
<1> QED BY <1>1, <1>2 DEF ReachInv, Filed, Listed, Externals, Modes, Whole

LEMMA ReachNext == ReachInv /\ [CollectNext]_cvars => ReachInv'
<1> SUFFICES ASSUME ReachInv, [CollectNext]_cvars PROVE ReachInv'
  OBVIOUS
<1>1. IInv'
  BY NextKeeps DEF ReachInv
<1>2. CASE Reading
  BY <1>1, <1>2, ReadingReach
<1>3. CASE Collecting
  BY <1>1, <1>3, ResolveForwardReach, ResolveReach, ResolveCommonReach, QuietReach,
     CollectFixupReach, CollectDescriptorReach, CollectExternalReach,
     CollectAddressesReach, EntryFirstReach, ExportNextReach, ExportsEndReach,
     AllNextFileReach, AllNextSegmentReach, AllPassEndsReach DEF Collecting
<1>4. CASE UNCHANGED cvars
  <2>1. /\ UNCHANGED <<input, files, segs, fixups, names, exports, pc, marked, stack>>
        /\ UNCHANGED <<lookup, todo, walk>> /\ UNCHANGED reading
    BY <1>4 DEF cvars, reading
  <2>2. Filed' /\ OnlyReachable' /\ Files' = Files /\ xSmart' = xSmart
    BY <2>1, WalkKeeps
  <2>3. Listed' /\ Modes'
    BY <2>1, <2>2 DEF ReachInv, Listed, Modes
  <2>4. Externals'
    BY <2>1 DEF ReachInv, Externals, External, IsIDATA
  <2>5. Whole'
    BY <2>1, <2>2, WantedStays DEF ReachInv, Whole
  <2> QED BY <1>1, <2>2, <2>3, <2>4, <2>5 DEF ReachInv
<1> QED BY <1>2, <1>3, <1>4 DEF CollectNext

LEMMA TakenThen == ReachInv => TakenAsAsked
<1> SUFFICES ASSUME ReachInv, pc = "collected", ~xSmart, NEW f \in Files, ~files[f].smart,
                    files[f].lib = NULL \/ InFile(f) \cap marked # {}
             PROVE  {s \in InFile(f) : isLinkable(s)} \subseteq marked
  BY DEF ReachInv, TakenAsAsked, WholeFiles
<1>1. ~Wanted(f) /\ (files[f].processed => linkable(f) \subseteq marked)
  BY DEF ReachInv, Whole
<1>2. files[f].processed
  BY <1>1 DEF Wanted
<1> QED BY <1>1, <1>2 DEF linkable

\* A smart link marks only what the entry point and the exports require
\* (xlink.tex:128, struct.cpp:1087-1213, 1330-1352), whatever the order of the
\* fixups and the state of the recursion; a link that is not smart has taken
\* whole every file that is no library's or of which anything is taken, although
\* CollectAll skips the rest of a pass once something has changed
\* (struct.cpp:1268-1313).
THEOREM NeitherMoreNorLess == Spec => []TakenAsAsked
<1> QED BY TakenThen, ReachInit, ReachNext, PTL DEF Spec
=============================================================================
