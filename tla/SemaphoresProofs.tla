--------------------------- MODULE SemaphoresProofs ---------------------------
(***************************************************************************)
(* Proofs about Semaphores, for any processes, urgencies, sources and      *)
(* semaphores, of a program that keeps to the rules of SemNext.  Every     *)
(* call is a step of the scheduler, so the invariant of its coroutines     *)
(* (CoreInv of ProcessesProofs) holds here too.                            *)
(***************************************************************************)
EXTENDS Semaphores, ProcessesProofs

\* Claimers cl, states st, stopped processes k and lists q that agree: whoever
\* is inside Claim is blocked or has been handed a unit, has not stopped, and
\* the lists hold the blocked ones, each of them once.
Claimers(cl, st, k, q) ==
  /\ \A p \in Proc : cl[p] # NULL => st[p] \in {"passive", "ready"} /\ p \notin k
  /\ \A s \in Sem : /\ NoRepetition(q[s])
                    /\ Elems(q[s]) = {p \in Proc : cl[p] = s /\ st[p] = "passive"}

\* The processes that return from Claim on s when they gain control.
Handed(cl, st, s) == {p \in Proc : cl[p] = s /\ st[p] = "ready"}

\* The units ow put in are in the counts n or have been handed over.
Balanced(ow, n, cl, st, S) ==
  \A s \in S : ow[s] = n[s] + Cardinality(Handed(cl, st, s))

Used == {s \in Sem : InUse(s)}

SemTypes ==
  /\ cnt \in [Sem -> Nat]
  /\ lst \in [Sem -> Seq(Proc)]
  /\ live \in SUBSET Sem
  /\ claiming \in [Proc -> Sem \cup {NULL}]
  /\ destroying \in [Proc -> Sem \cup {NULL}]
  /\ owed \in [Sem -> Int]

NothingIdle == \A s \in Sem : cnt[s] > 0 => lst[s] = <<>>

\* What holds between two calls: the process in control is not inside Claim.
Settled ==
  /\ Claimers(claiming, state, stopped, lst)
  /\ Balanced(owed, cnt, claiming, state, Used)
  /\ Running => claiming[cor] = NULL

\* The inductive invariant.
SemInv ==
  /\ CoreInv
  /\ SemTypes
  /\ NothingIdle
  /\ status # "trap" => Settled

(***************************************************************************)
(* Sets of claimers.                                                       *)
(***************************************************************************)

\* A list of processes has finitely many elements.
LEMMA FiniteElems ==
  ASSUME NEW r \in Seq(Proc)
  PROVE  IsFiniteSet(Elems(r))
<1>1. Len(r) \in Nat /\ r \in [1..Len(r) -> Proc]
  BY LenProperties
<1>2. r \in Surjection(1..Len(r), Elems(r))
  BY <1>1 DEF Elems, Surjection
<1>3. IsFiniteSet(1..Len(r))
  BY <1>1, FS_Interval
<1> QED BY <1>2, <1>3, FS_Surjection

\* The ready processes are those of the list, so they can be counted.
LEMMA FiniteHanded ==
  ASSUME NEW r, NEW b, NEW st, NEW c, NEW k, Agree(r, b, st, c, k),
         NEW cl, NEW s
  PROVE  IsFiniteSet(Handed(cl, st, s)) /\ Cardinality(Handed(cl, st, s)) \in Nat
<1>1. IsFiniteSet(Elems(r)) /\ Elems(r) = {p \in Proc : st[p] = "ready"}
  BY FiniteElems DEF Agree
<1>2. Handed(cl, st, s) \in SUBSET Elems(r)
  BY <1>1 DEF Handed
<1> QED BY <1>1, <1>2, FS_Subset, FS_CardinalityType

(***************************************************************************)
(* What the calls of the scheduler do to the states of the processes.      *)
(***************************************************************************)

\* GoNext changes no state but that of a stopped process.
LEMMA GoNextStates ==
  ASSUME NEW r, NEW b, NEW s, NEW c, NEW k, Agree(r, b, s, c, k),
         GoNext(r, b, s, c, k), status' # "trap"
  PROVE  /\ stopped' \in SUBSET k
         /\ \A q \in Proc \ k : state'[q] = s[q]
<1>1. CASE r = <<>>
  BY <1>1 DEF GoNext, Idle
<1>2. CASE r # <<>>
  <2>1. /\ stopped' = k \/ stopped' = k \ {c}
        /\ state' = s \/ (c # NULL /\ state' = [s EXCEPT ![c] = "free"])
    BY <1>2 DEF GoNext, Trap
  <2>2. c # NULL => c \in k
    BY DEF Agree
  <2> QED BY <2>1, <2>2 DEF Agree
<1> QED BY <1>1, <1>2

\* Tie(p); GoNext makes p ready and changes no other state but that of a
\* stopped process.
LEMMA TieAndGoStates ==
  ASSUME NEW b, NEW p \in Proc, Running, Agree(ring, b, state, corpse, stopped),
         p \notin Elems(ring), p \notin stopped, Control,
         TieAndGo(ring, b, state, p), status' # "trap"
  PROVE  /\ stopped' \in SUBSET stopped
         /\ state'[p] = "ready"
         /\ \A q \in Proc \ (stopped \cup {p}) : state'[q] = state[q]
<1>1. Tied(ring, p) # {}
  BY DEF TieAndGo, Trap
<1>2. PICK r2 \in Tied(ring, p) :
        GoNext(r2, TieBody(ring, b), TieState(ring, state, p), corpse, stopped)
  BY <1>1 DEF TieAndGo
<1>3. /\ ring \in Seq(Proc) /\ NoRepetition(ring) /\ ring # <<>>
      /\ Elems(ring) = {q \in Proc : state[q] = "ready"}
  BY DEF Agree, Running
<1>4. Head(ring) \in Proc /\ state[Head(ring)] = "ready"
  BY <1>3, TailProperties
<1>5. /\ r2 \in Seq(Proc) /\ NoRepetition(r2)
      /\ Elems(r2) = Elems(ring) \cup {p}
  BY <1>3, TiedProperties
<1>6. /\ TieState(ring, state, p) \in [Proc -> {"free", "passive", "ready", "waiting"}]
      /\ TieState(ring, state, p)[p] = "ready"
      /\ \A q \in Proc \ {p} : TieState(ring, state, p)[q] = state[q]
  BY <1>4 DEF TieState, Agree
<1>7. TieBody(ring, b) \in [Proc -> Proc]
  BY <1>4 DEF TieBody, Agree, Control
<1>8. Elems(r2) = {q \in Proc : TieState(ring, state, p)[q] = "ready"}
  BY <1>3, <1>5, <1>6
<1>9. \A q \in stopped : TieState(ring, state, p)[q] = "passive"
  BY <1>6 DEF Agree
<1>10. Agree(r2, TieBody(ring, b), TieState(ring, state, p), corpse, stopped)
  BY <1>5, <1>6, <1>7, <1>8, <1>9 DEF Agree
<1> QED BY <1>2, <1>6, <1>10, GoNextStates

(***************************************************************************)
(* The end of a call: the process that has gained control leaves Claim.    *)
(***************************************************************************)

\* If the claimers and the units agree before SuspendMe returns in the process
\* that has gained control, they agree afterwards.
LEMMA ResumeSettles ==
  ASSUME CoreInv', cnt' \in [Sem -> Nat],
         NEW cl \in [Proc -> Sem \cup {NULL}], NEW ow \in [Sem -> Int],
         Claimers(cl, state', stopped', lst'),
         Balanced(ow, cnt', cl, state', Used'),
         Resume(cl, ow)
  PROVE  /\ Settled'
         /\ claiming' \in [Proc -> Sem \cup {NULL}]
         /\ owed' \in [Sem -> Int]
<1> DEFINE s == cl[cor']
           clears == status' = "running" /\ ring' # <<>> /\ s # NULL
<1>0. /\ Agree(ring', body', state', corpse', stopped')
      /\ cor' \in Proc
      /\ Running' => cor' = Head(ring') /\ state'[cor'] = "ready"
  <2>1. Agree(ring', body', state', corpse', stopped') /\ cor' \in Proc
    BY DEF CoreInv, Inv, Control, Agree, NoRepetition, Elems
  <2>2. ASSUME Running' PROVE cor' = Head(ring') /\ state'[cor'] = "ready"
    <3>1. cor' = Head(ring') /\ ring' # <<>>
      BY <2>2 DEF CoreInv, MeIsCaller, Running, Current
    <3>2. Head(ring') \in Elems(ring')
      BY <2>1, <3>1, TailProperties DEF Agree
    <3> QED BY <2>1, <3>1, <3>2 DEF Agree
  <2> QED BY <2>1, <2>2
<1>1. CASE ~clears
  <2>1. claiming' = cl /\ owed' = ow
    BY <1>1 DEF Resume
  <2>2. Running' => claiming'[cor'] = NULL
    BY <1>1, <2>1 DEF Running
  <2> QED BY <2>1, <2>2 DEF Settled
<1>2. CASE clears
  <2>1. /\ claiming' = [cl EXCEPT ![cor'] = NULL]
        /\ owed' = [ow EXCEPT ![s] = @ - 1]
        /\ s \in Sem /\ state'[cor'] = "ready"
    BY <1>0, <1>2 DEF Resume, Running
  <2>2. claiming' \in [Proc -> Sem \cup {NULL}] /\ owed' \in [Sem -> Int]
    <3>1. claiming' \in [Proc -> Sem \cup {NULL}]
      BY <2>1
    <3> HIDE DEF s
    <3>2. ow[s] - 1 \in Int
      BY <2>1
    <3>3. owed' \in [Sem -> Int]
      BY <2>1, <3>2
    <3> QED BY <3>1, <3>3
  <2>3. /\ claiming'[cor'] = NULL
        /\ \A p \in Proc : p # cor' => claiming'[p] = cl[p]
    BY <1>0, <2>1
  <2>4. Claimers(claiming', state', stopped', lst')
    <3>1. \A x \in Sem : {p \in Proc : claiming'[p] = x /\ state'[p] = "passive"}
                         = {p \in Proc : cl[p] = x /\ state'[p] = "passive"}
      BY <2>1, <2>3, SemAssumption
    <3> QED BY <2>3, <3>1 DEF Claimers
  <2>5. ASSUME NEW x \in Used'
        PROVE  owed'[x] = cnt'[x] + Cardinality(Handed(claiming', state', x))
    <3>0. x \in Sem /\ cnt'[x] \in Nat /\ ow[x] \in Int
      BY DEF Used
    <3>1. ow[x] = cnt'[x] + Cardinality(Handed(cl, state', x))
      BY DEF Balanced
    <3>2. /\ IsFiniteSet(Handed(cl, state', x))
          /\ Cardinality(Handed(cl, state', x)) \in Nat
      BY <1>0, FiniteHanded
    <3>3. CASE x = s
      <4>1. cor' \in Handed(cl, state', x)
        BY <1>0, <2>1, <3>3 DEF Handed
      <4>2. Handed(claiming', state', x) = Handed(cl, state', x) \ {cor'}
        BY <2>1, <2>3, <3>0, SemAssumption DEF Handed
      <4>3. Cardinality(Handed(claiming', state', x))
              = Cardinality(Handed(cl, state', x)) - 1
        <5>1. Cardinality(Handed(cl, state', x) \ {cor'})
                = Cardinality(Handed(cl, state', x)) - 1
          BY <3>2, <4>1, FS_RemoveElement
        <5> QED BY <4>2, <5>1
      <4>4. owed'[x] = ow[x] - 1
        BY <2>1, <3>3
      <4> QED BY <3>0, <3>1, <3>2, <4>3, <4>4
    <3>4. CASE x # s
      <4>1. Handed(claiming', state', x) = Handed(cl, state', x)
        BY <2>3, <3>0, <3>4, SemAssumption DEF Handed
      <4>2. owed'[x] = ow[x]
        BY <2>1, <3>0, <3>4
      <4> QED BY <3>1, <4>1, <4>2
    <3> QED BY <3>3, <3>4
  <2> QED BY <2>2, <2>3, <2>4, <2>5 DEF Settled, Balanced
<1> QED BY <1>1, <1>2

\* A call in which the scheduler moves no claimer.
LEMMA QuietSettles ==
  ASSUME SemInv, CoreInv', Running, UNCHANGED semVars,
         stopped' \in SUBSET (stopped \cup {Head(ring)}),
         \A q \in Proc : claiming[q] # NULL => state'[q] = state[q],
         Resume(claiming, owed)
  PROVE  SemInv'
<1>1. SemTypes /\ NothingIdle /\ Settled /\ claiming[cor] = NULL /\ cor = Head(ring)
  BY DEF SemInv, Running, Settled, CoreInv, MeIsCaller, Current
<1>2. UNCHANGED <<cnt, lst, live, destroying>> /\ Used' = Used
  BY DEF semVars, Used, InUse
<1>3. Claimers(claiming, state', stopped', lst')
  <2>1. \A s \in Sem : {p \in Proc : claiming[p] = s /\ state'[p] = "passive"}
                       = {p \in Proc : claiming[p] = s /\ state[p] = "passive"}
    BY <1>1, SemAssumption
  <2> QED BY <1>1, <1>2, <2>1 DEF Claimers, Settled
<1>4. Balanced(owed, cnt', claiming, state', Used')
  <2>1. \A s \in Sem : Handed(claiming, state', s) = Handed(claiming, state, s)
    BY <1>1, SemAssumption DEF Handed
  <2> QED BY <1>1, <1>2, <2>1 DEF Balanced, Settled, Used
<1>5. /\ Settled'
      /\ claiming' \in [Proc -> Sem \cup {NULL}]
      /\ owed' \in [Sem -> Int]
  BY <1>1, <1>2, <1>3, <1>4, ResumeSettles DEF SemTypes
<1>6. SemTypes'
  BY <1>1, <1>2, <1>5 DEF SemTypes
<1>7. NothingIdle'
  BY <1>1, <1>2 DEF NothingIdle
<1> QED BY <1>5, <1>6, <1>7 DEF SemInv

(***************************************************************************)
(* The calls.                                                              *)
(***************************************************************************)

\* What a call of a running process starts from.
LEMMA AtCall ==
  ASSUME SemInv, Running
  PROVE  /\ SemTypes /\ NothingIdle /\ Claimers(claiming, state, stopped, lst)
         /\ Balanced(owed, cnt, claiming, state, Used)
         /\ Agree(ring, body, state, corpse, stopped) /\ Control
         /\ Me \in Proc /\ state[Me] = "ready" /\ Me \notin stopped
         /\ claiming[Me] = NULL
<1>1. /\ Agree(ring, body, state, corpse, stopped) /\ Control /\ ring # <<>>
      /\ cor = Head(ring)
  BY DEF SemInv, CoreInv, Inv, MeIsCaller, Running, Current
<1>2. Me \in Proc /\ state[Me] = "ready"
  BY <1>1, TailProperties DEF Agree, Me
<1>3. Me \notin stopped
  BY <1>1, <1>2 DEF Agree
<1> QED BY <1>1, <1>2, <1>3 DEF SemInv, Settled, Running, Me

\* A call of the scheduler by the program: it moves the caller, a process that
\* is not inside Claim, or nobody.
LEMMA ProcessCallKeeps ==
  ASSUME SemInv, CoreInv', Running, status' # "trap",
         UNCHANGED semVars, Resume(claiming, owed),
         \/ StopMe \/ SuspendMe \/ Wait
         \/ \E e \in Source : Attach(e) \/ Detach(e)
         \/ \E p \in Proc : \/ Create(p) \/ Start(p)
                            \/ claiming[p] = NULL /\ Activate(p)
  PROVE  SemInv'
<1> DEFINE Quiet == /\ stopped' \in SUBSET (stopped \cup {Me})
                    /\ \A q \in Proc : claiming[q] # NULL => state'[q] = state[q]
<1>0. /\ Agree(ring, body, state, corpse, stopped) /\ Control
      /\ Me \in Proc /\ state[Me] = "ready" /\ Me \notin stopped
      /\ claiming[Me] = NULL
      /\ \A q \in Proc : claiming[q] # NULL =>
                        state[q] \in {"passive", "ready"} /\ q \notin stopped
  BY AtCall DEF Claimers
<1>1. ASSUME NEW st \in {"passive", "waiting"}, NEW c, NEW k \in SUBSET (stopped \cup {Me}),
             Agree(Tail(ring), UnTieBody, UnTieState(st), c, k),
             GoNext(Tail(ring), UnTieBody, UnTieState(st), c, k)
      PROVE  Quiet
  <2>1. stopped' \in SUBSET k /\ \A q \in Proc \ k : state'[q] = UnTieState(st)[q]
    BY <1>1, GoNextStates
  <2>2. \A q \in Proc : q # Me => UnTieState(st)[q] = state[q]
    BY <1>0 DEF UnTieState, Me, Agree
  <2> QED BY <1>0, <2>1, <2>2
<1>2. ASSUME NEW p \in Proc, NEW b, TieAndGo(ring, b, state, p), claiming[p] = NULL,
             state[p] # "ready", p \notin stopped, b \in [Proc -> Proc]
      PROVE  Quiet
  <2>1. Agree(ring, b, state, corpse, stopped) /\ p \notin Elems(ring)
    BY <1>0, <1>2 DEF Agree
  <2>2. /\ stopped' \in SUBSET stopped
        /\ \A q \in Proc \ (stopped \cup {p}) : state'[q] = state[q]
    BY <1>0, <1>2, <2>1, TieAndGoStates
  <2> QED BY <1>0, <1>2, <2>2
<1>3. ASSUME StopMe PROVE Quiet
  <2>1. CASE Tail(ring) = <<>>
    BY <1>3, <2>1 DEF StopMe
  <2>2. CASE Tail(ring) # <<>>
    <3>1. GoNext(Tail(ring), UnTieBody, UnTieState("passive"), Head(ring),
                 stopped \cup {Head(ring)})
      BY <1>3, <2>2 DEF StopMe
    <3>2. Agree(Tail(ring), UnTieBody, UnTieState("passive"), Head(ring),
                stopped \cup {Head(ring)})
      BY <1>0, UnTieAgrees
    <3> QED BY <3>1, <3>2, <1>1 DEF Me
  <2> QED BY <2>1, <2>2
<1>4. ASSUME SuspendMe PROVE Quiet
  <2>1. CASE Tail(ring) = <<>> /\ hcnt = 0
    BY <1>4, <2>1 DEF SuspendMe
  <2>2. CASE ~(Tail(ring) = <<>> /\ hcnt = 0)
    <3>1. GoNext(Tail(ring), UnTieBody, UnTieState("passive"), corpse, stopped)
      BY <1>4, <2>2 DEF SuspendMe
    <3>2. Agree(Tail(ring), UnTieBody, UnTieState("passive"), corpse, stopped)
      BY <1>0, UnTieAgrees
    <3> QED BY <3>1, <3>2, <1>1
  <2> QED BY <2>1, <2>2
<1>5. ASSUME Wait PROVE Quiet
  <2>1. GoNext(Tail(ring), UnTieBody, UnTieState("waiting"), corpse, stopped)
    BY <1>5 DEF Wait
  <2>2. Agree(Tail(ring), UnTieBody, UnTieState("waiting"), corpse, stopped)
    BY <1>0, UnTieAgrees
  <2> QED BY <2>1, <2>2, <1>1
<1>6. ASSUME NEW e \in Source, Attach(e) \/ Detach(e) PROVE Quiet
  BY <1>6 DEF Attach, Detach
<1>7. ASSUME NEW p \in Proc, Create(p) PROVE Quiet
  <2>1. state[p] = "free" /\ state' = [state EXCEPT ![p] = "passive"] /\ stopped' = stopped
    BY <1>7 DEF Create
  <2> QED BY <1>0, <2>1 DEF Agree
<1>8. ASSUME NEW p \in Proc, Start(p) PROVE Quiet
  <2>1. state[p] = "free" /\ TieAndGo(ring, [body EXCEPT ![p] = p], state, p)
    BY <1>8 DEF Start
  <2>2. p \notin stopped /\ claiming[p] = NULL
    BY <1>0, <2>1 DEF Agree
  <2>3. [body EXCEPT ![p] = p] \in [Proc -> Proc]
    BY <1>0 DEF Agree
  <2> QED BY <1>2, <2>1, <2>2, <2>3
<1>9. ASSUME NEW p \in Proc, claiming[p] = NULL, Activate(p) PROVE Quiet
  <2>1. state[p] \in {"passive", "waiting"} /\ p \notin stopped /\ TieAndGo(ring, body, state, p)
    BY <1>9 DEF Activate
  <2>2. body \in [Proc -> Proc]
    BY <1>0 DEF Agree
  <2> QED BY <1>2, <1>9, <2>1, <2>2
<1>10. Quiet
  BY <1>3, <1>4, <1>5, <1>6, <1>7, <1>8, <1>9
<1> QED BY <1>10, QuietSettles DEF Me

\* A claimer is linked behind the others.
LEMMA EnqueueProperties ==
  ASSUME NEW q \in Seq(Proc), NEW p \in Proc, NoRepetition(q), p \notin Elems(q)
  PROVE  /\ Enqueue(q, p) \in Seq(Proc)
         /\ NoRepetition(Enqueue(q, p))
         /\ Elems(Enqueue(q, p)) = Elems(q) \cup {p}
<1>1. PICK n \in Nat : n = Len(q)
  BY LenProperties
<1>2. PICK r \in Seq(Proc) : /\ r = Enqueue(q, p) /\ Len(r) = n+1 /\ r[n+1] = p
                            /\ \A i \in 1..n : r[i] = q[i]
  <2>1. /\ Append(q, p) \in Seq(Proc)
        /\ Len(Append(q, p)) = Len(q)+1
        /\ \A i \in 1..Len(q) : Append(q, p)[i] = q[i]
        /\ Append(q, p)[Len(q)+1] = p
    BY AppendProperties
  <2> QED BY <1>1, <2>1 DEF Enqueue
<1>3. \A i \in 1..n+1 : i = n+1 \/ i \in 1..n
  BY <1>1
<1>4. NoRepetition(r)
  BY <1>1, <1>2, <1>3 DEF NoRepetition, Elems
<1>5. Elems(r) = Elems(q) \cup {p}
  <2>1. ASSUME NEW x \in Elems(r) PROVE x \in Elems(q) \cup {p}
    BY <1>1, <1>2, <1>3 DEF Elems
  <2>2. ASSUME NEW x \in Elems(q) PROVE x \in Elems(r)
    <3>1. PICK i \in 1..n : x = q[i]
      BY <1>1 DEF Elems
    <3>2. i \in 1..n+1 /\ r[i] = x
      BY <3>1, <1>2
    <3> QED BY <3>2, <1>2 DEF Elems
  <2>3. p \in Elems(r)
    BY <1>1, <1>2 DEF Elems
  <2> QED BY <2>1, <2>2, <2>3
<1> QED BY <1>2, <1>4, <1>5

\* Whoever gains control, the variables keep their types.
LEMMA ResumeTypes ==
  ASSUME CoreInv', NEW cl \in [Proc -> Sem \cup {NULL}], NEW ow \in [Sem -> Int],
         Resume(cl, ow)
  PROVE  /\ claiming' \in [Proc -> Sem \cup {NULL}]
         /\ owed' \in [Sem -> Int]
<1> DEFINE s == cl[cor']
<1>1. cor' \in Proc
  BY DEF CoreInv, Inv, Control
<1>2. s \in Sem \cup {NULL}
  BY <1>1
<1>3. \/ claiming' = cl /\ owed' = ow
      \/ s # NULL /\ claiming' = [cl EXCEPT ![cor'] = NULL] /\ owed' = [ow EXCEPT ![s] = @ - 1]
  BY DEF Resume
<1> HIDE DEF s
<1>4. s # NULL => ow[s] - 1 \in Int
  BY <1>2
<1>5. claiming' \in [Proc -> Sem \cup {NULL}]
  BY <1>3
<1>6. owed' \in [Sem -> Int]
  BY <1>3, <1>4
<1> QED BY <1>5, <1>6

\* Taking a unit that is there: the caller returns with it.
LEMMA TakeKeeps ==
  ASSUME SemInv, NEW s \in Sem, MayUse(s), cnt[s] > 0,
         cnt' = [cnt EXCEPT ![s] = @ - 1], owed' = [owed EXCEPT ![s] = @ - 1],
         UNCHANGED <<vars, lst, live, claiming, destroying>>
  PROVE  SemInv'
<1>1. Running
  BY DEF MayUse, MayCall
<1>2. /\ SemTypes /\ NothingIdle /\ Claimers(claiming, state, stopped, lst)
      /\ Balanced(owed, cnt, claiming, state, Used) /\ claiming[cor] = NULL
      /\ Agree(ring, body, state, corpse, stopped)
  BY <1>1, AtCall DEF SemInv, Settled, Running
<1>3. /\ UNCHANGED <<ring, state, body, events, hcnt, corpse, cor, started, status, stopped>>
      /\ UNCHANGED <<lst, live, claiming, destroying>> /\ Used' = Used
  BY DEF vars, Used, InUse
<1>4. CoreInv'
  <2>1. CoreInv /\ UNCHANGED vars
    BY DEF SemInv
  <2> QED BY <2>1, NextCore
<1>5. cnt[s] \in Nat /\ owed[s] \in Int /\ cnt[s] - 1 \in Nat
  BY <1>2 DEF SemTypes
<1>6. SemTypes' /\ NothingIdle'
  <2>1. cnt' \in [Sem -> Nat] /\ owed' \in [Sem -> Int]
    BY <1>2, <1>5 DEF SemTypes
  <2>2. lst[s] = <<>>
    BY <1>2 DEF NothingIdle
  <2> QED BY <1>2, <1>3, <1>5, <2>1, <2>2 DEF SemTypes, NothingIdle
<1>7. ASSUME NEW x \in Used
      PROVE  owed'[x] = cnt'[x] + Cardinality(Handed(claiming, state, x))
  <2>1. owed[x] = cnt[x] + Cardinality(Handed(claiming, state, x)) /\ x \in Sem
    BY <1>2 DEF Balanced, Used
  <2>2. Cardinality(Handed(claiming, state, x)) \in Nat
    BY <1>2, FiniteHanded
  <2>3. cnt[x] \in Nat /\ owed[x] \in Int
    BY <1>2, <2>1 DEF SemTypes
  <2> QED BY <1>2, <1>5, <2>1, <2>2, <2>3 DEF SemTypes
<1>8. Settled'
  <2>1. Claimers(claiming', state', stopped', lst')
    BY <1>2, <1>3
  <2>2. Balanced(owed', cnt', claiming', state', Used')
    BY <1>3, <1>7 DEF Balanced
  <2> QED BY <1>2, <1>3, <2>1, <2>2 DEF Settled
<1> QED BY <1>4, <1>6, <1>8 DEF SemInv

\* A semaphore made anew: nobody is inside Claim on it.
LEMMA CreateSemKeeps ==
  ASSUME SemInv, NEW s \in Sem, NEW n \in 0..MaxUnits, CreateSem(s, n)
  PROVE  SemInv'
<1>1. Running /\ s \notin live /\ \A p \in Proc : claiming[p] # s
  BY DEF CreateSem, MayCall
<1>2. /\ SemTypes /\ NothingIdle /\ Claimers(claiming, state, stopped, lst)
      /\ Balanced(owed, cnt, claiming, state, Used) /\ claiming[cor] = NULL
  BY <1>1, AtCall DEF SemInv, Settled, Running
<1>3. /\ UNCHANGED <<ring, state, body, events, hcnt, corpse, cor, started, status, stopped>>
      /\ UNCHANGED <<claiming, destroying>>
      /\ cnt' = [cnt EXCEPT ![s] = n] /\ lst' = [lst EXCEPT ![s] = <<>>]
      /\ owed' = [owed EXCEPT ![s] = n] /\ live' = live \cup {s}
  BY DEF CreateSem, vars
<1>4. CoreInv'
  <2>1. CoreInv /\ UNCHANGED vars
    BY DEF SemInv, CreateSem
  <2> QED BY <2>1, NextCore
<1>5. n \in Nat /\ n \in Int
  BY SemAssumption
<1>6. SemTypes'
  <2>1. cnt' \in [Sem -> Nat] /\ owed' \in [Sem -> Int] /\ live' \in SUBSET Sem
    BY <1>2, <1>3, <1>5 DEF SemTypes
  <2>2. lst' \in [Sem -> Seq(Proc)]
    BY <1>2, <1>3 DEF SemTypes
  <2> QED BY <1>2, <1>3, <2>1, <2>2 DEF SemTypes
<1>7. NothingIdle'
  BY <1>2, <1>3 DEF NothingIdle, SemTypes
<1>8. Claimers(claiming', state', stopped', lst')
  <2>1. lst'[s] = <<>> /\ NoRepetition(lst'[s]) /\ Elems(lst'[s]) = {}
    BY <1>2, <1>3 DEF SemTypes, NoRepetition, Elems
  <2>2. \A x \in Sem : x # s => lst'[x] = lst[x]
    BY <1>2, <1>3 DEF SemTypes
  <2>3. {p \in Proc : claiming[p] = s /\ state[p] = "passive"} = {}
    BY <1>1
  <2> QED BY <1>2, <1>3, <2>1, <2>2, <2>3 DEF Claimers
<1>9. ASSUME NEW x \in Used'
      PROVE  owed'[x] = cnt'[x] + Cardinality(Handed(claiming, state, x))
  <2>1. CASE x = s
    <3>1. Handed(claiming, state, x) = {}
      BY <1>1, <2>1 DEF Handed
    <3>2. owed'[x] = n /\ cnt'[x] = n
      BY <1>2, <1>3, <2>1 DEF SemTypes
    <3> QED BY <1>5, <3>1, <3>2, FS_EmptySet
  <2>2. CASE x # s
    <3>1. x \in Used
      BY <1>3, <2>2 DEF Used, InUse
    <3>2. owed'[x] = owed[x] /\ cnt'[x] = cnt[x]
      BY <1>2, <1>3, <2>2, <3>1 DEF SemTypes, Used
    <3> QED BY <1>2, <3>1, <3>2 DEF Balanced
  <2> QED BY <2>1, <2>2
<1>10. Settled'
  BY <1>2, <1>3, <1>8, <1>9 DEF Settled, Balanced
<1> QED BY <1>4, <1>6, <1>7, <1>10 DEF SemInv

\* Without a unit the caller is linked behind the other claimers and suspends
\* itself; whoever gains control may be coming out of a Claim of its own.
LEMMA BlockKeeps ==
  ASSUME SemInv, CoreInv', NEW s \in Sem, MayUse(s), Claim(s), ClaimIsSafe(s), cnt[s] = 0
  PROVE  SemInv'
<1> DEFINE cl == [claiming EXCEPT ![Me] = s]
<1>0. Running
  BY DEF MayUse, MayCall
<1>1. /\ SemTypes /\ NothingIdle /\ Claimers(claiming, state, stopped, lst)
      /\ Balanced(owed, cnt, claiming, state, Used)
      /\ Agree(ring, body, state, corpse, stopped) /\ Control
      /\ Me \in Proc /\ state[Me] = "ready" /\ Me \notin stopped /\ claiming[Me] = NULL
  BY <1>0, AtCall
<1>2. /\ lst' = [lst EXCEPT ![s] = Enqueue(@, Me)]
      /\ ~(Tail(ring) = <<>> /\ hcnt = 0)
      /\ SuspendMe /\ Resume(cl, owed)
      /\ UNCHANGED <<cnt, live, destroying>>
  BY DEF Claim, ClaimIsSafe
<1>3. /\ cl \in [Proc -> Sem \cup {NULL}] /\ cl[Me] = s
      /\ \A p \in Proc : p # Me => cl[p] = claiming[p]
  BY <1>1 DEF SemTypes
<1>4. /\ Me \notin Elems(lst[s]) /\ lst[s] \in Seq(Proc) /\ NoRepetition(lst[s])
      /\ Elems(lst[s]) = {p \in Proc : claiming[p] = s /\ state[p] = "passive"}
  BY <1>1 DEF Claimers, SemTypes
<1>5. /\ lst'[s] = Enqueue(lst[s], Me) /\ lst'[s] \in Seq(Proc) /\ NoRepetition(lst'[s])
      /\ Elems(lst'[s]) = Elems(lst[s]) \cup {Me}
      /\ \A x \in Sem : x # s => lst'[x] = lst[x]
  <2>1. lst'[s] = Enqueue(lst[s], Me) /\ \A x \in Sem : x # s => lst'[x] = lst[x]
    BY <1>1, <1>2 DEF SemTypes
  <2> QED BY <1>1, <1>4, <2>1, EnqueueProperties
<1>6. claiming' \in [Proc -> Sem \cup {NULL}] /\ owed' \in [Sem -> Int]
  BY <1>1, <1>2, <1>3, ResumeTypes DEF SemTypes
<1>7. SemTypes'
  <2>1. lst' \in [Sem -> Seq(Proc)]
    BY <1>1, <1>2, <1>5 DEF SemTypes
  <2> QED BY <1>1, <1>2, <1>6, <2>1 DEF SemTypes
<1>8. NothingIdle'
  BY <1>1, <1>2, <1>5 DEF NothingIdle
<1>9. ASSUME status' # "trap" PROVE Settled'
  <2>1. /\ stopped' \in SUBSET stopped
        /\ \A q \in Proc \ stopped : state'[q] = UnTieState("passive")[q]
    <3>1. GoNext(Tail(ring), UnTieBody, UnTieState("passive"), corpse, stopped)
      BY <1>2 DEF SuspendMe
    <3>2. Agree(Tail(ring), UnTieBody, UnTieState("passive"), corpse, stopped)
      BY <1>0, <1>1, UnTieAgrees
    <3> QED BY <1>9, <3>1, <3>2, GoNextStates
  <2>2. /\ state'[Me] = "passive"
        /\ \A q \in Proc : q # Me /\ q \notin stopped => state'[q] = state[q]
    BY <1>1, <2>1 DEF UnTieState, Me, Agree
  <2>3. \A q \in Proc : q # Me /\ claiming[q] # NULL => state'[q] = state[q] /\ q \notin stopped
    BY <1>1, <2>2 DEF Claimers
  <2>4. Claimers(cl, state', stopped', lst')
    <3>1. ASSUME NEW p \in Proc, cl[p] # NULL
          PROVE  state'[p] \in {"passive", "ready"} /\ p \notin stopped'
      BY <1>1, <1>3, <2>1, <2>2, <2>3, <3>1 DEF Claimers
    <3>2. ASSUME NEW x \in Sem
          PROVE  /\ NoRepetition(lst'[x])
                 /\ Elems(lst'[x]) = {p \in Proc : cl[p] = x /\ state'[p] = "passive"}
      <4>1. CASE x = s
        <5>1. {p \in Proc : cl[p] = s /\ state'[p] = "passive"}
                = {p \in Proc : claiming[p] = s /\ state[p] = "passive"} \cup {Me}
          BY <1>1, <1>3, <2>2, <2>3, SemAssumption
        <5> QED BY <1>4, <1>5, <4>1, <5>1
      <4>2. CASE x # s
        <5>1. {p \in Proc : cl[p] = x /\ state'[p] = "passive"}
                = {p \in Proc : claiming[p] = x /\ state[p] = "passive"}
          BY <1>1, <1>3, <2>3, <4>2, SemAssumption
        <5> QED BY <1>1, <1>5, <4>2, <5>1 DEF Claimers
      <4> QED BY <4>1, <4>2
    <3> QED BY <3>1, <3>2 DEF Claimers
  <2>5. Balanced(owed, cnt', cl, state', Used')
    <3>1. \A x \in Sem : Handed(cl, state', x) = Handed(claiming, state, x)
      BY <1>1, <1>3, <2>2, <2>3, SemAssumption DEF Handed
    <3>2. Used' = Used /\ Used \in SUBSET Sem
      BY <1>2 DEF Used, InUse
    <3> QED BY <1>1, <1>2, <3>1, <3>2 DEF Balanced
  <2> QED BY <1>1, <1>2, <1>3, <1>7, <2>4, <2>5, ResumeSettles DEF SemTypes
<1> QED BY <1>7, <1>8, <1>9 DEF SemInv

\* A claimer that Release or Destroy takes off the list is activated.
LEMMA FirstClaimer ==
  ASSUME SemInv, Running, NEW s \in Sem, lst[s] # <<>>, ActivateItem(Head(lst[s]))
  PROVE  LET h == Head(lst[s]) IN
         /\ h \in Proc /\ claiming[h] = s /\ state[h] = "passive" /\ h \notin stopped
         /\ Activate(h)
         /\ status' # "trap" =>
              /\ stopped' \in SUBSET stopped
              /\ state'[h] = "ready"
              /\ \A q \in Proc : q # h /\ claiming[q] # NULL => state'[q] = state[q]
<1> DEFINE h == Head(lst[s])
<1>1. /\ SemTypes /\ Claimers(claiming, state, stopped, lst)
      /\ Agree(ring, body, state, corpse, stopped) /\ Control
  BY AtCall
<1>2. /\ lst[s] \in Seq(Proc) /\ NoRepetition(lst[s])
      /\ Elems(lst[s]) = {p \in Proc : claiming[p] = s /\ state[p] = "passive"}
  BY <1>1 DEF Claimers, SemTypes
<1>3. h \in Proc /\ claiming[h] = s /\ state[h] = "passive"
  BY <1>2, TailProperties
<1>4. h \notin stopped
  BY <1>1, <1>3, SemAssumption DEF Claimers
<1>5. Activate(h) /\ TieAndGo(ring, body, state, h)
  BY <1>3 DEF ActivateItem, Activate
<1>6. ASSUME status' # "trap"
      PROVE  /\ stopped' \in SUBSET stopped
             /\ state'[h] = "ready"
             /\ \A q \in Proc : q # h /\ claiming[q] # NULL => state'[q] = state[q]
  <2>1. h \notin Elems(ring)
    BY <1>1, <1>3 DEF Agree
  <2>2. /\ stopped' \in SUBSET stopped
        /\ state'[h] = "ready"
        /\ \A q \in Proc \ (stopped \cup {h}) : state'[q] = state[q]
    BY <1>1, <1>3, <1>4, <1>5, <1>6, <2>1, TieAndGoStates
  <2> QED BY <1>1, <2>2 DEF Claimers
<1> QED BY <1>3, <1>4, <1>5, <1>6

\* Release hands the unit to the first claimer, or counts it.
LEMMA ReleaseKeeps ==
  ASSUME SemInv, CoreInv', NEW s \in Sem, Release(s)
  PROVE  SemInv'
<1> DEFINE h == Head(lst[s])
           ow == [owed EXCEPT ![s] = @ + 1]
<1>0. Running /\ s \in Used
  BY DEF Release, MayUse, MayCall, Used
<1>1. /\ SemTypes /\ NothingIdle /\ Claimers(claiming, state, stopped, lst)
      /\ Balanced(owed, cnt, claiming, state, Used) /\ claiming[cor] = NULL
      /\ Agree(ring, body, state, corpse, stopped) /\ Control
  BY <1>0, AtCall DEF SemInv, Settled, Running
<1>2. /\ ow \in [Sem -> Int] /\ ow[s] = owed[s] + 1 /\ owed[s] \in Int /\ cnt[s] \in Nat
      /\ \A x \in Sem : x # s => ow[x] = owed[x]
  BY <1>1 DEF SemTypes
<1>3. CASE lst[s] = <<>>
  <2>1. /\ UNCHANGED <<vars, lst, live, claiming, destroying>>
        /\ cnt' = [cnt EXCEPT ![s] = @ + 1] /\ owed' = ow
    BY <1>3 DEF Release
  <2>2. /\ UNCHANGED <<ring, state, stopped, cor, status>> /\ Used' = Used
    BY <2>1 DEF vars, Used, InUse
  <2>3. cnt' \in [Sem -> Nat] /\ cnt'[s] = cnt[s] + 1 /\ \A x \in Sem : x # s => cnt'[x] = cnt[x]
    BY <1>1, <1>2, <2>1 DEF SemTypes
  <2>4. SemTypes' /\ NothingIdle'
    BY <1>1, <1>2, <1>3, <2>1, <2>3 DEF SemTypes, NothingIdle
  <2>5. ASSUME NEW x \in Used
        PROVE  owed'[x] = cnt'[x] + Cardinality(Handed(claiming, state, x))
    <3>1. owed[x] = cnt[x] + Cardinality(Handed(claiming, state, x)) /\ x \in Sem
      BY <1>1 DEF Balanced, Used
    <3>2. Cardinality(Handed(claiming, state, x)) \in Nat
      BY <1>1, FiniteHanded
    <3> QED BY <1>2, <2>1, <2>3, <3>1, <3>2
  <2>6. Settled'
    <3>1. Claimers(claiming', state', stopped', lst')
      BY <1>1, <2>1, <2>2
    <3>2. Balanced(owed', cnt', claiming', state', Used')
      BY <2>1, <2>2, <2>5 DEF Balanced
    <3> QED BY <1>1, <2>1, <2>2, <3>1, <3>2 DEF Settled
  <2> QED BY <2>4, <2>6 DEF SemInv
<1>4. CASE lst[s] # <<>>
  <2>1. /\ lst' = [lst EXCEPT ![s] = Tail(@)]
        /\ ActivateItem(h) /\ Resume(claiming, ow)
        /\ UNCHANGED <<cnt, live, destroying>>
    BY <1>4 DEF Release
  <2>2. /\ h \in Proc /\ claiming[h] = s /\ state[h] = "passive" /\ h \notin stopped
        /\ status' # "trap" =>
             /\ stopped' \in SUBSET stopped
             /\ state'[h] = "ready"
             /\ \A q \in Proc : q # h /\ claiming[q] # NULL => state'[q] = state[q]
    BY <1>0, <1>4, <2>1, FirstClaimer
  <2>3. /\ lst'[s] = Tail(lst[s]) /\ lst'[s] \in Seq(Proc) /\ NoRepetition(lst'[s])
        /\ Elems(lst'[s]) = {p \in Proc : claiming[p] = s /\ state[p] = "passive"} \ {h}
        /\ \A x \in Sem : x # s => lst'[x] = lst[x]
    <3>1. lst'[s] = Tail(lst[s]) /\ \A x \in Sem : x # s => lst'[x] = lst[x]
      BY <1>1, <2>1 DEF SemTypes
    <3>2. /\ lst[s] \in Seq(Proc) /\ NoRepetition(lst[s])
          /\ Elems(lst[s]) = {p \in Proc : claiming[p] = s /\ state[p] = "passive"}
      BY <1>1 DEF Claimers, SemTypes
    <3> QED BY <1>4, <3>1, <3>2, TailProperties
  <2>4. claiming' \in [Proc -> Sem \cup {NULL}] /\ owed' \in [Sem -> Int]
    BY <1>1, <1>2, <2>1, ResumeTypes DEF SemTypes
  <2>5. SemTypes'
    <3>1. lst' \in [Sem -> Seq(Proc)]
      BY <1>1, <2>1, <2>3 DEF SemTypes
    <3> QED BY <1>1, <2>1, <2>4, <3>1 DEF SemTypes
  <2>6. NothingIdle'
    BY <1>1, <1>4, <2>1, <2>3 DEF NothingIdle
  <2>7. ASSUME status' # "trap" PROVE Settled'
    <3>1. Claimers(claiming, state', stopped', lst')
      <4>1. ASSUME NEW p \in Proc, claiming[p] # NULL
            PROVE  state'[p] \in {"passive", "ready"} /\ p \notin stopped'
        BY <1>1, <2>2, <2>7, <4>1 DEF Claimers
      <4>2. ASSUME NEW x \in Sem
            PROVE  /\ NoRepetition(lst'[x])
                   /\ Elems(lst'[x]) = {p \in Proc : claiming[p] = x /\ state'[p] = "passive"}
        <5>1. CASE x = s
          <6>1. {p \in Proc : claiming[p] = s /\ state'[p] = "passive"}
                  = {p \in Proc : claiming[p] = s /\ state[p] = "passive"} \ {h}
            BY <2>2, <2>7, SemAssumption
          <6> QED BY <2>3, <5>1, <6>1
        <5>2. CASE x # s
          <6>1. {p \in Proc : claiming[p] = x /\ state'[p] = "passive"}
                  = {p \in Proc : claiming[p] = x /\ state[p] = "passive"}
            BY <2>2, <2>7, <5>2, SemAssumption
          <6> QED BY <1>1, <2>3, <5>2, <6>1 DEF Claimers
        <5> QED BY <5>1, <5>2
      <4> QED BY <4>1, <4>2 DEF Claimers
    <3>2. Used' = Used
      BY <2>1 DEF Used, InUse
    <3>3. ASSUME NEW x \in Used
          PROVE  ow[x] = cnt'[x] + Cardinality(Handed(claiming, state', x))
      <4>1. /\ owed[x] = cnt[x] + Cardinality(Handed(claiming, state, x)) /\ x \in Sem
            /\ cnt[x] \in Nat /\ owed[x] \in Int
        BY <1>1 DEF Balanced, Used, SemTypes
      <4>2. /\ IsFiniteSet(Handed(claiming, state, x))
            /\ Cardinality(Handed(claiming, state, x)) \in Nat
        BY <1>1, FiniteHanded
      <4>3. CASE x = s
        <5>1. /\ Handed(claiming, state', x) = Handed(claiming, state, x) \cup {h}
              /\ h \notin Handed(claiming, state, x)
          BY <2>2, <2>7, <4>3, SemAssumption DEF Handed
        <5>2. Cardinality(Handed(claiming, state', x))
                = Cardinality(Handed(claiming, state, x)) + 1
          BY <4>2, <5>1, FS_AddElement
        <5> QED BY <1>2, <2>1, <4>1, <4>2, <4>3, <5>2
      <4>4. CASE x # s
        <5>1. Handed(claiming, state', x) = Handed(claiming, state, x)
          BY <2>2, <2>7, <4>1, <4>4, SemAssumption DEF Handed
        <5> QED BY <1>2, <2>1, <4>1, <4>4, <5>1
      <4> QED BY <4>3, <4>4
    <3>4. Balanced(ow, cnt', claiming, state', Used')
      BY <3>2, <3>3 DEF Balanced
    <3> HIDE DEF ow
    <3> QED BY <1>1, <1>2, <2>1, <2>5, <3>1, <3>4, ResumeSettles DEF SemTypes
  <2> QED BY <2>5, <2>6, <2>7 DEF SemInv
<1> QED BY <1>3, <1>4

\* The loop of Destroy takes the first claimer off the list, without a unit; at
\* its end the semaphore is gone and nobody is left on its list.
LEMMA DestroyKeeps ==
  ASSUME SemInv, CoreInv', NEW s \in Sem, Running, destroying[Me] \in {NULL, s},
         DestroyLoop(s)
  PROVE  SemInv'
<1> DEFINE h == Head(lst[s])
           cl == [claiming EXCEPT ![h] = NULL]
<1>1. /\ SemTypes /\ NothingIdle /\ Claimers(claiming, state, stopped, lst)
      /\ Balanced(owed, cnt, claiming, state, Used) /\ claiming[cor] = NULL
      /\ Agree(ring, body, state, corpse, stopped) /\ Control /\ Me \in Proc
  BY AtCall DEF SemInv, Settled, Running
<1>2. CASE lst[s] = <<>>
  <2>1. /\ live' = live \ {s} /\ destroying' = [destroying EXCEPT ![Me] = NULL]
        /\ UNCHANGED <<vars, cnt, lst, claiming, owed>>
    BY <1>2 DEF DestroyLoop
  <2>2. UNCHANGED <<ring, state, stopped, cor, status>>
    BY <2>1 DEF vars
  <2>3. SemTypes' /\ NothingIdle'
    BY <1>1, <2>1 DEF SemTypes, NothingIdle
  <2>4. Used' \in SUBSET Used
    <3>1. ASSUME NEW x \in Used' PROVE x \in Used
      <4>1. x \in Sem /\ x \in live /\ x # s /\ \A p \in Proc : destroying'[p] # x
        BY <2>1 DEF Used, InUse
      <4>2. \A p \in Proc : p # Me => destroying'[p] = destroying[p]
        BY <1>1, <2>1 DEF SemTypes
      <4>3. destroying[Me] # x
        BY <4>1, SemAssumption
      <4> QED BY <4>1, <4>2, <4>3 DEF Used, InUse
    <3> QED BY <3>1
  <2>5. Settled'
    <3>1. Claimers(claiming', state', stopped', lst')
      BY <1>1, <2>1, <2>2
    <3>2. Balanced(owed', cnt', claiming', state', Used')
      BY <1>1, <2>1, <2>2, <2>4 DEF Balanced
    <3> QED BY <1>1, <2>1, <2>2, <3>1, <3>2 DEF Settled
  <2> QED BY <2>3, <2>5 DEF SemInv
<1>3. CASE lst[s] # <<>>
  <2>1. /\ lst' = [lst EXCEPT ![s] = Tail(@)]
        /\ destroying' = [destroying EXCEPT ![Me] = s]
        /\ ActivateItem(h) /\ Resume(cl, owed)
        /\ UNCHANGED <<cnt, live>>
    <3>1. cnt[s] = 0
      BY <1>1, <1>3 DEF NothingIdle, SemTypes
    <3> QED BY <1>3, <3>1 DEF DestroyLoop
  <2>2. /\ h \in Proc /\ claiming[h] = s /\ state[h] = "passive" /\ h \notin stopped
        /\ status' # "trap" =>
             /\ stopped' \in SUBSET stopped
             /\ state'[h] = "ready"
             /\ \A q \in Proc : q # h /\ claiming[q] # NULL => state'[q] = state[q]
    BY <1>3, <2>1, FirstClaimer
  <2>3. /\ lst'[s] = Tail(lst[s]) /\ lst'[s] \in Seq(Proc) /\ NoRepetition(lst'[s])
        /\ Elems(lst'[s]) = {p \in Proc : claiming[p] = s /\ state[p] = "passive"} \ {h}
        /\ \A x \in Sem : x # s => lst'[x] = lst[x]
    <3>1. lst'[s] = Tail(lst[s]) /\ \A x \in Sem : x # s => lst'[x] = lst[x]
      BY <1>1, <2>1 DEF SemTypes
    <3>2. /\ lst[s] \in Seq(Proc) /\ NoRepetition(lst[s])
          /\ Elems(lst[s]) = {p \in Proc : claiming[p] = s /\ state[p] = "passive"}
      BY <1>1 DEF Claimers, SemTypes
    <3> QED BY <1>3, <3>1, <3>2, TailProperties
  <2>4. /\ cl \in [Proc -> Sem \cup {NULL}] /\ cl[h] = NULL
        /\ \A p \in Proc : p # h => cl[p] = claiming[p]
    BY <1>1, <2>2 DEF SemTypes
  <2>5. claiming' \in [Proc -> Sem \cup {NULL}] /\ owed' \in [Sem -> Int]
    BY <1>1, <2>1, <2>4, ResumeTypes DEF SemTypes
  <2>6. SemTypes'
    <3>1. lst' \in [Sem -> Seq(Proc)]
      BY <1>1, <2>1, <2>3 DEF SemTypes
    <3>2. destroying' \in [Proc -> Sem \cup {NULL}]
      BY <1>1, <2>1 DEF SemTypes
    <3> QED BY <1>1, <2>1, <2>5, <3>1, <3>2 DEF SemTypes
  <2>7. NothingIdle'
    BY <1>1, <1>3, <2>1, <2>3 DEF NothingIdle
  <2>8. ASSUME status' # "trap" PROVE Settled'
    <3>1. Claimers(cl, state', stopped', lst')
      <4>1. ASSUME NEW p \in Proc, cl[p] # NULL
            PROVE  state'[p] \in {"passive", "ready"} /\ p \notin stopped'
        BY <1>1, <2>2, <2>4, <2>8, <4>1 DEF Claimers
      <4>2. ASSUME NEW x \in Sem
            PROVE  /\ NoRepetition(lst'[x])
                   /\ Elems(lst'[x]) = {p \in Proc : cl[p] = x /\ state'[p] = "passive"}
        <5>1. CASE x = s
          <6>1. {p \in Proc : cl[p] = s /\ state'[p] = "passive"}
                  = {p \in Proc : claiming[p] = s /\ state[p] = "passive"} \ {h}
            BY <2>2, <2>4, <2>8, SemAssumption
          <6> QED BY <2>3, <5>1, <6>1
        <5>2. CASE x # s
          <6>1. {p \in Proc : cl[p] = x /\ state'[p] = "passive"}
                  = {p \in Proc : claiming[p] = x /\ state[p] = "passive"}
            BY <2>2, <2>4, <2>8, <5>2, SemAssumption
          <6> QED BY <1>1, <2>3, <5>2, <6>1 DEF Claimers
        <5> QED BY <5>1, <5>2
      <4> QED BY <4>1, <4>2 DEF Claimers
    <3>2. \A x \in Used' : x \in Used /\ x # s
      <4>1. ASSUME NEW x \in Used' PROVE x \in Used /\ x # s
        <5>1. x \in Sem /\ x \in live /\ \A p \in Proc : destroying'[p] # x
          BY <2>1 DEF Used, InUse
        <5>2. destroying'[Me] = s /\ \A p \in Proc : p # Me => destroying'[p] = destroying[p]
          BY <1>1, <2>1 DEF SemTypes
        <5>3. x # s /\ destroying[Me] # x
          BY <1>1, <5>1, <5>2, SemAssumption
        <5> QED BY <5>1, <5>2, <5>3 DEF Used, InUse
      <4> QED BY <4>1
    <3>3. ASSUME NEW x \in Used'
          PROVE  owed[x] = cnt'[x] + Cardinality(Handed(cl, state', x))
      <4>1. x \in Used /\ x # s /\ x \in Sem
        BY <3>2 DEF Used
      <4>2. Handed(cl, state', x) = Handed(claiming, state, x)
        BY <2>2, <2>4, <2>8, <4>1, SemAssumption DEF Handed
      <4> QED BY <1>1, <2>1, <4>1, <4>2 DEF Balanced
    <3>4. Balanced(owed, cnt', cl, state', Used')
      BY <3>3 DEF Balanced
    <3> HIDE DEF cl
    <3> QED BY <1>1, <2>1, <2>4, <2>6, <3>1, <3>4, ResumeSettles DEF SemTypes
  <2> QED BY <2>6, <2>7, <2>8 DEF SemInv
<1> QED BY <1>2, <1>3

(***************************************************************************)
(* The theorems.                                                           *)
(***************************************************************************)

\* Whatever is called, the scheduler sees one call of its own interface or none:
\* Destroy never comes upon a claimer of a semaphore that has units.
LEMMA StepIsCore == SemInv /\ [SemNext]_allVars => [CoreNext]_vars
<1> SUFFICES ASSUME SemInv, SemNext PROVE [CoreNext]_vars
  BY DEF allVars
<1>1. ASSUME NEW s \in Sem, NEW n \in 0..MaxUnits, CreateSem(s, n) PROVE [CoreNext]_vars
  BY <1>1 DEF CreateSem
<1>2. ASSUME NEW s \in Sem, Claim(s) PROVE [CoreNext]_vars
  BY <1>2 DEF Claim, CoreNext
<1>3. ASSUME NEW s \in Sem, Running, lst[s] # <<>>, ActivateItem(Head(lst[s]))
      PROVE  [CoreNext]_vars
  <2>1. Head(lst[s]) \in Proc /\ Activate(Head(lst[s]))
    BY <1>3, FirstClaimer
  <2> QED BY <2>1 DEF CoreNext
<1>4. ASSUME NEW s \in Sem, Release(s) PROVE [CoreNext]_vars
  BY <1>3, <1>4 DEF Release, MayUse, MayCall
<1>5. ASSUME NEW s \in Sem, CondClaim(s) PROVE [CoreNext]_vars
  BY <1>5 DEF CondClaim
<1>6. ASSUME NEW s \in Sem, Running, DestroyLoop(s) PROVE [CoreNext]_vars
  <2>1. CASE lst[s] = <<>>
    BY <1>6, <2>1 DEF DestroyLoop
  <2>2. CASE lst[s] # <<>>
    <3>1. cnt[s] = 0
      BY <2>2 DEF SemInv, SemTypes, NothingIdle
    <3> QED BY <1>3, <1>6, <2>2, <3>1 DEF DestroyLoop
  <2> QED BY <2>1, <2>2
<1>7. ASSUME NEW s \in Sem, Destroy(s) \/ DestroyGoesOn(s) PROVE [CoreNext]_vars
  BY <1>6, <1>7 DEF Destroy, DestroyGoesOn, MayUse, MayCall
<1>8. ASSUME NEW p \in Proc, \/ ProcessCall(Create(p)) \/ ProcessCall(Start(p))
                             \/ ProcessCall(Activate(p))
      PROVE  [CoreNext]_vars
  BY <1>8 DEF ProcessCall, CoreNext
<1>9. ASSUME ProcessCall(StopMe) \/ ProcessCall(SuspendMe) \/ ProcessCall(Wait)
      PROVE  [CoreNext]_vars
  BY <1>9 DEF ProcessCall, CoreNext
<1>10. ASSUME NEW e \in Source, ProcessCall(Attach(e)) \/ ProcessCall(Detach(e))
       PROVE  [CoreNext]_vars
  BY <1>10 DEF ProcessCall, CoreNext
<1> QED BY <1>1, <1>2, <1>4, <1>5, <1>7, <1>8, <1>9, <1>10 DEF SemNext

\* No semaphore exists at first.
LEMMA InitSem == SemInit => SemInv
<1> SUFFICES ASSUME SemInit PROVE SemInv
  OBVIOUS
<1>1. CoreInv
  BY InitCore DEF SemInit
<1>2. SemTypes /\ NothingIdle
  BY SemAssumption DEF SemInit, SemTypes, NothingIdle
<1>3. Settled
  <2>1. \A s \in Sem : NoRepetition(lst[s]) /\ Elems(lst[s]) = {}
    BY DEF SemInit, NoRepetition, Elems
  <2>2. \A s \in Sem : {p \in Proc : claiming[p] = s /\ state[p] = "passive"} = {}
    BY SemAssumption DEF SemInit
  <2>3. Claimers(claiming, state, stopped, lst)
    BY <2>1, <2>2 DEF SemInit, Claimers
  <2>4. Used = {}
    BY DEF SemInit, Used, InUse
  <2>5. claiming[cor] = NULL
    BY <1>1 DEF SemInit, CoreInv, Inv, Control
  <2> QED BY <2>3, <2>4, <2>5 DEF Settled, Balanced
<1> QED BY <1>1, <1>2, <1>3 DEF SemInv

\* Every call keeps the invariant.
LEMMA CallKeeps == SemInv /\ SemNext => SemInv'
<1> SUFFICES ASSUME SemInv, SemNext PROVE SemInv'
  OBVIOUS
<1>0. CoreInv'
  BY StepIsCore, NextCore DEF SemInv
<1>1. ASSUME NEW s \in Sem, NEW n \in 0..MaxUnits, CreateSem(s, n) PROVE SemInv'
  BY <1>1, CreateSemKeeps
<1>2. ASSUME NEW s \in Sem, Claim(s), ClaimIsSafe(s) PROVE SemInv'
  <2>1. MayUse(s)
    BY <1>2 DEF Claim
  <2>2. CASE cnt[s] > 0
    <3>1. cnt[s] # 0
      BY <2>2
    <3> QED BY <1>2, <2>1, <2>2, <3>1, TakeKeeps DEF Claim
  <2>3. CASE cnt[s] = 0
    BY <1>0, <1>2, <2>1, <2>3, BlockKeeps
  <2> QED BY <1>2, <2>2, <2>3 DEF Claim
<1>3. ASSUME NEW s \in Sem, Release(s) PROVE SemInv'
  BY <1>0, <1>3, ReleaseKeeps
<1>4. ASSUME NEW s \in Sem, CondClaim(s) PROVE SemInv'
  BY <1>4, TakeKeeps DEF CondClaim
<1>5. ASSUME NEW s \in Sem, Destroy(s) \/ DestroyGoesOn(s) PROVE SemInv'
  <2>1. Running /\ destroying[Me] \in {NULL, s} /\ DestroyLoop(s)
    BY <1>5 DEF Destroy, DestroyGoesOn, MayUse, MayCall
  <2> QED BY <1>0, <2>1, DestroyKeeps
<1>6. ASSUME NEW A, A, Running, UNCHANGED semVars, Resume(claiming, owed),
             A => \/ StopMe \/ SuspendMe \/ Wait
                  \/ \E e \in Source : Attach(e) \/ Detach(e)
                  \/ \E p \in Proc : \/ Create(p) \/ Start(p)
                                     \/ claiming[p] = NULL /\ Activate(p)
      PROVE  SemInv'
  <2>1. CASE status' # "trap"
    BY <1>0, <1>6, <2>1, ProcessCallKeeps
  <2>2. CASE status' = "trap"
    <3>1. UNCHANGED <<cnt, lst, live, destroying>> /\ SemTypes /\ NothingIdle
      BY <1>6 DEF semVars, SemInv
    <3>2. claiming' \in [Proc -> Sem \cup {NULL}] /\ owed' \in [Sem -> Int]
      BY <1>0, <1>6, <3>1, ResumeTypes DEF SemTypes
    <3>3. SemTypes' /\ NothingIdle'
      BY <3>1, <3>2 DEF SemTypes, NothingIdle
    <3> QED BY <1>0, <2>2, <3>3 DEF SemInv
  <2> QED BY <2>1, <2>2
<1>7. ASSUME NEW p \in Proc, \/ ProcessCall(Create(p)) \/ ProcessCall(Start(p))
                             \/ claiming[p] = NULL /\ ProcessCall(Activate(p))
      PROVE  SemInv'
  BY <1>6, <1>7 DEF ProcessCall, MayCall
<1>8. ASSUME ProcessCall(StopMe) \/ ProcessCall(SuspendMe) \/ ProcessCall(Wait)
      PROVE  SemInv'
  BY <1>6, <1>8 DEF ProcessCall, MayCall
<1>9. ASSUME NEW e \in Source, ProcessCall(Attach(e)) \/ ProcessCall(Detach(e))
      PROVE  SemInv'
  BY <1>6, <1>9 DEF ProcessCall, MayCall
<1> QED
  BY <1>1, <1>2, <1>3, <1>4, <1>5, <1>7, <1>8, <1>9 DEF SemNext

\* So does every step of SemSpec.
LEMMA StepSem == SemInv /\ [SemNext]_allVars => SemInv'
<1> SUFFICES ASSUME SemInv, [SemNext]_allVars PROVE SemInv'
  OBVIOUS
<1>0. CoreInv'
  BY StepIsCore, NextCore DEF SemInv
<1>1. ASSUME UNCHANGED allVars PROVE SemInv'
  <2>1. /\ UNCHANGED <<ring, state, body, events, hcnt, corpse, cor, started, status, stopped>>
        /\ UNCHANGED <<cnt, lst, live, destroying, claiming, owed>>
    BY <1>1 DEF allVars, semVars, vars
  <2>2. SemTypes' /\ NothingIdle' /\ (status' # "trap" => status # "trap")
    BY <2>1 DEF SemInv, SemTypes, NothingIdle
  <2>3. Settled => Settled'
    BY <2>1 DEF Settled, Running, Claimers, Balanced, Handed, Used, InUse
  <2> QED BY <1>0, <2>2, <2>3 DEF SemInv
<1> QED BY <1>1, CallKeeps

\* The inductive invariant holds in every reachable state.
LEMMA SemInvariance == SemSpec => []SemInv
BY InitSem, StepSem, PTL DEF SemSpec

\* A program that uses semaphores by their rules is, to the scheduler, a
\* program that calls it one operation at a time: all that holds of such programs
\* (the caller is Me, nobody runs after StopMe) holds with semaphores too.
THEOREM SemaphoresUseTheInterface == SemSpec => CoreSpec
<1>1. SemInit => Init
  BY DEF SemInit
<1> QED BY <1>1, StepIsCore, SemInvariance, PTL DEF SemSpec, CoreSpec

\* With at most one process above the least urgency, Claim, Release and Destroy
\* never make an assertion of the scheduler fail, so none of them stops halfway
\* with a claimer out of the list and not yet ready; and a Release that makes a
\* more urgent claimer ready hands it control, as the Dispatcher would.
THEOREM SemaphoresAreScheduled ==
  AtMostOneUrgent => (SemSpec => [](AssertionsHold) /\ Dispatches)
BY SemaphoresUseTheInterface, NoAssertionFails, ImplementsDispatcher, PTL

\* Claim, Release and Destroy keep the list of a semaphore: it holds exactly the
\* processes that are suspended in Claim on it, once each, and none of them has
\* left the Claim whose stack frame holds its item.
THEOREM ListsHoldTheBlocked == SemSpec => []WaitersBlocked
<1>1. SemInv => WaitersBlocked
  BY DEF SemInv, SemTypes, Settled, Claimers, WaitersBlocked
<1> QED BY <1>1, SemInvariance, PTL

\* Release hands over one unit for each that it is given, and Claim returns only
\* with a unit, whichever processes run between the two.
THEOREM UnitsAreConserved == SemSpec => []UnitsConserved
<1>1. SemInv => UnitsConserved
  BY DEF SemInv, Settled, Balanced, Handed, Used, UnitsConserved
<1> QED BY <1>1, SemInvariance, PTL

\* No process is left blocked on a semaphore that has a unit.
THEOREM NoUnitIsIdle == SemSpec => []NoIdleUnit
<1>1. SemInv => NoIdleUnit
  BY DEF SemInv, SemTypes, NothingIdle, NoIdleUnit
<1> QED BY <1>1, SemInvariance, PTL

(***************************************************************************)
(* The order of the claimers.                                              *)
(***************************************************************************)

\* A claimer is linked behind the others, or the first one is taken off.
Moved(q, q2) ==
  \/ q2 = q
  \/ \E p \in Proc : p \notin Elems(q) /\ q2 = Enqueue(q, p)
  \/ q # <<>> /\ q2 = Tail(q)

LEMMA MovedInOrder ==
  ASSUME NEW q \in Seq(Proc), NEW q2, NoRepetition(q), Moved(q, q2),
         NEW x \in Elems(q), x \in Elems(q2)
  PROVE  /\ AheadOf(q2, x) \subseteq AheadOf(q, x)
         /\ Elems(q) \ Elems(q2) \subseteq AheadOf(q, x)
<1>1. PICK n \in Nat : n = Len(q)
  BY LenProperties
<1>2. CASE q2 = q
  BY <1>2
<1>3. ASSUME NEW p \in Proc, p \notin Elems(q), q2 = Enqueue(q, p)
      PROVE  /\ AheadOf(q2, x) \subseteq AheadOf(q, x)
             /\ Elems(q) \ Elems(q2) \subseteq AheadOf(q, x)
  <2>1. /\ Len(q2) = n+1 /\ q2[n+1] = p
        /\ \A i \in 1..n : q2[i] = q[i]
        /\ Elems(q2) = Elems(q) \cup {p}
    <3>1. Elems(q2) = Elems(q) \cup {p}
      BY <1>3, EnqueueProperties
    <3>2. /\ Len(Append(q, p)) = Len(q)+1
          /\ \A i \in 1..Len(q) : Append(q, p)[i] = q[i]
          /\ Append(q, p)[Len(q)+1] = p
      BY AppendProperties
    <3> QED BY <1>1, <1>3, <3>1, <3>2 DEF Enqueue
  <2>2. ASSUME NEW y \in AheadOf(q2, x) PROVE y \in AheadOf(q, x)
    <3>1. PICK i \in 1..n+1, k \in 1..n+1 : y = q2[i] /\ q2[k] = x /\ i < k
      BY <2>1 DEF AheadOf
    <3>2. k # n+1
      BY <1>3, <2>1, <3>1
    <3>3. i \in 1..n /\ k \in i+1..n /\ y = q[i] /\ q[k] = x
      BY <2>1, <3>1, <3>2
    <3> QED BY <1>1, <3>3 DEF AheadOf
  <2> QED BY <2>1, <2>2
<1>4. CASE q # <<>> /\ q2 = Tail(q)
  <2>1. /\ n >= 1 /\ Len(q2) = n-1 /\ Head(q) = q[1]
        /\ \A i \in 1..n-1 : q2[i] = q[i+1]
        /\ Elems(q2) = Elems(q) \ {Head(q)}
    <3>1. Elems(q2) = Elems(q) \ {Head(q)}
      BY <1>4, TailProperties
    <3>2. /\ Len(Tail(q)) = Len(q)-1
          /\ \A i \in 1..Len(Tail(q)) : Tail(q)[i] = q[i+1]
      BY <1>4, HeadTailProperties
    <3>3. n >= 1
      BY <1>1, <1>4, EmptySeq
    <3> QED BY <1>1, <1>4, <3>1, <3>2, <3>3
  <2>2. ASSUME NEW y \in AheadOf(q2, x) PROVE y \in AheadOf(q, x)
    <3>1. PICK i \in 1..n-1, k \in 1..n-1 : y = q2[i] /\ q2[k] = x /\ i < k
      BY <2>1 DEF AheadOf
    <3>2. /\ i+1 \in 1..n /\ k+1 \in (i+1)+1..n /\ y = q[i+1] /\ q[k+1] = x
      BY <2>1, <3>1
    <3> QED BY <1>1, <3>2 DEF AheadOf
  <2>3. Head(q) \in AheadOf(q, x)
    <3>1. PICK k \in 1..n-1 : q2[k] = x
      BY <2>1 DEF Elems
    <3>2. k+1 \in 1+1..n /\ q[k+1] = x /\ 1 \in 1..n
      BY <2>1, <3>1
    <3> QED BY <1>1, <2>1, <3>2 DEF AheadOf
  <2> QED BY <2>1, <2>2, <2>3
<1> QED BY <1>2, <1>3, <1>4 DEF Moved

\* What a call does to the list of a semaphore that exists.
LEMMA ListsMove ==
  ASSUME SemInv, SemNext, NEW s \in live
  PROVE  /\ lst[s] \in Seq(Proc) /\ NoRepetition(lst[s])
         /\ Moved(lst[s], lst'[s])
<1>0. Running
  BY DEF SemNext, CreateSem, Claim, Release, CondClaim, Destroy, DestroyGoesOn,
         ProcessCall, MayUse, MayCall
<1>1. /\ SemTypes /\ Claimers(claiming, state, stopped, lst)
      /\ Me \in Proc /\ state[Me] = "ready"
  BY <1>0, AtCall
<1>2. s \in Sem /\ lst[s] \in Seq(Proc) /\ NoRepetition(lst[s]) /\ Me \notin Elems(lst[s])
  BY <1>1 DEF SemTypes, Claimers
<1>3. ASSUME NEW t \in Sem,
             \/ lst' = [lst EXCEPT ![t] = Enqueue(@, Me)]
             \/ lst[t] # <<>> /\ lst' = [lst EXCEPT ![t] = Tail(@)]
             \/ lst' = lst
             \/ t \notin live /\ lst' = [lst EXCEPT ![t] = <<>>]
      PROVE  Moved(lst[s], lst'[s])
  BY <1>1, <1>2, <1>3 DEF SemTypes, Moved
<1>4. ASSUME NEW t \in Sem, NEW n \in 0..MaxUnits, CreateSem(t, n)
      PROVE  Moved(lst[s], lst'[s])
  BY <1>3, <1>4 DEF CreateSem
<1>5. ASSUME NEW t \in Sem, Claim(t) PROVE Moved(lst[s], lst'[s])
  BY <1>3, <1>5 DEF Claim
<1>6. ASSUME NEW t \in Sem, Release(t) \/ CondClaim(t) PROVE Moved(lst[s], lst'[s])
  BY <1>3, <1>6 DEF Release, CondClaim
<1>7. ASSUME NEW t \in Sem, Destroy(t) \/ DestroyGoesOn(t) PROVE Moved(lst[s], lst'[s])
  BY <1>3, <1>7 DEF Destroy, DestroyGoesOn, DestroyLoop
<1>8. ASSUME UNCHANGED semVars PROVE Moved(lst[s], lst'[s])
  BY <1>8 DEF semVars, Moved
<1>9. Moved(lst[s], lst'[s])
  BY <1>4, <1>5, <1>6, <1>7, <1>8 DEF SemNext, ProcessCall
<1> QED BY <1>2, <1>9

\* Claimers are served in the order in which they came, whatever the urgencies.
THEOREM ServedInOrder == SemSpec => FirstComeFirstServed
<1> DEFINE InOrder == \A s \in live : \A x \in Elems(lst[s]) \cap Elems(lst'[s]) :
                        /\ AheadOf(lst'[s], x) \subseteq AheadOf(lst[s], x)
                        /\ Elems(lst[s]) \ Elems(lst'[s]) \subseteq AheadOf(lst[s], x)
<1>1. SemInv /\ [SemNext]_allVars => [InOrder]_allVars
  <2> SUFFICES ASSUME SemInv, SemNext PROVE InOrder
    OBVIOUS
  <2> QED BY ListsMove, MovedInOrder
<1> QED BY <1>1, SemInvariance, PTL DEF SemSpec, FirstComeFirstServed

=============================================================================
