----------------------------- MODULE DebugProofs -----------------------------
(***************************************************************************)
(* Proofs about LinuxDebug, for any number of threads, of a user and a     *)
(* program that are Careful.                                               *)
(***************************************************************************)
EXTENDS LinuxDebug, SequenceTheorems, FiniteSetTheorems, TLAPS

Live == phase \notin Ended \cup {"finished"}
Stopping == phase \in {"stop", "kill", "collect"}

\* Nothing runs: the user or the debugger looks at what is there already.
Halted ==
  phase \in {"user", "go"} \/ (phase = "wait" /\ (check \/ events # <<>>))

Elems(q) == {q[i] : i \in 1..Len(q)}
InQueue(t) == t \in Elems(events)
Once(q) == \A i, j \in 1..Len(q) : q[i] = q[j] => i = j

\* The thread whose event check_events_again asks for once more.
Current == IF phase = "wait" THEN last ELSE handle

\* t stands at an int 3 that somebody has not been told about: the user of a
\* breakpoint, Krn_Prog of a thread that is created or dies.
Creating == \E n \in Thread : msg[n] = "create"
Needs(t) == t \in owed \/ msg[t] = "death" \/ (t = Main /\ Creating)

Types ==
  /\ os \in [Thread -> {"none", "held", "run", "disk", "step", "stop", "zombie", "dying", "gone"}]
  /\ pend \in [Thread -> SUBSET {"trap", "usr"}] /\ report \in [Thread -> Status]
  /\ pc \in [Thread -> {"plain", "hit", "solib", "thread"}]
  /\ msg \in [Thread -> {"none", "create", "death"}] /\ lib \in BOOLEAN
  /\ threads \in Seq(Thread) /\ expired \in [Thread -> BOOLEAN]
  /\ last_status \in [Thread -> Status] /\ last_signal \in [Thread -> {"none", "usr"}]
  /\ events \in Seq(Thread) /\ last \in Thread \cup {NULL}
  /\ dead \in BOOLEAN /\ check \in BOOLEAN /\ singlestep \in BOOLEAN
  /\ phase \in {"user", "go", "wait", "poll", "sleep", "stop", "kill", "collect",
                "finished", "over", "crashed"}
  /\ at \in Nat /\ known \subseteq Thread /\ handle \in Thread
  /\ owed \subseteq Thread /\ usr \in [Thread -> {"unsent", "sent", "got"}]
  /\ passed \subseteq Thread

\* The kernel's account of a thread and that of its thread_info.
Placed(t) ==
  /\ os[t] \in {"run", "disk", "step", "stop", "zombie"} => t \in Registered
  /\ t \in Registered => os[t] \notin {"none", "held", "dying"} /\ ~expired[t]
  /\ expired[t] => os[t] \in {"dying", "gone"}
  /\ report[t] # "none" => os[t] \in {"stop", "zombie"} /\ last_signal[t] = "none"
  /\ report[t] = "exit" <=> os[t] = "zombie"
  /\ os[t] \in {"run", "disk", "step"} => last_signal[t] = "none"
  /\ t \in passed => os[t] \in {"run", "disk"}
  /\ msg[t] = "create" <=> os[t] = "held"

\* An event in the queue is the only one of its thread, which waits for it.
Waits(t) ==
  InQueue(t) =>
    /\ report[t] = "none" /\ last_signal[t] = "none"
    /\ os[t] \in {"stop", "gone", "dying"} /\ (t \in Registered \/ expired[t])
    /\ last_status[t] = "exit" => os[t] = "gone" /\ t \in Registered
    /\ Needs(t) => last_status[t] = "trap"

\* An int 3 that somebody must be told about: its SIGTRAP is reported, in the
\* queue or at hand, or another one will stop the thread at the same place.
Kept(t) ==
  Needs(t) =>
    /\ os[t] = "stop" /\ report[t] \in {"none", "trap"}
    /\ \/ report[t] = "trap"
       \/ (last_status[t] = "trap" /\ (InQueue(t) \/ (check /\ t = Current)))
       \/ "trap" \in pend[t]
    /\ t \in owed => pc[t] = "hit"
    /\ msg[t] = "death" \/ (t = Main /\ Creating) => pc[t] = "thread"

\* A signal that was sent is in one place.
Somewhere(t) ==
  \/ "usr" \in pend[t] \/ report[t] = "usr"
  \/ (InQueue(t) /\ last_status[t] = "usr") \/ last_signal[t] = "usr"
Carried(t) ==
  /\ t \in Registered /\ os[t] \notin {"zombie", "gone"} =>
       /\ usr[t] = "sent" <=> Somewhere(t)
       /\ "usr" \in pend[t] =>
            /\ report[t] # "usr" /\ last_signal[t] # "usr"
            /\ ~(InQueue(t) /\ last_status[t] = "usr")
  /\ os[t] \in {"none", "held"} =>
       "usr" \notin pend[t] /\ last_signal[t] = "none" /\ usr[t] # "sent"

\* The lists, and what is to be looked at once more.
Lists ==
  /\ Once(threads) /\ Once(events) /\ known = Registered /\ msg[Main] # "death"
  /\ dead => last = NULL /\ ~check /\ phase \in {"user", "go"}
  /\ check => /\ phase \in {"user", "go", "wait"}
              /\ Current \in Thread /\ ~InQueue(Current)
              /\ Current \in Registered \/ expired[Current]
              /\ os[Current] \in {"stop", "gone", "dying"} /\ report[Current] = "none"
              /\ last_status[Current] = "trap" /\ last_signal[Current] = "none"

\* stop_all_threads has dealt with the threads before at.
Walked ==
  /\ Halted => \A t \in Thread : /\ os[t] \in {"run", "disk", "step"} => t \in passed
                                 /\ report[t] # "none" => os[t] = "zombie"
  /\ IF Stopping
     THEN /\ at \in 1..Len(threads) + 1 /\ (phase # "stop" => at <= Len(threads))
          /\ events # <<>> /\ last = Head(events)
          /\ \A i \in 1..Len(threads) : i < at =>
               /\ os[threads[i]] \in {"run", "disk", "step"} => threads[i] \in passed
               /\ report[threads[i]] # "none" => os[threads[i]] = "zombie"
     ELSE at = 0 /\ (~Halted => passed = {})
  /\ phase = "collect" =>
       (os[threads[at]] \in {"run", "disk", "step"} \/ Needs(threads[at]) => "trap" \in pend[threads[at]])

\* Whom continue_debug_event steps or names the last signaled thread has
\* nothing left to tell.
Told ==
  /\ phase = "user" \/ (phase = "go" /\ ~check) => ~Needs(handle)
  /\ phase = "wait" /\ ~check /\ events # <<>> =>
       last = Head(events) \/ last = NULL \/ ~Needs(last)

\* In a single step no other thread moves.
Stepping ==
  singlestep /\ phase # "user" =>
    /\ \A t \in Thread : os[t] \notin {"run", "disk", "zombie"}
    /\ phase = "go" => ~check /\ events = <<>>
    /\ phase # "go" =>
         /\ \A t \in Thread : os[t] = "step" \/ report[t] # "none" \/ InQueue(t) => t = last
         /\ last # NULL => ~Needs(last)

Account(t) == Placed(t) /\ Waits(t) /\ Kept(t) /\ Carried(t)
Agree == (\A t \in Thread : Account(t)) /\ Lists /\ Walked /\ Told /\ Stepping

Done ==
  /\ phase = "finished" => owed = {} /\ \A t \in Thread : os[t] = "gone"
  /\ ~Stopping => at = 0
DebugInv ==
  Types /\ HitsKept /\ Done /\ Once(threads) /\ Once(events) /\ (Live => Agree)

(***************************************************************************)
(* The list of threads and the queue.                                      *)
(***************************************************************************)

LEMMA Registration == Registered = Elems(threads)
BY DEF Registered, Elems

\* list_del takes one entry out.
LEMMA MainExists == Main \in Thread
BY DebugAssumption DEF Main, Thread

LEMMA NullIsNone == NULL \notin Thread
BY DEF NULL, Thread

LEMMA WithoutProperties ==
  ASSUME NEW q \in Seq(Thread), NEW n \in Thread, Once(q)
  PROVE  /\ Without(q, n) \in Seq(Thread) /\ Once(Without(q, n))
         /\ Elems(Without(q, n)) = Elems(q) \ {n}
<1>1. CASE ~ \E i \in 1..Len(q) : q[i] = n
  BY <1>1 DEF Without, Elems
<1>2. CASE \E i \in 1..Len(q) : q[i] = n
  <2>1. PICK k \in 1..Len(q) : k = CHOOSE i \in 1..Len(q) : q[i] = n
    BY <1>2
  <2>2. q[k] = n /\ Len(q) \in Nat
    BY <1>2, <2>1
  <2>3. PICK f : f = SubSeq(q, 1, k-1)
    OBVIOUS
  <2>4. PICK b : b = SubSeq(q, k+1, Len(q))
    OBVIOUS
  <2>5. /\ f \in Seq(Thread) /\ Len(f) = k-1 /\ \A i \in 1..k-1 : f[i] = q[i]
    <3>1. k-1 \in Int /\ \A i \in 1..k-1 : q[i] \in Thread
      BY <2>2
    <3>2. /\ SubSeq(q, 1, k-1) \in Seq(Thread)
          /\ Len(SubSeq(q, 1, k-1)) = IF 1 <= k-1 THEN (k-1)-1+1 ELSE 0
          /\ \A i \in 1..(k-1)-1+1 : SubSeq(q, 1, k-1)[i] = q[1+i-1]
      BY <3>1, SubSeqProperties
    <3>3. (k-1)-1+1 = k-1 /\ \A i \in 1..k-1 : 1+i-1 = i
      BY <2>2
    <3>4. Len(SubSeq(q, 1, k-1)) = k-1
      BY <2>2, <3>2
    <3> QED BY <2>3, <3>2, <3>3, <3>4
  <2>6. /\ b \in Seq(Thread) /\ Len(b) = Len(q) - k
        /\ \A i \in 1..Len(q)-k : b[i] = q[k+i]
    <3>1. k+1 \in Int /\ Len(q) \in Int /\ \A i \in k+1..Len(q) : q[i] \in Thread
      BY <2>2
    <3>2. /\ SubSeq(q, k+1, Len(q)) \in Seq(Thread)
          /\ Len(SubSeq(q, k+1, Len(q))) = IF k+1 <= Len(q) THEN Len(q)-(k+1)+1 ELSE 0
          /\ \A i \in 1..Len(q)-(k+1)+1 : SubSeq(q, k+1, Len(q))[i] = q[(k+1)+i-1]
      BY <3>1, SubSeqProperties
    <3>3. Len(q)-(k+1)+1 = Len(q)-k /\ \A i \in 1..Len(q)-k : (k+1)+i-1 = k+i
      BY <2>2
    <3>4. Len(SubSeq(q, k+1, Len(q))) = Len(q)-k
      BY <2>2, <3>2
    <3> QED BY <2>4, <3>2, <3>3, <3>4
  <2>7. Without(q, n) = f \o b
    BY <1>2, <2>1, <2>3, <2>4 DEF Without
  <2>8. /\ f \o b \in Seq(Thread) /\ Len(f \o b) = Len(q) - 1
        /\ \A i \in 1..Len(q)-1 : (f \o b)[i] = IF i < k THEN q[i] ELSE q[i+1]
    <3>1. f \o b \in Seq(Thread) /\ Len(f \o b) = Len(f) + Len(b)
      BY <2>5, <2>6, ConcatProperties
    <3>2. \A i \in 1..Len(f)+Len(b) :
            (f \o b)[i] = IF i <= Len(f) THEN f[i] ELSE b[i-Len(f)]
      BY <2>5, <2>6, ConcatProperties
    <3>3. Len(f) + Len(b) = Len(q) - 1
      BY <2>2, <2>5, <2>6
    <3>4. ASSUME NEW i \in 1..Len(q)-1
          PROVE  (f \o b)[i] = IF i < k THEN q[i] ELSE q[i+1]
      <4>1. CASE i < k
        BY <2>2, <2>5, <3>2, <3>3, <4>1
      <4>2. CASE ~(i < k)
        <5>1. i-(k-1) \in 1..Len(q)-k /\ k+(i-(k-1)) = i+1
          BY <2>2, <4>2
        <5> QED BY <2>2, <2>5, <2>6, <3>2, <3>3, <4>2, <5>1
      <4> QED BY <4>1, <4>2
    <3> QED BY <3>1, <3>3, <3>4
  <2> DEFINE r == f \o b
  <2>9. r \in Seq(Thread) /\ Len(r) = Len(q)-1
        /\ \A i \in 1..Len(q)-1 : r[i] = IF i < k THEN q[i] ELSE q[i+1]
    BY <2>8
  <2> HIDE DEF r
  <2>10. Once(r)
    BY <2>2, <2>9 DEF Once
  <2>11. Elems(r) \subseteq Elems(q) \ {n}
    BY <2>2, <2>9 DEF Once, Elems
  <2>12. ASSUME NEW x \in Elems(q) \ {n} PROVE x \in Elems(r)
    <3>1. PICK i \in 1..Len(q) : q[i] = x /\ i # k
      BY <2>2, <2>12 DEF Elems
    <3>2. CASE i < k
      BY <2>2, <2>9, <3>1, <3>2 DEF Elems
    <3>3. CASE ~(i < k)
      <4>1. i-1 \in 1..Len(q)-1 /\ ~(i-1 < k) /\ (i-1)+1 = i
        BY <2>2, <3>1, <3>3
      <4>2. r[i-1] = x
        BY <2>9, <3>1, <4>1
      <4> QED BY <2>9, <4>1, <4>2 DEF Elems
    <3> QED BY <3>2, <3>3
  <2> QED BY <2>7, <2>9, <2>10, <2>11, <2>12 DEF r
<1> QED BY <1>1, <1>2

\* AddThread enters a new thread at the end of the list.
LEMMA WithProperties ==
  ASSUME NEW q \in Seq(Thread), NEW n \in Thread, Once(q), n \notin Elems(q)
  PROVE  /\ Append(q, n) \in Seq(Thread) /\ Once(Append(q, n))
         /\ Append(q, n) # <<>>
         /\ Elems(Append(q, n)) = Elems(q) \cup {n}
         /\ Head(Append(q, n)) = IF q = <<>> THEN n ELSE Head(q)
<1> DEFINE r == Append(q, n)
<1>1. /\ r \in Seq(Thread) /\ Len(r) = Len(q) + 1 /\ r[Len(q)+1] = n
      /\ Len(q) \in Nat /\ \A i \in 1..Len(q) : r[i] = q[i]
  BY AppendProperties
<1>2. r # <<>> /\ Head(r) = r[1]
  BY <1>1
<1>3. Head(r) = IF q = <<>> THEN n ELSE Head(q)
  <2>1. CASE q = <<>>
    BY <1>1, <1>2, <2>1
  <2>2. CASE q # <<>>
    BY <1>1, <1>2, <2>2
  <2> QED BY <2>1, <2>2
<1> HIDE DEF r
<1>4. Once(r)
  BY <1>1 DEF Once, Elems
<1>5. Elems(r) \subseteq Elems(q) \cup {n}
  BY <1>1 DEF Elems
<1>6. ASSUME NEW x \in Elems(q) PROVE x \in Elems(r)
  BY <1>1 DEF Elems
<1>7. n \in Elems(r)
  BY <1>1 DEF Elems
<1> QED BY <1>1, <1>2, <1>3, <1>4, <1>5, <1>6, <1>7 DEF r

\* wait_for_debug_event takes the first event.
LEMMA TailOf ==
  ASSUME NEW q \in Seq(Thread), Once(q), q # <<>>
  PROVE  /\ Tail(q) \in Seq(Thread) /\ Once(Tail(q))
         /\ Head(q) \in Thread /\ Head(q) \in Elems(q)
         /\ Elems(Tail(q)) = Elems(q) \ {Head(q)}
<1> DEFINE r == Tail(q)
<1>1. /\ r \in Seq(Thread) /\ Len(r) = Len(q) - 1 /\ Len(q) \in Nat /\ Len(q) > 0
      /\ \A i \in 1..Len(r) : r[i] = q[i+1]
  BY HeadTailProperties, EmptySeq
<1>2. Head(q) = q[1] /\ 1 \in 1..Len(q)
  BY <1>1
<1> HIDE DEF r
<1>3. Once(r)
  BY <1>1 DEF Once
<1>4. Elems(r) \subseteq Elems(q) \ {Head(q)}
  BY <1>1, <1>2 DEF Elems, Once
<1>5. ASSUME NEW x \in Elems(q) \ {Head(q)} PROVE x \in Elems(r)
  <2>1. PICK i \in 1..Len(q) : q[i] = x /\ i # 1
    BY <1>2, <1>5 DEF Elems
  <2>2. i-1 \in 1..Len(r) /\ (i-1)+1 = i
    BY <1>1, <2>1
  <2> QED BY <1>1, <2>1, <2>2 DEF Elems
<1>6. Head(q) \in Thread /\ Head(q) \in Elems(q)
  BY <1>1, <1>2 DEF Elems
<1> QED BY <1>1, <1>3, <1>4, <1>5, <1>6 DEF r

(***************************************************************************)
(* The program and the kernel.                                             *)
(***************************************************************************)

\* A step of the program or of the kernel leaves the debugger's part alone.
LEMMA Aside ==
  ASSUME DebugInv, Live, UNCHANGED layer
  PROVE  /\ Types /\ HitsKept /\ Done /\ Agree
         /\ Registered' = Registered /\ (\A t : InQueue(t)' <=> InQueue(t))
         /\ Current' = Current /\ (Halted' <=> Halted) /\ Live' /\ (Stopping' <=> Stopping)
         /\ Once(threads)' /\ Once(events)'
         /\ \A i \in 1..Len(threads) : threads[i] \in Registered
BY DEF DebugInv, layer, infos, flags, ui, Registered, InQueue, Elems, Current, Halted,
       Live, Ended, Stopping, Once

LEMMA HitBreakpointKeeps ==
  ASSUME DebugInv, Live, Careful, NEW t \in Thread, HitBreakpoint(t)
  PROVE  DebugInv'
<1> USE DEF HitBreakpoint, Hit, Stops, Set, MayStop
<1>1. UNCHANGED layer
  OBVIOUS
<1>2. /\ Types /\ HitsKept /\ Done /\ Agree
      /\ Registered' = Registered /\ (\A u : InQueue(u)' <=> InQueue(u))
      /\ Current' = Current /\ (Halted' <=> Halted) /\ Live' /\ (Stopping' <=> Stopping)
      /\ Once(threads)' /\ Once(events)'
      /\ \A i \in 1..Len(threads) : threads[i] \in Registered
  BY <1>1, Aside
<1>3. Types'
  BY <1>2 DEF Types, Status, layer, infos, flags, ui
<1>4. ASSUME NEW u \in Thread PROVE Placed(u)' /\ Waits(u)'
  BY <1>2 DEF Types, Agree, Account, Placed, Waits, Needs, Creating, layer, infos, flags, ui
<1>5. ASSUME NEW u \in Thread PROVE Kept(u)' /\ Carried(u)'
  BY <1>2 DEF Types, Agree, Account, Placed, Waits, Kept, Carried, Somewhere, Walked, Needs, Creating, layer, infos, flags, ui
<1>6. Lists' /\ Walked'
  BY <1>2 DEF Types, Agree, Account, Placed, Kept, Lists, Walked, Needs, Creating, layer, infos, flags, ui
<1>7. Told' /\ Stepping'
  BY <1>2 DEF Types, Agree, Account, Placed, Told, Stepping, Walked, Halted, Needs, Creating, layer, infos, flags, ui
<1>8. HitsKept' /\ Done'
  BY <1>2 DEF Types, HitsKept, Done, layer, infos, flags, ui
<1> QED BY <1>2, <1>3, <1>4, <1>5, <1>6, <1>7, <1>8 DEF DebugInv, Agree, Account

LEMMA HitSolibKeeps ==
  ASSUME DebugInv, Live, Careful, HitSolib
  PROVE  DebugInv'
<1> USE DEF HitSolib, Hit, Stops, Set, MayStop
<1>1. UNCHANGED layer
  OBVIOUS
<1>2. /\ Types /\ HitsKept /\ Done /\ Agree
      /\ Registered' = Registered /\ (\A u : InQueue(u)' <=> InQueue(u))
      /\ Current' = Current /\ (Halted' <=> Halted) /\ Live' /\ (Stopping' <=> Stopping)
      /\ Once(threads)' /\ Once(events)'
      /\ \A i \in 1..Len(threads) : threads[i] \in Registered
  BY <1>1, Aside
<1>3. Types'
  BY <1>2 DEF Types, Status, layer, infos, flags, ui
<1>4. ASSUME NEW u \in Thread PROVE Placed(u)' /\ Waits(u)'
  BY <1>2 DEF Types, Agree, Account, Placed, Waits, Needs, Creating, layer, infos, flags, ui
<1>5. ASSUME NEW u \in Thread PROVE Kept(u)' /\ Carried(u)'
  BY <1>2 DEF Types, Agree, Account, Placed, Waits, Kept, Carried, Somewhere, Walked, Needs, Creating, layer, infos, flags, ui
<1>6. Lists' /\ Walked'
  BY <1>2 DEF Types, Agree, Account, Placed, Kept, Lists, Walked, Needs, Creating, layer, infos, flags, ui
<1>7. Told' /\ Stepping'
  BY <1>2 DEF Types, Agree, Account, Placed, Told, Stepping, Walked, Halted, Needs, Creating, layer, infos, flags, ui
<1>8. HitsKept' /\ Done'
  BY <1>2 DEF Types, HitsKept, Done, layer, infos, flags, ui
<1> QED BY <1>2, <1>3, <1>4, <1>5, <1>6, <1>7, <1>8 DEF DebugInv, Agree, Account

LEMMA CreatesKeeps ==
  ASSUME DebugInv, Live, Careful, NEW n \in Thread, Creates(n)
  PROVE  DebugInv'
<1> USE DEF Creates, Set, MayStop
<1>1. UNCHANGED layer
  OBVIOUS
<1>2. /\ Types /\ HitsKept /\ Done /\ Agree
      /\ Registered' = Registered /\ (\A u : InQueue(u)' <=> InQueue(u))
      /\ Current' = Current /\ (Halted' <=> Halted) /\ Live' /\ (Stopping' <=> Stopping)
      /\ Once(threads)' /\ Once(events)'
      /\ \A i \in 1..Len(threads) : threads[i] \in Registered
  BY <1>1, Aside
<1>3. Types'
  BY <1>2, MainExists DEF Types, Status, layer, infos, flags, ui
<1>4. ASSUME NEW u \in Thread PROVE Placed(u)' /\ Waits(u)'
  BY <1>2, MainExists DEF Types, Agree, Account, Placed, Waits, Needs, Creating, layer, infos, flags, ui
<1>5. ASSUME NEW u \in Thread PROVE Kept(u)' /\ Carried(u)'
  BY <1>2, MainExists DEF Types, Agree, Account, Placed, Waits, Kept, Carried, Somewhere, Walked, Needs, Creating, layer, infos, flags, ui
<1>6. Lists' /\ Walked'
  <2>1. Lists'
    BY <1>2, MainExists DEF Types, Agree, Account, Placed, Lists, layer, infos, flags, ui
  <2>2. Halted' => \A u \in Thread : (os'[u] \in {"run", "disk", "step"} => u \in passed) /\ (report'[u] # "none" => os'[u] = "zombie")
    BY <1>2, MainExists DEF Types, Agree, Walked
  <2>3. Stopping => /\ at \in 1..Len(threads) + 1 /\ (phase # "stop" => at <= Len(threads))
                    /\ events # <<>> /\ last = Head(events)
                    /\ \A i \in 1..Len(threads) : i < at =>
                         /\ os'[threads[i]] \in {"run", "disk", "step"} => threads[i] \in passed
                         /\ report'[threads[i]] # "none" => os'[threads[i]] = "zombie"
    BY <1>2, MainExists DEF Types, Agree, Account, Placed, Walked
  <2>4. phase = "collect" =>
          (os'[threads[at]] \in {"run", "disk", "step"} \/ Needs(threads[at])' => "trap" \in pend'[threads[at]])
    <3> SUFFICES ASSUME phase = "collect" PROVE os'[threads[at]] \in {"run", "disk", "step"} \/ Needs(threads[at])' => "trap" \in pend'[threads[at]]
      OBVIOUS
    <3>1. PICK x \in Thread : x = threads[at] /\ x \in Registered
      BY <1>2 DEF Types, Agree, Walked, Stopping
    <3>2. os[x] \in {"run", "disk", "step"} \/ Needs(x) => "trap" \in pend[x]
      BY <1>2, <3>1 DEF Agree, Walked
    <3>3. os'[x] \in {"run", "disk", "step"} \/ Needs(x)' => "trap" \in pend'[x]
      BY <1>2, <3>1, <3>2, MainExists DEF Types, Agree, Account, Placed, Kept, Needs, Creating
    <3> QED BY <1>1, <3>1, <3>3 DEF layer, infos, flags
  <2> QED BY <1>1, <1>2, <2>1, <2>2, <2>3, <2>4 DEF Agree, Walked, layer, infos, flags
<1>7. Told' /\ Stepping'
  BY <1>2, MainExists DEF Types, Agree, Account, Placed, Told, Stepping, Walked, Halted, Needs, Creating, layer, infos, flags, ui
<1>8. HitsKept' /\ Done'
  BY <1>2, MainExists DEF Types, HitsKept, Done, layer, infos, flags, ui
<1> QED BY <1>2, <1>3, <1>4, <1>5, <1>6, <1>7, <1>8 DEF DebugInv, Agree, Account

LEMMA DiesKeeps ==
  ASSUME DebugInv, Live, Careful, NEW t \in Thread, Dies(t)
  PROVE  DebugInv'
<1> USE DEF Dies, Hit, Stops, Set, MayStop
<1>1. UNCHANGED layer
  OBVIOUS
<1>2. /\ Types /\ HitsKept /\ Done /\ Agree
      /\ Registered' = Registered /\ (\A u : InQueue(u)' <=> InQueue(u))
      /\ Current' = Current /\ (Halted' <=> Halted) /\ Live' /\ (Stopping' <=> Stopping)
      /\ Once(threads)' /\ Once(events)'
      /\ \A i \in 1..Len(threads) : threads[i] \in Registered
  BY <1>1, Aside
<1>3. Types'
  BY <1>2 DEF Types, Status, layer, infos, flags, ui
<1>4. ASSUME NEW u \in Thread PROVE Placed(u)' /\ Waits(u)'
  BY <1>2 DEF Types, Agree, Account, Placed, Waits, Needs, Creating, layer, infos, flags, ui
<1>5. ASSUME NEW u \in Thread PROVE Kept(u)' /\ Carried(u)'
  BY <1>2 DEF Types, Agree, Account, Placed, Waits, Kept, Carried, Somewhere, Walked, Needs, Creating, layer, infos, flags, ui
<1>6. Lists' /\ Walked'
  BY <1>2 DEF Types, Agree, Account, Placed, Kept, Lists, Walked, Needs, Creating, layer, infos, flags, ui
<1>7. Told' /\ Stepping'
  BY <1>2 DEF Types, Agree, Account, Placed, Told, Stepping, Walked, Halted, Needs, Creating, layer, infos, flags, ui
<1>8. HitsKept' /\ Done'
  BY <1>2 DEF Types, HitsKept, Done, layer, infos, flags, ui
<1> QED BY <1>2, <1>3, <1>4, <1>5, <1>6, <1>7, <1>8 DEF DebugInv, Agree, Account

LEMMA ExitKeeps ==
  ASSUME DebugInv, Live, Careful, NEW t \in Thread, Exit(t)
  PROVE  DebugInv'
<1> USE DEF Exit, Set, MayStop
<1>1. UNCHANGED layer
  OBVIOUS
<1>2. /\ Types /\ HitsKept /\ Done /\ Agree
      /\ Registered' = Registered /\ (\A u : InQueue(u)' <=> InQueue(u))
      /\ Current' = Current /\ (Halted' <=> Halted) /\ Live' /\ (Stopping' <=> Stopping)
      /\ Once(threads)' /\ Once(events)'
      /\ \A i \in 1..Len(threads) : threads[i] \in Registered
  BY <1>1, Aside
<1>3. Types'
  BY <1>2 DEF Types, Status, layer, infos, flags, ui
<1>4. ASSUME NEW u \in Thread PROVE Placed(u)' /\ Waits(u)'
  BY <1>2 DEF Types, Agree, Account, Placed, Waits, Needs, Creating, layer, infos, flags, ui
<1>5. ASSUME NEW u \in Thread PROVE Kept(u)' /\ Carried(u)'
  BY <1>2 DEF Types, Agree, Account, Placed, Waits, Kept, Carried, Somewhere, Walked, Needs, Creating, layer, infos, flags, ui
<1>6. Lists' /\ Walked'
  <2>1. Lists'
    BY <1>2 DEF Types, Agree, Account, Placed, Lists, layer, infos, flags, ui
  <2>2. Halted' => \A u \in Thread : (os'[u] \in {"run", "disk", "step"} => u \in passed) /\ (report'[u] # "none" => os'[u] = "zombie")
    BY <1>2 DEF Types, Agree, Walked
  <2>3. Stopping => /\ at \in 1..Len(threads) + 1 /\ (phase # "stop" => at <= Len(threads))
                    /\ events # <<>> /\ last = Head(events)
                    /\ \A i \in 1..Len(threads) : i < at =>
                         /\ os'[threads[i]] \in {"run", "disk", "step"} => threads[i] \in passed
                         /\ report'[threads[i]] # "none" => os'[threads[i]] = "zombie"
    BY <1>2 DEF Types, Agree, Account, Placed, Walked
  <2>4. phase = "collect" =>
          (os'[threads[at]] \in {"run", "disk", "step"} \/ Needs(threads[at])' => "trap" \in pend'[threads[at]])
    <3> SUFFICES ASSUME phase = "collect" PROVE os'[threads[at]] \in {"run", "disk", "step"} \/ Needs(threads[at])' => "trap" \in pend'[threads[at]]
      OBVIOUS
    <3>1. PICK x \in Thread : x = threads[at] /\ x \in Registered
      BY <1>2 DEF Types, Agree, Walked, Stopping
    <3>2. os[x] \in {"run", "disk", "step"} \/ Needs(x) => "trap" \in pend[x]
      BY <1>2, <3>1 DEF Agree, Walked
    <3>3. os'[x] \in {"run", "disk", "step"} \/ Needs(x)' => "trap" \in pend'[x]
      BY <1>2, <3>1, <3>2 DEF Types, Agree, Account, Placed, Kept, Needs, Creating
    <3> QED BY <1>1, <3>1, <3>3 DEF layer, infos, flags
  <2> QED BY <1>1, <1>2, <2>1, <2>2, <2>3, <2>4 DEF Agree, Walked, layer, infos, flags
<1>7. Told' /\ Stepping'
  BY <1>2 DEF Types, Agree, Account, Placed, Told, Stepping, Walked, Halted, Needs, Creating, layer, infos, flags, ui
<1>8. HitsKept' /\ Done'
  BY <1>2 DEF Types, HitsKept, Done, layer, infos, flags, ui
<1> QED BY <1>2, <1>3, <1>4, <1>5, <1>6, <1>7, <1>8 DEF DebugInv, Agree, Account

LEMMA DeliverKeeps ==
  ASSUME DebugInv, Live, Careful, NEW t \in Thread, Deliver(t)
  PROVE  DebugInv'
<1> USE DEF Deliver, Stops, Set, First, MayStop
<1>1. UNCHANGED layer
  OBVIOUS
<1>2. /\ Types /\ HitsKept /\ Done /\ Agree
      /\ Registered' = Registered /\ (\A u : InQueue(u)' <=> InQueue(u))
      /\ Current' = Current /\ (Halted' <=> Halted) /\ Live' /\ (Stopping' <=> Stopping)
      /\ Once(threads)' /\ Once(events)'
      /\ \A i \in 1..Len(threads) : threads[i] \in Registered
  BY <1>1, Aside
<1>3. Types'
  BY <1>2 DEF Types, Status, layer, infos, flags, ui
<1>4. ASSUME NEW u \in Thread PROVE Placed(u)' /\ Waits(u)'
  BY <1>2 DEF Types, Agree, Account, Placed, Waits, Needs, Creating, layer, infos, flags, ui
<1>5. ASSUME NEW u \in Thread PROVE Kept(u)' /\ Carried(u)'
  BY <1>2 DEF Types, Agree, Account, Placed, Waits, Kept, Carried, Somewhere, Walked, Needs, Creating, layer, infos, flags, ui
<1>6. Lists' /\ Walked'
  BY <1>2 DEF Types, Agree, Account, Placed, Kept, Lists, Walked, Needs, Creating, layer, infos, flags, ui
<1>7. Told' /\ Stepping'
  BY <1>2 DEF Types, Agree, Account, Placed, Told, Stepping, Walked, Halted, Needs, Creating, layer, infos, flags, ui
<1>8. HitsKept' /\ Done'
  BY <1>2 DEF Types, HitsKept, Done, layer, infos, flags, ui
<1> QED BY <1>2, <1>3, <1>4, <1>5, <1>6, <1>7, <1>8 DEF DebugInv, Agree, Account

LEMMA SteppedKeeps ==
  ASSUME DebugInv, Live, NEW t \in Thread, Stepped(t)
  PROVE  DebugInv'
<1> USE DEF Stepped, Stops, Set
<1>1. UNCHANGED layer
  OBVIOUS
<1>2. /\ Types /\ HitsKept /\ Done /\ Agree
      /\ Registered' = Registered /\ (\A u : InQueue(u)' <=> InQueue(u))
      /\ Current' = Current /\ (Halted' <=> Halted) /\ Live' /\ (Stopping' <=> Stopping)
      /\ Once(threads)' /\ Once(events)'
      /\ \A i \in 1..Len(threads) : threads[i] \in Registered
  BY <1>1, Aside
<1>3. Types'
  BY <1>2 DEF Types, Status, layer, infos, flags, ui
<1>4. ASSUME NEW u \in Thread PROVE Placed(u)' /\ Waits(u)'
  BY <1>2 DEF Types, Agree, Account, Placed, Waits, Needs, Creating, layer, infos, flags, ui
<1>5. ASSUME NEW u \in Thread PROVE Kept(u)' /\ Carried(u)'
  BY <1>2 DEF Types, Agree, Account, Placed, Waits, Kept, Carried, Somewhere, Walked, Needs, Creating, layer, infos, flags, ui
<1>6. Lists' /\ Walked'
  BY <1>2 DEF Types, Agree, Account, Placed, Kept, Lists, Walked, Needs, Creating, layer, infos, flags, ui
<1>7. Told' /\ Stepping'
  BY <1>2 DEF Types, Agree, Account, Placed, Told, Stepping, Walked, Halted, Needs, Creating, layer, infos, flags, ui
<1>8. HitsKept' /\ Done'
  BY <1>2 DEF Types, HitsKept, Done, layer, infos, flags, ui
<1> QED BY <1>2, <1>3, <1>4, <1>5, <1>6, <1>7, <1>8 DEF DebugInv, Agree, Account

LEMMA SendKeeps ==
  ASSUME DebugInv, Live, NEW t \in Thread, Send(t)
  PROVE  DebugInv'
<1> USE DEF Send, Set, Of
<1>1. UNCHANGED layer
  OBVIOUS
<1>2. /\ Types /\ HitsKept /\ Done /\ Agree
      /\ Registered' = Registered /\ (\A u : InQueue(u)' <=> InQueue(u))
      /\ Current' = Current /\ (Halted' <=> Halted) /\ Live' /\ (Stopping' <=> Stopping)
      /\ Once(threads)' /\ Once(events)'
      /\ \A i \in 1..Len(threads) : threads[i] \in Registered
  BY <1>1, Aside
<1>3. Types'
  BY <1>2 DEF Types, Status, layer, infos, flags, ui
<1>4. ASSUME NEW u \in Thread PROVE Placed(u)' /\ Waits(u)'
  BY <1>2 DEF Types, Agree, Account, Placed, Waits, Needs, Creating, layer, infos, flags, ui
<1>5. ASSUME NEW u \in Thread PROVE Kept(u)' /\ Carried(u)'
  BY <1>2 DEF Types, Agree, Account, Placed, Waits, Kept, Carried, Somewhere, Walked, Needs, Creating, layer, infos, flags, ui
<1>6. Lists' /\ Walked'
  BY <1>2 DEF Types, Agree, Account, Placed, Kept, Lists, Walked, Needs, Creating, layer, infos, flags, ui
<1>7. Told' /\ Stepping'
  BY <1>2 DEF Types, Agree, Account, Placed, Told, Stepping, Walked, Halted, Needs, Creating, layer, infos, flags, ui
<1>8. HitsKept' /\ Done'
  BY <1>2 DEF Types, HitsKept, Done, layer, infos, flags, ui
<1> QED BY <1>2, <1>3, <1>4, <1>5, <1>6, <1>7, <1>8 DEF DebugInv, Agree, Account

LEMMA SleepKeeps ==
  ASSUME DebugInv, Live, NEW t \in Thread, Sleep(t)
  PROVE  DebugInv'
<1> USE DEF Sleep, Set
<1>1. UNCHANGED layer
  OBVIOUS
<1>2. /\ Types /\ HitsKept /\ Done /\ Agree
      /\ Registered' = Registered /\ (\A u : InQueue(u)' <=> InQueue(u))
      /\ Current' = Current /\ (Halted' <=> Halted) /\ Live' /\ (Stopping' <=> Stopping)
      /\ Once(threads)' /\ Once(events)'
      /\ \A i \in 1..Len(threads) : threads[i] \in Registered
  BY <1>1, Aside
<1>3. Types'
  BY <1>2 DEF Types, Status, layer, infos, flags, ui
<1>4. ASSUME NEW u \in Thread PROVE Placed(u)' /\ Waits(u)'
  BY <1>2 DEF Types, Agree, Account, Placed, Waits, Needs, Creating, layer, infos, flags, ui
<1>5. ASSUME NEW u \in Thread PROVE Kept(u)' /\ Carried(u)'
  BY <1>2 DEF Types, Agree, Account, Placed, Waits, Kept, Carried, Somewhere, Walked, Needs, Creating, layer, infos, flags, ui
<1>6. Lists' /\ Walked'
  BY <1>2 DEF Types, Agree, Account, Placed, Kept, Lists, Walked, Needs, Creating, layer, infos, flags, ui
<1>7. Told' /\ Stepping'
  BY <1>2 DEF Types, Agree, Account, Placed, Told, Stepping, Walked, Halted, Needs, Creating, layer, infos, flags, ui
<1>8. HitsKept' /\ Done'
  BY <1>2 DEF Types, HitsKept, Done, layer, infos, flags, ui
<1> QED BY <1>2, <1>3, <1>4, <1>5, <1>6, <1>7, <1>8 DEF DebugInv, Agree, Account

LEMMA WakeKeeps ==
  ASSUME DebugInv, Live, NEW t \in Thread, Wake(t)
  PROVE  DebugInv'
<1> USE DEF Wake, Set
<1>1. UNCHANGED layer
  OBVIOUS
<1>2. /\ Types /\ HitsKept /\ Done /\ Agree
      /\ Registered' = Registered /\ (\A u : InQueue(u)' <=> InQueue(u))
      /\ Current' = Current /\ (Halted' <=> Halted) /\ Live' /\ (Stopping' <=> Stopping)
      /\ Once(threads)' /\ Once(events)'
      /\ \A i \in 1..Len(threads) : threads[i] \in Registered
  BY <1>1, Aside
<1>3. Types'
  BY <1>2 DEF Types, Status, layer, infos, flags, ui
<1>4. ASSUME NEW u \in Thread PROVE Placed(u)' /\ Waits(u)'
  BY <1>2 DEF Types, Agree, Account, Placed, Waits, Needs, Creating, layer, infos, flags, ui
<1>5. ASSUME NEW u \in Thread PROVE Kept(u)' /\ Carried(u)'
  BY <1>2 DEF Types, Agree, Account, Placed, Waits, Kept, Carried, Somewhere, Walked, Needs, Creating, layer, infos, flags, ui
<1>6. Lists' /\ Walked'
  BY <1>2 DEF Types, Agree, Account, Placed, Kept, Lists, Walked, Needs, Creating, layer, infos, flags, ui
<1>7. Told' /\ Stepping'
  BY <1>2 DEF Types, Agree, Account, Placed, Told, Stepping, Walked, Halted, Needs, Creating, layer, infos, flags, ui
<1>8. HitsKept' /\ Done'
  BY <1>2 DEF Types, HitsKept, Done, layer, infos, flags, ui
<1> QED BY <1>2, <1>3, <1>4, <1>5, <1>6, <1>7, <1>8 DEF DebugInv, Agree, Account

(***************************************************************************)
(* continue_debug_event.                                                   *)
(***************************************************************************)

LEMMA FirstOf ==
  ASSUME NEW s \in SUBSET {"trap", "usr"}, s # {}
  PROVE  First(s) \in s /\ First(s) \in {"trap", "usr"} /\ ("trap" \in s => First(s) = "trap")
<1>1. "trap" \in s \/ "usr" \in s
  OBVIOUS
<1> QED BY <1>1 DEF First

\* What the caller of continue_debug_event has to see to.
MayStep(step) ==
  step => /\ events = <<>> /\ ~Needs(handle)
          /\ \A t \in Thread : os[t] \notin {"run", "disk", "zombie"}

\* There is something left in the queue, or to look at again: nobody moves.
LEMMA NotResumedKeeps ==
  ASSUME DebugInv, phase \in {"user", "go"}, NEW step \in BOOLEAN, MayStep(step),
         Continue(step), events # <<>> \/ check
  PROVE  DebugInv'
<1>1. Types /\ HitsKept /\ Done /\ Agree /\ Live /\ Once(threads) /\ Once(events) /\ Halted /\ ~Stopping
  BY DEF DebugInv, Live, Ended, Halted, Stopping
<1>2. PICK signaled : signaled = IF dead THEN last ELSE handle
  OBVIOUS
<1>3. /\ UNCHANGED <<kernel, infos, usr, events, check, at, ui, owed, passed>>
      /\ singlestep' = step /\ last' = signaled /\ dead' = FALSE /\ phase' = "wait"
  BY <1>2 DEF Continue, infos
<1>4. /\ Registered' = Registered /\ (\A u : InQueue(u)' <=> InQueue(u))
      /\ (\A u : Needs(u)' <=> Needs(u)) /\ (check => Current' = Current) /\ Live' /\ ~Stopping'
      /\ Once(threads)' /\ Once(events)' /\ Halted'
  <2>1. check => Current' = Current
    BY <1>1, <1>2, <1>3 DEF Agree, Lists, Current
  <2> QED BY <1>1, <1>3, <2>1 DEF kernel, infos, Registered, InQueue, Elems, Needs, Creating, Live, Ended, Stopping, Once, Halted
<1>5. Types'
  BY <1>1, <1>2, <1>3 DEF Types, Agree, Lists, kernel, infos, ui
<1>6. ASSUME NEW u \in Thread PROVE Account(u)'
  BY <1>1, <1>3, <1>4 DEF Types, Agree, Account, Placed, Waits, Kept, Carried, Somewhere, kernel, infos, ui, Creating
<1>7. Lists'
  BY <1>1, <1>3, <1>4 DEF Types, Agree, Lists, kernel, infos, ui
<1>8. Walked'
  BY <1>1, <1>3, <1>4 DEF Types, Agree, Walked, Done, kernel, infos, ui
<1>9. signaled = NULL \/ (~check => ~Needs(signaled))
  BY <1>1, <1>2 DEF Agree, Told, Lists, Types
<1>10. Told'
  BY <1>1, <1>3, <1>4, <1>9 DEF Told
<1>11. Stepping'
  <2>1. step => \A u : ~InQueue(u)
    BY DEF MayStep, InQueue, Elems
  <2>2. step /\ signaled # NULL => ~Needs(signaled)
    BY <1>1, <1>2 DEF MayStep, Agree, Lists
  <2>3. \A u \in Thread : os[u] # "step" /\ (report[u] # "none" => os[u] = "zombie")
    BY <1>1 DEF Agree, Walked, Account, Placed
  <2> QED BY <1>1, <1>3, <1>4, <2>1, <2>2, <2>3 DEF Stepping, MayStep, kernel
<1>12. HitsKept' /\ Done'
  BY <1>1, <1>3, <1>4 DEF HitsKept, Done, kernel
<1> QED BY <1>4, <1>5, <1>6, <1>7, <1>8, <1>10, <1>11, <1>12 DEF DebugInv, Agree

\* Nothing is left: the threads of S go on, or stop where they are when a signal
\* is pending.  Who has something to tell has a SIGTRAP pending.
LEMMA ResumedKeeps ==
  ASSUME DebugInv, phase \in {"user", "go"}, NEW step \in BOOLEAN, MayStep(step),
         Continue(step), events = <<>>, ~check
  PROVE  DebugInv'
<1>1. Types /\ HitsKept /\ Done /\ Agree /\ Live /\ Once(threads) /\ Once(events) /\ Halted /\ ~Stopping
  BY DEF DebugInv, Live, Ended, Halted, Stopping
<1>2. PICK signaled : signaled = IF dead THEN last ELSE handle
  OBVIOUS
<1>3. PICK S : S = {t \in (IF step THEN {} ELSE Registered) \cup {signaled} :
                      t # NULL /\ os[t] = "stop"}
  OBVIOUS
<1>4. /\ Resume(S, IF step THEN "step" ELSE "run")
      /\ last_status' = [t \in Thread |-> IF t \in S \ {signaled} THEN "none"
                                          ELSE last_status[t]]
      /\ UNCHANGED <<threads, expired, events, check, at, ui, owed>>
      /\ singlestep' = step /\ last' = signaled /\ dead' = FALSE /\ phase' = "wait"
      /\ passed' = IF step THEN passed ELSE {}
  BY <1>2, <1>3, Zenon DEF Continue, ResumeAll
<1>5. /\ Registered \subseteq Thread /\ S \subseteq Registered /\ \A u \in S : os[u] = "stop"
      /\ ~step => \A u \in Registered : os[u] = "stop" => u \in S
      /\ step => \A u \in S : u = signaled /\ ~Needs(u)
      /\ signaled \in Thread \cup {NULL}
      /\ signaled # NULL => ~Needs(signaled)
  <2>1. signaled \in Thread \cup {NULL} /\ (signaled # NULL => signaled = handle /\ ~Needs(signaled))
    BY <1>1, <1>2 DEF Types, Agree, Lists, Told
  <2>2. Registered \subseteq Thread
    BY <1>1 DEF Types, Registered
  <2>3. NULL \notin Thread
    BY DEF NULL, Thread
  <2> QED BY <1>1, <1>3, <2>1, <2>2, <2>3 DEF Agree, Account, Placed
<1>6. \A u \in Thread : /\ ~InQueue(u) /\ (os[u] \in {"run", "disk", "step"} => u \in passed)
                        /\ report[u] # "none" => os[u] = "zombie"
                        /\ Needs(u) => os[u] = "stop" /\ "trap" \in pend[u]
  BY <1>1 DEF InQueue, Elems, Agree, Account, Kept, Walked
<1>7. \A u \in Thread : os[u] = "held" => Main \notin S \ {t \in S : pend[t] # {}}
  BY <1>1, <1>5, <1>6, MainExists DEF Agree, Account, Placed, Needs, Creating
<1>8. ASSUME NEW u \in Thread
      PROVE  /\ os'[u] = IF u \in S /\ pend[u] = {} THEN (IF step THEN "step" ELSE "run") ELSE os[u]
             /\ pc'[u] = IF u \in S /\ pend[u] = {} THEN "plain" ELSE pc[u]
             /\ report'[u] = IF u \in S THEN (IF pend[u] # {} THEN First(pend[u]) ELSE "none") ELSE report[u]
             /\ pend'[u] = IF u \in S /\ pend[u] # {} THEN pend[u] \ {First(pend[u])} ELSE pend[u]
             /\ usr'[u] = IF u \in S /\ last_signal[u] = "usr" THEN "got" ELSE usr[u]
             /\ last_signal'[u] = IF u \in S THEN "none" ELSE last_signal[u]
  BY <1>4, <1>7 DEF Resume
<1>9. UNCHANGED <<msg, lib, threads, expired, events, check, at, known, handle, owed>>
  BY <1>4 DEF Resume, ui
<1>10. /\ Registered' = Registered /\ (\A u : ~InQueue(u)')
       /\ (\A u : Needs(u)' <=> Needs(u)) /\ Live' /\ ~Stopping'
       /\ Once(threads)' /\ Once(events)' /\ ~Halted' /\ passed' = {}
  <2>1. \A u : ~InQueue(u)'
    BY <1>9 DEF InQueue, Elems
  <2>2. step => passed = {}
    BY <1>1 DEF MayStep, Types, Agree, Account, Placed
  <2>3. passed' = {}
    BY <1>4, <2>2
  <2> QED BY <1>1, <1>4, <1>9, <2>1, <2>3 DEF Registered, Needs, Creating, Live, Ended, Stopping, Once, Halted
<1>11. ASSUME NEW u \in Thread, u \in S, pend[u] # {}
       PROVE  /\ First(pend[u]) \in pend[u] /\ First(pend[u]) \in {"trap", "usr"}
              /\ "trap" \in pend[u] => First(pend[u]) = "trap"
  <2>1. pend[u] \in SUBSET {"trap", "usr"}
    BY <1>1 DEF Types
  <2> QED BY <1>11, <2>1, FirstOf
<1>12. Types'
  <2>1. /\ os' \in [Thread -> {"none", "held", "run", "disk", "step", "stop", "zombie", "dying", "gone"}]
        /\ pc' \in [Thread -> {"plain", "hit", "solib", "thread"}]
        /\ last_signal' \in [Thread -> {"none", "usr"}]
        /\ usr' \in [Thread -> {"unsent", "sent", "got"}]
    BY <1>1, <1>4 DEF Types, Resume
  <2>2. report' \in [Thread -> Status] /\ pend' \in [Thread -> SUBSET {"trap", "usr"}]
    <3>1. \A u \in Thread : report'[u] \in Status /\ pend'[u] \in SUBSET {"trap", "usr"}
      <4> TAKE u \in Thread
      <4>1. report[u] \in Status /\ pend[u] \in SUBSET {"trap", "usr"}
        BY <1>1 DEF Types
      <4>2. CASE u \in S /\ pend[u] # {}
        <5>1. PICK f : f = First(pend[u])
          OBVIOUS
        <5>2. f \in {"trap", "usr"} /\ report'[u] = f /\ pend'[u] = pend[u] \ {f}
          BY <1>8, <1>11, <4>2, <5>1
        <5> QED BY <4>1, <5>2 DEF Status
      <4>3. CASE ~(u \in S /\ pend[u] # {})
        BY <1>8, <4>1, <4>3 DEF Status
      <4> QED BY <4>2, <4>3
    <3>2. /\ report' = [u \in Thread |-> report'[u]]
          /\ pend' = [u \in Thread |-> pend'[u]]
      BY <1>4 DEF Resume
    <3> QED BY <3>1, <3>2
  <2>3. last_status' \in [Thread -> Status]
    BY <1>1, <1>4 DEF Types, Status
  <2>4. /\ msg' \in [Thread -> {"none", "create", "death"}] /\ lib' \in BOOLEAN
        /\ threads' \in Seq(Thread) /\ expired' \in [Thread -> BOOLEAN]
        /\ events' \in Seq(Thread) /\ at' \in Nat /\ known' \subseteq Thread /\ handle' \in Thread
        /\ owed' \subseteq Thread /\ check' \in BOOLEAN
    BY <1>1, <1>9 DEF Types
  <2>5. /\ last' \in Thread \cup {NULL} /\ dead' \in BOOLEAN /\ singlestep' \in BOOLEAN
        /\ phase' = "wait" /\ passed' = {}
    BY <1>4, <1>5, <1>10
  <2> QED BY <2>1, <2>2, <2>3, <2>4, <2>5 DEF Types
<1>13. ASSUME NEW u \in Thread PROVE Account(u)'
  <2>1. Account(u) /\ Types
    BY <1>1 DEF Agree
  <2>2. CASE u \notin S
    <3>1. /\ os'[u] = os[u] /\ pc'[u] = pc[u] /\ report'[u] = report[u] /\ pend'[u] = pend[u]
          /\ usr'[u] = usr[u] /\ last_signal'[u] = last_signal[u]
      BY <1>8, <2>2
    <3> QED BY <1>6, <1>9, <1>10, <2>1, <3>1 DEF Account, Placed, Waits, Kept, Carried, Somewhere, Creating
  <2>3. CASE u \in S /\ pend[u] = {}
    <3>1. /\ os'[u] \in {"run", "step"} /\ report'[u] = "none" /\ pend'[u] = {}
          /\ usr'[u] = (IF last_signal[u] = "usr" THEN "got" ELSE usr[u]) /\ last_signal'[u] = "none"
      BY <1>8, <2>3
    <3>2. os[u] = "stop" /\ u \in Registered /\ ~Needs(u) /\ ~InQueue(u) /\ report[u] = "none"
      BY <1>5, <1>6, <2>3
    <3>3. Placed(u)' /\ Waits(u)' /\ Kept(u)'
      BY <1>9, <1>10, <2>1, <3>1, <3>2 DEF Account, Placed, Waits, Kept
    <3>4. Carried(u)'
      <4>1. ~Somewhere(u)'
        BY <1>10, <3>1 DEF Somewhere
      <4>2. usr'[u] # "sent"
        <5>1. usr[u] = "sent" => Somewhere(u)
          BY <2>1, <3>2 DEF Account, Carried
        <5>2. Somewhere(u) => last_signal[u] = "usr"
          BY <2>3, <3>2 DEF Somewhere
        <5> QED BY <3>1, <5>1, <5>2
      <4> QED BY <1>10, <3>1, <4>1, <4>2 DEF Carried
    <3> QED BY <3>3, <3>4 DEF Account
  <2>4. CASE u \in S /\ pend[u] # {}
    <3>1. PICK f : f = First(pend[u])
      OBVIOUS
    <3>2. f \in pend[u] /\ f \in {"trap", "usr"} /\ ("trap" \in pend[u] => f = "trap")
      BY <1>11, <2>4, <3>1
    <3>3. /\ os'[u] = os[u] /\ pc'[u] = pc[u] /\ report'[u] = f /\ pend'[u] = pend[u] \ {f}
          /\ usr'[u] = (IF last_signal[u] = "usr" THEN "got" ELSE usr[u]) /\ last_signal'[u] = "none"
      BY <1>8, <2>4, <3>1
    <3>4. os[u] = "stop" /\ u \in Registered /\ ~InQueue(u) /\ report[u] = "none" /\ (Needs(u) => f = "trap")
      BY <1>5, <1>6, <2>4, <3>2
    <3> QED BY <1>9, <1>10, <2>1, <3>2, <3>3, <3>4 DEF Types, Account, Placed, Waits, Kept, Carried, Somewhere, Creating
  <2> QED BY <2>2, <2>3, <2>4
<1>14. Lists' /\ Walked' /\ Told'
  BY <1>1, <1>4, <1>9, <1>10 DEF Agree, Lists, Walked, Told, Done
<1>15. Stepping'
  BY <1>1, <1>4, <1>5, <1>6, <1>8, <1>10 DEF Stepping, MayStep
<1>16. HitsKept' /\ Done'
  <2>1. \A u \in owed : u \in Thread /\ os'[u] = "stop" /\ pc'[u] = "hit"
    BY <1>1, <1>6, <1>8 DEF Types, HitsKept, Needs
  <2> QED BY <1>1, <1>4, <1>9, <2>1 DEF HitsKept, Done, Stopping
<1> QED BY <1>10, <1>12, <1>13, <1>14, <1>15, <1>16 DEF DebugInv, Agree

LEMMA ContinueKeeps ==
  ASSUME DebugInv, phase \in {"user", "go"}, NEW step \in BOOLEAN, MayStep(step), Continue(step)
  PROVE  DebugInv'
<1>1. check \in BOOLEAN
  BY DEF DebugInv, Types
<1> QED BY <1>1, NotResumedKeeps, ResumedKeeps

LEMMA GoKeeps ==
  ASSUME DebugInv, Go
  PROVE  DebugInv'
BY ContinueKeeps DEF Go, MayStep

LEMMA StepKeeps ==
  ASSUME DebugInv, Careful, Step
  PROVE  DebugInv'
<1>1. Live /\ ~Needs(handle)
  BY DEF DebugInv, Agree, Told, Live, Ended, Step
<1>2. MayStep(TRUE)
  BY <1>1 DEF MayStep, Step
<1> QED BY <1>2, ContinueKeeps DEF Step

LEMMA GoOnKeeps ==
  ASSUME DebugInv, GoOn
  PROVE  DebugInv'
<1>1. Live /\ Agree /\ Types /\ phase = "go"
  BY DEF DebugInv, Live, Ended, GoOn
<1>2. CASE singlestep
  <2>1. MayStep(TRUE)
    BY <1>1, <1>2 DEF Agree, Told, Stepping, MayStep
  <2>2. singlestep = TRUE
    BY <1>1, <1>2 DEF Types
  <2>3. Continue(TRUE)
    BY <2>2 DEF GoOn
  <2> QED BY <1>1, <2>1, <2>3, ContinueKeeps
<1>3. CASE ~singlestep
  <2>1. singlestep = FALSE
    BY <1>1, <1>3 DEF Types
  <2>2. Continue(FALSE)
    BY <2>1 DEF GoOn
  <2> QED BY <1>1, <2>2, ContinueKeeps DEF MayStep
<1> QED BY <1>2, <1>3

(***************************************************************************)
(* wait_for_events_internal.                                               *)
(***************************************************************************)

\* What stays as it is while the debugger waits for events and stops threads.
Still ==
  UNCHANGED <<pc, msg, lib, owed, usr, threads, expired, last_signal,
              dead, check, singlestep, known, handle>>

LEMMA Unmoved ==
  ASSUME Still
  PROVE  Registered' = Registered /\ (\A u : Needs(u)' <=> Needs(u))
         /\ (Once(threads) <=> Once(threads)')
BY DEF Still, Registered, Needs, Creating, Once

\* A status that is collected goes into the queue: no other of its thread is
\* there, and a breakpoint that must be told about is in it.
LEMMA QueuedKeeps ==
  ASSUME DebugInv, Live, ~check, NEW t \in Thread, Collects(t), Queue(t), Still,
         passed' \subseteq passed
  PROVE  /\ t \in Registered /\ Types /\ Agree
         /\ \A u \in Thread : Account(u)'
         /\ Once(events)' /\ events' # <<>> /\ events' \in Seq(Thread)
         /\ Head(events') = IF events = <<>> THEN t ELSE Head(events)
         /\ Head(events') \in Thread
         /\ \A u : InQueue(u)' <=> InQueue(u) \/ u = t
         /\ \A u \in Thread : /\ os'[u] = os[u] \/ (os[u] = "zombie" /\ os'[u] = "gone")
                              /\ report'[u] = IF u = t THEN "none" ELSE report[u]
         /\ os' \in [Thread -> {"none", "held", "run", "disk", "step", "stop", "zombie", "dying", "gone"}]
         /\ report' \in [Thread -> Status] /\ last_status' \in [Thread -> Status]
         /\ UNCHANGED pend
<1>1. Types /\ HitsKept /\ Agree /\ Once(events)
  BY DEF DebugInv
<1>2. report[t] # "none" /\ report' = [report EXCEPT ![t] = "none"]
      /\ os' = (IF os[t] = "zombie" THEN [os EXCEPT ![t] = "gone"] ELSE os)
      /\ last_status' = [last_status EXCEPT ![t] = report[t]]
      /\ events' = Append(events, t) /\ UNCHANGED pend
  BY DEF Collects, Queue, Set
<1>3. t \in Registered /\ t \notin Elems(events) /\ os[t] \in {"stop", "zombie"}
      /\ last_signal[t] = "none" /\ (Needs(t) => report[t] = "trap") /\ ~expired[t]
      /\ (report[t] = "exit" <=> os[t] = "zombie") /\ (Needs(t) => os[t] = "stop")
  BY <1>1, <1>2 DEF Agree, Account, Placed, Waits, Kept, InQueue
<1>4. /\ events' \in Seq(Thread) /\ Once(events)' /\ events' # <<>>
      /\ Elems(events') = Elems(events) \cup {t}
      /\ Head(events') = IF events = <<>> THEN t ELSE Head(events)
  <2>1. events \in Seq(Thread)
    BY <1>1 DEF Types
  <2>2. /\ Append(events, t) \in Seq(Thread) /\ Once(Append(events, t))
        /\ Append(events, t) # <<>>
        /\ Elems(Append(events, t)) = Elems(events) \cup {t}
        /\ Head(Append(events, t)) = IF events = <<>> THEN t ELSE Head(events)
    BY <1>1, <1>3, <2>1, WithProperties
  <2>3. Once(events)' <=> Once(events')
    BY DEF Once
  <2> QED BY <1>2, <2>2, <2>3
<1>5. \A u : InQueue(u)' <=> InQueue(u) \/ u = t
  <2>1. \A u : InQueue(u)' <=> u \in Elems(events')
    BY DEF InQueue, Elems
  <2> QED BY <1>4, <2>1 DEF InQueue
<1>6. Head(events') \in Thread
  <2>1. events # <<>> => Head(events) \in Thread
    BY <1>1, TailOf DEF Types
  <2> QED BY <1>4, <2>1
<1>7. /\ Registered' = Registered /\ (\A u : Needs(u)' <=> Needs(u))
      /\ UNCHANGED <<pc, msg, owed, usr, expired, last_signal, check, pend>> /\ ~InQueue(t)
  BY <1>2, <1>3, Unmoved DEF Still, InQueue
<1>8. ASSUME NEW u \in Thread, u # t PROVE Account(u)'
  <2>1. Account(u) /\ os'[u] = os[u] /\ report'[u] = report[u] /\ last_status'[u] = last_status[u]
        /\ (InQueue(u)' <=> InQueue(u))
    BY <1>1, <1>2, <1>5, <1>8 DEF Types, Agree
  <2>2. Creating' <=> Creating
    BY <1>7 DEF Creating
  <2> QED BY <1>7, <2>1, <2>2 DEF Account, Placed, Waits, Kept, Carried, Somewhere
<1>9. Account(t)'
  <2>1. Account(t) /\ report'[t] = "none" /\ last_status'[t] = report[t] /\ InQueue(t)'
        /\ os'[t] = IF os[t] = "zombie" THEN "gone" ELSE "stop"
    BY <1>1, <1>2, <1>3, <1>5 DEF Types, Agree
  <2>2. Creating' <=> Creating
    BY <1>7 DEF Creating
  <2>3. Placed(t)' /\ Waits(t)' /\ Kept(t)'
    BY <1>3, <1>7, <2>1, <2>2 DEF Account, Placed, Waits, Kept
  <2>4. Carried(t)'
    BY <1>3, <1>7, <2>1 DEF Account, Placed, Carried, Somewhere
  <2> QED BY <2>3, <2>4 DEF Account
<1>10. \A u \in Thread : /\ os'[u] = os[u] \/ (os[u] = "zombie" /\ os'[u] = "gone")
                         /\ report'[u] = IF u = t THEN "none" ELSE report[u]
  BY <1>1, <1>2 DEF Types
<1>11. /\ os' \in [Thread -> {"none", "held", "run", "disk", "step", "stop", "zombie", "dying", "gone"}]
       /\ report' \in [Thread -> Status] /\ last_status' \in [Thread -> Status]
  BY <1>1, <1>2 DEF Types, Status
<1> QED BY <1>1, <1>2, <1>3, <1>4, <1>5, <1>6, <1>8, <1>9, <1>10, <1>11

LEMMA ToPollKeeps ==
  ASSUME DebugInv, WaitForEvents \/ WaitWithGarbage
  PROVE  DebugInv'
<1>1. PICK to \in {"poll", "crashed"} : ToPoll(to)
  BY DEF WaitForEvents, WaitWithGarbage
<1>2. /\ phase = "wait" /\ ~check /\ events = <<>> /\ phase' = to
      /\ UNCHANGED <<kernel, infos, events, flags, at, ui, owed, usr, passed>>
      /\ Types /\ HitsKept /\ Done /\ Agree /\ Once(threads) /\ Once(events)
      /\ Live /\ ~Stopping /\ ~Stopping' /\ passed = {}
  BY <1>1 DEF ToPoll, DebugInv, Live, Ended, Stopping, Agree, Walked, Halted
<1>3. /\ Registered' = Registered /\ (\A u : InQueue(u)' <=> InQueue(u))
      /\ (\A u : Needs(u)' <=> Needs(u)) /\ (Creating' <=> Creating)
      /\ Once(threads)' /\ Once(events)' /\ ~Halted'
  BY <1>1, <1>2 DEF kernel, infos, flags, Registered, InQueue, Elems, Needs, Creating, Once, Halted
<1>4. Types' /\ HitsKept' /\ Done'
  BY <1>1, <1>2 DEF Types, HitsKept, Done, kernel, infos, flags, ui
<1>5. ASSUME NEW u \in Thread PROVE Account(u)'
  BY <1>2, <1>3 DEF Agree, Account, Placed, Waits, Kept, Carried, Somewhere, kernel, infos, flags, ui
<1>6. Lists' /\ Walked' /\ Told'
  BY <1>1, <1>2, <1>3 DEF Agree, Lists, Walked, Told, Done, kernel, infos, flags, ui
<1>7. Stepping'
  BY <1>1, <1>2, <1>3 DEF Agree, Stepping, kernel, infos, flags, ui
<1> QED BY <1>3, <1>4, <1>5, <1>6, <1>7 DEF DebugInv, Agree

LEMMA CollectEventKeeps ==
  ASSUME DebugInv, NEW t \in Thread, CollectEvent(t)
  PROVE  DebugInv'
<1>1. /\ phase \in {"poll", "sleep"} /\ Collects(t) /\ Types /\ Agree /\ Live /\ ~check /\ ~dead
      /\ ~Stopping /\ Once(threads) /\ Done /\ passed = {}
  BY DEF CollectEvent, DebugInv, Live, Ended, Agree, Lists, Types, Stopping, Walked, Halted
<1>2. t \in Registered
  BY <1>1 DEF Collects, Agree, Account, Placed
<1>3. Queue(t) /\ Still /\ passed' = passed
  BY <1>1, <1>2 DEF CollectEvent, Collects, Still, ui
<1>4. IF phase = "poll" THEN UNCHANGED <<phase, at, last>>
      ELSE phase' = "stop" /\ at' = 1 /\ last' = Head(events')
  BY <1>2 DEF CollectEvent, StopAll
<1>5. /\ \A u \in Thread : Account(u)'
      /\ Once(events)' /\ events' # <<>> /\ events' \in Seq(Thread)
      /\ Head(events') = IF events = <<>> THEN t ELSE Head(events)
      /\ Head(events') \in Thread
      /\ \A u : InQueue(u)' <=> InQueue(u) \/ u = t
      /\ \A u \in Thread : /\ os'[u] = os[u] \/ (os[u] = "zombie" /\ os'[u] = "gone")
                           /\ report'[u] = IF u = t THEN "none" ELSE report[u]
      /\ os' \in [Thread -> {"none", "held", "run", "disk", "step", "stop", "zombie", "dying", "gone"}]
      /\ report' \in [Thread -> Status] /\ last_status' \in [Thread -> Status]
      /\ UNCHANGED pend
  BY <1>1, <1>3, QueuedKeeps
<1>6. Registered' = Registered /\ (\A u : Needs(u)' <=> Needs(u)) /\ Once(threads)'
  BY <1>1, <1>3, Unmoved
<1>7. phase' \in {"poll", "stop"} /\ Live' /\ ~Halted' /\ (Stopping' <=> phase' = "stop")
  BY <1>1, <1>4 DEF Live, Ended, Halted, Stopping
<1>8. Types'
  BY <1>1, <1>3, <1>4, <1>5, <1>7 DEF Types, Still
<1>9. Lists' /\ Told'
  BY <1>1, <1>3, <1>5, <1>6, <1>7 DEF Agree, Lists, Told, Still
<1>10. Walked'
  <2>1. phase' = "stop" => at' = 1 /\ last' = Head(events')
    BY <1>1, <1>4
  <2>2. phase' = "poll" => at' = 0
    BY <1>1, <1>4 DEF Done
  <2>3. threads' \in Seq(Thread) /\ Len(threads') \in Nat
    BY <1>8 DEF Types
  <2> QED BY <1>1, <1>3, <1>5, <1>7, <2>1, <2>2, <2>3 DEF Walked
<1>11. Stepping'
  <2>1. singlestep =>
          /\ \A u \in Thread : os[u] \notin {"run", "disk", "zombie"}
          /\ \A u \in Thread : os[u] = "step" \/ report[u] # "none" \/ InQueue(u) => u = last
          /\ last # NULL => ~Needs(last)
    BY <1>1 DEF Agree, Stepping
  <2>2. singlestep => t = last
    BY <1>1, <2>1 DEF Collects
  <2>3. singlestep => last' = last
    <3>1. events # <<>> => InQueue(Head(events)) /\ Head(events) \in Thread
      BY <1>1, TailOf DEF DebugInv, Types, InQueue
    <3> QED BY <1>4, <1>5, <2>1, <2>2, <3>1
  <2> QED BY <1>3, <1>5, <1>6, <1>7, <2>1, <2>2, <2>3 DEF Stepping, Still
<1>12. HitsKept' /\ Done'
  <2>1. \A u \in owed : u \in Thread /\ os[u] = "stop" /\ pc[u] = "hit"
    BY DEF DebugInv, HitsKept, Types
  <2>2. ~Stopping' => at' = 0
    BY <1>1, <1>4, <1>7 DEF Done, Stopping
  <2> QED BY <1>3, <1>5, <1>7, <2>1, <2>2 DEF HitsKept, Done, Still
<1> QED BY <1>5, <1>6, <1>8, <1>9, <1>10, <1>11, <1>12 DEF DebugInv, Agree

LEMMA NoMoreEventsKeeps ==
  ASSUME DebugInv, NoMoreEvents
  PROVE  DebugInv'
<1>1. /\ phase = "poll" /\ UNCHANGED <<events, kernel, infos, dead, check, singlestep, ui, owed, usr, passed>>
      /\ IF events = <<>> THEN phase' = "sleep" /\ UNCHANGED <<at, last>>
         ELSE phase' = "stop" /\ at' = 1 /\ last' = Head(events)
      /\ Types /\ HitsKept /\ Agree /\ Done /\ Live /\ ~check /\ ~dead /\ ~Stopping
      /\ Once(threads) /\ Once(events) /\ passed = {}
  BY DEF NoMoreEvents, StopAll, DebugInv, Live, Ended, Agree, Lists, Types, Stopping, Walked, Halted
<1>2. /\ Registered' = Registered /\ (\A u : InQueue(u)' <=> InQueue(u))
      /\ (\A u : Needs(u)' <=> Needs(u)) /\ (Creating' <=> Creating)
      /\ Once(threads)' /\ Once(events)' /\ ~Halted' /\ Live' /\ (Stopping' <=> phase' = "stop")
  BY <1>1 DEF kernel, infos, Registered, InQueue, Elems, Needs, Creating, Once, Halted, Live, Ended, Stopping
<1>3. events # <<>> => InQueue(Head(events)) /\ Head(events) \in Thread
  BY <1>1, TailOf DEF Types, InQueue
<1>4. Types' /\ HitsKept' /\ Done'
  BY <1>1, <1>2, <1>3 DEF Types, HitsKept, Done, kernel, infos, ui
<1>5. ASSUME NEW u \in Thread PROVE Account(u)'
  BY <1>1, <1>2 DEF Agree, Account, Placed, Waits, Kept, Carried, Somewhere, kernel, infos, ui
<1>6. Lists' /\ Told'
  BY <1>1, <1>2 DEF Agree, Lists, Told, kernel, infos, ui
<1>7. Walked'
  <2>1. threads' \in Seq(Thread) /\ Len(threads') \in Nat
    BY <1>4 DEF Types
  <2> QED BY <1>1, <1>2, <2>1 DEF Walked, Done
<1>8. Stepping'
  BY <1>1, <1>2, <1>3 DEF Agree, Stepping, kernel
<1> QED BY <1>2, <1>4, <1>5, <1>6, <1>7, <1>8 DEF DebugInv, Agree

(***************************************************************************)
(* stop_all_threads.                                                       *)
(***************************************************************************)

\* The thread that stop_all_threads has come to is dealt with: on to the next.
LEMMA NextThread ==
  ASSUME DebugInv, Stopping, Still, Walk("stop", at + 1), last' = last,
         NEW x \in Thread, at <= Len(threads), x = threads[at],
         \A u \in Thread : Account(u)', Once(events)', events' # <<>>, events' \in Seq(Thread),
         Head(events') = Head(events), \A u \in Thread : InQueue(u)' => InQueue(u) \/ (u = x /\ ~singlestep),
         os' \in [Thread -> {"none", "held", "run", "disk", "step", "stop", "zombie", "dying", "gone"}],
         report' \in [Thread -> Status], last_status' \in [Thread -> Status], UNCHANGED pend,
         \A u \in Thread : /\ os'[u] = os[u] \/ (os[u] = "zombie" /\ os'[u] = "gone")
                           /\ report'[u] = report[u] \/ (u = x /\ report'[u] = "none"),
         os'[x] \in {"run", "disk", "step"} => x \in passed',
         report'[x] # "none" => os'[x] = "zombie",
         passed' \subseteq Thread, \A u \in Thread \ {x} : u \in passed' <=> u \in passed
  PROVE  DebugInv'
<1>1. Types /\ HitsKept /\ Agree /\ Live /\ ~check /\ ~dead /\ Once(threads)
      /\ phase' = "stop" /\ at' = at + 1
  BY DEF DebugInv, Live, Ended, Stopping, Agree, Lists, Walk
<1>2. /\ Registered' = Registered /\ (\A u : Needs(u)' <=> Needs(u)) /\ Once(threads)'
      /\ Live' /\ ~Halted' /\ Stopping'
      /\ UNCHANGED <<pc, msg, lib, owed, usr, threads, expired, last_signal,
                     dead, check, singlestep, known, handle>>
  BY <1>1, Unmoved DEF Still, Live, Ended, Halted, Stopping
<1>3. Types'
  BY <1>1, <1>2 DEF Types
<1>4. Lists' /\ Told'
  BY <1>1, <1>2 DEF Agree, Lists, Told
<1>5. Walked'
  <2>1. threads \in Seq(Thread) /\ Len(threads) \in Nat /\ \A i \in 1..Len(threads) : threads[i] \in Thread
    BY <1>1 DEF Types
  <2>2. at' \in 1..Len(threads')+1 /\ events' # <<>> /\ last' = Head(events')
    BY <1>1, <1>2, <2>1 DEF Agree, Walked
  <2>3. ASSUME NEW i \in 1..Len(threads), i < at + 1
        PROVE  /\ os'[threads[i]] \in {"run", "disk", "step"} => threads[i] \in passed'
               /\ report'[threads[i]] # "none" => os'[threads[i]] = "zombie"
    <3>1. CASE i = at
      BY <3>1
    <3>2. CASE i < at
      <4>1. /\ os[threads[i]] \in {"run", "disk", "step"} => threads[i] \in passed
            /\ report[threads[i]] # "none" => os[threads[i]] = "zombie"
        BY <1>1, <3>2 DEF Agree, Walked
      <4>2. PICK y \in Thread : y = threads[i]
        BY <2>1
      <4>3. report'[y] # "none" => os'[y] = "zombie"
        <5>1. CASE y = x
          BY <5>1
        <5>2. CASE y # x
          <6>1. report'[y] = report[y] /\ (os'[y] = os[y] \/ (os[y] = "zombie" /\ os'[y] = "gone"))
            BY <5>2
          <6>2. Placed(y)'
            BY <4>2 DEF Account
          <6> QED BY <4>1, <4>2, <6>1, <6>2 DEF Placed
        <5> QED BY <5>1, <5>2
      <4>4. os'[y] \in {"run", "disk", "step"} => y \in passed'
        <5>1. y # x => (os'[y] = os[y] \/ os'[y] = "gone") /\ (y \in passed' <=> y \in passed)
          OBVIOUS
        <5> QED BY <4>1, <4>2, <5>1
      <4> QED BY <4>2, <4>3, <4>4
    <3>3. i \in Int /\ at \in Int /\ (i = at \/ i < at)
      BY <1>1, <2>1, <2>3 DEF Types
    <3> QED BY <3>1, <3>2, <3>3
  <2> QED BY <1>1, <1>2, <2>2, <2>3 DEF Walked
<1>6. Stepping'
  <2>1. singlestep =>
          /\ \A u \in Thread : os[u] \notin {"run", "disk", "zombie"}
          /\ \A u \in Thread : os[u] = "step" \/ report[u] # "none" \/ InQueue(u) => u = last
          /\ last # NULL => ~Needs(last)
    BY <1>1 DEF Agree, Stepping, Stopping
  <2>2. last # NULL => (Needs(last)' <=> Needs(last))
    BY <1>2 DEF Needs, Creating
  <2>3. singlestep => \A u \in Thread : os'[u] = os[u] /\ (report'[u] # "none" => report[u] # "none")
                                        /\ (InQueue(u)' => InQueue(u))
    BY <2>1
  <2> QED BY <1>1, <1>2, <2>1, <2>2, <2>3 DEF Stepping
<1>7. HitsKept' /\ Done'
  BY <1>1, <1>2 DEF Types, HitsKept, Done
<1> QED BY <1>2, <1>3, <1>4, <1>5, <1>6, <1>7 DEF DebugInv, Agree

LEMMA LookKeeps ==
  ASSUME DebugInv, Look
  PROVE  DebugInv'
<1>1. /\ phase = "stop" /\ at <= Len(threads) /\ Types /\ Agree /\ Live /\ Stopping
      /\ Once(threads) /\ Once(events) /\ HitsKept /\ ~check
  BY DEF Look, DebugInv, Live, Ended, Stopping, Agree, Lists
<1>2. PICK x \in Thread : x = threads[at] /\ x \in Registered
  BY <1>1 DEF Types, Agree, Walked, Registered
<1>3. /\ UNCHANGED <<threads, expired, last_signal, flags, ui>>
      /\ passed' = IF os[x] = "disk" THEN passed \cup {x} ELSE passed \ {x}
  BY <1>2 DEF Look, PassesOver
<1>7. passed' \subseteq Thread /\ \A u \in Thread \ {x} : u \in passed' <=> u \in passed
  BY <1>1, <1>3 DEF Types
<1>4. CASE os[x] \in {"run", "step"}
  <2>1. /\ phase' = "kill" /\ at' = at
        /\ UNCHANGED <<kernel, events, last_status, owed, usr>>
    BY <1>2, <1>4 DEF Look, Walk
  <2>2. /\ Registered' = Registered /\ (\A u : InQueue(u)' <=> InQueue(u))
        /\ (\A u : Needs(u)' <=> Needs(u)) /\ (Creating' <=> Creating)
        /\ Once(threads)' /\ Once(events)' /\ ~Halted' /\ Live' /\ Stopping'
    BY <1>1, <1>3, <2>1 DEF kernel, flags, Registered, InQueue, Elems, Needs, Creating, Once, Halted, Live, Ended, Stopping
  <2>3. Types' /\ HitsKept' /\ Done'
    BY <1>1, <1>3, <1>7, <2>1, <2>2 DEF Types, HitsKept, Done, kernel, flags, ui
  <2>4. ASSUME NEW u \in Thread PROVE Account(u)'
    BY <1>1, <1>3, <1>4, <2>1, <2>2 DEF Agree, Account, Placed, Waits, Kept, Carried, Somewhere, kernel, flags, ui
  <2>5. Lists' /\ Told' /\ Stepping'
    BY <1>1, <1>3, <2>1, <2>2 DEF Agree, Lists, Told, Stepping, kernel, flags, ui
  <2>6. Walked'
    <3>1. Walked /\ os' = os /\ report' = report /\ pend' = pend /\ threads' = threads
          /\ events' = events /\ last' = last
      BY <1>1, <1>3, <2>1 DEF Agree, kernel, flags
    <3>2. ASSUME NEW i \in 1..Len(threads), i < at
          PROVE  os[threads[i]] \in {"run", "disk", "step"} => threads[i] \in passed'
      <4>1. i # at /\ at \in 1..Len(threads) /\ threads[i] \in Thread
        BY <1>1, <3>1, <3>2 DEF Types, Walked
      <4>2. threads[i] # x
        BY <1>1, <1>2, <4>1 DEF Once
      <4>3. os[threads[i]] \in {"run", "disk", "step"} => threads[i] \in passed
        BY <1>1, <3>1, <3>2 DEF Walked
      <4> QED BY <1>7, <4>1, <4>2, <4>3
    <3> QED BY <1>1, <2>1, <2>2, <3>1, <3>2 DEF Walked
  <2> QED BY <2>2, <2>3, <2>4, <2>5, <2>6 DEF DebugInv, Agree
<1>5. CASE os[x] = "stop" /\ ~singlestep /\ x # last /\ report[x] # "none"
  <2>1. /\ Walk("stop", at + 1) /\ Collects(x) /\ Queue(x) /\ Still /\ last' = last
        /\ passed' \subseteq passed
    BY <1>2, <1>3, <1>5 DEF Look, Collects, Still, flags, ui
  <2>2. /\ \A u \in Thread : Account(u)'
        /\ Once(events)' /\ events' # <<>> /\ events' \in Seq(Thread)
        /\ Head(events') = IF events = <<>> THEN x ELSE Head(events)
        /\ \A u : InQueue(u)' <=> InQueue(u) \/ u = x
        /\ \A u \in Thread : /\ os'[u] = os[u] \/ (os[u] = "zombie" /\ os'[u] = "gone")
                             /\ report'[u] = IF u = x THEN "none" ELSE report[u]
        /\ os' \in [Thread -> {"none", "held", "run", "disk", "step", "stop", "zombie", "dying", "gone"}]
        /\ report' \in [Thread -> Status] /\ last_status' \in [Thread -> Status]
        /\ UNCHANGED pend
    BY <1>1, <2>1, QueuedKeeps
  <2>3. events # <<>>
    BY <1>1 DEF Agree, Walked
  <2>4. os'[x] = "stop" /\ report'[x] = "none"
    BY <1>5, <2>2
  <2> QED BY <1>1, <1>2, <1>5, <1>7, <2>1, <2>2, <2>3, <2>4, NextThread
<1>6. CASE os[x] \notin {"run", "step"} /\ ~(os[x] = "stop" /\ ~singlestep /\ x # last /\ report[x] # "none")
  <2>1. Walk("stop", at + 1) /\ UNCHANGED <<kernel, events, last_status, owed, usr>> /\ Still /\ last' = last
    BY <1>2, <1>3, <1>6 DEF Look, Still, kernel, flags, ui
  <2>2. \A u : InQueue(u)' <=> InQueue(u)
    BY <2>1 DEF InQueue, Elems
  <2>3. ASSUME NEW u \in Thread PROVE Account(u)'
    <3>1. Registered' = Registered /\ (Needs(u)' <=> Needs(u)) /\ (Creating' <=> Creating) /\ check' = check
      BY <2>1, Unmoved DEF kernel, Creating, Still
    <3>2. u \in passed' => u \in passed \/ os[u] = "disk"
      BY <1>3
    <3> QED BY <1>1, <1>3, <2>1, <2>2, <3>1, <3>2 DEF Agree, Account, Placed, Waits, Kept, Carried, Somewhere, kernel
  <2>4. events # <<>> /\ last = Head(events)
    BY <1>1 DEF Agree, Walked
  <2>5. report[x] # "none" => os[x] = "zombie"
    <3>1. InQueue(last)
      BY <1>1, <2>4, TailOf DEF Types, InQueue
    <3>2. x = last => report[x] = "none"
      BY <1>1, <3>1 DEF Agree, Account, Waits
    <3>3. singlestep /\ report[x] # "none" => x = last
      BY <1>1 DEF Agree, Stepping
    <3> QED BY <1>1, <1>6, <3>2, <3>3 DEF Agree, Account, Placed
  <2>6. Once(events)'
    BY <1>1, <2>1 DEF Once
  <2>7. os[x] \in {"run", "disk", "step"} => x \in passed'
    BY <1>3, <1>6
  <2> QED BY <1>1, <1>2, <1>6, <1>7, <2>1, <2>2, <2>3, <2>4, <2>5, <2>6, <2>7, NextThread DEF Types, kernel
<1> QED BY <1>4, <1>5, <1>6

\* SIGTRAP is sent to a thread that may have stopped meanwhile: it will stop it
\* again before it has gone a step.
LEMMA KillKeeps ==
  ASSUME DebugInv, Kill
  PROVE  DebugInv'
<1>1. /\ phase = "kill" /\ Types /\ Agree /\ Live /\ Stopping /\ Once(threads) /\ Once(events)
      /\ HitsKept /\ Done /\ ~check
  BY DEF Kill, DebugInv, Live, Ended, Stopping, Agree, Lists
<1>2. PICK x \in Thread : x = threads[at] /\ x \in Registered
  BY <1>1 DEF Types, Agree, Walked, Registered
<1>3. /\ pend' = (IF os[x] = "zombie" THEN pend ELSE [pend EXCEPT ![x] = pend[x] \cup {"trap"}])
      /\ phase' = "collect" /\ at' = at
      /\ UNCHANGED <<os, report, pc, msg, lib, infos, events, flags, ui, owed, usr, passed>>
  BY <1>2 DEF Kill, Walk, Set
<1>4. /\ Registered' = Registered /\ (\A u : InQueue(u)' <=> InQueue(u))
      /\ (\A u : Needs(u)' <=> Needs(u)) /\ (Creating' <=> Creating)
      /\ Once(threads)' /\ Once(events)' /\ ~Halted' /\ Live' /\ Stopping'
  BY <1>1, <1>3 DEF infos, flags, Registered, InQueue, Elems, Needs, Creating, Once, Halted, Live, Ended, Stopping
<1>5. Types' /\ HitsKept' /\ Done'
  BY <1>1, <1>3, <1>4 DEF Types, HitsKept, Done, infos, flags, ui
<1>6. ASSUME NEW u \in Thread PROVE Account(u)'
  <2>1. pend'[u] = pend[u] \/ pend'[u] = pend[u] \cup {"trap"}
    BY <1>1, <1>3 DEF Types
  <2> QED BY <1>1, <1>3, <1>4, <2>1 DEF Agree, Account, Placed, Waits, Kept, Carried, Somewhere, infos, flags, ui
<1>7. Lists' /\ Told' /\ Stepping'
  BY <1>1, <1>3, <1>4 DEF Agree, Lists, Told, Stepping, infos, flags, ui
<1>8. Walked'
  <2>1. os[x] \in {"run", "disk", "step"} \/ Needs(x) => "trap" \in pend'[x]
    BY <1>1, <1>3 DEF Types, Agree, Account, Kept
  <2> QED BY <1>1, <1>2, <1>3, <1>4, <2>1 DEF Agree, Walked, infos, flags
<1> QED BY <1>4, <1>5, <1>6, <1>7, <1>8 DEF DebugInv, Agree

LEMMA CollectKeeps ==
  ASSUME DebugInv, Collect
  PROVE  DebugInv'
<1>1. /\ phase = "collect" /\ Types /\ Agree /\ Live /\ Stopping /\ Once(threads) /\ Once(events)
      /\ HitsKept /\ ~check /\ events # <<>> /\ at <= Len(threads)
  BY DEF Collect, DebugInv, Live, Ended, Stopping, Agree, Lists, Walked
<1>2. PICK x \in Thread : x = threads[at] /\ x \in Registered
  BY <1>1 DEF Types, Agree, Walked, Registered
<1>3. Collects(x) /\ Walk("stop", at + 1) /\ Still /\ last' = last /\ passed' = passed
      /\ IF report[x] = "trap" THEN UNCHANGED <<events, last_status>> ELSE Queue(x)
  BY <1>2 DEF Collect, Collects, Still, flags, ui
<1>4. report[x] # "none" /\ os[x] \in {"stop", "zombie"} /\ (report[x] = "exit" <=> os[x] = "zombie") /\ ~InQueue(x)
  BY <1>1, <1>3 DEF Collects, Agree, Account, Placed, Waits
<1>5. CASE report[x] # "trap"
  <2>1. /\ \A u \in Thread : Account(u)'
        /\ Once(events)' /\ events' # <<>> /\ events' \in Seq(Thread)
        /\ Head(events') = IF events = <<>> THEN x ELSE Head(events)
        /\ \A u : InQueue(u)' <=> InQueue(u) \/ u = x
        /\ \A u \in Thread : /\ os'[u] = os[u] \/ (os[u] = "zombie" /\ os'[u] = "gone")
                             /\ report'[u] = IF u = x THEN "none" ELSE report[u]
        /\ os' \in [Thread -> {"none", "held", "run", "disk", "step", "stop", "zombie", "dying", "gone"}]
        /\ report' \in [Thread -> Status] /\ last_status' \in [Thread -> Status]
        /\ UNCHANGED pend
    BY <1>1, <1>3, <1>5, QueuedKeeps
  <2>2. os'[x] \notin {"run", "disk", "step"} /\ report'[x] = "none"
    BY <1>4, <2>1
  <2>3. singlestep => InQueue(x)
    <3>1. InQueue(last)
      BY <1>1, TailOf DEF Types, InQueue, Agree, Walked
    <3>2. singlestep => x = last
      BY <1>1, <1>4 DEF Agree, Stepping
    <3> QED BY <3>1, <3>2
  <2> QED BY <1>1, <1>2, <1>3, <2>1, <2>2, <2>3, NextThread DEF Types
<1>6. CASE report[x] = "trap"
  <2>1. /\ report' = [report EXCEPT ![x] = "none"] /\ os' = os /\ os[x] = "stop"
        /\ UNCHANGED <<events, last_status, pend>>
    BY <1>3, <1>4, <1>6 DEF Collects, Set
  <2>2. \A u : InQueue(u)' <=> InQueue(u)
    BY <2>1 DEF InQueue, Elems
  <2>3. Needs(x) => "trap" \in pend[x]
    BY <1>1, <1>2 DEF Agree, Walked
  <2>4. ASSUME NEW u \in Thread PROVE Account(u)'
    <3>1. /\ Registered' = Registered /\ (Needs(u)' <=> Needs(u)) /\ (Creating' <=> Creating)
          /\ UNCHANGED <<pc, msg, owed, usr, passed, expired, last_signal, check, pend>>
      BY <1>3, <2>1, Unmoved DEF Creating, Still
    <3>2. report'[u] = (IF u = x THEN "none" ELSE report[u])
      BY <1>1, <2>1 DEF Types
    <3> QED BY <1>1, <1>6, <2>1, <2>2, <2>3, <3>1, <3>2 DEF Agree, Account, Placed, Waits, Kept, Carried, Somewhere
  <2>5. /\ os' \in [Thread -> {"none", "held", "run", "disk", "step", "stop", "zombie", "dying", "gone"}]
        /\ report' \in [Thread -> Status] /\ last_status' \in [Thread -> Status] /\ events' \in Seq(Thread)
        /\ report'[x] = "none" /\ Once(events)'
        /\ \A u \in Thread : report'[u] = report[u] \/ (u = x /\ report'[u] = "none")
    BY <1>1, <2>1 DEF Types, Status, Once
  <2> QED BY <1>1, <1>2, <1>3, <2>1, <2>2, <2>4, <2>5, NextThread DEF Types
<1> QED BY <1>5, <1>6

LEMMA AllStoppedKeeps ==
  ASSUME DebugInv, AllStopped
  PROVE  DebugInv'
<1>1. /\ phase = "stop" /\ at > Len(threads) /\ phase' = "wait" /\ at' = 0
      /\ UNCHANGED <<kernel, infos, events, flags, ui, owed, usr, passed>>
      /\ Types /\ Agree /\ Live /\ Stopping /\ Once(threads) /\ Once(events) /\ HitsKept /\ ~check
      /\ events # <<>> /\ last = Head(events)
  BY DEF AllStopped, Walk, DebugInv, Live, Ended, Stopping, Agree, Lists, Walked
<1>2. /\ Registered' = Registered /\ (\A u : InQueue(u)' <=> InQueue(u))
      /\ (\A u : Needs(u)' <=> Needs(u)) /\ (Creating' <=> Creating)
      /\ Once(threads)' /\ Once(events)' /\ Live' /\ ~Stopping'
  BY <1>1 DEF kernel, infos, flags, Registered, InQueue, Elems, Needs, Creating, Once, Live, Ended, Stopping
<1>3. Types' /\ HitsKept' /\ Done'
  BY <1>1, <1>2 DEF Types, HitsKept, Done, kernel, infos, flags, ui
<1>4. ASSUME NEW u \in Thread PROVE Account(u)'
  BY <1>1, <1>2 DEF Agree, Account, Placed, Waits, Kept, Carried, Somewhere, kernel, infos, flags, ui
<1>5. Lists' /\ Told' /\ Stepping'
  BY <1>1, <1>2 DEF Agree, Lists, Told, Stepping, kernel, infos, flags, ui
<1>6. ASSUME NEW u \in Thread
      PROVE  (os[u] \in {"run", "disk", "step"} => u \in passed) /\ (report[u] # "none" => os[u] = "zombie")
  <2>1. u \in Registered => \E i \in 1..Len(threads) : u = threads[i] /\ i < at
    BY <1>1 DEF Types, Registered
  <2>2. u \in Registered => (os[u] \in {"run", "disk", "step"} => u \in passed) /\ (report[u] # "none" => os[u] = "zombie")
    BY <1>1, <2>1 DEF Agree, Walked
  <2> QED BY <1>1, <2>2 DEF Agree, Account, Placed
<1>7. Walked'
  BY <1>1, <1>2, <1>6 DEF Walked, Halted, kernel
<1> QED BY <1>2, <1>3, <1>4, <1>5, <1>7 DEF DebugInv, Agree

(***************************************************************************)
(* wait_for_debug_event, proceed_event and ProcessEvents.                  *)
(***************************************************************************)

\* It is t's turn: its event is looked at once more, or is the first one.
Turn(t) ==
  /\ phase = "wait" /\ (check \/ events # <<>>)
  /\ t = IF check THEN last ELSE Head(events)
  /\ events' = IF check THEN events ELSE Tail(events)
  /\ UNCHANGED <<at, singlestep>>

\* What is known of the thread whose turn it is, and of the queue after it.
LEMMA AtTurn ==
  ASSUME DebugInv, NEW t, Turn(t)
  PROVE  /\ Types /\ HitsKept /\ Agree /\ Halted /\ Live /\ ~Stopping /\ ~dead /\ at = 0
         /\ Once(threads) /\ t \in Thread
         /\ events' \in Seq(Thread) /\ Once(events)'
         /\ \A u : InQueue(u)' <=> InQueue(u) /\ u # t
         /\ last_signal[t] = "none" /\ report[t] = "none" /\ os[t] \in {"stop", "gone", "dying"}
         /\ t \in Registered \/ expired[t]
         /\ last_status[t] = "exit" => os[t] = "gone" /\ t \in Registered /\ ~check
         /\ last_status[t] = "usr" => InQueue(t) /\ ~check
         /\ Needs(t) => last_status[t] = "trap"
         /\ ~check => last = t \/ last = NULL \/ ~Needs(last)
         /\ check => t = Current
         /\ singlestep => events' = <<>> /\ ~Needs(t) /\ \A u \in Thread : os[u] \notin {"run", "disk", "zombie"}
         /\ \A u \in Thread : (os[u] \in {"run", "disk", "step"} => u \in passed) /\ (report[u] # "none" => os[u] = "zombie")
<1>1. /\ Types /\ HitsKept /\ Agree /\ Halted /\ Live /\ ~Stopping /\ ~dead /\ at = 0
      /\ Once(threads) /\ Once(events) /\ phase = "wait" /\ Current = last
  BY DEF Turn, DebugInv, Live, Ended, Halted, Stopping, Agree, Lists, Walked, Current, Types
<1>2. \A u \in Thread : (os[u] \in {"run", "disk", "step"} => u \in passed) /\ (report[u] # "none" => os[u] = "zombie")
  BY <1>1 DEF Agree, Walked
<1>3. CASE check
  <2>1. t = last /\ t \in Thread /\ ~InQueue(t) /\ (t \in Registered \/ expired[t])
        /\ os[t] \in {"stop", "gone", "dying"} /\ report[t] = "none"
        /\ last_status[t] = "trap" /\ last_signal[t] = "none" /\ events' = events
    BY <1>1, <1>3 DEF Turn, Agree, Lists
  <2>2. \A u : InQueue(u)' <=> InQueue(u) /\ u # t
    BY <2>1 DEF InQueue, Elems
  <2>3. events' \in Seq(Thread) /\ Once(events)'
    BY <1>1, <2>1 DEF Types, Once
  <2>4. singlestep => events = <<>> /\ ~Needs(t) /\ \A u \in Thread : os[u] \notin {"run", "disk", "zombie"}
    <3>1. singlestep => /\ ~Needs(t) /\ \A u \in Thread : os[u] \notin {"run", "disk", "zombie"} /\ (InQueue(u) => u = t)
      BY <1>1, <2>1, NullIsNone DEF Agree, Stepping
    <3>2. events # <<>> => Head(events) \in Thread /\ InQueue(Head(events))
      BY <1>1, TailOf DEF Types, InQueue
    <3> QED BY <2>1, <3>1, <3>2
  <2> QED BY <1>1, <1>2, <1>3, <2>1, <2>2, <2>3, <2>4
<1>4. CASE ~check
  <2>1. t = Head(events) /\ events # <<>> /\ events' = Tail(events)
    BY <1>4 DEF Turn
  <2>2. /\ Tail(events) \in Seq(Thread) /\ Once(Tail(events))
        /\ t \in Thread /\ t \in Elems(events)
        /\ Elems(Tail(events)) = Elems(events) \ {t}
    BY <1>1, <2>1, TailOf DEF Types
  <2>3. events' \in Seq(Thread) /\ Once(events)' /\ (\A u : InQueue(u)' <=> InQueue(u) /\ u # t) /\ InQueue(t)
    <3>1. (\A u : InQueue(u)' <=> u \in Elems(events')) /\ (Once(events)' <=> Once(events'))
      BY DEF InQueue, Elems, Once
    <3> QED BY <2>1, <2>2, <3>1 DEF InQueue
  <2>4. /\ report[t] = "none" /\ last_signal[t] = "none"
        /\ os[t] \in {"stop", "gone", "dying"} /\ (t \in Registered \/ expired[t])
        /\ last_status[t] = "exit" => os[t] = "gone" /\ t \in Registered
        /\ Needs(t) => last_status[t] = "trap"
    BY <1>1, <2>2, <2>3 DEF Agree, Account, Waits
  <2>5. last = t \/ last = NULL \/ ~Needs(last)
    BY <1>1, <1>4, <2>1 DEF Agree, Told
  <2>6. singlestep => events' = <<>> /\ ~Needs(t) /\ \A u \in Thread : os[u] \notin {"run", "disk", "zombie"}
    <3>1. singlestep => /\ t = last /\ ~Needs(last)
                        /\ \A u \in Thread : os[u] \notin {"run", "disk", "zombie"} /\ (InQueue(u) => u = last)
      BY <1>1, <2>2, <2>3, NullIsNone DEF Agree, Stepping
    <3>2. events' # <<>> => \E u \in Thread : InQueue(u)'
      <4>1. events' # <<>> => Head(events') \in Thread /\ Head(events') \in Elems(events')
        BY <2>1, <2>2, TailOf
      <4> QED BY <4>1 DEF InQueue, Elems
    <3> QED BY <2>3, <3>1, <3>2
  <2> QED BY <1>1, <1>2, <1>4, <2>2, <2>3, <2>4, <2>5, <2>6
<1> QED BY <1>1, <1>3, <1>4 DEF Types

\* A result after which the list is what it was: whoever the event was for has
\* been told, or it is to be looked at again.
Tells(t) ==
  /\ UNCHANGED <<os, pend, report, pc, msg, threads, expired, last_status, last, dead, known, usr, passed>>
  /\ lib' \in BOOLEAN /\ owed' \subseteq owed /\ owed \subseteq owed' \cup {t}
  /\ handle' = t /\ phase' \in {"user", "go"} /\ check' \in BOOLEAN
  /\ phase' = "user" \/ ~check' => ~Needs(t)'
  /\ check' => last_status[t] = "trap" /\ ~singlestep
  /\ last_signal' \in [Thread -> {"none", "usr"}]
  /\ \A u \in Thread \ {t} : last_signal'[u] = last_signal[u]
  /\ t \in Registered => (last_signal'[t] = "usr" <=> last_status[t] = "usr")
  /\ last_signal'[t] = "usr" => last_status[t] = "usr"

LEMMA ToldKeeps ==
  ASSUME DebugInv, NEW t, Turn(t), Tells(t)
  PROVE  DebugInv'
<1>1. /\ Types /\ HitsKept /\ Agree /\ Halted /\ Live /\ ~Stopping /\ ~dead /\ at = 0
      /\ Once(threads) /\ t \in Thread
      /\ events' \in Seq(Thread) /\ Once(events)'
      /\ \A u : InQueue(u)' <=> InQueue(u) /\ u # t
      /\ last_signal[t] = "none" /\ report[t] = "none" /\ os[t] \in {"stop", "gone", "dying"}
      /\ t \in Registered \/ expired[t]
      /\ last_status[t] = "usr" => InQueue(t) /\ ~check
      /\ check => t = Current
      /\ singlestep => events' = <<>> /\ ~Needs(t) /\ \A u \in Thread : os[u] \notin {"run", "disk", "zombie"}
      /\ \A u \in Thread : (os[u] \in {"run", "disk", "step"} => u \in passed) /\ (report[u] # "none" => os[u] = "zombie")
  BY AtTurn
<1>2. /\ Registered' = Registered /\ (Creating' <=> Creating)
      /\ (\A u : u # t => (Needs(u)' <=> Needs(u))) /\ (Needs(t)' => Needs(t))
      /\ Once(threads)' /\ Live' /\ ~Stopping' /\ Halted' /\ Current' = t
      /\ UNCHANGED <<at, singlestep>>
  BY <1>1 DEF Tells, Turn, Registered, Needs, Creating, Once, Live, Ended, Stopping, Halted, Current
<1>3. Types'
  BY <1>1, <1>2 DEF Types, Tells
<1>4. ASSUME NEW u \in Thread, u # t PROVE Account(u)'
  BY <1>1, <1>2, <1>4 DEF Tells, Agree, Account, Placed, Waits, Kept, Carried, Somewhere
<1>5. Account(t)'
  <2>1. Account(t) /\ ~InQueue(t)'
    BY <1>1 DEF Agree
  <2>2. Placed(t)' /\ Waits(t)'
    BY <1>1, <1>2, <2>1 DEF Tells, Account, Placed, Waits
  <2>3. Kept(t)'
    <3>1. Needs(t)' => check' /\ last_status'[t] = "trap" /\ t = Current'
      BY <1>2 DEF Tells
    <3> QED BY <1>1, <1>2, <2>1, <3>1 DEF Tells, Account, Kept, Types
  <2>4. Carried(t)'
    <3>1. /\ Somewhere(t)' <=> "usr" \in pend[t] \/ last_signal'[t] = "usr"
          /\ Somewhere(t) <=> "usr" \in pend[t] \/ (InQueue(t) /\ last_status[t] = "usr")
      BY <1>1, <2>1 DEF Tells, Somewhere
    <3> QED BY <1>1, <1>2, <2>1, <3>1 DEF Tells, Account, Carried
  <2> QED BY <2>2, <2>3, <2>4 DEF Account
<1>6. Lists'
  <2>1. check' => last_signal'[t] = "none"
    BY <1>1 DEF Tells
  <2> QED BY <1>1, <1>2, <2>1 DEF Tells, Agree, Lists
<1>7. Walked' /\ Told'
  BY <1>1, <1>2 DEF Tells, Walked, Told, Stopping
<1>8. Stepping'
  BY <1>1, <1>2 DEF Tells, Stepping
<1>9. HitsKept' /\ Done'
  BY <1>1, <1>2 DEF Tells, HitsKept, Done
<1> QED BY <1>1, <1>2, <1>3, <1>4, <1>5, <1>6, <1>7, <1>8, <1>9 DEF DebugInv, Agree

LEMMA ToldResults ==
  ASSUME DebugInv, NEW t, Turn(t),
         \/ Expired(t) \/ SingleStep(t) \/ SolibEvent(t) \/ NoMessage(t)
         \/ BreakpointHit(t) \/ NoReason(t) \/ Signaled(t)
  PROVE  DebugInv'
<1>1. /\ Types /\ Agree /\ t \in Thread /\ last_signal[t] = "none"
      /\ os[t] \in {"stop", "gone", "dying"} /\ (t \in Registered \/ expired[t])
      /\ last_status[t] = "usr" => InQueue(t) /\ ~check
      /\ Needs(t) => last_status[t] = "trap"
      /\ singlestep => ~Needs(t)
  BY AtTurn
<1>2. /\ ~expired[t] => t \in known
      /\ Needs(t) => os[t] = "stop" /\ (t \in owed => pc[t] = "hit")
                     /\ (msg[t] = "death" \/ (t = Main /\ Creating) => pc[t] = "thread")
      /\ last_signal \in [Thread -> {"none", "usr"}]
      /\ expired[t] => os[t] \in {"dying", "gone"} /\ t \notin Registered
  BY <1>1 DEF Types, Agree, Account, Placed, Kept, Lists
<1>3. CASE Expired(t)
  <2>1. ~Needs(t)'
    BY <1>1, <1>2, <1>3 DEF Expired, AsksAgain, kernel, Needs, Creating
  <2>2. Tells(t)
    BY <1>1, <1>2, <1>3, <2>1 DEF Types, Tells, Expired, AsksAgain, kernel, infos
  <2> QED BY <2>2, ToldKeeps
<1>4. CASE SingleStep(t)
  <2>1. ~Needs(t)'
    BY <1>1, <1>2, <1>4 DEF SingleStep, Shows, kernel, Needs, Creating
  <2>2. Tells(t)
    BY <1>1, <1>2, <1>4, <2>1 DEF Types, Tells, SingleStep, Trapped, Shows, kernel, infos
  <2> QED BY <2>2, ToldKeeps
<1>5. CASE SolibEvent(t)
  <2>1. ~Needs(t)'
    BY <1>1, <1>2, <1>5 DEF SolibEvent, Needs, Creating
  <2>2. Tells(t)
    BY <1>1, <1>2, <1>5, <2>1 DEF Types, Tells, SolibEvent, Trapped, Shows, AsksAgain, infos
  <2> QED BY <2>2, ToldKeeps
<1>6. CASE NoMessage(t)
  <2>1. ~Needs(t)'
    BY <1>1, <1>2, <1>6 DEF NoMessage, ThreadEvent, kernel, Needs, Creating
  <2>2. Tells(t)
    BY <1>1, <1>2, <1>6, <2>1 DEF Types, Tells, NoMessage, ThreadEvent, Trapped, AsksAgain, kernel, infos
  <2> QED BY <2>2, ToldKeeps
<1>7. CASE BreakpointHit(t)
  <2>1. ~Needs(t)'
    BY <1>1, <1>2, <1>7 DEF BreakpointHit, kernel, Needs, Creating
  <2>2. Tells(t)
    BY <1>1, <1>2, <1>7, <2>1 DEF Types, Tells, BreakpointHit, Trapped, Shows, kernel, infos
  <2> QED BY <2>2, ToldKeeps
<1>8. CASE NoReason(t)
  <2>1. ~Needs(t)'
    BY <1>1, <1>2, <1>8 DEF NoReason, kernel, Needs, Creating
  <2>2. Tells(t)
    BY <1>1, <1>2, <1>8, <2>1 DEF Types, Tells, NoReason, Trapped, AsksAgain, kernel, Set
  <2> QED BY <2>2, ToldKeeps
<1>9. CASE Signaled(t)
  <2>1. ~Needs(t)'
    BY <1>1, <1>2, <1>9 DEF Signaled, kernel, Needs, Creating
  <2>2. Tells(t)
    BY <1>1, <1>2, <1>9, <2>1 DEF Types, Tells, Signaled, Shows, AsksAgain, kernel, Set
  <2> QED BY <2>2, ToldKeeps
<1> QED BY <1>3, <1>4, <1>5, <1>6, <1>7, <1>8, <1>9

\* The process has ended, and all its threads with it.
LEMMA ExitProcessKeeps ==
  ASSUME DebugInv, NEW t, Turn(t), ExitProcess(t)
  PROVE  DebugInv'
<1>1. /\ Types /\ t \in Thread /\ events' \in Seq(Thread) /\ Once(events)' /\ at = 0 /\ Once(threads)
  BY AtTurn
<1>2. /\ phase' = "finished" /\ at' = 0 /\ owed' = {} /\ passed' = {} /\ Once(threads)' /\ ~Live' /\ ~Stopping'
      /\ UNCHANGED <<pc, msg, lib, infos, last, dead, usr, singlestep>> /\ handle' = t
      /\ os' = Of("gone") /\ report' = Of("none") /\ pend' = Of({})
      /\ known' = known \ {t} /\ check' = FALSE
  BY <1>1 DEF ExitProcess, Turn, infos, Once, Live, Ended, Stopping
<1>3. Types'
  BY <1>1, <1>2 DEF Types, Of, infos, Status
<1> QED BY <1>1, <1>2, <1>3 DEF DebugInv, HitsKept, Done, Of

\* remove_thread_info_entry, and Krn_Prog's table after it.
LEMMA Leaving ==
  ASSUME Types, Once(threads), NEW n \in Thread, threads' = Without(threads, n)
  PROVE  Registered' = Registered \ {n} /\ threads' \in Seq(Thread) /\ Once(threads)'
<1>1. /\ Without(threads, n) \in Seq(Thread) /\ Once(Without(threads, n))
      /\ Elems(Without(threads, n)) = Elems(threads) \ {n}
  BY WithoutProperties DEF Types
<1>2. Registered' = Elems(threads') /\ (Once(threads)' <=> Once(threads')) /\ Registered = Elems(threads)
  BY DEF Registered, Elems, Once
<1> QED BY <1>1, <1>2

LEMMA ExitedKeeps ==
  ASSUME DebugInv, NEW t, Turn(t), Exited(t)
  PROVE  DebugInv'
<1>1. /\ Types /\ HitsKept /\ Agree /\ Halted /\ Live /\ ~Stopping /\ ~dead /\ at = 0
      /\ Once(threads) /\ t \in Thread
      /\ events' \in Seq(Thread) /\ Once(events)'
      /\ \A u : InQueue(u)' <=> InQueue(u) /\ u # t
      /\ report[t] = "none" /\ os[t] = "gone" /\ t \in Registered /\ ~check
      /\ singlestep => events' = <<>> /\ ~Needs(t) /\ \A u \in Thread : os[u] \notin {"run", "disk", "zombie"}
      /\ \A u \in Thread : (os[u] \in {"run", "disk", "step"} => u \in passed) /\ (report[u] # "none" => os[u] = "zombie")
  BY AtTurn DEF Exited
<1>2. /\ threads' = Without(threads, t) /\ known' = known \ {t} /\ handle' = t /\ phase' = "go"
      /\ check' = FALSE /\ UNCHANGED <<at, singlestep>>
      /\ IF t = last THEN last' = NULL /\ dead' = TRUE ELSE UNCHANGED <<last, dead>>
      /\ UNCHANGED <<os, pend, report, pc, msg, lib, expired, last_status, last_signal, owed, usr, passed>>
  BY <1>1 DEF Exited, ThreadExited, kernel, Turn, Agree, Lists
<1>3. Registered' = Registered \ {t} /\ threads' \in Seq(Thread) /\ Once(threads)'
  BY <1>1, <1>2, Leaving
<1>4. /\ (Creating' <=> Creating) /\ (\A u : Needs(u)' <=> Needs(u)) /\ ~Needs(t)
      /\ Live' /\ ~Stopping' /\ Halted'
  <2>1. ~Needs(t)
    BY <1>1 DEF Agree, Account, Kept
  <2> QED BY <1>2, <2>1 DEF Needs, Creating, Live, Ended, Stopping, Halted
<1>5. Types'
  BY <1>1, <1>2, <1>3 DEF Types
<1>6. ASSUME NEW u \in Thread PROVE Account(u)'
  <2>1. CASE u # t
    BY <1>1, <1>2, <1>3, <1>4, <2>1 DEF Agree, Account, Placed, Waits, Kept, Carried, Somewhere
  <2>2. CASE u = t
    BY <1>1, <1>2, <1>3, <1>4, <2>2 DEF Agree, Account, Placed, Waits, Kept, Carried
  <2> QED BY <2>1, <2>2
<1>7. Lists'
  BY <1>1, <1>2, <1>3 DEF Agree, Lists
<1>8. Walked' /\ Stepping'
  BY <1>1, <1>2, <1>4 DEF Walked, Stepping
<1>9. Told'
  BY <1>2, <1>4 DEF Told
<1>10. HitsKept' /\ Done'
  BY <1>1, <1>2, <1>4 DEF HitsKept, Done
<1> QED BY <1>1, <1>3, <1>4, <1>5, <1>6, <1>7, <1>8, <1>9, <1>10 DEF DebugInv, Agree

\* The thread library's message about n comes with t's event.  The thread n, if it
\* is another one, stands at its own int 3 for the message, and so is not the
\* last signaled one.
LEMMA ThreadDiedKeeps ==
  ASSUME DebugInv, NEW t, Turn(t), NEW n \in Thread, ThreadDied(t, n)
  PROVE  DebugInv'
<1>1. /\ Types /\ HitsKept /\ Agree /\ Halted /\ Live /\ ~Stopping /\ ~dead /\ at = 0
      /\ Once(threads) /\ t \in Thread
      /\ events' \in Seq(Thread) /\ Once(events)'
      /\ \A u : InQueue(u)' <=> InQueue(u) /\ u # t
      /\ last_signal[t] = "none" /\ report[t] = "none" /\ os[t] \in {"stop", "gone", "dying"}
      /\ ~check => last = t \/ last = NULL \/ ~Needs(last)
      /\ check => t = Current
      /\ \A u \in Thread : (os[u] \in {"run", "disk", "step"} => u \in passed) /\ (report[u] # "none" => os[u] = "zombie")
      /\ ~singlestep /\ ~expired[t] /\ last_status[t] = "trap" /\ pc[t] = "thread" /\ t \in Registered
      /\ phase = "wait"
  BY AtTurn DEF ThreadDied, ThreadEvent, Trapped, Turn
<1>2. /\ msg[n] = "death" /\ Needs(n) /\ os[n] = "stop" /\ pc[n] = "thread" /\ n \in Registered
      /\ n \notin owed /\ ~(n = Main /\ Creating) /\ report[n] = "none"
      /\ InQueue(n) => last_status[n] = "trap"
  <2>1. msg[n] = "death" /\ Needs(n)
    BY DEF ThreadDied, Needs
  <2>2. os[n] = "stop" /\ pc[n] = "thread" /\ n \notin owed /\ n \in Registered
        /\ (InQueue(n) => last_status[n] = "trap")
    BY <1>1, <2>1 DEF Agree, Account, Placed, Waits, Kept
  <2>3. n # Main
    BY <1>1, <2>1 DEF Agree, Lists
  <2> QED BY <1>1, <2>1, <2>2, <2>3
<1>3. /\ threads' = Without(threads, n) /\ known' = known \ {n} /\ handle' = t /\ phase' = "go"
      /\ IF n = last THEN last' = NULL /\ dead' = TRUE /\ check' = FALSE
         ELSE check' = TRUE /\ UNCHANGED <<last, dead>>
      /\ msg' = [msg EXCEPT ![n] = "none"] /\ expired' = [expired EXCEPT ![n] = TRUE]
      /\ os' = [os EXCEPT ![n] = "dying"] /\ report' = [report EXCEPT ![n] = "none"]
      /\ UNCHANGED <<pend, pc, lib, last_status, last_signal, owed, usr, passed, at, singlestep>>
  <2>1. n \in known
    BY <1>1, <1>2 DEF Agree, Lists
  <2> QED BY <1>2, <2>1 DEF ThreadDied, ThreadExited, Set, Turn
<1>4. Registered' = Registered \ {n} /\ threads' \in Seq(Thread) /\ Once(threads)'
  BY <1>1, <1>3, Leaving
<1>5. n = last => n = t
  BY <1>1, <1>2, NullIsNone DEF Current
<1>6. /\ (Creating' <=> Creating) /\ (\A u \in Thread \ {n} : Needs(u)' <=> Needs(u)) /\ ~Needs(n)'
      /\ Live' /\ ~Stopping' /\ Halted' /\ Current' = t
  <2>1. Creating' <=> Creating
    BY <1>1, <1>2, <1>3 DEF Types, Creating
  <2> QED BY <1>1, <1>2, <1>3, <2>1 DEF Types, Needs, Live, Ended, Stopping, Halted, Current
<1>7. Types'
  BY <1>1, <1>3, <1>4 DEF Types, Status
<1>8. ASSUME NEW u \in Thread PROVE Account(u)'
  <2>1. CASE u = n
    <3>1. Account(n) /\ os'[n] = "dying" /\ report'[n] = "none" /\ msg'[n] = "none" /\ expired'[n] = TRUE
      BY <1>1, <1>3 DEF Agree, Types
    <3>2. last_signal[n] = "none" \/ ~InQueue(n)
      BY <3>1 DEF Account, Waits
    <3> QED BY <1>1, <1>2, <1>3, <1>4, <1>6, <2>1, <3>1, <3>2 DEF Account, Placed, Waits, Kept, Carried
  <2>2. CASE u # n
    <3>1. Account(u) /\ os'[u] = os[u] /\ report'[u] = report[u] /\ msg'[u] = msg[u] /\ expired'[u] = expired[u]
      BY <1>1, <1>3, <2>2 DEF Agree, Types
    <3>2. Needs(u)' /\ u = t => check'
      BY <1>3, <1>5, <2>2
    <3>3. Placed(u)' /\ Waits(u)'
      BY <1>1, <1>3, <1>4, <1>6, <2>2, <3>1 DEF Account, Placed, Waits
    <3>4. Kept(u)'
      BY <1>1, <1>3, <1>4, <1>6, <2>2, <3>1, <3>2 DEF Account, Kept
    <3>5. Carried(u)'
      BY <1>1, <1>3, <1>4, <1>6, <2>2, <3>1 DEF Account, Carried, Somewhere
    <3> QED BY <3>3, <3>4, <3>5 DEF Account
  <2> QED BY <2>1, <2>2
<1>9. Lists'
  <2>1. check' => /\ (t \in Registered' \/ expired'[t]) /\ os'[t] \in {"stop", "gone", "dying"}
                  /\ report'[t] = "none"
    BY <1>1, <1>2, <1>3, <1>4 DEF Types
  <2>2. msg'[Main] # "death"
    BY <1>1, <1>3, MainExists DEF Types, Agree, Lists
  <2>3. check' \in BOOLEAN /\ (dead' => last' = NULL /\ ~check')
    BY <1>1, <1>3
  <2>4. known' = Registered'
    BY <1>1, <1>3, <1>4 DEF Agree, Lists
  <2>5. os'[t] \in {"stop", "gone", "dying"}
    BY <1>1, <1>3 DEF Types
  <2> QED BY <1>1, <1>3, <1>4, <1>6, <2>1, <2>2, <2>3, <2>4, <2>5 DEF Lists
<1>10. Walked' /\ Stepping'
  BY <1>1, <1>3, <1>6 DEF Types, Walked, Stepping
<1>11. Told'
  BY <1>3, <1>5, <1>6 DEF Told
<1>12. HitsKept' /\ Done'
  BY <1>1, <1>2, <1>3, <1>6 DEF Types, HitsKept, Done
<1> QED BY <1>1, <1>4, <1>6, <1>7, <1>8, <1>9, <1>10, <1>11, <1>12 DEF DebugInv, Agree

\* attach_thread and AddThread.  It need not be the creator's event that comes
\* with the message: t may be a thread that dies, and is looked at again.
LEMMA ThreadCreatedKeeps ==
  ASSUME DebugInv, NEW t, Turn(t), NEW n \in Thread, ThreadCreated(t, n)
  PROVE  DebugInv'
<1>1. /\ Types /\ HitsKept /\ Agree /\ Halted /\ Live /\ ~Stopping /\ ~dead /\ at = 0
      /\ Once(threads) /\ t \in Thread
      /\ events' \in Seq(Thread) /\ Once(events)'
      /\ \A u : InQueue(u)' <=> InQueue(u) /\ u # t
      /\ last_signal[t] = "none" /\ report[t] = "none" /\ os[t] \in {"stop", "gone", "dying"}
      /\ check => t = Current
      /\ \A u \in Thread : (os[u] \in {"run", "disk", "step"} => u \in passed) /\ (report[u] # "none" => os[u] = "zombie")
      /\ ~singlestep /\ ~expired[t] /\ last_status[t] = "trap" /\ pc[t] = "thread" /\ t \in Registered
      /\ phase = "wait"
  BY AtTurn DEF ThreadCreated, ThreadEvent, Trapped, Turn
<1>2. /\ msg[n] = "create" /\ os[n] = "held" /\ n \notin Registered /\ ~expired[n] /\ report[n] = "none"
      /\ ~InQueue(n) /\ ~Needs(n)
  <2>1. msg[n] = "create"
    BY DEF ThreadCreated
  <2>2. os[n] = "held" /\ n \notin Registered /\ ~expired[n] /\ report[n] = "none" /\ ~InQueue(n)
    BY <1>1, <2>1 DEF Agree, Account, Placed, Waits
  <2> QED BY <1>1, <2>1, <2>2 DEF Agree, Account, Kept
<1>3. /\ threads' = Append(threads, n) /\ known' = known \cup {n} /\ handle' = t /\ phase' = "go"
      /\ check' = TRUE /\ msg' = [msg EXCEPT ![n] = "none"] /\ os' = [os EXCEPT ![n] = "stop"]
      /\ UNCHANGED <<pend, report, pc, lib, expired, last_status, last_signal, last, dead,
                     owed, usr, passed, at, singlestep>>
  <2>1. t \in known
    BY <1>1 DEF Agree, Lists
  <2> QED BY <1>2, <2>1 DEF ThreadCreated, Set, Turn
<1>4. Registered' = Registered \cup {n} /\ threads' \in Seq(Thread) /\ Once(threads)'
  <2>1. /\ Append(threads, n) \in Seq(Thread) /\ Once(Append(threads, n))
        /\ Elems(Append(threads, n)) = Elems(threads) \cup {n}
    BY <1>1, <1>2, Registration, WithProperties DEF Types
  <2>2. Registered' = Elems(threads') /\ (Once(threads)' <=> Once(threads')) /\ Registered = Elems(threads)
    BY DEF Registered, Elems, Once
  <2> QED BY <1>3, <2>1, <2>2
<1>5. /\ (Creating' => Creating) /\ (\A u \in Thread : Needs(u)' => Needs(u))
      /\ (\A u \in Thread : msg'[u] = "death" <=> msg[u] = "death")
      /\ Live' /\ ~Stopping' /\ Halted' /\ Current' = t
  <2>1. Creating' => Creating
    BY <1>1, <1>2, <1>3 DEF Types, Creating
  <2>2. \A u \in Thread : msg'[u] = "death" <=> msg[u] = "death"
    BY <1>1, <1>2, <1>3 DEF Types
  <2> QED BY <1>1, <1>2, <1>3, <2>1, <2>2 DEF Needs, Live, Ended, Stopping, Halted, Current
<1>6. Types'
  BY <1>1, <1>3, <1>4 DEF Types, Status
<1>7. ASSUME NEW u \in Thread PROVE Account(u)'
  <2>1. CASE u = n
    <3>1. Account(n) /\ os'[n] = "stop" /\ report'[n] = "none" /\ msg'[n] = "none"
      BY <1>1, <1>2, <1>3 DEF Agree, Types
    <3>2. ~InQueue(n)' /\ ~Needs(n)'
      BY <1>1, <1>2, <1>5
    <3>3. "usr" \notin pend[n] /\ last_signal[n] = "none" /\ usr[n] # "sent"
      BY <1>2, <3>1 DEF Account, Carried
    <3> QED BY <1>2, <1>3, <1>4, <2>1, <3>1, <3>2, <3>3 DEF Account, Placed, Waits, Kept, Carried, Somewhere
  <2>2. CASE u # n
    <3>1. Account(u) /\ os'[u] = os[u] /\ report'[u] = report[u] /\ msg'[u] = msg[u]
      BY <1>1, <1>3, <2>2 DEF Agree, Types
    <3>2. Placed(u)' /\ Waits(u)'
      BY <1>1, <1>3, <1>4, <1>5, <2>2, <3>1 DEF Account, Placed, Waits
    <3>3. Kept(u)'
      BY <1>1, <1>3, <1>4, <1>5, <2>2, <3>1 DEF Account, Kept
    <3>4. Carried(u)'
      BY <1>1, <1>3, <1>4, <1>5, <2>2, <3>1 DEF Account, Carried, Somewhere
    <3> QED BY <3>2, <3>3, <3>4 DEF Account
  <2> QED BY <2>1, <2>2
<1>8. Lists'
  <2>1. msg'[Main] # "death"
    BY <1>1, <1>5, MainExists DEF Agree, Lists
  <2>2. known' = Registered'
    BY <1>1, <1>3, <1>4 DEF Agree, Lists
  <2>3. os'[t] \in {"stop", "gone", "dying"}
    BY <1>1, <1>3 DEF Types
  <2> QED BY <1>1, <1>3, <1>4, <1>5, <2>1, <2>2, <2>3 DEF Lists
<1>9. Walked' /\ Stepping' /\ Told'
  BY <1>1, <1>2, <1>3, <1>5 DEF Types, Walked, Stepping, Told
<1>10. HitsKept' /\ Done'
  BY <1>1, <1>2, <1>3, <1>5 DEF Types, HitsKept, Done
<1> QED BY <1>1, <1>4, <1>5, <1>6, <1>7, <1>8, <1>9, <1>10 DEF DebugInv, Agree

LEMMA WaitForDebugEventKeeps ==
  ASSUME DebugInv, WaitForDebugEvent
  PROVE  DebugInv'
<1>1. PICK t : t = IF check THEN last ELSE Head(events)
  OBVIOUS
<1>2. Turn(t)
  BY <1>1 DEF WaitForDebugEvent, Turn
<1>3. t \in Thread
  BY <1>2, AtTurn
<1>4. Proceed(t)
  BY <1>1, <1>3 DEF WaitForDebugEvent
<1>5. CASE Exited(t)
  BY <1>2, <1>5, ExitedKeeps
<1>6. CASE ExitProcess(t)
  BY <1>2, <1>6, ExitProcessKeeps
<1>7. ASSUME NEW n \in Thread, ThreadCreated(t, n) PROVE DebugInv'
  BY <1>2, <1>7, ThreadCreatedKeeps
<1>8. ASSUME NEW n \in Thread, ThreadDied(t, n) PROVE DebugInv'
  BY <1>2, <1>8, ThreadDiedKeeps
<1>9. CASE \/ Expired(t) \/ SingleStep(t) \/ SolibEvent(t) \/ NoMessage(t)
           \/ BreakpointHit(t) \/ NoReason(t) \/ Signaled(t)
  BY <1>2, <1>9, ToldResults
<1> QED BY <1>4, <1>5, <1>6, <1>7, <1>8, <1>9 DEF Proceed

(***************************************************************************)
(* The start, the end, and the steps together.                             *)
(***************************************************************************)

LEMMA InitHolds == Init => DebugInv
<1> SUFFICES ASSUME Init PROVE DebugInv
  OBVIOUS
<1>1. /\ os = [t \in Thread |-> IF t = Main THEN "stop" ELSE "none"]
      /\ pend = [t \in Thread |-> {}] /\ report = [t \in Thread |-> "none"]
      /\ pc = [t \in Thread |-> "plain"] /\ msg = [t \in Thread |-> "none"]
      /\ expired = [t \in Thread |-> FALSE] /\ last_status = [t \in Thread |-> "none"]
      /\ last_signal = [t \in Thread |-> "none"] /\ usr = [t \in Thread |-> "unsent"]
  BY DEF Init, Alone, Of, Set
<1>10. /\ lib = FALSE /\ last = Main /\ dead = FALSE /\ check = FALSE /\ singlestep = FALSE
       /\ phase = "user" /\ at = 0 /\ known = {Main} /\ handle = Main /\ owed = {}
       /\ passed = {}
  BY DEF Init
<1>2. /\ threads = <<Main>> /\ threads \in Seq(Thread) /\ Len(threads) = 1 /\ threads[1] = Main
      /\ Registered = {Main} /\ Once(threads)
  BY MainExists DEF Init, Registered, Once
<1>3. events = <<>> /\ events \in Seq(Thread) /\ Len(events) = 0 /\ Once(events) /\ \A t : ~InQueue(t)
  BY DEF Init, InQueue, Elems, Once
<1>4. Types
  BY <1>1, <1>2, <1>3, <1>10, MainExists DEF Types, Status
<1>5. Live /\ ~Stopping /\ (Halted <=> TRUE) /\ ~Creating /\ \A t \in Thread : ~Needs(t)
  BY <1>1 DEF Init, Live, Ended, Stopping, Halted, Creating, Needs
<1>6. ASSUME NEW t \in Thread PROVE Account(t)
  BY <1>1, <1>2, <1>3, <1>5, <1>10 DEF Account, Placed, Waits, Kept, Carried, Somewhere
<1>7. Lists
  BY <1>1, <1>2, <1>3, <1>10, MainExists DEF Lists
<1>8. Walked /\ Told /\ Stepping
  BY <1>1, <1>2, <1>3, <1>5, MainExists DEF Walked, Told, Stepping, Init
<1>9. HitsKept /\ Done
  BY <1>5 DEF Init, HitsKept, Done
<1> QED BY <1>2, <1>3, <1>4, <1>6, <1>7, <1>8, <1>9 DEF DebugInv, Agree

\* A user who is Careful restarts the program with an empty queue: all is as it
\* was at first.
LEMMA RestartKeeps ==
  ASSUME Careful, Restart
  PROVE  DebugInv'
<1>1. Init'
  BY DEF Restart, Init, Alone, Of, Set
<1>2. Init' => DebugInv'
  BY InitHolds, PTL
<1> QED BY <1>1, <1>2

LEMMA QuitKeeps ==
  ASSUME DebugInv, Quit
  PROVE  DebugInv'
<1>1. phase' = "over" /\ UNCHANGED <<os, pend, report, pc, msg, lib, threads, expired, last_status, last_signal,
        events, last, dead, check, singlestep, at, known, handle, owed, usr, passed>>
  BY DEF Quit, kernel, infos, flags, ui
<1>2. at = 0
  BY DEF DebugInv, Done, Quit, Stopping
<1>3. ~Live' /\ ~Stopping'
  BY <1>1 DEF Live, Ended, Stopping
<1>4. Types' /\ HitsKept' /\ Done'
  BY <1>1, <1>2 DEF DebugInv, Types, HitsKept, Done
<1> QED BY <1>1, <1>3, <1>4 DEF DebugInv, Once

\* When the program is finished none of its threads moves.
LEMMA OnlyTheLiving ==
  ASSUME DebugInv, phase \notin Ended, NEW t \in Thread, HitSolib \/ Runs(t) \/ Wake(t) \/ Deliver(t) \/ Stepped(t)
  PROVE  Live
<1> SUFFICES ASSUME phase = "finished" PROVE FALSE
  BY DEF Live
<1>1. \A u \in Thread : os[u] = "gone"
  BY DEF DebugInv, Done
<1> QED BY <1>1, MainExists DEF HitSolib, Runs, HitBreakpoint, Creates, Dies, Exit, Send, Sleep, Wake, Hit, Deliver, Stepped

LEMMA KernelKeeps ==
  ASSUME Careful, DebugInv, phase \notin Ended, NEW t \in Thread,
         HitSolib \/ Runs(t) \/ Wake(t) \/ Deliver(t) \/ Stepped(t)
  PROVE  DebugInv'
<1>1. Live
  BY OnlyTheLiving
<1>2. CASE HitSolib
  BY <1>1, <1>2, HitSolibKeeps
<1>3. CASE HitBreakpoint(t)
  BY <1>1, <1>3, HitBreakpointKeeps
<1>4. CASE Creates(t)
  BY <1>1, <1>4, CreatesKeeps
<1>5. CASE Dies(t)
  BY <1>1, <1>5, DiesKeeps
<1>6. CASE Exit(t)
  BY <1>1, <1>6, ExitKeeps
<1>7. CASE Send(t)
  BY <1>1, <1>7, SendKeeps
<1>8. CASE Deliver(t)
  BY <1>1, <1>8, DeliverKeeps
<1>9. CASE Stepped(t)
  BY <1>1, <1>9, SteppedKeeps
<1>10. CASE Sleep(t)
  BY <1>1, <1>10, SleepKeeps
<1>11. CASE Wake(t)
  BY <1>1, <1>11, WakeKeeps
<1> QED BY <1>2, <1>3, <1>4, <1>5, <1>6, <1>7, <1>8, <1>9, <1>10, <1>11 DEF Runs

LEMMA StutterKeeps ==
  ASSUME DebugInv, UNCHANGED vars
  PROVE  DebugInv'
BY DEF vars, kernel, layer, infos, flags, ui, DebugInv, Types, HitsKept, Done, Once, Live, Agree,
       Account, Placed, Waits, Kept, Carried, Somewhere, Lists, Walked, Told, Stepping, Stopping,
       Halted, InQueue, Elems, Current, Creating, Needs, Registered

LEMMA DebugStep ==
  ASSUME Careful, DebugInv, [Next]_vars
  PROVE  DebugInv'
<1>1. CASE UNCHANGED vars
  BY <1>1, StutterKeeps
<1>2. CASE GoOn
  BY <1>2, GoOnKeeps
<1>3. CASE WaitForEvents \/ WaitWithGarbage
  BY <1>3, ToPollKeeps
<1>4. CASE NoMoreEvents
  BY <1>4, NoMoreEventsKeeps
<1>5. ASSUME NEW t \in Thread, CollectEvent(t) PROVE DebugInv'
  BY <1>5, CollectEventKeeps
<1>6. CASE Look
  BY <1>6, LookKeeps
<1>7. CASE Kill
  BY <1>7, KillKeeps
<1>8. CASE Collect
  BY <1>8, CollectKeeps
<1>9. CASE AllStopped
  BY <1>9, AllStoppedKeeps
<1>10. CASE WaitForDebugEvent
  BY <1>10, WaitForDebugEventKeeps
<1>11. CASE Go
  BY <1>11, GoKeeps
<1>12. CASE Step
  BY <1>12, StepKeeps
<1>13. CASE Restart
  BY <1>13, RestartKeeps
<1>14. CASE Quit
  BY <1>14, QuitKeeps
<1>15. ASSUME phase \notin Ended, HitSolib \/ \E t \in Thread : Runs(t) \/ Wake(t) \/ Deliver(t) \/ Stepped(t)
       PROVE  DebugInv'
  BY <1>15, MainExists, KernelKeeps
<1>16. CASE Over
  BY <1>16, StutterKeeps DEF Over
<1> QED BY <1>1, <1>2, <1>3, <1>4, <1>5, <1>6, <1>7, <1>8, <1>9, <1>10, <1>11, <1>12, <1>13, <1>14, <1>15, <1>16
    DEF Next, Debugger

LEMMA DebugAlways == Careful => (Spec => []DebugInv)
<1> SUFFICES ASSUME Careful PROVE Spec => []DebugInv
  OBVIOUS
<1>1. DebugInv /\ [Next]_vars => DebugInv'
  BY DebugStep
<1> QED BY <1>1, InitHolds, PTL DEF Spec

(***************************************************************************)
(* What the runs check.                                                    *)
(***************************************************************************)

LEMMA AtMostThreads ==
  ASSUME threads \in Seq(Thread), Once(threads)
  PROVE  Len(threads) <= Cardinality(Thread) /\ Cardinality(Thread) \in Nat
<1>1. IsFiniteSet(Thread) /\ Cardinality(Thread) = LastThread + 1
  BY DebugAssumption, FS_Interval DEF Thread
<1>2. IsFiniteSet(1..Len(threads)) /\ Cardinality(1..Len(threads)) = Len(threads)
  <2>1. Len(threads) \in Nat
    OBVIOUS
  <2>2. IsFiniteSet(1..Len(threads))
        /\ Cardinality(1..Len(threads)) = IF 1 > Len(threads) THEN 0 ELSE Len(threads) - 1 + 1
    BY <2>1, FS_Interval
  <2> QED BY <2>1, <2>2
<1> DEFINE f == [i \in 1..Len(threads) |-> threads[i]]
<1>3. f \in Injection(1..Len(threads), Thread)
  BY DEF Injection, IsInjective, Once
<1>4. Cardinality(1..Len(threads)) <= Cardinality(Thread)
  <2> HIDE DEF f
  <2> QED BY <1>1, <1>3, FS_Injection
<1> QED BY <1>1, <1>2, <1>4, DebugAssumption

\* The debugger, the kernel and the program keep their types, stop_all_threads
\* stays within its list, and no thread is in the queue of inferior.c twice,
\* where its second status would hide the first.
THEOREM DebuggerTypes == Careful => (Spec => []TypeOK)
<1> SUFFICES ASSUME Careful PROVE Spec => []TypeOK
  OBVIOUS
<1>1. DebugInv => TypeOK
  <2> SUFFICES ASSUME DebugInv PROVE TypeOK
    OBVIOUS
  <2>1. Types /\ Once(threads) /\ Once(events)
    BY DEF DebugInv
  <2>2. at \in 0..Cardinality(Thread) + 1
    <3>1. Len(threads) <= Cardinality(Thread) /\ Cardinality(Thread) \in Nat
      BY <2>1, AtMostThreads DEF Types
    <3>2. CASE Stopping
      <4>1. at \in 1..Len(threads) + 1
        BY <3>2 DEF DebugInv, Agree, Walked, Live, Ended, Stopping
      <4> QED BY <2>1, <3>1, <4>1 DEF Types
    <3>3. CASE ~Stopping
      BY <3>1, <3>3 DEF DebugInv, Done
    <3> QED BY <3>2, <3>3
  <2>3. events \in Seq(Thread \cup {Stale})
    BY <2>1 DEF Types
  <2>4. \A i, j \in 1..Len(events) : events[i] = events[j] => i = j \/ events[i] = Stale
    BY <2>1 DEF Once
  <2> QED BY <2>1, <2>2, <2>3, <2>4 DEF Types, TypeOK
<1> QED BY <1>1, DebugAlways, PTL

\* Krn_Prog knows the thread of every event it is told about, the layer every
\* thread that reports, and the event that is asked for once more is never that
\* of a thread_info that has been freed.
THEOREM DebuggerNeverFails == Careful => (Spec => []NeverFails)
<1> SUFFICES ASSUME Careful PROVE Spec => []NeverFails
  OBVIOUS
<1>1. DebugInv => NeverFails
  BY DEF DebugInv, Types, NeverFails
<1> QED BY <1>1, DebugAlways, PTL

\* Who runs when ProcessEvents returns to the user was passed over by
\* stop_all_threads in state D, also if it was created since.
THEOREM NobodyRunsWhileShown == Careful => (Spec => []NobodyRuns)
<1> SUFFICES ASSUME Careful PROVE Spec => []NobodyRuns
  OBVIOUS
<1>1. DebugInv => NobodyRuns
  BY DEF DebugInv, Live, Ended, Agree, Walked, Halted, NobodyRuns
<1> QED BY <1>1, DebugAlways, PTL

\* Neither the SIGTRAP that stops the other threads, nor a single step, nor an
\* event of another thread moves a thread away from a breakpoint it has met
\* before the user has been shown the hit.
THEOREM EveryHitKept == Careful => (Spec => []HitsKept)
<1> SUFFICES ASSUME Careful PROVE Spec => []HitsKept
  OBVIOUS
<1>1. DebugInv => HitsKept
  BY DEF DebugInv
<1> QED BY <1>1, DebugAlways, PTL

\* The account of the threads outlives a wait_for_events_internal that crashes.
CrashInv == DebugInv /\ (phase = "crashed" => \A t \in Thread : Account(t))

LEMMA CrashKeeps ==
  ASSUME CrashInv, [Next]_vars, phase' = "crashed"
  PROVE  \A t \in Thread : Account(t)'
<1>1. (WaitWithGarbage /\ phase = "wait" /\ ~check) \/ UNCHANGED vars
  <2>1. ASSUME NEW t \in Thread, HitSolib \/ Runs(t) \/ Wake(t) \/ Deliver(t) \/ Stepped(t), phase \notin Ended
        PROVE  FALSE
    BY <2>1 DEF HitSolib, Runs, HitBreakpoint, Creates, Dies, Exit, Send, Sleep, Wake, Deliver, Stepped, layer, Ended
  <2>2. ~WaitForDebugEvent
    BY DEF WaitForDebugEvent, Proceed, Exited, ThreadExited, ExitProcess, Expired, SingleStep,
           SolibEvent, ThreadCreated, ThreadDied, NoMessage, BreakpointHit, NoReason, Signaled, Shows, AsksAgain
  <2>3. /\ ~GoOn /\ ~Go /\ ~Step /\ ~WaitForEvents /\ ~NoMoreEvents /\ ~Look /\ ~Kill /\ ~Collect
        /\ ~AllStopped /\ ~Restart /\ ~Quit /\ \A t \in Thread : ~CollectEvent(t)
    BY DEF GoOn, Go, Step, Continue, WaitForEvents, ToPoll, NoMoreEvents, StopAll, Look, Walk, Kill,
           Collect, AllStopped, Restart, Quit, CollectEvent
  <2>4. CASE Next
    <3>1. \/ WaitWithGarbage \/ Over
          \/ phase \notin Ended /\ (HitSolib \/ \E t \in Thread : Runs(t) \/ Wake(t) \/ Deliver(t) \/ Stepped(t))
      BY <2>2, <2>3, <2>4 DEF Next, Debugger
    <3> QED BY <2>1, <3>1, MainExists DEF Over, WaitWithGarbage, ToPoll
  <2> QED BY <2>4
<1>2. CASE UNCHANGED vars
  BY <1>2 DEF CrashInv, Account, Placed, Waits, Kept, Carried, Somewhere, InQueue, Elems, Needs, Creating,
              Current, Registered, vars, kernel, layer, infos, flags, ui
<1>3. CASE WaitWithGarbage /\ phase = "wait" /\ ~check
  <2>1. \A t \in Thread : Account(t)
    BY <1>3 DEF CrashInv, DebugInv, Agree, Live, Ended
  <2> QED BY <1>3, <2>1 DEF Account, Placed, Waits, Kept, Carried, Somewhere, InQueue, Elems, Needs,
            Creating, Registered, WaitWithGarbage, ToPoll, kernel, infos, flags, ui
<1> QED BY <1>1, <1>2, <1>3

\* The four places are exclusive: a thread whose status waits in a thread_info
\* has nothing reported, and one with something reported or kept has not been
\* continued since.
LEMMA OnePlace ==
  ASSUME Types, NEW t \in Thread, Account(t), t \in Registered, os[t] \notin {"zombie", "gone"}
  PROVE  (usr[t] = "sent") =
           (1 = Cardinality({x \in 1..4 : \/ x = 1 /\ "usr" \in pend[t]
                                          \/ x = 2 /\ report[t] = "usr"
                                          \/ x = 3 /\ Queued(t)
                                          \/ x = 4 /\ last_signal[t] = "usr"}))
<1> DEFINE P == {x \in 1..4 : \/ x = 1 /\ "usr" \in pend[t]
                              \/ x = 2 /\ report[t] = "usr"
                              \/ x = 3 /\ Queued(t)
                              \/ x = 4 /\ last_signal[t] = "usr"}
<1>1. Queued(t) <=> InQueue(t) /\ last_status[t] = "usr"
  BY DEF Queued, InQueue, Elems
<1>2. IsFiniteSet(P)
  <2>1. IsFiniteSet(1..4)
    <3> HIDE DEF P
    <3>1. 1 \in Int /\ 4 \in Int
      OBVIOUS
    <3> QED BY <3>1, FS_Interval, Zenon
  <2>2. P \in SUBSET (1..4)
    OBVIOUS
  <2> QED BY <2>1, <2>2, FS_Subset
<1>3. CASE usr[t] = "sent"
  <2>1. Somewhere(t)
    BY <1>3 DEF Account, Carried
  <2>2. CASE "usr" \in pend[t]
    <3>1. P = {1}
      BY <1>1, <2>2 DEF Account, Carried
    <3>2. Cardinality(P) = 1
      BY <3>1, FS_Singleton
    <3> QED BY <1>3, <3>2
  <2>3. CASE "usr" \notin pend[t] /\ report[t] = "usr"
    <3>1. P = {2}
      BY <1>1, <2>3 DEF Account, Placed, Waits
    <3>2. Cardinality(P) = 1
      BY <3>1, FS_Singleton
    <3> QED BY <1>3, <3>2
  <2>4. CASE "usr" \notin pend[t] /\ InQueue(t) /\ last_status[t] = "usr"
    <3>1. P = {3}
      BY <1>1, <2>4 DEF Account, Waits
    <3>2. Cardinality(P) = 1
      BY <3>1, FS_Singleton
    <3> QED BY <1>3, <3>2
  <2>5. CASE "usr" \notin pend[t] /\ last_signal[t] = "usr"
    <3>1. P = {4}
      BY <1>1, <2>5 DEF Account, Placed, Waits
    <3>2. Cardinality(P) = 1
      BY <3>1, FS_Singleton
    <3> QED BY <1>3, <3>2
  <2> QED BY <2>1, <2>2, <2>3, <2>4, <2>5 DEF Somewhere
<1>4. CASE usr[t] # "sent"
  <2>1. P = {}
    BY <1>1, <1>4 DEF Account, Carried, Somewhere
  <2> QED BY <1>4, <2>1, FS_EmptySet
<1> QED BY <1>3, <1>4

\* A signal another program sends to a thread is neither lost nor doubled by
\* the SIGTRAPs of stop_all_threads, the queue and last_signal.
THEOREM EverySignalKept == Careful => (Spec => []SignalKept)
<1> SUFFICES ASSUME Careful PROVE Spec => []SignalKept
  OBVIOUS
<1>1. Init => CrashInv
  BY InitHolds DEF Init, CrashInv
<1>2. CrashInv /\ [Next]_vars => CrashInv'
  BY DebugStep, CrashKeeps DEF CrashInv
<1>3. CrashInv => SignalKept
  <2> SUFFICES ASSUME CrashInv, NEW t \in Registered, phase \notin {"finished", "over", "failed"},
                      os[t] \notin {"zombie", "gone"}
               PROVE  (usr[t] = "sent") =
                        (1 = Cardinality({x \in 1..4 : \/ x = 1 /\ "usr" \in pend[t]
                                                       \/ x = 2 /\ report[t] = "usr"
                                                       \/ x = 3 /\ Queued(t)
                                                       \/ x = 4 /\ last_signal[t] = "usr"}))
    BY DEF SignalKept
  <2>1. Types /\ t \in Thread
    BY DEF CrashInv, DebugInv, Types, Registered
  <2>2. Account(t)
    BY <2>1 DEF CrashInv, DebugInv, Live, Ended, Agree
  <2> QED BY <2>1, <2>2, OnePlace
<1> QED BY <1>1, <1>2, <1>3, PTL DEF Spec
=============================================================================
