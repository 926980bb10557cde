--------------------------- MODULE VhciHostProofs ----------------------------
(***************************************************************************)
(* What holds of the registry of queues for any number of threads, queues, *)
(* ids and failures; that the driver's probe, its error paths and its      *)
(* removal are clients that keep to the registry's rules; and what they    *)
(* do with their queues, for any number of message and event queues.       *)
(*                                                                         *)
(* The lists the threads work through are built by FlattenSeq and by a     *)
(* recursive function; what is at which place of them is proved by         *)
(* induction, once (TeardownFacts, TwoTeardowns, CreateFacts), and the     *)
(* invariant's proof rests on that.                                        *)
(***************************************************************************)
EXTENDS VhciHost, SequenceTheorems, WellFoundedInduction, TLAPS

-----------------------------------------------------------------------------
(* The registry.                                                           *)
(* A thread in the middle of a creation or destruction has a queue in hand *)
(* which no other thread has, and which is live until its id is given      *)
(* back. A queue without an id is in some thread's hand.                   *)
HandInv ==
    /\ \A t \in Threads : pc[t] = "idle" <=> cur[t] = None
    /\ \A t \in Threads : cur[t] \in Queues =>
          mem[cur[t]] = IF pc[t] = "free" THEN "released" ELSE "live"
    /\ \A q \in Queues : mem[q] = "released" => \E t \in Threads : cur[t] = q
    /\ \A t, u \in Threads : cur[t] \in Queues /\ cur[t] = cur[u] => t = u

(* The ids of live queues are in use, not lost, and different.             *)
IdInv ==
    /\ IdsAccounted
    /\ \A q \in Queues : mem[q] = "live" => qid[q] \in Qids \ leaked
    /\ \A q, r \in Queues : mem[q] = "live" /\ mem[r] = "live" /\ qid[q] = qid[r] => q = r

(* What the device knows of a queue, by the state of the queue.            *)
DeviceInv ==
    /\ \A i \in Qids : registered[i] # None => qid[registered[i]] = i
    /\ RegisteredIsLive
    /\ \A q \in kept : mem[q] # "none"
    /\ \A t \in Threads : pc[t] = "register" => \A i \in Qids : registered[i] # cur[t]
    /\ \A t \in Threads : pc[t] = "store" => registered[qid[cur[t]]] = cur[t]
    /\ \A t \in Threads : pc[t] = "release" =>
          cur[t] \in kept \/ \A i \in Qids : registered[i] # cur[t]

IInv == TypeOK /\ HandInv /\ IdInv /\ DeviceInv /\ LiveIsRegistered

USE QueueRegistryAssumption DEF QueueRegistryAssumption

LEMMA InitIInv == Init => IInv
<1> SUFFICES ASSUME Init PROVE IInv
  OBVIOUS
<1>1. TypeOK
  <2>1. is_being_removed \in BOOLEAN
    BY DEF Init
  <2>2. mishaps \in 0..MaxMishaps
    BY DEF Init
  <2> QED
    BY <2>1, <2>2 DEF Init, TypeOK
<1>2. HandInv
  BY DEF Init, HandInv
<1>3. IdInv
  BY DEF Init, IdInv, IdsAccounted
<1>4. DeviceInv
  BY DEF Init, DeviceInv, RegisteredIsLive
<1>5. LiveIsRegistered
  BY DEF Init, LiveIsRegistered
<1> QED
  BY <1>1, <1>2, <1>3, <1>4, <1>5 DEF IInv

(* Until it gives the id back, a thread that has something in hand has a   *)
(* live queue, whose id is in use.                                         *)
LEMMA InHand ==
    ASSUME IInv, NEW t \in Threads, pc[t] \notin {"idle", "free"}
    PROVE  /\ cur[t] \in Queues
           /\ mem[cur[t]] = "live"
           /\ qid[cur[t]] \in Qids
           /\ qid[cur[t]] \in queue_ida
           /\ qid[cur[t]] \notin leaked
BY DEF IInv, TypeOK, HandInv, IdInv, IdsAccounted

LEMMA GetStep ==
    ASSUME IInv, NEW t \in Threads, NEW q \in Queues, NEW i \in Qids, Get(t, q, i)
    PROVE  IInv'
<1> USE DEF IInv, Get, Goto
<1>1. TypeOK'
  BY DEF TypeOK
<1>2. HandInv'
  BY DEF TypeOK, HandInv
<1>3. \A r \in Queues : mem[r] = "live" => qid[r] # i
  BY DEF IdInv, IdsAccounted
<1>4. IdInv'
  <2>1. i \notin leaked
    BY DEF IdInv, IdsAccounted
  <2>2. IdsAccounted'
    BY <1>3 DEF TypeOK, IdInv, IdsAccounted
  <2> QED
    BY <1>3, <2>1, <2>2 DEF TypeOK, IdInv
<1>5. \A j \in Qids : registered[j] # q
  BY DEF TypeOK, DeviceInv, RegisteredIsLive
<1>6. DeviceInv'
  <2>1. RegisteredIsLive'
    BY DEF TypeOK, DeviceInv, RegisteredIsLive
  <2>2. \A u \in Threads : pc[u] # "idle" => cur[u] # q
    BY DEF HandInv
  <2> QED
    BY <1>5, <2>1, <2>2 DEF TypeOK, DeviceInv, HandInv
<1>7. LiveIsRegistered'
  BY DEF TypeOK, HandInv, LiveIsRegistered, Busy
<1> QED
  BY <1>1, <1>2, <1>4, <1>6, <1>7

LEMMA AllocFailsStep ==
    ASSUME IInv, NEW t \in Threads, NEW i \in Qids, AllocFails(t, i)
    PROVE  IInv'
<1> USE DEF IInv, AllocFails, Mishap, threadVars
<1>1. TypeOK'
  BY DEF TypeOK
<1>2. HandInv' /\ DeviceInv' /\ LiveIsRegistered'
  BY DEF HandInv, DeviceInv, RegisteredIsLive, LiveIsRegistered, Busy
<1>3. IdInv'
  BY DEF IdInv, IdsAccounted
<1> QED
  BY <1>1, <1>2, <1>3

LEMMA RegisterStep ==
    ASSUME IInv, NEW t \in Threads, Register(t)
    PROVE  IInv'
<1> USE DEF IInv, Register, Goto, driverVars
<1>1. /\ cur[t] \in Queues /\ mem[cur[t]] = "live"
      /\ qid[cur[t]] \in Qids
  BY InHand
<1>2. TypeOK'
  BY <1>1 DEF TypeOK
<1>3. HandInv'
  BY <1>1 DEF TypeOK, HandInv
<1>4. IdInv'
  BY DEF IdInv, IdsAccounted
<1>5. DeviceInv'
  <2>1. RegisteredIsLive'
    BY <1>1 DEF TypeOK, DeviceInv, RegisteredIsLive
  <2>2. \A i \in Qids : registered'[i] # None => qid'[registered'[i]] = i
    BY <1>1 DEF TypeOK, DeviceInv
  <2>3. \A u \in Threads : u # t => cur[u] # cur[t]
    BY <1>1 DEF HandInv
  <2>4. \A u \in Threads : u # t /\ pc[u] \notin {"idle", "free"} => qid[cur[u]] # qid[cur[t]]
    BY <1>1, <2>3, InHand DEF IdInv
  <2> QED
    BY <1>1, <2>1, <2>2, <2>3, <2>4 DEF TypeOK, DeviceInv
<1>6. LiveIsRegistered'
  BY <1>1 DEF TypeOK, IdInv, LiveIsRegistered, Busy
<1> QED
  BY <1>2, <1>3, <1>4, <1>5, <1>6

(* A queue loses its id: it leaves the hand of its thread freed, or is     *)
(* still to be freed.                                                      *)
LEMMA LosesId ==
    ASSUME IInv, NEW t \in Threads, pc[t] \notin {"idle", "free"},
           \/ \A i \in Qids : registered[i] # cur[t]
           \/ cur[t] \in kept,
           \/ mem' = [mem EXCEPT ![cur[t]] = "freed"] /\ Done(t)
           \/ mem' = [mem EXCEPT ![cur[t]] = "released"] /\ Goto(t, "free", cur[t]),
           queue_ida' = queue_ida \ {qid[cur[t]]},
           mishaps' \in 0..MaxMishaps,
           UNCHANGED <<qid, queues, registered, kept, leaked, is_being_removed>>
    PROVE  IInv'
<1> USE DEF IInv, Done, Goto
<1>1. /\ cur[t] \in Queues /\ mem[cur[t]] = "live"
      /\ qid[cur[t]] \in Qids /\ qid[cur[t]] \notin leaked
  BY InHand
<1>2. TypeOK'
  BY <1>1 DEF TypeOK
<1>3. \A u \in Threads : u # t => cur[u] # cur[t]
  BY <1>1 DEF HandInv
<1>4. HandInv'
  BY <1>1, <1>3 DEF TypeOK, HandInv
<1>5. IdInv'
  <2>1. \A q \in Queues : mem[q] = "live" /\ q # cur[t] => qid[q] # qid[cur[t]]
    BY <1>1 DEF IdInv
  <2>2. IdsAccounted'
    BY <1>1, <2>1 DEF TypeOK, IdInv, IdsAccounted
  <2> QED
    BY <1>1, <2>2 DEF TypeOK, IdInv
<1>6. DeviceInv'
  <2>1. RegisteredIsLive'
    BY <1>1 DEF TypeOK, DeviceInv, RegisteredIsLive
  <2> QED
    BY <1>1, <1>3, <2>1 DEF TypeOK, DeviceInv
<1>7. LiveIsRegistered'
  BY <1>1 DEF TypeOK, LiveIsRegistered, Busy
<1> QED
  BY <1>2, <1>4, <1>5, <1>6, <1>7

LEMMA RegisterFailsStep ==
    ASSUME IInv, NEW t \in Threads, RegisterFails(t)
    PROVE  IInv'
<1>1. mishaps' \in 0..MaxMishaps
  BY DEF IInv, TypeOK, RegisterFails, Mishap
<1>2. \A i \in Qids : registered[i] # cur[t]
  BY DEF IInv, DeviceInv, RegisterFails
<1> QED
  BY <1>1, <1>2, LosesId DEF RegisterFails

LEMMA ReleaseStep ==
    ASSUME IInv, NEW t \in Threads, Release(t)
    PROVE  IInv'
<1>1. mishaps' \in 0..MaxMishaps
  BY DEF IInv, TypeOK, Release
<1>2. (\A i \in Qids : registered[i] # cur[t]) \/ cur[t] \in kept
  BY DEF IInv, DeviceInv, Release
<1> QED
  BY <1>1, <1>2, LosesId DEF Release

LEMMA FreeMemoryStep ==
    ASSUME IInv, NEW t \in Threads, Free(t)
    PROVE  IInv'
<1> USE DEF IInv, Free, Done, Goto
<1>1. /\ cur[t] \in Queues /\ mem[cur[t]] = "released"
      /\ mem' = [mem EXCEPT ![cur[t]] = "freed"]
  BY DEF TypeOK, HandInv
<1>2. TypeOK'
  BY <1>1 DEF TypeOK
<1>3. \A u \in Threads : u # t => cur[u] # cur[t]
  BY <1>1 DEF HandInv
<1>4. HandInv'
  BY <1>1, <1>3 DEF TypeOK, HandInv
<1>5. \A q \in Queues : (mem'[q] = "live" <=> mem[q] = "live") /\ (mem'[q] = "none" <=> mem[q] = "none")
  BY <1>1 DEF TypeOK
<1>6. IdInv'
  BY <1>5 DEF IdInv, IdsAccounted
<1>7. DeviceInv'
  <2>1. RegisteredIsLive'
    BY <1>5 DEF TypeOK, DeviceInv, RegisteredIsLive
  <2> QED
    BY <1>1, <1>5, <2>1 DEF TypeOK, DeviceInv
<1>8. LiveIsRegistered'
  BY <1>1, <1>5 DEF TypeOK, LiveIsRegistered, Busy
<1> QED
  BY <1>2, <1>4, <1>6, <1>7, <1>8

LEMMA StoreStep ==
    ASSUME IInv, NEW t \in Threads, Store(t)
    PROVE  IInv'
<1> USE DEF IInv, Store, Done, Goto
<1>1. /\ cur[t] \in Queues /\ mem[cur[t]] = "live"
      /\ qid[cur[t]] \in Qids
  BY InHand
<1>2. TypeOK'
  BY <1>1 DEF TypeOK
<1>3. HandInv'
  BY <1>1 DEF TypeOK, HandInv
<1>4. IdInv'
  BY DEF IdInv, IdsAccounted
<1>5. DeviceInv'
  BY <1>1 DEF TypeOK, DeviceInv, RegisteredIsLive
<1>6. LiveIsRegistered'
  <2> SUFFICES ASSUME NEW q \in Queues, mem[q] = "live", ~Busy(q)'
               PROVE  queues'[qid[q]] = q /\ registered[qid[q]] = q
    BY DEF LiveIsRegistered
  <2>1. CASE q = cur[t]
    BY <1>1, <2>1 DEF TypeOK, DeviceInv
  <2>2. CASE q # cur[t]
    <3>1. ~Busy(q)
      BY <2>2 DEF TypeOK, Busy
    <3>2. qid[q] # qid[cur[t]]
      BY <1>1, <2>2 DEF IdInv
    <3> QED
      BY <1>1, <3>1, <3>2 DEF TypeOK, LiveIsRegistered
  <2> QED
    BY <2>1, <2>2
<1> QED
  BY <1>2, <1>3, <1>4, <1>5, <1>6

LEMMA UnregisterStep ==
    ASSUME IInv, NEW t \in Threads, NEW q \in Queues, ~Busy(q), Unregister(t, q)
    PROVE  IInv'
<1> USE DEF IInv, Unregister, Goto, Mishap, driverVars
<1>1. /\ qid[q] \in Qids /\ mem[q] = "live"
      /\ registered[qid[q]] = q
  BY DEF IdInv, LiveIsRegistered
<1>2. TypeOK'
  BY <1>1 DEF TypeOK
<1>3. \A u \in Threads : cur[u] # q
  BY DEF Busy
<1>4. HandInv'
  BY <1>1, <1>3 DEF TypeOK, HandInv
<1>5. IdInv'
  BY DEF IdInv, IdsAccounted
<1>6. DeviceInv'
  <2>1. CASE /\ registered' = [registered EXCEPT ![qid[q]] = None]
             /\ UNCHANGED kept
    <3>1. \A i \in Qids : registered'[i] # q
      BY <1>1, <2>1 DEF TypeOK, DeviceInv
    <3>2. RegisteredIsLive'
      BY <1>1, <2>1 DEF TypeOK, DeviceInv, RegisteredIsLive
    <3>3. \A u \in Threads : u # t /\ pc[u] \notin {"idle", "free"} => qid[cur[u]] # qid[q]
      BY <1>1, <1>3, InHand DEF IdInv
    <3> QED
      BY <1>1, <1>3, <2>1, <3>1, <3>2, <3>3, InHand DEF TypeOK, DeviceInv
  <2>2. CASE kept' = kept \cup {q} /\ UNCHANGED registered
    <3>1. RegisteredIsLive'
      BY <1>1, <2>2 DEF TypeOK, DeviceInv, RegisteredIsLive
    <3> QED
      BY <1>1, <1>3, <2>2, <3>1 DEF TypeOK, DeviceInv
  <2> QED
    BY <2>1, <2>2
<1>7. LiveIsRegistered'
  <2> SUFFICES ASSUME NEW r \in Queues, mem[r] = "live", ~Busy(r)'
               PROVE  queues[qid[r]] = r /\ registered'[qid[r]] = r
    BY DEF LiveIsRegistered
  <2>1. r # q
    BY DEF TypeOK, Busy
  <2>2. ~Busy(r)
    BY DEF TypeOK, HandInv, Busy
  <2>3. qid[r] # qid[q] /\ qid[r] \in Qids
    BY <1>1, <2>1 DEF IdInv
  <2> QED
    BY <2>2, <2>3 DEF TypeOK, LiveIsRegistered
<1> QED
  BY <1>2, <1>4, <1>5, <1>6, <1>7

LEMMA StepIInv == IInv /\ [RegNext]_regVars => IInv'
<1> SUFFICES ASSUME IInv, [RegNext]_regVars
             PROVE  IInv'
  OBVIOUS
<1>1. CASE UNCHANGED regVars
  BY <1>1 DEF regVars, driverVars, threadVars, IInv, TypeOK, HandInv, IdInv, IdsAccounted,
              DeviceInv, RegisteredIsLive, LiveIsRegistered, Busy
<1>2. CASE StartRemoval
  BY <1>2 DEF StartRemoval, driverVars, threadVars, IInv, TypeOK, HandInv, IdInv,
              IdsAccounted, DeviceInv, RegisteredIsLive, LiveIsRegistered, Busy
<1>3. CASE \E t \in Threads : NoId(t)
  BY <1>1, <1>3 DEF NoId
<1>4. ASSUME NEW t \in Threads, NEW q \in Queues, NEW i \in Qids, Get(t, q, i)
      PROVE  IInv'
  BY <1>4, GetStep
<1>5. ASSUME NEW t \in Threads, NEW q \in Queues, ~Busy(q), Unregister(t, q)
      PROVE  IInv'
  BY <1>5, UnregisterStep
<1>6. ASSUME NEW t \in Threads, NEW i \in Qids, AllocFails(t, i)
      PROVE  IInv'
  BY <1>6, AllocFailsStep
<1>7. ASSUME NEW t \in Threads,
             Register(t) \/ RegisterFails(t) \/ Store(t) \/ Release(t) \/ Free(t)
      PROVE  IInv'
  BY <1>7, RegisterStep, RegisterFailsStep, StoreStep, ReleaseStep, FreeMemoryStep
<1> QED
  BY <1>1, <1>2, <1>3, <1>4, <1>5, <1>6, <1>7 DEF RegNext

(* A queue goes through bce_create and bce_destroy with an id that is its  *)
(* own, whatever other threads do between their steps.                     *)
THEOREM Invariant == RegSpec => []IInv
BY InitIInv, StepIInv, PTL DEF RegSpec

(* The types: in particular only ids of the range are ever in use.         *)
THEOREM RegistryTypes == RegSpec => []TypeOK
BY Invariant, PTL DEF IInv

(* bce_handle_dma_irq and bce_handle_cq_completions find a queue by its id: *)
(* a queue that exists is the one the table and the device have there.     *)
THEOREM LiveQueuesAreFound == RegSpec => []LiveIsRegistered
BY Invariant, PTL DEF IInv

(* The device was told to leave every queue whose memory is freed, or      *)
(* refused.                                                                *)
THEOREM NoFreedQueueInUse == RegSpec => []RegisteredIsLive
<1>1. IInv => RegisteredIsLive
  BY DEF IInv, DeviceInv
<1> QED
  BY <1>1, Invariant, PTL

(* ida_simple_get and ida_simple_remove are paired on every path but the   *)
(* one where the allocation of the queue fails.                            *)
THEOREM NoIdLost == RegSpec => []IdsAccounted
<1>1. IInv => IdsAccounted
  BY DEF IInv, IdInv
<1> QED
  BY <1>1, Invariant, PTL

-----------------------------------------------------------------------------
(* Induction, as a fact about sets.                                        *)
LEMMA SetInduction ==
    ASSUME NEW S \in SUBSET Nat, 0 \in S, \A n \in S : n + 1 \in S
    PROVE  S = Nat
<1> DEFINE R == OpToRel(<, Nat)
           T == Nat \ S
<1>1. \A x, y \in Nat : x < y => <<x, y>> \in R
  BY DEF OpToRel
<1>2. IsWellFoundedOn(R, Nat)
  BY NatLessThanWellFounded
<1>3. SUFFICES ASSUME T # {} PROVE FALSE
  OBVIOUS
<1> HIDE DEF R
<1>4. PICK x \in T : \A y \in T : ~(<<y, x>> \in R)
  <2>1. T \subseteq Nat
    OBVIOUS
  <2> HIDE DEF T
  <2> QED
    BY <1>2, <1>3, <2>1, WFMin
<1>5. x \in Nat \ {0} /\ x - 1 \in Nat /\ x - 1 < x /\ x - 1 + 1 = x
  OBVIOUS
<1>6. x - 1 \in T
  BY <1>5
<1> QED
  BY <1>1, <1>4, <1>5, <1>6

Cat(s, t) == s \o t

(* The function that FlattenSeq is defined by, on the first n sequences.   *)
FlatTo(s, n, f) ==
    /\ DOMAIN f = 1..n
    /\ \A i \in 1..n : f[i] = IF i = 1 THEN s[i] ELSE Cat(f[i - 1], s[i])

FlatExists(s, n) == \E f : FlatTo(s, n, f)

(* That function, from n sequences to n + 1.                               *)
LEMMA FlatStep ==
    ASSUME NEW n \in Nat \ {0}, NEW s, FlatExists(s, n)
    PROVE  FlatExists(s, n + 1)
<1>1. PICK f : FlatTo(s, n, f)
  BY DEF FlatExists
<1> DEFINE g == [i \in 1..(n + 1) |-> IF i = n + 1 THEN Cat(f[n], s[n + 1]) ELSE f[i]]
<1>2. ASSUME NEW i \in 1..(n + 1)
      PROVE  g[i] = IF i = 1 THEN s[i] ELSE Cat(g[i - 1], s[i])
  <2>1. CASE i = n + 1
    BY <2>1
  <2>2. CASE i # n + 1
    <3>1. i \in 1..n /\ i - 1 # n + 1 /\ (i # 1 => i - 1 \in 1..n)
      BY <2>2
    <3> QED
      BY <1>1, <2>2, <3>1 DEF FlatTo
  <2> QED
    BY <2>1, <2>2
<1>3. FlatTo(s, n + 1, g)
  BY <1>2 DEF FlatTo
<1> QED
  BY <1>3 DEF FlatExists

(* It exists, for it is defined by recursion on the number of sequences.   *)
LEMMA FlattenDef ==
    ASSUME NEW s, NEW N \in Nat \ {0}, Len(s) = N
    PROVE  \E f : FlatTo(s, N, f) /\ FlattenSeq(s) = f[N]
<1> DEFINE P == {n \in Nat : FlatExists(s, n + 1)}
<1>1. 0 \in P
  <2>1. FlatTo(s, 1, [i \in 1..1 |-> s[1]])
    BY DEF FlatTo
  <2> QED
    BY <2>1 DEF FlatExists
<1>2. \A n \in P : n + 1 \in P
  BY FlatStep
<1>3. P = Nat
  <2>1. P \in SUBSET Nat
    OBVIOUS
  <2> HIDE DEF P
  <2> QED
    BY <1>1, <1>2, <2>1, SetInduction
<1>4. FlatExists(s, N)
  <2>1. N - 1 \in Nat /\ N - 1 + 1 = N
    OBVIOUS
  <2>2. N - 1 \in P
    <3> HIDE DEF P
    <3> QED
      BY <1>3, <2>1
  <2>3. FlatExists(s, N - 1 + 1)
    BY <2>2
  <2> QED
    BY <2>1, <2>3
<1> DEFINE Is(f) == f = [i \in 1..N |-> IF i = 1 THEN s[i] ELSE Cat(f[i - 1], s[i])]
<1>5. PICK g : FlatTo(s, N, g)
  BY <1>4 DEF FlatExists
<1> DEFINE h == [i \in 1..N |-> g[i]]
<1>6. Is(h)
  <2>1. ASSUME NEW i \in 1..N
        PROVE  h[i] = IF i = 1 THEN s[i] ELSE Cat(h[i - 1], s[i])
    BY <1>5 DEF FlatTo
  <2> QED
    BY <2>1
<1>7. FlattenSeq(s) = (CHOOSE f : Is(f))[N]
  BY DEF FlattenSeq, Cat
<1>8. Is(CHOOSE f : Is(f))
  <2> HIDE DEF Is, h
  <2> QED
    BY <1>6
<1>9. FlatTo(s, N, CHOOSE f : Is(f))
  <2>1. PICK c : c = (CHOOSE f : Is(f))
    OBVIOUS
  <2>2. Is(c)
    BY <1>8, <2>1
  <2>3. FlatTo(s, N, c)
    BY <2>2 DEF FlatTo
  <2> QED
    BY <2>1, <2>3
<1> QED
  BY <1>7, <1>9

(* The first n sequences have become one.                                  *)
Blocks(s, S, w, n, t) ==
    /\ t \in Seq(S) /\ Len(t) = w * n
    /\ \A i \in 1..n, m \in 1..w : t[w * (i - 1) + m] = s[i][m]

(* One more sequence of w elements.                                        *)
LEMMA BlocksStep ==
    ASSUME NEW S, NEW s, NEW w \in {2, 3}, NEW n \in Nat, NEW t,
           Blocks(s, S, w, n, t), s[n + 1] \in Seq(S), Len(s[n + 1]) = w
    PROVE  Blocks(s, S, w, n + 1, Cat(t, s[n + 1]))
<1>1. PICK u \in Seq(S) : u = s[n + 1]
  OBVIOUS
<1>2. PICK v : v = Cat(t, u)
  OBVIOUS
<1>3. t \in Seq(S) /\ Len(t) = w * n
  BY DEF Blocks
<1>4. /\ v \in Seq(S) /\ Len(v) = w * n + w
      /\ \A m \in 1..(w * n + w) : v[m] = IF m <= w * n THEN t[m] ELSE u[m - w * n]
  BY <1>1, <1>2, <1>3, ConcatProperties DEF Cat
<1>5. \A i \in 1..n, m \in 1..w : t[w * (i - 1) + m] = s[i][m]
  BY DEF Blocks
<1>6. ASSUME NEW i \in 1..(n + 1), NEW m \in 1..w
      PROVE  v[w * (i - 1) + m] = s[i][m]
  <2>1. CASE w = 2 /\ i = n + 1
    BY <1>1, <1>4, <2>1
  <2>2. CASE w = 3 /\ i = n + 1
    BY <1>1, <1>4, <2>2
  <2>3. CASE i \in 1..n
    <3>1. w * (i - 1) + m \in 1..(w * n) /\ w * n <= w * n + w
      <4>1. CASE w = 2
        BY <2>3, <4>1
      <4>2. CASE w = 3
        BY <2>3, <4>2
      <4> QED
        BY <4>1, <4>2
    <3>2. PICK p \in 1..(w * n) : p = w * (i - 1) + m
      BY <3>1
    <3>3. w * n \in Nat
      OBVIOUS
    <3>4. v[p] = t[p]
      BY <1>4, <3>1, <3>3
    <3> QED
      BY <1>5, <2>3, <3>2, <3>4
  <2> QED
    BY <2>1, <2>2, <2>3
<1>7. Len(v) = w * (n + 1)
  BY <1>4
<1> QED
  BY <1>1, <1>2, <1>4, <1>6, <1>7 DEF Blocks

(* What FlattenSeq makes of sequences of w elements each.                  *)
LEMMA FlattenBlocks ==
    ASSUME NEW S, NEW N \in Nat, NEW w \in {2, 3}, NEW s \in [1..N -> Seq(S)],
           \A i \in 1..N : Len(s[i]) = w
    PROVE  Blocks(s, S, w, N, FlattenSeq(s))
<1>1. s \in Seq(Seq(S)) /\ Len(s) = N
  OBVIOUS
<1>2. CASE N = 0
  <2>1. s = << >>
    BY <1>1, <1>2
  <2>2. FlattenSeq(s) = << >>
    BY <1>1, <1>2, <2>1 DEF FlattenSeq
  <2> QED
    BY <1>2, <2>2 DEF Blocks
<1>3. CASE N # 0
  <2>1. PICK f : FlatTo(s, N, f) /\ FlattenSeq(s) = f[N]
    BY <1>1, <1>3, FlattenDef
  <2>2. f[1] = s[1] /\ \A n \in 1..(N - 1) : f[n + 1] = Cat(f[n], s[n + 1])
    BY <1>3, <2>1 DEF FlatTo
  <2> DEFINE P == {n \in Nat : n + 1 <= N => Blocks(s, S, w, n + 1, f[n + 1])}
  <2>3. 0 \in P
    <3>1. Blocks(s, S, w, 0, << >>)
      BY DEF Blocks
    <3>2. s[1] \in Seq(S) /\ Len(s[1]) = w /\ Cat(<< >>, s[1]) = s[1]
      BY <1>3, ConcatEmptySeq DEF Cat
    <3>3. 0 + 1 = 1
      OBVIOUS
    <3>4. Blocks(s, S, w, 0 + 1, Cat(<< >>, s[0 + 1]))
      BY <3>1, <3>2, <3>3, BlocksStep, Zenon
    <3>5. Blocks(s, S, w, 0 + 1, f[0 + 1])
      BY <2>2, <3>2, <3>3, <3>4
    <3> QED
      BY <3>5
  <2>4. ASSUME NEW n \in P PROVE n + 1 \in P
    <3>1. SUFFICES ASSUME n + 2 <= N PROVE Blocks(s, S, w, n + 2, f[n + 2])
      OBVIOUS
    <3>2. PICK k \in 1..(N - 1) : k = n + 1 /\ k + 1 = n + 2
      BY <3>1
    <3>3. Blocks(s, S, w, k, f[k])
      BY <3>2
    <3>4. s[k + 1] \in Seq(S) /\ Len(s[k + 1]) = w /\ f[k + 1] = Cat(f[k], s[k + 1])
      BY <2>2
    <3>5. Blocks(s, S, w, k + 1, f[k + 1])
      <4> HIDE DEF P
      <4>1. k \in Nat
        OBVIOUS
      <4>2. Blocks(s, S, w, k + 1, Cat(f[k], s[k + 1]))
        BY <3>3, <3>4, <4>1, BlocksStep, Zenon
      <4> QED
        BY <3>4, <4>2
    <3> QED
      BY <3>2, <3>5
  <2>5. P = Nat
    <3>1. P \in SUBSET Nat
      OBVIOUS
    <3> HIDE DEF P
    <3> QED
      BY <2>3, <2>4, <3>1, SetInduction
  <2>6. N - 1 \in Nat /\ N - 1 + 1 = N
    BY <1>3
  <2>7. N - 1 \in P
    <3> HIDE DEF P
    <3> QED
      BY <2>5, <2>6
  <2>8. Blocks(s, S, w, N, f[N])
    BY <2>6, <2>7
  <2> QED
    BY <2>1, <2>8
<1> QED
  BY <1>2, <1>3
-----------------------------------------------------------------------------
(* The queues of each thread, and what it may have to do.                  *)
Kinds(t) == CASE t = "driver" -> {"msg", "ev"} [] t = "hub" -> {"tq"} [] OTHER -> {"audio"}
Own(t) == {q \in Queues : q[1] \in Kinds(t)}
Ops(t) == ({"create", "dma", "destroy"} \X Own(t)) \cup (IF t = "driver" THEN {Add} ELSE {})

(* What holds of each thread. In the middle of something it does the first *)
(* thing on its list, which for a queue that is only to be freed is over;  *)
(* a pointer that is not NULL was set at the end of a   *)
(* creation.                                                               *)
ThreadInv(t) ==
    /\ todo[t] \in Seq(Ops(t))
    /\ pc[t] \notin {"idle", "free"} =>
          /\ todo[t] # << >>
          /\ Head(todo[t]) = IF pc[t] = "release" THEN Destroy(cur[t]) ELSE Create(cur[t])
    /\ pc[t] = "free" => cur[t] \in Own(t)
    /\ \A q \in field \cap Own(t) : mem[q] # "none"
    /\ pc[t] \in {"register", "store"} => cur[t] \notin field

(* The driver has created what is before position n of its list.           *)
Created(n) ==
    \A q \in Own("driver") :
        /\ q \in field <=> \E m \in 1..(n - 1) : CreateVhci[m] = Create(q)
        /\ mem[q] = "live" <=> (q \in field \/ cur["driver"] = q)

Creating == \E n \in 1..Len(CreateVhci) :
                todo["driver"] = SubSeq(CreateVhci, n, Len(CreateVhci)) /\ Created(n)

(* It destroys what there is, a completion queue after its others.         *)
CqsLast(list, there) ==
    \A i \in DOMAIN list, q \in there :
        list[i] = Destroy(Cq(q)) /\ q # Cq(q) => \E j \in 1..(i - 1) : list[j] = Destroy(q)

Destroys(list, there) ==
    /\ list \in Seq({"destroy"} \X there)
    /\ \A i, j \in DOMAIN list : list[i] = list[j] => i = j
    /\ \A q \in there : \E i \in DOMAIN list : list[i] = Destroy(q)
    /\ CqsLast(list, there)

Live(t) == {q \in Own(t) : mem[q] = "live"}
WithCqs(there) == \A q \in there : Cq(q) \in there

DriverInv ==
    /\ life = "probing" =>
           /\ Finished("driver")
           /\ field \cap Own("driver") = {} /\ Live("driver") = {}
    /\ life = "creating" => Creating
    /\ life \in {"bound", "removing"} =>
           /\ Finished("driver")
           /\ Live("driver") = field \cap Own("driver")
           /\ WithCqs(Live("driver"))
    /\ life \in {"failed", "destroying"} =>
           Destroys(todo["driver"], Live("driver")) /\ WithCqs(Live("driver"))
    /\ life \in {"closing", "stopped", "gone"} => todo["driver"] = << >> /\ Live("driver") = {}

(* The completion queues of the other two are there to stay.               *)
CqStays(t) ==
    \A q \in Own(t) : /\ q = Cq(q) /\ q \in field => mem[q] = "live"
                      /\ q # Cq(q) /\ mem[q] = "live" => Cq(q) \in field

HubInv == /\ "hub" \notin started => Finished("hub")
          /\ todo["hub"] \in Seq({"create"} \X Own("hub"))
          /\ CqStays("hub")

Probed(n) ==
    /\ n > 1 => Audio("cq") \in field
    /\ CreateAudio[n][1] = "dma" => CreateAudio[n][2] \in field /\ mem[CreateAudio[n][2]] = "live"
    /\ \A m \in n..5 : CreateAudio[m][1] = "create" => CreateAudio[m][2] \notin field

Probing == \E n \in 1..5 : todo["audio"] = SubSeq(CreateAudio, n, 5) /\ Probed(n)

AudioInv == /\ "audio" \notin started => Finished("audio") /\ field \cap Own("audio") = {}
            /\ \/ todo["audio"] = << >>
               \/ Probing
               \/ \E q \in {Audio("in"), Audio("out")} :
                      todo["audio"] = <<Destroy(q)>> /\ mem[q] = "live"
            /\ CqStays("audio")

(* What is stopped and unmapped, by how far the removal is.                *)
LifeInv == /\ life \in {"probing", "creating", "failed", "bound", "removing",
                        "destroying", "closing", "stopped", "gone"}
           /\ todo = [t \in Threads |-> todo[t]]
           /\ field \subseteq Queues /\ started \subseteq Threads
           /\ timer \in {"off", "armed", "running"} /\ mapped \in BOOLEAN
           /\ life \in {"stopped", "gone"} => timer = "off"
           /\ ~mapped => life = "gone"

HostInv == (\A t \in Threads : ThreadInv(t)) /\ DriverInv /\ HubInv /\ AudioInv /\ LifeInv

-----------------------------------------------------------------------------
(* The lists.                                                              *)
USE VhciHostAssumption, VhciHostParts DEF VhciHostAssumption, VhciHostParts, Finished

(* The function that Teardown is defined by, on the first n queues.        *)
Chosen(there, n, list) ==
    IF TeardownOrder[n] \in there THEN Append(list, Destroy(TeardownOrder[n])) ELSE list

ChosenTo(there, n, f) ==
    /\ DOMAIN f = 0..n
    /\ \A i \in 0..n : f[i] = IF i = 0 THEN << >> ELSE Chosen(there, i, f[i - 1])

ChosenExists(there, n) == \E f : ChosenTo(there, n, f)

(* That function, from n queues to n + 1.                                  *)
LEMMA ChosenStep ==
    ASSUME NEW n \in Nat, NEW there, ChosenExists(there, n)
    PROVE  ChosenExists(there, n + 1)
<1>1. PICK f : ChosenTo(there, n, f)
  BY DEF ChosenExists
<1> DEFINE g == [i \in 0..(n + 1) |-> IF i = n + 1 THEN Chosen(there, n + 1, f[n]) ELSE f[i]]
<1>2. ASSUME NEW i \in 0..(n + 1)
      PROVE  g[i] = IF i = 0 THEN << >> ELSE Chosen(there, i, g[i - 1])
  <2>1. CASE i = n + 1
    BY <2>1
  <2>2. CASE i # n + 1
    <3>1. i \in 0..n /\ i - 1 # n + 1 /\ (i # 0 => i - 1 \in 0..n)
      BY <2>2
    <3> QED
      BY <1>1, <2>2, <3>1 DEF ChosenTo
  <2> QED
    BY <2>1, <2>2
<1>3. ChosenTo(there, n + 1, g)
  BY <1>2 DEF ChosenTo
<1> QED
  BY <1>3 DEF ChosenExists

(* It exists, and Teardown is its value at the end.                        *)
LEMMA TeardownDef ==
    ASSUME NEW there, NEW N \in Nat, Len(TeardownOrder) = N
    PROVE  \E f : ChosenTo(there, N, f) /\ Teardown(there) = f[N]
<1> DEFINE P == {n \in Nat : ChosenExists(there, n)}
<1>1. 0 \in P
  <2>1. ChosenTo(there, 0, [i \in 0..0 |-> << >>])
    BY DEF ChosenTo
  <2> QED
    BY <2>1 DEF ChosenExists
<1>2. \A n \in P : n + 1 \in P
  BY ChosenStep
<1>3. P = Nat
  <2>1. P \in SUBSET Nat
    OBVIOUS
  <2> HIDE DEF P
  <2> QED
    BY <1>1, <1>2, <2>1, SetInduction
<1>4. ChosenExists(there, N)
  <2>1. N \in P
    <3> HIDE DEF P
    <3> QED
      BY <1>3
  <2> QED
    BY <2>1
<1> DEFINE Is(f) == f = [i \in 0..N |-> IF i = 0 THEN << >> ELSE Chosen(there, i, f[i - 1])]
<1>5. PICK g : ChosenTo(there, N, g)
  BY <1>4 DEF ChosenExists
<1> DEFINE h == [i \in 0..N |-> g[i]]
<1>6. Is(h)
  <2>1. ASSUME NEW i \in 0..N
        PROVE  h[i] = IF i = 0 THEN << >> ELSE Chosen(there, i, h[i - 1])
    BY <1>5 DEF ChosenTo
  <2> QED
    BY <2>1
<1>7. Teardown(there) = (CHOOSE f : Is(f))[N]
  BY DEF Teardown, Chosen
<1>8. Is(CHOOSE f : Is(f))
  <2> HIDE DEF Is, h
  <2> QED
    BY <1>6
<1>9. ChosenTo(there, N, CHOOSE f : Is(f))
  <2>1. PICK c : c = (CHOOSE f : Is(f))
    OBVIOUS
  <2>2. Is(c)
    BY <1>8, <2>1
  <2>3. ChosenTo(there, N, c)
    BY <2>2 DEF ChosenTo
  <2> QED
    BY <2>1, <2>3
<1> QED
  BY <1>7, <1>9

(* The list holds, in the order of TeardownOrder, what is there of the     *)
(* first n queues.                                                         *)
Picked(there, n, list) ==
    /\ list \in Seq({"destroy"} \X there)
    /\ \A i \in DOMAIN list : \E a \in 1..n : list[i] = Destroy(TeardownOrder[a])
    /\ \A i, j \in DOMAIN list : i < j =>
           \E a, b \in 1..n : /\ a < b
                             /\ list[i] = Destroy(TeardownOrder[a])
                             /\ list[j] = Destroy(TeardownOrder[b])
    /\ \A a \in 1..n : TeardownOrder[a] \in there =>
           \E i \in DOMAIN list : list[i] = Destroy(TeardownOrder[a])

(* One more queue, which is there or not.                                  *)
LEMMA PickedStep ==
    ASSUME NEW there, NEW n \in Nat, NEW list, Picked(there, n, list)
    PROVE  Picked(there, n + 1, Chosen(there, n + 1, list))
<1> DEFINE q == TeardownOrder[n + 1]
<1>1. CASE q \notin there
  BY <1>1 DEF Picked, Chosen
<1>2. CASE q \in there
  <2>1. PICK L : L = Append(list, Destroy(q))
    OBVIOUS
  <2>2. list \in Seq({"destroy"} \X there) /\ Destroy(q) \in {"destroy"} \X there
    BY <1>2 DEF Picked, Destroy
  <2>3. /\ L \in Seq({"destroy"} \X there)
        /\ Len(L) = Len(list) + 1
        /\ \A i \in 1..Len(list) : L[i] = list[i]
        /\ L[Len(list) + 1] = Destroy(q)
        /\ DOMAIN list = 1..Len(list) /\ DOMAIN L = 1..(Len(list) + 1) /\ Len(list) \in Nat
    BY <2>1, <2>2, AppendProperties
  <2>4. \A i \in DOMAIN L : \E a \in 1..(n + 1) : L[i] = Destroy(TeardownOrder[a])
    BY <2>3 DEF Picked
  <2>5. ASSUME NEW i \in DOMAIN L, NEW j \in DOMAIN L, i < j
        PROVE  \E a, b \in 1..(n + 1) : /\ a < b
                                        /\ L[i] = Destroy(TeardownOrder[a])
                                        /\ L[j] = Destroy(TeardownOrder[b])
    <3>1. i \in DOMAIN list
      BY <2>3, <2>5
    <3>2. CASE j \in DOMAIN list
      BY <2>3, <2>5, <3>1, <3>2 DEF Picked
    <3>3. CASE j = Len(list) + 1
      <4>1. PICK a \in 1..n : list[i] = Destroy(TeardownOrder[a])
        BY <3>1 DEF Picked
      <4> QED
        BY <2>3, <3>1, <3>3, <4>1
    <3> QED
      BY <2>3, <3>2, <3>3
  <2>6. ASSUME NEW a \in 1..(n + 1), TeardownOrder[a] \in there
        PROVE  \E i \in DOMAIN L : L[i] = Destroy(TeardownOrder[a])
    BY <2>3, <2>6 DEF Picked
  <2>7. Picked(there, n + 1, L)
    BY <2>3, <2>4, <2>5, <2>6 DEF Picked
  <2> QED
    BY <1>2, <2>1, <2>7 DEF Chosen
<1> QED
  BY <1>1, <1>2

(* By induction, what Teardown makes of all the queues.                    *)
LEMMA TeardownPicks ==
    ASSUME NEW there, Len(TeardownOrder) \in Nat
    PROVE  Picked(there, Len(TeardownOrder), Teardown(there))
<1>1. PICK N \in Nat : N = Len(TeardownOrder)
  OBVIOUS
<1>2. PICK f : ChosenTo(there, N, f) /\ Teardown(there) = f[N]
  BY <1>1, TeardownDef
<1>3. f[0] = << >> /\ \A n \in 0..(N - 1) : f[n + 1] = Chosen(there, n + 1, f[n])
  BY <1>2 DEF ChosenTo
<1> DEFINE P == {n \in Nat : n <= N => Picked(there, n, f[n])}
<1>4. 0 \in P
  <2>1. Picked(there, 0, << >>)
    BY DEF Picked
  <2> QED
    BY <1>3, <2>1
<1>5. ASSUME NEW n \in P PROVE n + 1 \in P
  <2>1. SUFFICES ASSUME n + 1 <= N PROVE Picked(there, n + 1, f[n + 1])
    OBVIOUS
  <2>2. Picked(there, n, f[n]) /\ n \in Nat /\ f[n + 1] = Chosen(there, n + 1, f[n])
    BY <1>3, <2>1
  <2>3. Picked(there, n + 1, Chosen(there, n + 1, f[n]))
    BY <2>2, PickedStep, Zenon
  <2> QED
    BY <2>2, <2>3
<1>6. P = Nat
  <2>1. P \in SUBSET Nat
    OBVIOUS
  <2> HIDE DEF P
  <2> QED
    BY <1>4, <1>5, <2>1, SetInduction
<1>7. N \in P
  <2> HIDE DEF P
  <2> QED
    BY <1>6
<1>8. Picked(there, N, f[N])
  BY <1>7
<1> QED
  BY <1>1, <1>2, <1>8
(* What the driver's lists hold at which place.                            *)
LEMMA Kinds3 ==
    /\ Kinds("driver") = {"msg", "ev"} /\ Kinds("hub") = {"tq"} /\ Kinds("audio") = {"audio"}
    /\ \A q \in Queues : Cq(q) \in Queues /\ Cq(Cq(q)) = Cq(q)
    /\ \A t \in Threads : \A q \in Own(t) : Cq(q) \in Own(t)
    /\ \A q \in Own("driver") :
          \/ \E i \in 1..MsgQueues : q = Msg(i, "cq") \/ q = Msg(i, "sq")
          \/ q = EvCq
          \/ \E i \in 1..EvQueues : q = Ev(i)
    /\ \A i \in 1..MsgQueues : /\ Msg(i, "cq") \in Own("driver") /\ Msg(i, "sq") \in Own("driver")
                              /\ Cq(Msg(i, "sq")) = Msg(i, "cq") /\ Cq(Msg(i, "cq")) = Msg(i, "cq")
    /\ \A i \in 1..EvQueues : Ev(i) \in Own("driver") /\ Cq(Ev(i)) = EvCq
    /\ EvCq \in Own("driver") /\ Cq(EvCq) = EvCq
    /\ \A q \in Queues : \E t \in Threads : q \in Own(t)
    /\ \A t, u \in Threads : \A q \in Own(t) : q \in Own(u) => t = u
    /\ \A t \in Threads : Own(t) \subseteq Queues
<1> USE DEF Kinds, Own, AllQueues, Msg, Ev, EvCq, Tq, Audio, Cq
<1>1. /\ Kinds("driver") = {"msg", "ev"} /\ Kinds("hub") = {"tq"} /\ Kinds("audio") = {"audio"}
  OBVIOUS
<1>2. \A q \in Queues : Cq(q) \in Queues /\ Cq(Cq(q)) = Cq(q)
  OBVIOUS
<1>3. \A t \in Threads : \A q \in Own(t) : Cq(q) \in Own(t)
  BY <1>2
<1>4. \A q \in Own("driver") :
          \/ \E i \in 1..MsgQueues : q = Msg(i, "cq") \/ q = Msg(i, "sq")
          \/ q = EvCq
          \/ \E i \in 1..EvQueues : q = Ev(i)
  OBVIOUS
<1>5. \A i \in 1..MsgQueues : /\ Msg(i, "cq") \in Own("driver") /\ Msg(i, "sq") \in Own("driver")
                              /\ Cq(Msg(i, "sq")) = Msg(i, "cq") /\ Cq(Msg(i, "cq")) = Msg(i, "cq")
  OBVIOUS
<1>6. \A i \in 1..EvQueues : Ev(i) \in Own("driver") /\ Cq(Ev(i)) = EvCq
  OBVIOUS
<1>7. EvCq \in Own("driver") /\ Cq(EvCq) = EvCq
  OBVIOUS
<1>8. \A q \in Queues : \E t \in Threads : q \in Own(t)
  OBVIOUS
<1>9. \A t, u \in Threads : \A q \in Own(t) : q \in Own(u) => t = u
  OBVIOUS
<1>10. \A t \in Threads : Own(t) \subseteq Queues
  OBVIOUS
<1> HIDE DEF Kinds, Own, AllQueues, Msg, Ev, EvCq, Tq, Audio, Cq
<1> QED
  BY <1>1, <1>2, <1>3, <1>4, <1>5, <1>6, <1>7, <1>8, <1>9, <1>10

(* c is s, of k elements of S, followed by t, of l elements.               *)
Joined(c, s, k, t, l, S) ==
    /\ c \in Seq(S) /\ Len(c) = k + l
    /\ \A i \in 1..k : c[i] = s[i]
    /\ \A i \in 1..l : c[k + i] = t[i]

LEMMA CatAt ==
    ASSUME NEW S, NEW s \in Seq(S), NEW t \in Seq(S), NEW k, NEW l, NEW c,
           k = Len(s), l = Len(t), c = Cat(s, t)
    PROVE  Joined(c, s, k, t, l, S)
<1>1. k \in Nat /\ l \in Nat
  OBVIOUS
<1>2. /\ c \in Seq(S) /\ Len(c) = k + l
      /\ \A i \in 1..(k + l) : c[i] = IF i <= k THEN s[i] ELSE t[i - k]
  BY ConcatProperties DEF Cat
<1>3. \A i \in 1..k : i \in 1..(k + l) /\ i <= k
  BY <1>1
<1>4. \A i \in 1..l : k + i \in 1..(k + l) /\ ~(k + i <= k) /\ k + i - k = i
  BY <1>1
<1>5. \A i \in 1..k : c[i] = s[i]
  BY <1>2, <1>3
<1>6. ASSUME NEW i \in 1..l PROVE c[k + i] = t[i]
  <2>1. PICK p : p = k + i
    OBVIOUS
  <2>2. p \in 1..(k + l) /\ ~(p <= k) /\ p - k = i
    BY <1>4, <2>1
  <2>3. c[p] = t[p - k]
    BY <1>2, <2>2
  <2> QED
    BY <2>1, <2>2, <2>3
<1> QED
  BY <1>2, <1>5, <1>6 DEF Joined

(* TeardownOrder, place by place.                                          *)
LEMMA OrderAt ==
    /\ TeardownOrder \in Seq(Own("driver"))
    /\ Len(TeardownOrder) = EvQueues + 1 + 2 * MsgQueues
    /\ \A i \in 1..EvQueues : TeardownOrder[i] = Ev(i)
    /\ TeardownOrder[EvQueues + 1] = EvCq
    /\ \A i \in 1..MsgQueues : /\ TeardownOrder[EvQueues + 1 + (2 * (i - 1) + 1)] = Msg(i, "sq")
                              /\ TeardownOrder[EvQueues + 1 + (2 * (i - 1) + 2)] = Msg(i, "cq")
<1>1. PICK S : S = Own("driver")
  OBVIOUS
<1>2. PICK A \in Seq(S) : A = [i \in 1..EvQueues |-> Ev(i)]
  <2>1. [i \in 1..EvQueues |-> Ev(i)] \in Seq(S)
    BY <1>1, Kinds3
  <2> QED
    BY <2>1
<1>3. Len(A) = EvQueues /\ \A i \in 1..EvQueues : A[i] = Ev(i)
  BY <1>2
<1>4. PICK B : B = [i \in 1..MsgQueues |-> <<Msg(i, "sq"), Msg(i, "cq")>>]
  OBVIOUS
<1>5. /\ B \in [1..MsgQueues -> Seq(S)]
      /\ \A i \in 1..MsgQueues : Len(B[i]) = 2 /\ B[i][1] = Msg(i, "sq") /\ B[i][2] = Msg(i, "cq")
  BY <1>1, <1>4, Kinds3
<1>6. PICK F : F = FlattenSeq(B)
  OBVIOUS
<1>7. Blocks(B, S, 2, MsgQueues, F)
  BY <1>5, <1>6, FlattenBlocks
<1>8. /\ F \in Seq(S) /\ Len(F) = 2 * MsgQueues
      /\ \A i \in 1..MsgQueues : /\ F[2 * (i - 1) + 1] = Msg(i, "sq")
                                /\ F[2 * (i - 1) + 2] = Msg(i, "cq")
  BY <1>5, <1>7 DEF Blocks
<1>9. PICK c \in Seq(S) : c = <<EvCq>> /\ Len(c) = 1 /\ c[1] = EvCq
  <2>1. <<EvCq>> \in Seq(S) /\ Len(<<EvCq>>) = 1 /\ <<EvCq>>[1] = EvCq
    BY <1>1, Kinds3
  <2> QED
    BY <2>1
<1>10. TeardownOrder = Cat(Cat(A, c), F)
  BY <1>2, <1>4, <1>6, <1>9 DEF TeardownOrder, Cat
<1>11. PICK d : d = Cat(A, c)
  OBVIOUS
<1>12. /\ d \in Seq(S) /\ Len(d) = EvQueues + 1
       /\ \A i \in 1..EvQueues : d[i] = A[i]
       /\ \A i \in 1..1 : d[EvQueues + i] = c[i]
  <2>1. Joined(d, A, EvQueues, c, 1, S)
    BY <1>3, <1>9, <1>11, CatAt
  <2> QED
    BY <2>1 DEF Joined
<1>13. PICK e \in Nat : e = EvQueues + 1
  OBVIOUS
<1>14. /\ TeardownOrder \in Seq(S) /\ Len(TeardownOrder) = e + 2 * MsgQueues
       /\ \A i \in 1..e : TeardownOrder[i] = d[i]
       /\ \A i \in 1..(2 * MsgQueues) : TeardownOrder[e + i] = F[i]
  <2>1. d \in Seq(S) /\ Len(d) = e
    BY <1>12, <1>13
  <2>2. Joined(TeardownOrder, d, e, F, 2 * MsgQueues, S)
    BY <1>8, <1>10, <1>11, <2>1, CatAt
  <2> QED
    BY <2>2 DEF Joined
<1>15. \A i \in 1..MsgQueues : /\ 2 * (i - 1) + 1 \in 1..(2 * MsgQueues)
                              /\ 2 * (i - 1) + 2 \in 1..(2 * MsgQueues)
  OBVIOUS
<1> QED
  BY <1>1, <1>3, <1>8, <1>9, <1>12, <1>13, <1>14, <1>15

(* Different queues have different names, and so have operations on them.  *)
LEMMA Names ==
    /\ \A i, j : Ev(i) # EvCq \/ i = 0
    /\ \A i, j : Ev(i) = Ev(j) => i = j
    /\ \A i, j, x : Ev(i) # Msg(j, x) /\ EvCq # Msg(j, x)
    /\ \A i, j, x, y : Msg(i, x) = Msg(j, y) => i = j /\ x = y
    /\ \A i : Ev(i) # EvCq
    /\ \A q, r : Destroy(q) = Destroy(r) => q = r
    /\ \A q, r : Create(q) = Create(r) => q = r
BY DEF Ev, EvCq, Msg, Destroy, Create

(* And every place of it.                                                  *)
LEMMA OrderPlaces ==
    ASSUME NEW a \in 1..Len(TeardownOrder)
    PROVE  \/ a \in 1..EvQueues /\ TeardownOrder[a] = Ev(a)
           \/ a = EvQueues + 1 /\ TeardownOrder[a] = EvCq
           \/ \E i \in 1..MsgQueues : /\ a = EvQueues + 1 + (2 * (i - 1) + 1)
                                      /\ TeardownOrder[a] = Msg(i, "sq")
           \/ \E i \in 1..MsgQueues : /\ a = EvQueues + 1 + (2 * (i - 1) + 2)
                                      /\ TeardownOrder[a] = Msg(i, "cq")
<1>1. CASE a <= EvQueues
  BY <1>1, OrderAt
<1>2. CASE a = EvQueues + 1
  BY <1>2, OrderAt
<1>3. CASE a > EvQueues + 1
  <2>1. PICK p \in 1..(2 * MsgQueues) : a = EvQueues + 1 + p
    <3>1. a - (EvQueues + 1) \in 1..(2 * MsgQueues) /\ a = EvQueues + 1 + (a - (EvQueues + 1))
      BY <1>3, OrderAt
    <3> QED
      BY <3>1
  <2>2. \E i \in 1..MsgQueues : p = 2 * (i - 1) + 1 \/ p = 2 * (i - 1) + 2
    <3>1. CASE p % 2 = 1
      <4>1. PICK i \in 1..MsgQueues : i = (p - 1) \div 2 + 1
        OBVIOUS
      <4>2. p = 2 * (i - 1) + 1
        BY <3>1, <4>1
      <4> QED
        BY <4>2
    <3>2. CASE p % 2 = 0
      <4>1. PICK i \in 1..MsgQueues : i = (p - 1) \div 2 + 1
        OBVIOUS
      <4>2. p = 2 * (i - 1) + 2
        BY <3>2, <4>1
      <4> QED
        BY <4>2
    <3> QED
      BY <3>1, <3>2
  <2>3. PICK i \in 1..MsgQueues : p = 2 * (i - 1) + 1 \/ p = 2 * (i - 1) + 2
    BY <2>2
  <2> QED
    BY <2>1, <2>3, OrderAt
<1> QED
  BY <1>1, <1>2, <1>3, OrderAt

(* Everything the driver creates is in TeardownOrder, once, and completion *)
(* queues after those that need them.                                      *)
LEMMA OrderFacts ==
    /\ \A a \in 1..Len(TeardownOrder) : TeardownOrder[a] \in Own("driver")
    /\ \A q \in Own("driver") : \E a \in 1..Len(TeardownOrder) : TeardownOrder[a] = q
    /\ \A a, b \in 1..Len(TeardownOrder) : TeardownOrder[a] = TeardownOrder[b] => a = b
    /\ \A a, b \in 1..Len(TeardownOrder) :
          TeardownOrder[a] = Cq(TeardownOrder[b]) /\ a # b => b < a
<1>1. \A a \in 1..Len(TeardownOrder) : TeardownOrder[a] \in Own("driver")
  BY OrderAt
<1>2. ASSUME NEW q \in Own("driver")
      PROVE  \E a \in 1..Len(TeardownOrder) : TeardownOrder[a] = q
  <2>1. CASE \E i \in 1..EvQueues : q = Ev(i)
    BY <2>1, OrderAt
  <2>2. CASE q = EvCq
    BY <2>2, OrderAt
  <2>3. ASSUME NEW i \in 1..MsgQueues, q = Msg(i, "sq")
        PROVE  \E a \in 1..Len(TeardownOrder) : TeardownOrder[a] = q
    <3>1. EvQueues + 1 + (2 * (i - 1) + 1) \in 1..Len(TeardownOrder)
      BY OrderAt
    <3> QED
      BY <2>3, <3>1, OrderAt
  <2>4. ASSUME NEW i \in 1..MsgQueues, q = Msg(i, "cq")
        PROVE  \E a \in 1..Len(TeardownOrder) : TeardownOrder[a] = q
    <3>1. EvQueues + 1 + (2 * (i - 1) + 2) \in 1..Len(TeardownOrder)
      BY OrderAt
    <3> QED
      BY <2>4, <3>1, OrderAt
  <2> QED
    BY <2>1, <2>2, <2>3, <2>4, Kinds3
<1>3. ASSUME NEW a \in 1..Len(TeardownOrder), NEW b \in 1..Len(TeardownOrder),
             TeardownOrder[a] = TeardownOrder[b]
      PROVE  a = b
  BY <1>3, OrderPlaces, Names
<1>4. ASSUME NEW a \in 1..Len(TeardownOrder), NEW b \in 1..Len(TeardownOrder),
             TeardownOrder[a] = Cq(TeardownOrder[b]), a # b
      PROVE  b < a
  <2>1. CASE b \in 1..EvQueues /\ TeardownOrder[b] = Ev(b)
    <3>1. TeardownOrder[a] = EvCq
      BY <1>4, <2>1, Kinds3
    <3> QED
      BY <2>1, <3>1, OrderPlaces, Names
  <2>2. CASE TeardownOrder[b] = EvCq
    <3>1. TeardownOrder[a] = TeardownOrder[b]
      BY <1>4, <2>2, Kinds3
    <3> QED
      BY <1>3, <1>4, <3>1
  <2>3. ASSUME NEW i \in 1..MsgQueues, b = EvQueues + 1 + (2 * (i - 1) + 1),
               TeardownOrder[b] = Msg(i, "sq")
        PROVE  b < a
    <3>1. TeardownOrder[a] = Msg(i, "cq")
      BY <1>4, <2>3, Kinds3
    <3> QED
      BY <2>3, <3>1, OrderPlaces, Names
  <2>4. ASSUME NEW i \in 1..MsgQueues, TeardownOrder[b] = Msg(i, "cq")
        PROVE  b < a
    <3>1. TeardownOrder[a] = TeardownOrder[b]
      BY <1>4, <2>4, Kinds3
    <3> QED
      BY <1>3, <1>4, <3>1
  <2> QED
    BY <2>1, <2>2, <2>3, <2>4, OrderPlaces
<1> QED
  BY <1>1, <1>2, <1>3, <1>4

(* The destructions of what is there: each queue once, and no completion   *)
(* queue before one that needs it.                                         *)
LEMMA TeardownFacts ==
    ASSUME NEW there
    PROVE  Destroys(Teardown(there), there \cap Own("driver"))
<1>1. PICK L : L = Teardown(there)
  OBVIOUS
<1>2. PICK N \in Nat : N = Len(TeardownOrder)
  BY OrderAt
<1>3. Picked(there, N, L)
  BY <1>1, <1>2, TeardownPicks
<1>4. L \in Seq({"destroy"} \X there) /\ DOMAIN L = 1..Len(L) /\ Len(L) \in Nat
  BY <1>3 DEF Picked
<1>5. ASSUME NEW i \in DOMAIN L
      PROVE  L[i] \in {"destroy"} \X (there \cap Own("driver"))
  <2>1. PICK a \in 1..N : L[i] = Destroy(TeardownOrder[a])
    BY <1>3 DEF Picked
  <2>2. L[i] \in {"destroy"} \X there
    BY <1>4
  <2>3. TeardownOrder[a] \in Own("driver")
    BY <1>2, OrderFacts
  <2> QED
    BY <2>1, <2>2, <2>3 DEF Destroy
<1>6. L \in Seq({"destroy"} \X (there \cap Own("driver")))
  BY <1>4, <1>5
<1>7. ASSUME NEW i \in DOMAIN L, NEW j \in DOMAIN L, i < j
      PROVE  \E a, b \in 1..N : /\ a < b
                                /\ L[i] = Destroy(TeardownOrder[a])
                                /\ L[j] = Destroy(TeardownOrder[b])
  BY <1>3, <1>7 DEF Picked
<1>8. ASSUME NEW i \in DOMAIN L, NEW j \in DOMAIN L, L[i] = L[j], i < j
      PROVE  FALSE
  <2>1. PICK a \in 1..N, b \in 1..N : /\ a < b
                                      /\ L[i] = Destroy(TeardownOrder[a])
                                      /\ L[j] = Destroy(TeardownOrder[b])
    BY <1>7, <1>8
  <2>2. TeardownOrder[a] = TeardownOrder[b]
    BY <1>8, <2>1, Names
  <2> QED
    BY <1>2, <2>1, <2>2, OrderFacts
<1>9. \A i, j \in DOMAIN L : L[i] = L[j] => i = j
  BY <1>4, <1>8
<1>10. ASSUME NEW q \in there \cap Own("driver")
       PROVE  \E i \in DOMAIN L : L[i] = Destroy(q)
  <2>1. PICK a \in 1..N : TeardownOrder[a] = q
    BY <1>2, OrderFacts
  <2> QED
    BY <1>3, <2>1 DEF Picked
<1>11. ASSUME NEW i \in DOMAIN L, NEW q \in there \cap Own("driver"),
              L[i] = Destroy(Cq(q)), q # Cq(q)
       PROVE  \E j \in 1..(i - 1) : L[j] = Destroy(q)
  <2>1. PICK j \in DOMAIN L : L[j] = Destroy(q)
    BY <1>10
  <2>2. i # j
    BY <1>11, <2>1, Names
  <2>3. ASSUME i < j PROVE FALSE
    <3>1. PICK a \in 1..N, b \in 1..N : /\ a < b
                                        /\ L[i] = Destroy(TeardownOrder[a])
                                        /\ L[j] = Destroy(TeardownOrder[b])
      BY <1>7, <2>3
    <3>2. TeardownOrder[a] = Cq(TeardownOrder[b])
      BY <1>11, <2>1, <3>1, Names
    <3> QED
      BY <1>2, <3>1, <3>2, OrderFacts
  <2> QED
    BY <1>4, <2>1, <2>2, <2>3
<1> QED
  BY <1>1, <1>6, <1>9, <1>10, <1>11 DEF Destroys, CqsLast

(* A part of what is there goes first, if it leaves no queue behind whose  *)
(* completion queue it takes.                                              *)
LEMMA TwoTeardowns ==
    ASSUME NEW there, NEW part, part \subseteq there,
           \A q \in (there \ part) \cap Own("driver") : Cq(q) \notin part
    PROVE  Destroys(Teardown(part) \o Teardown(there \ part), there \cap Own("driver"))
<1> DEFINE P == part \cap Own("driver")
           R == (there \ part) \cap Own("driver")
           D == there \cap Own("driver")
<1>1. PICK K : K = Teardown(part)
  OBVIOUS
<1>2. PICK L : L = Teardown(there \ part)
  OBVIOUS
<1>3. Destroys(K, P) /\ Destroys(L, R)
  BY <1>1, <1>2, TeardownFacts
<1>4. K \in Seq({"destroy"} \X D) /\ L \in Seq({"destroy"} \X D)
  <2>1. K \in Seq({"destroy"} \X P) /\ L \in Seq({"destroy"} \X R)
    BY <1>3 DEF Destroys
  <2> QED
    BY <2>1
<1>5. PICK c : c = K \o L
  OBVIOUS
<1>6. PICK k \in Nat, l \in Nat : k = Len(K) /\ l = Len(L) /\ DOMAIN K = 1..k /\ DOMAIN L = 1..l
  BY <1>4
<1>7. /\ c \in Seq({"destroy"} \X D) /\ DOMAIN c = 1..(k + l)
      /\ \A i \in 1..k : c[i] = K[i]
      /\ \A i \in 1..l : c[k + i] = L[i]
  <2> HIDE DEF D
  <2>1. /\ c \in Seq({"destroy"} \X D) /\ Len(c) = k + l
        /\ \A i \in 1..(k + l) : c[i] = IF i <= k THEN K[i] ELSE L[i - k]
    BY <1>4, <1>5, <1>6, ConcatProperties
  <2>2. \A i \in 1..l : k + i \in 1..(k + l) /\ ~(k + i <= k) /\ k + i - k = i
    OBVIOUS
  <2>3. \A i \in 1..k : i \in 1..(k + l) /\ i <= k
    OBVIOUS
  <2> QED
    BY <2>1, <2>2, <2>3
<1>8. \A i \in 1..k : \E q \in P : K[i] = Destroy(q)
  BY <1>3, <1>6 DEF Destroys, Destroy
<1>9. \A i \in 1..l : \E q \in R : L[i] = Destroy(q)
  BY <1>3, <1>6 DEF Destroys, Destroy
<1>10. ASSUME NEW i \in 1..(k + l) PROVE i \in 1..k \/ \E m \in 1..l : i = k + m
  <2>1. CASE i > k
    <3>1. i - k \in 1..l /\ i = k + (i - k)
      BY <2>1
    <3> QED
      BY <3>1
  <2> QED
    BY <2>1
<1>11. ASSUME NEW i \in 1..(k + l), NEW j \in 1..(k + l), c[i] = c[j]
       PROVE  i = j
  <2>1. \A m \in 1..k, n \in 1..l : K[m] # L[n]
    BY <1>8, <1>9, Names
  <2>2. CASE i \in 1..k /\ j \in 1..k
    <3>1. K[i] = K[j]
      BY <1>7, <1>11, <2>2
    <3> QED
      BY <1>3, <1>6, <2>2, <3>1 DEF Destroys
  <2>3. ASSUME NEW m \in 1..k, NEW n \in 1..l
        PROVE  c[m] # c[k + n]
    BY <1>7, <2>1
  <2>4. CASE ~(i \in 1..k <=> j \in 1..k)
    <3> HIDE DEF P, R, D
    <3> QED
      BY <1>10, <1>11, <2>3, <2>4
  <2>5. ASSUME NEW m \in 1..l, NEW n \in 1..l, i = k + m, j = k + n
        PROVE  i = j
    <3>1. L[m] = L[n]
      BY <1>7, <1>11, <2>5
    <3>2. m = n
      BY <1>3, <1>6, <3>1 DEF Destroys
    <3> QED
      BY <2>5, <3>2
  <2> QED
    BY <1>10, <2>2, <2>3, <2>4, <2>5
<1>12. ASSUME NEW q \in D
       PROVE  \E i \in 1..(k + l) : c[i] = Destroy(q)
  <2>1. CASE q \in part
    <3>1. PICK i \in 1..k : K[i] = Destroy(q)
      BY <1>3, <1>6, <2>1 DEF Destroys
    <3> QED
      BY <1>7, <3>1
  <2>2. CASE q \notin part
    <3>1. PICK i \in 1..l : L[i] = Destroy(q)
      BY <1>3, <1>6, <2>2 DEF Destroys
    <3> QED
      BY <1>7, <3>1
  <2> QED
    BY <2>1, <2>2
<1>13. ASSUME NEW i \in 1..(k + l), NEW q \in D, c[i] = Destroy(Cq(q)), q # Cq(q)
       PROVE  \E j \in 1..(i - 1) : c[j] = Destroy(q)
  <2>1. CASE i \in 1..k
    <3>1. Cq(q) \in part /\ K[i] = Destroy(Cq(q))
      BY <1>7, <1>8, <1>13, <2>1, Names
    <3>2. q \in P
      BY <3>1
    <3>3. PICK j \in 1..(i - 1) : K[j] = Destroy(q)
      BY <1>3, <1>6, <1>13, <2>1, <3>1, <3>2 DEF Destroys, CqsLast
    <3> QED
      BY <1>7, <2>1, <3>3
  <2>2. ASSUME NEW m \in 1..l, i = k + m
        PROVE  \E j \in 1..(i - 1) : c[j] = Destroy(q)
    <3>1. CASE q \in part
      <4>1. PICK j \in 1..k : K[j] = Destroy(q)
        BY <1>3, <1>6, <3>1 DEF Destroys
      <4> QED
        BY <1>7, <2>2, <4>1
    <3>2. CASE q \notin part
      <4>1. L[m] = Destroy(Cq(q)) /\ q \in R
        BY <1>7, <1>13, <2>2, <3>2
      <4>2. PICK j \in 1..(m - 1) : L[j] = Destroy(q)
        BY <1>3, <1>6, <1>13, <4>1 DEF Destroys, CqsLast
      <4>3. k + j \in 1..(i - 1) /\ j \in 1..l
        BY <2>2
      <4> QED
        BY <1>7, <4>2, <4>3
    <3> QED
      BY <3>1, <3>2
  <2> QED
    BY <1>10, <2>1, <2>2
<1>14. Destroys(c, D)
  BY <1>7, <1>11, <1>12, <1>13 DEF Destroys, CqsLast
<1> QED
  BY <1>1, <1>2, <1>5, <1>14

(* CreateVhci, place by place.                                             *)
LEMMA CreateAt ==
    /\ CreateVhci \in Seq(Ops("driver"))
    /\ Len(CreateVhci) = 3 * MsgQueues + 1 + 2 * EvQueues + 1
    /\ \A i \in 1..MsgQueues : /\ CreateVhci[3 * (i - 1) + 1] = Create(Msg(i, "cq"))
                              /\ CreateVhci[3 * (i - 1) + 2] = Create(Msg(i, "sq"))
                              /\ CreateVhci[3 * (i - 1) + 3] = Dma(Msg(i, "sq"))
    /\ CreateVhci[3 * MsgQueues + 1] = Create(EvCq)
    /\ \A i \in 1..EvQueues :
          /\ CreateVhci[3 * MsgQueues + 1 + (2 * (i - 1) + 1)] = Create(Ev(i))
          /\ CreateVhci[3 * MsgQueues + 1 + (2 * (i - 1) + 2)] = Dma(Ev(i))
    /\ CreateVhci[3 * MsgQueues + 1 + 2 * EvQueues + 1] = Add
<1>1. PICK S : S = Ops("driver")
  OBVIOUS
<1>2. \A q \in Own("driver") : Create(q) \in S /\ Dma(q) \in S
  BY <1>1 DEF Ops, Create, Dma
<1>3. Add \in S
  BY <1>1 DEF Ops
<1>4. PICK A : A = [i \in 1..MsgQueues |->
                      <<Create(Msg(i, "cq")), Create(Msg(i, "sq")), Dma(Msg(i, "sq"))>>]
  OBVIOUS
<1>5. /\ A \in [1..MsgQueues -> Seq(S)]
      /\ \A i \in 1..MsgQueues : /\ Len(A[i]) = 3
                                /\ A[i][1] = Create(Msg(i, "cq"))
                                /\ A[i][2] = Create(Msg(i, "sq"))
                                /\ A[i][3] = Dma(Msg(i, "sq"))
  BY <1>2, <1>4, Kinds3
<1>6. PICK F : F = FlattenSeq(A)
  OBVIOUS
<1>7. /\ F \in Seq(S) /\ Len(F) = 3 * MsgQueues
      /\ \A i \in 1..MsgQueues : /\ F[3 * (i - 1) + 1] = Create(Msg(i, "cq"))
                                /\ F[3 * (i - 1) + 2] = Create(Msg(i, "sq"))
                                /\ F[3 * (i - 1) + 3] = Dma(Msg(i, "sq"))
  <2>1. Blocks(A, S, 3, MsgQueues, F)
    BY <1>5, <1>6, FlattenBlocks
  <2>2. /\ F \in Seq(S) /\ Len(F) = 3 * MsgQueues
        /\ \A i \in 1..MsgQueues, m \in 1..3 : F[3 * (i - 1) + m] = A[i][m]
    BY <2>1 DEF Blocks
  <2>3. 1 \in 1..3 /\ 2 \in 1..3 /\ 3 \in 1..3
    OBVIOUS
  <2> QED
    BY <1>5, <2>2, <2>3
<1>8. PICK B : B = [i \in 1..EvQueues |-> <<Create(Ev(i)), Dma(Ev(i))>>]
  OBVIOUS
<1>9. /\ B \in [1..EvQueues -> Seq(S)]
      /\ \A i \in 1..EvQueues : Len(B[i]) = 2 /\ B[i][1] = Create(Ev(i)) /\ B[i][2] = Dma(Ev(i))
  BY <1>2, <1>8, Kinds3
<1>10. PICK G : G = FlattenSeq(B)
  OBVIOUS
<1>11. /\ G \in Seq(S) /\ Len(G) = 2 * EvQueues
       /\ \A i \in 1..EvQueues : /\ G[2 * (i - 1) + 1] = Create(Ev(i))
                                /\ G[2 * (i - 1) + 2] = Dma(Ev(i))
  <2>1. Blocks(B, S, 2, EvQueues, G)
    BY <1>9, <1>10, FlattenBlocks
  <2>2. /\ G \in Seq(S) /\ Len(G) = 2 * EvQueues
        /\ \A i \in 1..EvQueues, m \in 1..2 : G[2 * (i - 1) + m] = B[i][m]
    BY <2>1 DEF Blocks
  <2>3. 1 \in 1..2 /\ 2 \in 1..2
    OBVIOUS
  <2> QED
    BY <1>9, <2>2, <2>3
<1>12. PICK c \in Seq(S) : c = <<Create(EvCq)>> /\ Len(c) = 1 /\ c[1] = Create(EvCq)
  <2>1. <<Create(EvCq)>> \in Seq(S) /\ Len(<<Create(EvCq)>>) = 1
        /\ <<Create(EvCq)>>[1] = Create(EvCq)
    BY <1>2, Kinds3
  <2> QED
    BY <2>1
<1>13. PICK d \in Seq(S) : d = <<Add>> /\ Len(d) = 1 /\ d[1] = Add
  <2>1. <<Add>> \in Seq(S) /\ Len(<<Add>>) = 1 /\ <<Add>>[1] = Add
    BY <1>3
  <2> QED
    BY <2>1
<1>14. CreateVhci = Cat(Cat(Cat(F, c), G), d)
  BY <1>4, <1>6, <1>8, <1>10, <1>12, <1>13 DEF CreateVhci, Cat
<1>15. PICK x : x = Cat(F, c)
  OBVIOUS
<1>16. PICK y : y = Cat(x, G)
  OBVIOUS
<1>17. PICK k \in Nat : k = 3 * MsgQueues
  OBVIOUS
<1>18. PICK l \in Nat : l = 2 * EvQueues
  OBVIOUS
<1>19. /\ x \in Seq(S) /\ Len(x) = k + 1
       /\ \A i \in 1..k : x[i] = F[i]
       /\ x[k + 1] = Create(EvCq)
  <2>1. Joined(x, F, k, c, 1, S)
    BY <1>7, <1>12, <1>15, <1>17, CatAt
  <2> QED
    BY <1>12, <2>1 DEF Joined
<1>20. /\ y \in Seq(S) /\ Len(y) = k + 1 + l
       /\ \A i \in 1..(k + 1) : y[i] = x[i]
       /\ \A i \in 1..l : y[k + 1 + i] = G[i]
  <2>1. Joined(y, x, k + 1, G, l, S)
    BY <1>11, <1>16, <1>18, <1>19, CatAt
  <2> QED
    BY <2>1 DEF Joined
<1>21. /\ CreateVhci \in Seq(S) /\ Len(CreateVhci) = k + 1 + l + 1
       /\ \A i \in 1..(k + 1 + l) : CreateVhci[i] = y[i]
       /\ CreateVhci[k + 1 + l + 1] = Add
  <2>1. Joined(CreateVhci, y, k + 1 + l, d, 1, S)
    BY <1>13, <1>14, <1>15, <1>16, <1>20, CatAt
  <2> QED
    BY <1>13, <2>1 DEF Joined
<1>22. \A i \in 1..k : CreateVhci[i] = F[i]
  BY <1>19, <1>20, <1>21
<1>23. CreateVhci[k + 1] = Create(EvCq)
  BY <1>19, <1>20, <1>21
<1>24. \A i \in 1..l : CreateVhci[k + 1 + i] = G[i]
  BY <1>20, <1>21
<1>25. \A i \in 1..MsgQueues : /\ 3 * (i - 1) + 1 \in 1..k
                              /\ 3 * (i - 1) + 2 \in 1..k
                              /\ 3 * (i - 1) + 3 \in 1..k
  BY <1>17
<1>26. \A i \in 1..EvQueues : 2 * (i - 1) + 1 \in 1..l /\ 2 * (i - 1) + 2 \in 1..l
  BY <1>18
<1>27. \A i \in 1..MsgQueues : /\ CreateVhci[3 * (i - 1) + 1] = Create(Msg(i, "cq"))
                              /\ CreateVhci[3 * (i - 1) + 2] = Create(Msg(i, "sq"))
                              /\ CreateVhci[3 * (i - 1) + 3] = Dma(Msg(i, "sq"))
  BY <1>7, <1>22, <1>25
<1>28. \A i \in 1..EvQueues : /\ CreateVhci[k + 1 + (2 * (i - 1) + 1)] = Create(Ev(i))
                             /\ CreateVhci[k + 1 + (2 * (i - 1) + 2)] = Dma(Ev(i))
  BY <1>11, <1>24, <1>26
<1> QED
  BY <1>1, <1>17, <1>18, <1>21, <1>23, <1>27, <1>28

(* And every place of it.                                                  *)
LEMMA CreatePlaces ==
    ASSUME NEW a \in 1..Len(CreateVhci)
    PROVE  \/ \E i \in 1..MsgQueues :
                 \/ a = 3 * (i - 1) + 1 /\ CreateVhci[a] = Create(Msg(i, "cq"))
                 \/ a = 3 * (i - 1) + 2 /\ CreateVhci[a] = Create(Msg(i, "sq"))
                 \/ a = 3 * (i - 1) + 3 /\ CreateVhci[a] = Dma(Msg(i, "sq"))
           \/ a = 3 * MsgQueues + 1 /\ CreateVhci[a] = Create(EvCq)
           \/ \E i \in 1..EvQueues :
                 \/ a = 3 * MsgQueues + 1 + (2 * (i - 1) + 1) /\ CreateVhci[a] = Create(Ev(i))
                 \/ a = 3 * MsgQueues + 1 + (2 * (i - 1) + 2) /\ CreateVhci[a] = Dma(Ev(i))
           \/ a = Len(CreateVhci) /\ CreateVhci[a] = Add
<1>1. CASE a <= 3 * MsgQueues
  <2>1. PICK i \in 1..MsgQueues : i = (a - 1) \div 3 + 1
    BY <1>1
  <2>2. a = 3 * (i - 1) + 1 \/ a = 3 * (i - 1) + 2 \/ a = 3 * (i - 1) + 3
    BY <1>1, <2>1
  <2> QED
    BY <2>2, CreateAt
<1>2. CASE a = 3 * MsgQueues + 1
  BY <1>2, CreateAt
<1>3. CASE a > 3 * MsgQueues + 1 /\ a < Len(CreateVhci)
  <2>1. PICK p \in 1..(2 * EvQueues) : a = 3 * MsgQueues + 1 + p
    <3>1. /\ a - (3 * MsgQueues + 1) \in 1..(2 * EvQueues)
          /\ a = 3 * MsgQueues + 1 + (a - (3 * MsgQueues + 1))
      BY <1>3, CreateAt
    <3> QED
      BY <3>1
  <2>2. PICK i \in 1..EvQueues : i = (p - 1) \div 2 + 1
    OBVIOUS
  <2>3. p = 2 * (i - 1) + 1 \/ p = 2 * (i - 1) + 2
    BY <2>2
  <2> QED
    BY <2>1, <2>3, CreateAt
<1>4. CASE a = Len(CreateVhci)
  BY <1>4, CreateAt
<1> QED
  BY <1>1, <1>2, <1>3, <1>4, CreateAt

(* Different operations are different steps of a list.                     *)
LEMMA OpNames ==
    /\ \A q, r : Create(q) # Dma(r) /\ Create(q) # Add /\ Dma(q) # Add
    /\ \A q, r : Create(q) # Destroy(r) /\ Dma(q) # Destroy(r) /\ Destroy(q) # Add
    /\ \A q, r : Dma(q) = Dma(r) => q = r
BY DEF Create, Dma, Add, Destroy, Hcd

(* What the list of the creations is: each queue once, its completion queue *)
(* before it, and the host controller last.                                *)
LEMMA CreateFacts ==
    /\ CreateVhci \in Seq(Ops("driver"))
    /\ Len(CreateVhci) \in Nat \ {0}
    /\ \A a \in 1..Len(CreateVhci) : CreateVhci[a] = Add <=> a = Len(CreateVhci)
    /\ \A a \in 1..Len(CreateVhci) :
          CreateVhci[a] = Add \/ \E q \in Own("driver") :
             CreateVhci[a] = Create(q) \/ (CreateVhci[a] = Dma(q) /\ q # EvCq)
    /\ \A q \in Own("driver") : \E a \in 1..Len(CreateVhci) : CreateVhci[a] = Create(q)
    /\ \A a, b \in 1..Len(CreateVhci) : CreateVhci[a] = CreateVhci[b] => a = b
    /\ \A a \in 1..Len(CreateVhci) : \A q \in Own("driver") :
          CreateVhci[a] = Create(q) /\ q # Cq(q)
             => \E b \in 1..(a - 1) : CreateVhci[b] = Create(Cq(q))
<1>1. CreateVhci \in Seq(Ops("driver")) /\ Len(CreateVhci) \in Nat \ {0}
  BY CreateAt
<1>2. \A a \in 1..Len(CreateVhci) : CreateVhci[a] = Add <=> a = Len(CreateVhci)
  BY CreateAt, CreatePlaces, OpNames
<1>3. ASSUME NEW a \in 1..Len(CreateVhci)
      PROVE  CreateVhci[a] = Add \/ \E q \in Own("driver") :
                CreateVhci[a] = Create(q) \/ (CreateVhci[a] = Dma(q) /\ q # EvCq)
  BY CreatePlaces, Kinds3, Names
<1>4. ASSUME NEW q \in Own("driver")
      PROVE  \E a \in 1..Len(CreateVhci) : CreateVhci[a] = Create(q)
  <2>1. ASSUME NEW i \in 1..EvQueues, q = Ev(i)
        PROVE  \E a \in 1..Len(CreateVhci) : CreateVhci[a] = Create(q)
    <3>1. 3 * MsgQueues + 1 + (2 * (i - 1) + 1) \in 1..Len(CreateVhci)
      BY CreateAt
    <3> QED
      BY <2>1, <3>1, CreateAt
  <2>2. CASE q = EvCq
    <3>1. 3 * MsgQueues + 1 \in 1..Len(CreateVhci)
      BY CreateAt
    <3> QED
      BY <2>2, <3>1, CreateAt
  <2>3. ASSUME NEW i \in 1..MsgQueues, q = Msg(i, "cq")
        PROVE  \E a \in 1..Len(CreateVhci) : CreateVhci[a] = Create(q)
    <3>1. 3 * (i - 1) + 1 \in 1..Len(CreateVhci)
      BY CreateAt
    <3> QED
      BY <2>3, <3>1, CreateAt
  <2>4. ASSUME NEW i \in 1..MsgQueues, q = Msg(i, "sq")
        PROVE  \E a \in 1..Len(CreateVhci) : CreateVhci[a] = Create(q)
    <3>1. 3 * (i - 1) + 2 \in 1..Len(CreateVhci)
      BY CreateAt
    <3> QED
      BY <2>4, <3>1, CreateAt
  <2> QED
    BY <2>1, <2>2, <2>3, <2>4, Kinds3
<1>5. ASSUME NEW a \in 1..Len(CreateVhci), NEW b \in 1..Len(CreateVhci),
             CreateVhci[a] = CreateVhci[b]
      PROVE  a = b
  <2>1. ASSUME NEW i \in 1..MsgQueues, a = 3 * (i - 1) + 1, CreateVhci[a] = Create(Msg(i, "cq"))
        PROVE  a = b
    BY <1>5, <2>1, CreatePlaces, Names, OpNames
  <2>2. ASSUME NEW i \in 1..MsgQueues, a = 3 * (i - 1) + 2, CreateVhci[a] = Create(Msg(i, "sq"))
        PROVE  a = b
    BY <1>5, <2>2, CreatePlaces, Names, OpNames
  <2>3. ASSUME NEW i \in 1..MsgQueues, a = 3 * (i - 1) + 3, CreateVhci[a] = Dma(Msg(i, "sq"))
        PROVE  a = b
    BY <1>5, <2>3, CreatePlaces, Names, OpNames
  <2>4. ASSUME a = 3 * MsgQueues + 1, CreateVhci[a] = Create(EvCq)
        PROVE  a = b
    BY <1>5, <2>4, CreatePlaces, Names, OpNames
  <2>5. ASSUME NEW i \in 1..EvQueues, a = 3 * MsgQueues + 1 + (2 * (i - 1) + 1),
             CreateVhci[a] = Create(Ev(i))
        PROVE  a = b
    BY <1>5, <2>5, CreatePlaces, Names, OpNames
  <2>6. ASSUME NEW i \in 1..EvQueues, a = 3 * MsgQueues + 1 + (2 * (i - 1) + 2),
             CreateVhci[a] = Dma(Ev(i))
        PROVE  a = b
    BY <1>5, <2>6, CreatePlaces, Names, OpNames
  <2>7. CASE a = Len(CreateVhci) /\ CreateVhci[a] = Add
    BY <1>2, <1>5, <2>7
  <2> QED
    BY <2>1, <2>2, <2>3, <2>4, <2>5, <2>6, <2>7, CreatePlaces
<1>6. ASSUME NEW a \in 1..Len(CreateVhci), NEW q \in Own("driver"),
             CreateVhci[a] = Create(q), q # Cq(q)
      PROVE  \E b \in 1..(a - 1) : CreateVhci[b] = Create(Cq(q))
  <2>1. ASSUME NEW i \in 1..EvQueues, q = Ev(i)
        PROVE  \E b \in 1..(a - 1) : CreateVhci[b] = Create(Cq(q))
    <3>1. a > 3 * MsgQueues + 1
      BY <1>6, <2>1, CreatePlaces, Names, OpNames
    <3>2. 3 * MsgQueues + 1 \in 1..(a - 1)
      BY <3>1
    <3> QED
      BY <2>1, <3>2, CreateAt, Kinds3
  <2>2. ASSUME NEW i \in 1..MsgQueues, q = Msg(i, "sq")
        PROVE  \E b \in 1..(a - 1) : CreateVhci[b] = Create(Cq(q))
    <3>1. a = 3 * (i - 1) + 2
      BY <1>6, <2>2, CreatePlaces, Names, OpNames
    <3>2. 3 * (i - 1) + 1 \in 1..(a - 1)
      BY <3>1
    <3> QED
      BY <2>2, <3>2, CreateAt, Kinds3
  <2> QED
    BY <1>6, <2>1, <2>2, Kinds3
<1> QED
  BY <1>1, <1>2, <1>3, <1>4, <1>5, <1>6

(* What a thread that starts something starts.                             *)
LEMMA Starts ==
    ASSUME HostInv, IInv, NEW t \in Threads, Op(t)[1] # "none"
    PROVE  /\ pc[t] = "idle" /\ cur[t] = None /\ todo[t] # << >>
           /\ Op(t) = Head(todo[t]) /\ Op(t) \in Ops(t)
           /\ Op(t)[1] = "add" => t = "driver" /\ Op(t) = Add
           /\ Op(t)[1] # "add" => Op(t)[2] \in Own(t) /\ Op(t) = <<Op(t)[1], Op(t)[2]>>
<1>1. pc[t] = "idle" /\ todo[t] # << >> /\ Op(t) = Head(todo[t])
  BY DEF Op
<1>2. Op(t) \in Ops(t)
  <2>1. todo[t] \in Seq(Ops(t))
    BY DEF HostInv, ThreadInv
  <2> QED
    BY <1>1, <2>1
<1>3. cur[t] = None
  BY <1>1 DEF IInv, HandInv
<1>4. \/ Op(t) \in {"create", "dma", "destroy"} \X Own(t)
      \/ t = "driver" /\ Op(t) = Add
  BY <1>2 DEF Ops
<1>5. Add[1] = "add"
  BY DEF Add
<1> QED
  BY <1>1, <1>2, <1>3, <1>4, <1>5

(* And what one that is in the middle of something has in hand.            *)
LEMMA HoldsOwn ==
    ASSUME HostInv, IInv, NEW t \in Threads, pc[t] \notin {"idle", "free"}
    PROVE  /\ cur[t] \in Own(t) /\ todo[t] # << >> /\ mem[cur[t]] = "live"
           /\ Head(todo[t]) = IF pc[t] = "release" THEN Destroy(cur[t]) ELSE Create(cur[t])
           /\ Head(todo[t]) \in Ops(t)
           /\ pc[t] # "release" => cur[t] \notin field
<1>1. /\ todo[t] # << >> /\ todo[t] \in Seq(Ops(t))
      /\ Head(todo[t]) = IF pc[t] = "release" THEN Destroy(cur[t]) ELSE Create(cur[t])
  BY DEF HostInv, ThreadInv
<1>2. Head(todo[t]) \in Ops(t)
  BY <1>1
<1>3. Create(cur[t]) # Add /\ Destroy(cur[t]) # Add
  BY OpNames
<1>4. cur[t] \in Own(t)
  BY <1>1, <1>2, <1>3 DEF Ops, Create, Destroy
<1>5. pc[t] # "release" => cur[t] \notin field
  BY DEF HostInv, ThreadInv, IInv, TypeOK
<1> QED
  BY <1>1, <1>2, <1>4, <1>5, InHand

(* Only the thread that owns it has a queue in hand.                       *)
LEMMA NotBusy ==
    ASSUME HostInv, IInv, NEW t \in Threads, NEW q \in Own(t), pc[t] = "idle"
    PROVE  ~Busy(q)
<1>1. SUFFICES ASSUME NEW u \in Threads, cur[u] = q
               PROVE  FALSE
  BY DEF Busy
<1>2. q \in Queues /\ cur[t] = None
  BY Kinds3 DEF IInv, HandInv
<1>3. pc[u] # "idle"
  BY <1>1, <1>2 DEF IInv, HandInv
<1>4. q \in Own(u)
  BY <1>1, <1>3, HoldsOwn DEF HostInv, ThreadInv
<1>5. u = t
  BY <1>4, Kinds3
<1> QED
  BY <1>3, <1>5

(* Every step of the driver is one of the registry, or none.               *)
LEMMA StepImplements ==
    ASSUME HostInv, IInv, [HostNext]_vars
    PROVE  [RegNext]_regVars
<1>1. CASE UNCHANGED vars
  BY <1>1 DEF vars
<1>2. ASSUME NEW t \in Threads, CreateStep(t)
      PROVE  RegNext
  <2>1. ASSUME NEW i \in Qids, Op(t)[1] = "create", Get(t, Op(t)[2], i)
        PROVE  RegNext
    <3>1. Op(t)[2] \in Queues
      BY <2>1, Starts, Kinds3
    <3> QED
      BY <2>1, <3>1 DEF RegNext
  <2> QED
    BY <1>2, <2>1 DEF CreateStep, RegNext
<1>3. ASSUME NEW t \in Threads, DestroyStep(t)
      PROVE  RegNext
  <2>1. ASSUME Op(t)[1] = "destroy", Unregister(t, Op(t)[2])
        PROVE  RegNext
    <3>1. Op(t)[2] \in Own(t) /\ pc[t] = "idle"
      BY <2>1, Starts
    <3>2. Op(t)[2] \in Queues /\ ~Busy(Op(t)[2])
      BY <3>1, NotBusy, Kinds3
    <3> QED
      BY <2>1, <3>2 DEF RegNext
  <2> QED
    BY <1>3, <2>1 DEF DestroyStep, RegNext
<1>4. ASSUME NEW t \in Threads, CreateFails(t)
      PROVE  [RegNext]_regVars
  BY <1>4 DEF CreateFails, RegNext
<1>5. ASSUME NEW t \in Threads, DmaStep(t) \/ AddStep(t) \/ OtherFails(t)
      PROVE  UNCHANGED regVars
  BY <1>5 DEF DmaStep, AddStep, OtherFails
<1>6. CASE AppleBceRemove
  BY <1>6 DEF AppleBceRemove, RegNext
<1>7. CASE \/ Handshake \/ AudioProbe \/ EnableDevice \/ RemoveHcd \/ QueuesGone
           \/ TimestampStop \/ Unmap \/ SendTimestamp
  BY <1>7 DEF Handshake, AudioProbe, EnableDevice, RemoveHcd, QueuesGone, TimestampStop, Unmap,
              SendTimestamp
<1> QED
  BY <1>1, <1>2, <1>3, <1>4, <1>5, <1>6, <1>7 DEF HostNext

-----------------------------------------------------------------------------
(* Nothing of thread u changes.                                            *)
Frame(u) ==
    /\ todo'[u] = todo[u] /\ pc'[u] = pc[u] /\ cur'[u] = cur[u]
    /\ \A q \in Own(u) : mem'[q] = mem[q] /\ (q \in field' <=> q \in field)

(* Then what holds of it, of the driver's list, and of what is live, holds *)
(* on.                                                                     *)
LEMMA ThreadFrame ==
    ASSUME HostInv, IInv, NEW u \in Threads, Frame(u)
    PROVE  ThreadInv(u)'
<1>1. ThreadInv(u)
  BY DEF HostInv
<1>2. \A q \in (field \cap Own(u))' : mem'[q] # "none"
  BY <1>1 DEF Frame, ThreadInv, Own, Kinds
<1>3. pc[u] # "idle" => cur[u] \in Own(u)
  BY <1>1, HoldsOwn DEF ThreadInv
<1>4. (pc[u] \in {"register", "store"} => cur[u] \notin field)'
  BY <1>1, <1>3 DEF Frame, ThreadInv
<1> QED
  BY <1>1, <1>2, <1>4 DEF Frame, ThreadInv

LEMMA CreatedFrame ==
    ASSUME Frame("driver"), NEW n, Created(n)
    PROVE  Created(n)'
BY DEF Frame, Created

LEMMA CreatingFrame ==
    ASSUME Frame("driver"), Creating
    PROVE  Creating'
BY CreatedFrame DEF Creating, Frame

LEMMA LiveFrame ==
    ASSUME NEW u \in Threads, Frame(u)
    PROVE  Live(u)' = Live(u) /\ (field \cap Own(u))' = field \cap Own(u)
BY DEF Frame, Live

(* What the driver has yet to destroy, after a step.                       *)
LEMMA DestroysNext ==
    ASSUME NEW list, NEW there, Destroys(list, there),
           todo'["driver"] = list, Live("driver")' = there
    PROVE  Destroys(todo["driver"], Live("driver"))'
BY DEF Destroys, CqsLast

LEMMA DriverFrame ==
    ASSUME DriverInv, Frame("driver"), life' = life
    PROVE  DriverInv'
<1>1. Live("driver")' = Live("driver") /\ (field \cap Own("driver"))' = field \cap Own("driver")
  BY LiveFrame
<1>2. todo'["driver"] = todo["driver"] /\ pc'["driver"] = pc["driver"]
  BY DEF Frame
<1>3. Creating => Creating'
  BY CreatingFrame
<1>4. Destroys(todo["driver"], Live("driver")) => Destroys(todo["driver"], Live("driver"))'
  BY <1>1, <1>2, DestroysNext
<1>5. WithCqs(Live("driver")) => WithCqs(Live("driver"))'
  BY <1>1 DEF WithCqs
<1> QED
  BY <1>1, <1>2, <1>3, <1>4, <1>5 DEF DriverInv

LEMMA CqFrame ==
    ASSUME NEW u \in Threads, Frame(u), CqStays(u)
    PROVE  CqStays(u)'
BY Kinds3 DEF Frame, CqStays

LEMMA HubFrame ==
    ASSUME HubInv, Frame("hub"), "hub" \in started' <=> "hub" \in started
    PROVE  HubInv'
BY CqFrame DEF Frame, HubInv

(* The queues of the audio device and of the transfer queue.               *)
LEMMA AudioNames ==
    /\ Audio("cq") \in Own("audio") /\ Audio("in") \in Own("audio") /\ Audio("out") \in Own("audio")
    /\ Audio("cq") # Audio("in") /\ Audio("cq") # Audio("out") /\ Audio("in") # Audio("out")
    /\ Cq(Audio("cq")) = Audio("cq") /\ Cq(Audio("in")) = Audio("cq") /\ Cq(Audio("out")) = Audio("cq")
    /\ \A q \in Own("audio") : q \in {Audio("cq"), Audio("in"), Audio("out")}
    /\ Tq("cq") \in Own("hub") /\ Tq("in") \in Own("hub") /\ Tq("out") \in Own("hub")
    /\ \A q \in Own("hub") : Cq(q) = Tq("cq") /\ Group(q) = Group(Tq("in"))
    /\ CreateAudio = <<Create(Audio("cq")), Create(Audio("out")), Dma(Audio("out")),
                       Create(Audio("in")), Dma(Audio("in"))>>
<1>1. Own("audio") = {Audio("cq"), Audio("in"), Audio("out")}
  BY DEF Own, Kinds, AllQueues, Audio, Tq, Msg, Ev, EvCq
<1>2. Own("hub") = {Tq("cq"), Tq("in"), Tq("out")}
  BY DEF Own, Kinds, AllQueues, Audio, Tq, Msg, Ev, EvCq
<1>3. /\ Audio("cq") # Audio("in") /\ Audio("cq") # Audio("out") /\ Audio("in") # Audio("out")
      /\ Cq(Audio("cq")) = Audio("cq") /\ Cq(Audio("in")) = Audio("cq")
      /\ Cq(Audio("out")) = Audio("cq")
  BY DEF Audio, Cq
<1>4. \A q \in Own("hub") : Cq(q) = Tq("cq") /\ Group(q) = Group(Tq("in"))
  BY <1>2 DEF Tq, Cq, Group
<1>5. CreateAudio = <<Create(Audio("cq")), Create(Audio("out")), Dma(Audio("out")),
                      Create(Audio("in")), Dma(Audio("in"))>>
  BY DEF CreateAudio
<1> QED
  BY <1>1, <1>2, <1>3, <1>4, <1>5

LEMMA AudioFrame ==
    ASSUME AudioInv, Frame("audio"), "audio" \in started' <=> "audio" \in started
    PROVE  AudioInv'
<1>1. ASSUME NEW n \in 1..5, Probed(n)
      PROVE  Probed(n)'
  <2>1. \A m \in 1..5 : CreateAudio[m][2] \in Own("audio")
    BY AudioNames DEF Create, Dma
  <2> QED
    BY <1>1, <2>1, AudioNames DEF Probed, Frame
<1>2. Probing => Probing'
  BY <1>1 DEF Probing, Frame
<1>3. CqStays("audio")'
  BY CqFrame DEF AudioInv
<1>4. (field \cap Own("audio"))' = field \cap Own("audio")
  BY LiveFrame
<1>5. \A q \in {Audio("in"), Audio("out")} : mem'[q] = mem[q]
  BY AudioNames DEF Frame
<1> QED
  BY <1>2, <1>3, <1>4, <1>5 DEF AudioInv, Frame

(* A step of thread t leaves the others what they have.                    *)
LEMMA Alone ==
    ASSUME HostInv, IInv, NEW t \in Threads,
           \A u \in Threads \ {t} : Frame(u),
           ThreadInv(t)',
           t = "driver" => DriverInv', t = "hub" => HubInv', t = "audio" => AudioInv',
           t # "driver" => UNCHANGED life,
           UNCHANGED started,
           LifeInv'
    PROVE  HostInv'
<1>1. \A u \in Threads : ThreadInv(u)'
  BY ThreadFrame
<1>2. DriverInv'
  BY DriverFrame DEF HostInv
<1>3. HubInv'
  BY HubFrame DEF HostInv
<1>4. AudioInv'
  BY AudioFrame DEF HostInv
<1> QED
  BY <1>1, <1>2, <1>3, <1>4 DEF HostInv

(* The rest of a list, from position n on.                                 *)
LEMMA Rest ==
    ASSUME NEW S, NEW s \in Seq(S), NEW n \in 1..Len(s), NEW r, r = SubSeq(s, n, Len(s))
    PROVE  /\ r # << >> /\ Head(r) = s[n]
           /\ Tail(r) = SubSeq(s, n + 1, Len(s))
           /\ n = Len(s) => Tail(r) = << >>
<1>1. /\ Len(r) = Len(s) - n + 1 /\ r \in Seq(S)
      /\ \A i \in 1..Len(r) : r[i] = s[n + i - 1]
  BY SubSeqProperties
<1>2. r # << >> /\ Head(r) = s[n]
  <2>1. 1 \in 1..Len(r) /\ n + 1 - 1 = n
    BY <1>1
  <2>2. r[1] = s[n]
    BY <1>1, <2>1
  <2>3. Len(r) > 0
    BY <1>1
  <2>4. r # << >>
    <3>1. PICK e : e = << >>
      OBVIOUS
    <3>2. Len(e) = 0
      BY <3>1
    <3>3. Len(r) # Len(e)
      BY <2>3, <3>2
    <3>4. r # e
      BY <3>3, Zenon
    <3> QED
      BY <3>1, <3>4
  <2> QED
    BY <1>1, <2>2, <2>4
<1>3. PICK u : u = Tail(r)
  OBVIOUS
<1>4. u \in Seq(S) /\ Len(u) = Len(s) - n /\ \A i \in 1..Len(u) : u[i] = s[n + i]
  BY <1>1, <1>2, <1>3, HeadTailProperties
<1>5. PICK v : v = SubSeq(s, n + 1, Len(s))
  OBVIOUS
<1>6. v \in Seq(S) /\ Len(v) = Len(s) - n /\ \A i \in 1..Len(v) : v[i] = s[n + i]
  BY <1>5, SubSeqProperties
<1>7. u = v
  BY <1>4, <1>6, SeqEqual
<1>8. n = Len(s) => u = << >>
  BY <1>4
<1> QED
  BY <1>2, <1>3, <1>5, <1>7, <1>8

(* From the first position on, a list is all there.                        *)
LEMMA Whole ==
    ASSUME NEW S, NEW s \in Seq(S)
    PROVE  SubSeq(s, 1, Len(s)) = s
BY SubSeqProperties

(* The driver creates, at position n of its list.                          *)
At(n) == /\ n \in 1..Len(CreateVhci)
         /\ Head(todo["driver"]) = CreateVhci[n]
         /\ todo["driver"] = SubSeq(CreateVhci, n, Len(CreateVhci))
         /\ Tail(todo["driver"]) = SubSeq(CreateVhci, n + 1, Len(CreateVhci))
         /\ n = Len(CreateVhci) => Tail(todo["driver"]) = << >>
         /\ Created(n)

(* Where it is.                                                            *)
LEMMA CreatingAt ==
    ASSUME Creating
    PROVE  todo["driver"] # << >> /\ \E n : At(n)
<1>1. PICK n \in 1..Len(CreateVhci) : /\ todo["driver"] = SubSeq(CreateVhci, n, Len(CreateVhci))
                                      /\ Created(n)
  BY DEF Creating
<1>2. CreateVhci \in Seq(Ops("driver"))
  BY CreateFacts
<1>3. /\ todo["driver"] # << >> /\ Head(todo["driver"]) = CreateVhci[n]
      /\ Tail(todo["driver"]) = SubSeq(CreateVhci, n + 1, Len(CreateVhci))
      /\ n = Len(CreateVhci) => Tail(todo["driver"]) = << >>
  BY <1>1, <1>2, Rest
<1> QED
  BY <1>1, <1>3 DEF At

(* What it does next tells how far its life is.                            *)
LEMMA DriverCreates ==
    ASSUME HostInv, todo["driver"] # << >>, Head(todo["driver"])[1] # "destroy"
    PROVE  life = "creating" /\ \E n : At(n)
<1>1. life \notin {"failed", "destroying"}
  <2>1. SUFFICES ASSUME Destroys(todo["driver"], Live("driver")) PROVE FALSE
    BY DEF HostInv, DriverInv
  <2>2. todo["driver"] \in Seq({"destroy"} \X Live("driver"))
    BY <2>1 DEF Destroys
  <2>3. Head(todo["driver"]) \in {"destroy"} \X Live("driver")
    BY <2>2
  <2> QED
    BY <2>3
<1>2. life = "creating"
  BY <1>1 DEF HostInv, DriverInv, LifeInv
<1> QED
  BY <1>2, CreatingAt DEF HostInv, DriverInv

LEMMA DriverDestroys ==
    ASSUME HostInv, todo["driver"] # << >>, Head(todo["driver"])[1] = "destroy"
    PROVE  life \in {"failed", "destroying"}
<1>1. life # "creating"
  <2>1. SUFFICES ASSUME NEW n, At(n) PROVE FALSE
    BY CreatingAt DEF HostInv, DriverInv
  <2>2. CreateVhci[n][1] # "destroy"
    <3>1. \A q : Create(q)[1] = "create" /\ Dma(q)[1] = "dma" /\ Add[1] = "add"
      BY DEF Create, Dma, Add
    <3>2. n \in 1..Len(CreateVhci)
      BY <2>1 DEF At
    <3> QED
      BY <3>1, <3>2, CreateFacts
  <2> QED
    BY <2>1, <2>2 DEF At
<1> QED
  BY <1>1 DEF HostInv, DriverInv, LifeInv

(* What has been created has its completion queue.                         *)
LEMMA CreatedCqs ==
    ASSUME NEW n, At(n)
    PROVE  /\ WithCqs(field \cap Own("driver"))
           /\ \A q \in Own("driver") : CreateVhci[n] = Create(q) => q \notin field
           /\ \A q \in Own("driver") : CreateVhci[n] = Create(q) /\ q # Cq(q) => Cq(q) \in field
<1>1. Created(n) /\ n \in 1..Len(CreateVhci) /\ Len(CreateVhci) \in Nat
  BY CreateFacts DEF At
<1>2. ASSUME NEW q \in Own("driver"), NEW m \in 1..n, CreateVhci[m] = Create(q), q # Cq(q)
      PROVE  Cq(q) \in field
  <2>1. m \in 1..Len(CreateVhci)
    BY <1>1
  <2>2. PICK b \in 1..(m - 1) : CreateVhci[b] = Create(Cq(q))
    BY <1>2, <2>1, CreateFacts
  <2>3. b \in 1..(n - 1) /\ Cq(q) \in Own("driver")
    BY <1>1, Kinds3
  <2> QED
    BY <1>1, <2>2, <2>3 DEF Created
<1>3. ASSUME NEW q \in field \cap Own("driver")
      PROVE  Cq(q) \in field \cap Own("driver")
  <2>1. PICK m \in 1..(n - 1) : CreateVhci[m] = Create(q)
    BY <1>1 DEF Created
  <2>2. m \in 1..n
    BY <1>1
  <2> QED
    BY <1>2, <2>1, <2>2, Kinds3
<1>4. ASSUME NEW q \in Own("driver"), CreateVhci[n] = Create(q), q \in field
      PROVE  FALSE
  <2>1. PICK m \in 1..(n - 1) : CreateVhci[m] = Create(q)
    BY <1>1, <1>4 DEF Created
  <2>2. m \in 1..Len(CreateVhci) /\ m # n
    BY <1>1
  <2> QED
    BY <1>1, <1>4, <2>1, <2>2, CreateFacts
<1>5. n \in 1..n
  BY <1>1
<1> QED
  BY <1>2, <1>3, <1>4, <1>5 DEF WithCqs

(* The probe of the audio device is at position n of its list.             *)
AudioAt(n) ==
    /\ n \in 1..5
    /\ Head(todo["audio"]) = CreateAudio[n]
    /\ todo["audio"] = SubSeq(CreateAudio, n, 5)
    /\ Tail(todo["audio"]) = SubSeq(CreateAudio, n + 1, 5)
    /\ n = 5 => Tail(todo["audio"]) = << >>
    /\ Probed(n)

(* What the probe of the audio device does next tells where it is.         *)
LEMMA AudioCreates ==
    ASSUME HostInv, todo["audio"] # << >>, Head(todo["audio"])[1] # "destroy"
    PROVE  \E n : AudioAt(n)
<1>1. Probing
  BY DEF HostInv, AudioInv, Destroy
<1>2. PICK n \in 1..5 : todo["audio"] = SubSeq(CreateAudio, n, 5) /\ Probed(n)
  BY <1>1 DEF Probing
<1>3. CreateAudio \in Seq({"create", "dma"} \X Own("audio")) /\ Len(CreateAudio) = 5
  BY AudioNames DEF Create, Dma
<1>4. /\ Head(todo["audio"]) = CreateAudio[n]
      /\ Tail(todo["audio"]) = SubSeq(CreateAudio, n + 1, 5)
      /\ n = 5 => Tail(todo["audio"]) = << >>
  BY <1>2, <1>3, Rest
<1> QED
  BY <1>2, <1>4 DEF AudioAt

LEMMA AudioDestroys ==
    ASSUME HostInv, todo["audio"] # << >>, Head(todo["audio"])[1] = "destroy"
    PROVE  \E q \in {Audio("in"), Audio("out")} : todo["audio"] = <<Destroy(q)>> /\ mem[q] = "live"
<1>1. ~Probing
  <2>1. SUFFICES ASSUME NEW n \in 1..5, todo["audio"] = SubSeq(CreateAudio, n, 5)
                 PROVE  FALSE
    BY DEF Probing
  <2>2. CreateAudio \in Seq({"create", "dma"} \X Own("audio")) /\ Len(CreateAudio) = 5
    BY AudioNames DEF Create, Dma
  <2>3. Head(todo["audio"]) = CreateAudio[n]
    BY <2>1, <2>2, Rest
  <2>4. CreateAudio[n] \in {"create", "dma"} \X Own("audio")
    <3>1. n \in 1..Len(CreateAudio)
      BY <2>2
    <3>2. PICK T : T = {"create", "dma"} \X Own("audio")
      OBVIOUS
    <3>3. CreateAudio \in Seq(T)
      BY <2>2, <3>2
    <3>4. CreateAudio[n] \in T
      BY <3>1, <3>3
    <3> QED
      BY <3>2, <3>4
  <2> QED
    BY <2>3, <2>4
<1> QED
  BY <1>1 DEF HostInv, AudioInv

-----------------------------------------------------------------------------
(* The steps of the threads.                                               *)
LEMMA OthersOwn ==
    ASSUME NEW t \in Threads, NEW q \in Own(t), NEW u \in Threads \ {t}
    PROVE  q \notin Own(u)
BY Kinds3

(* The beginning of a creation.                                            *)
LEMMA GetKeeps ==
    ASSUME HostInv, IInv, NEW t \in Threads, NEW q, NEW i \in Qids,
           Op(t)[1] = "create", q = Op(t)[2], ~CqMissing(q), Get(t, q, i), UNCHANGED hostVars
    PROVE  HostInv'
<1> USE DEF hostVars
<1>1. /\ pc[t] = "idle" /\ cur[t] = None /\ todo[t] # << >>
      /\ Head(todo[t]) = Create(q) /\ q \in Own(t) /\ q \in Queues
  BY Starts, Kinds3 DEF Create
<1>2. /\ mem[q] = "none" /\ mem' = [mem EXCEPT ![q] = "live"]
      /\ pc' = [pc EXCEPT ![t] = "register"] /\ cur' = [cur EXCEPT ![t] = q]
  BY DEF Get, Goto
<1>3. /\ mem \in [Queues -> {"none", "live", "released", "freed"}]
      /\ pc \in [Threads -> {"idle", "register", "store", "release", "free"}]
      /\ cur \in [Threads -> Queues \cup {None}]
  BY DEF IInv, TypeOK
<1>4. \A u \in Threads \ {t} : Frame(u)
  BY <1>1, <1>2, <1>3, OthersOwn, Kinds3 DEF Frame
<1>5. ThreadInv(t)
  BY DEF HostInv
<1>6. q \notin field
  BY <1>1, <1>2, <1>5 DEF ThreadInv
<1>7. ThreadInv(t)'
  <2>1. \A r \in field \cap Own(t) : mem'[r] # "none"
    BY <1>2, <1>3, <1>5, Kinds3 DEF ThreadInv
  <2> QED
    BY <1>1, <1>2, <1>3, <1>5, <1>6, <2>1 DEF ThreadInv
<1>8. \A r \in Own(t) : (mem'[r] = "live") <=> (mem[r] = "live" \/ r = q)
  BY <1>2, <1>3, Kinds3
<1>9. ASSUME t = "driver"
      PROVE  DriverInv'
  <2>1. life = "creating" /\ \E n : At(n)
    BY <1>1, <1>9, DriverCreates DEF Create
  <2>2. PICK n : At(n)
    BY <2>1
  <2>3. Created(n)'
    BY <1>1, <1>2, <1>3, <1>8, <1>9, <2>2 DEF At, Created, Own, Kinds
  <2>4. Creating'
    BY <2>2, <2>3 DEF At, Creating
  <2> QED
    BY <2>1, <2>4 DEF DriverInv
<1>10. ASSUME t = "hub"
       PROVE  HubInv'
  <2>1. CqStays("hub")
    BY DEF HostInv, HubInv
  <2>2. q # Cq(q) => Cq(q) \in field
    BY <1>1, <1>10, AudioNames DEF CqMissing
  <2>3. CqStays("hub")'
    BY <1>6, <1>8, <1>10, <2>1, <2>2 DEF CqStays, Own, Kinds
  <2> QED
    BY <1>1, <1>10, <2>3 DEF HostInv, HubInv
<1>11. ASSUME t = "audio"
       PROVE  AudioInv'
  <2>1. PICK n : AudioAt(n)
    BY <1>1, <1>11, AudioCreates DEF Create
  <2>2. CreateAudio[n] = Create(q)
    BY <1>1, <1>11, <2>1 DEF AudioAt
  <2>3. Probed(n)'
    BY <2>1, <2>2 DEF AudioAt, Probed, Create
  <2>4. Probing'
    BY <2>1, <2>3 DEF AudioAt, Probing
  <2>5. q # Cq(q) => Audio("cq") \in field
    <3>1. CASE n = 1
      <4>1. Create(q) = Create(Audio("cq"))
        BY <2>2, <3>1, AudioNames
      <4>2. q = Audio("cq")
        BY <4>1, Names
      <4> QED
        BY <4>2, AudioNames
    <3>2. CASE n # 1
      BY <2>1, <3>2 DEF AudioAt, Probed
    <3> QED
      BY <3>1, <3>2
  <2>6. CqStays("audio")
    BY DEF HostInv, AudioInv
  <2>7. CqStays("audio")'
    BY <1>1, <1>6, <1>8, <1>11, <2>5, <2>6, AudioNames DEF CqStays
  <2> QED
    BY <1>1, <1>11, <2>4, <2>7 DEF HostInv, AudioInv
<1>12. LifeInv'
  BY DEF HostInv, LifeInv
<1> QED
  BY <1>4, <1>7, <1>9, <1>10, <1>11, <1>12, Alone

(* The command to register, or to leave, a queue: nothing here is about    *)
(* what the device knows.                                                  *)
LEMMA RegisterKeeps ==
    ASSUME HostInv, IInv, NEW t \in Threads, Register(t), UNCHANGED hostVars
    PROVE  HostInv'
<1> USE DEF hostVars
<1>1. /\ pc[t] = "register" /\ pc' = [pc EXCEPT ![t] = "store"]
      /\ cur' = [cur EXCEPT ![t] = cur[t]] /\ mem' = mem
  BY DEF Register, Goto, driverVars
<1>2. /\ pc \in [Threads -> {"idle", "register", "store", "release", "free"}]
      /\ cur \in [Threads -> Queues \cup {None}]
  BY DEF IInv, TypeOK
<1>3. cur' = cur
  BY <1>1, <1>2
<1>4. \A u \in Threads \ {t} : Frame(u)
  BY <1>1, <1>2, <1>3 DEF Frame
<1>5. ThreadInv(t)'
  BY <1>1, <1>2, <1>3 DEF HostInv, ThreadInv
<1>6. DriverInv'
  <2>1. \A n : Created(n) => Created(n)'
    BY <1>1, <1>3 DEF Created
  <2>2. Creating => Creating'
    BY <2>1 DEF Creating
  <2>3. Live("driver")' = Live("driver")
    BY <1>1 DEF Live
  <2>4. pc'["driver"] = pc["driver"] \/ pc["driver"] = "register"
    BY <1>1, <1>2
  <2> QED
    BY <2>2, <2>3, <2>4 DEF HostInv, DriverInv, Destroys, CqsLast, WithCqs
<1>7. HubInv'
  BY <1>1 DEF HostInv, HubInv, CqStays
<1>8. AudioInv'
  BY <1>1 DEF HostInv, AudioInv, CqStays, Probing, Probed
<1>9. LifeInv'
  BY DEF HostInv, LifeInv
<1> QED
  BY <1>4, <1>5, <1>6, <1>7, <1>8, <1>9, Alone

(* The driver has gone past position n.                                    *)
LEMMA CreatedNext ==
    ASSUME NEW n \in Nat,
           \A q \in Own("driver") :
              /\ (q \in field') <=> (\E m \in 1..n : CreateVhci[m] = Create(q))
              /\ (mem'[q] = "live") <=> (q \in field' \/ cur'["driver"] = q)
    PROVE  Created(n + 1)'
<1>1. 1..(n + 1 - 1) = 1..n
  OBVIOUS
<1> QED
  BY <1>1 DEF Created

(* The queue is entered in the table, its pointer in its structure.        *)
LEMMA StoreKeeps ==
    ASSUME HostInv, IInv, NEW t \in Threads, NEW q, q = cur[t], Store(t),
           field' = field \cup {q}, Become(t, Tail(todo[t])),
           UNCHANGED <<life, timer, mapped, started>>
    PROVE  HostInv'
<1>1. /\ pc[t] = "store" /\ pc' = [pc EXCEPT ![t] = "idle"] /\ cur' = [cur EXCEPT ![t] = None]
      /\ mem' = mem /\ todo' = [todo EXCEPT ![t] = Tail(todo[t])]
  BY DEF Store, Done, Goto, Become
<1>2. /\ q \in Own(t) /\ q \in Queues /\ todo[t] # << >> /\ mem[q] = "live"
      /\ Head(todo[t]) = Create(q) /\ q \notin field
  BY <1>1, HoldsOwn, Kinds3
<1>3. /\ pc \in [Threads -> {"idle", "register", "store", "release", "free"}]
      /\ cur \in [Threads -> Queues \cup {None}] /\ todo = [u \in Threads |-> todo[u]]
  BY DEF IInv, TypeOK, HostInv, LifeInv
<1>4. \A u \in Threads \ {t} : Frame(u)
  BY <1>1, <1>2, <1>3, OthersOwn DEF Frame
<1>5. todo'[t] = Tail(todo[t]) /\ pc'[t] = "idle" /\ cur'[t] = None
  BY <1>1, <1>3
<1>6. ThreadInv(t)'
  <2>1. ThreadInv(t)
    BY DEF HostInv
  <2>2. Tail(todo[t]) \in Seq(Ops(t))
    BY <1>2, <2>1 DEF ThreadInv
  <2>3. Ops(t)' = Ops(t) /\ Own(t)' = Own(t)
    BY DEF Ops, Own, Kinds, Add, Hcd
  <2>4. \A r \in field' \cap Own(t) : mem'[r] # "none"
    BY <1>1, <1>2, <2>1 DEF ThreadInv
  <2> QED
    BY <1>5, <2>2, <2>3, <2>4 DEF ThreadInv
<1>7. ASSUME t = "driver"
      PROVE  DriverInv'
  <2>1. life = "creating" /\ \E n : At(n)
    BY <1>2, <1>7, DriverCreates DEF Create
  <2>2. PICK n : At(n)
    BY <2>1
  <2>3. n \in 1..Len(CreateVhci) /\ Len(CreateVhci) \in Nat /\ CreateVhci[n] = Create(q)
    BY <1>2, <1>7, <2>2, CreateFacts DEF At
  <2>4. n # Len(CreateVhci)
    BY <2>3, CreateFacts, OpNames
  <2>5. n + 1 \in 1..Len(CreateVhci) /\ n + 1 - 1 = n
    BY <2>3, <2>4
  <2>6. ASSUME NEW r \in Own("driver")
        PROVE  /\ (r \in field') <=> (\E m \in 1..n : CreateVhci[m] = Create(r))
               /\ (mem'[r] = "live") <=> (r \in field' \/ cur'["driver"] = r)
    <3>1. r \in field <=> \E m \in 1..(n - 1) : CreateVhci[m] = Create(r)
      BY <2>2 DEF At, Created
    <3>2. CreateVhci[n] = Create(r) <=> r = q
      BY <2>3, Names
    <3>3. \A m \in 1..n : m \in 1..(n - 1) \/ m = n
      BY <2>3
    <3>4. n \in 1..n /\ \A m \in 1..(n - 1) : m \in 1..n
      BY <2>3
    <3>5. (mem[r] = "live") <=> (r \in field \/ r = q)
      BY <1>7, <2>2 DEF At, Created
    <3>6. r # None
      BY Kinds3
    <3> QED
      BY <1>1, <1>5, <1>7, <3>1, <3>2, <3>3, <3>4, <3>5, <3>6
  <2>7. Created(n + 1)'
    BY <2>3, <2>6, CreatedNext
  <2>8. todo'["driver"] = SubSeq(CreateVhci, n + 1, Len(CreateVhci))
    BY <1>5, <1>7, <2>2 DEF At
  <2>9. Creating'
    BY <2>5, <2>7, <2>8 DEF Creating
  <2> QED
    BY <2>1, <2>9 DEF DriverInv
<1>8. \A u \in Threads : CqStays(u) /\ u = t => CqStays(u)'
  BY <1>1, <1>2, Kinds3 DEF CqStays
<1>9. ASSUME t = "hub"
      PROVE  HubInv'
  <2>1. Tail(todo["hub"]) \in Seq({"create"} \X Own("hub"))
    BY <1>2, <1>9 DEF HostInv, HubInv
  <2> QED
    BY <1>2, <1>5, <1>8, <1>9, <2>1 DEF HostInv, HubInv
<1>10. ASSUME t = "audio"
       PROVE  AudioInv'
  <2>1. PICK n : AudioAt(n)
    BY <1>2, <1>10, AudioCreates DEF Create
  <2>2. CreateAudio[n] = Create(q) /\ n \in 1..5
    BY <1>2, <1>10, <2>1 DEF AudioAt
  <2>3. n # 3 /\ n # 5
    BY <2>2, AudioNames, OpNames
  <2>4. n + 1 \in 1..5
    BY <2>2, <2>3
  <2>5. Probed(n + 1)'
    <3>1. Audio("cq") \in field'
      <4>1. CASE n = 1
        <5>1. q = Audio("cq")
          BY <2>2, <4>1, AudioNames, Names
        <5> QED
          BY <5>1
      <4>2. CASE n # 1
        BY <2>1, <4>2 DEF AudioAt, Probed
      <4> QED
        BY <4>1, <4>2
    <3>2. CreateAudio[n + 1][1] = "dma" => CreateAudio[n + 1][2] = q
      <4>1. CASE n = 1
        BY <4>1, AudioNames DEF Create, Dma
      <4>2. CASE n = 2
        BY <2>2, <4>2, AudioNames DEF Create, Dma
      <4>3. CASE n = 4
        BY <2>2, <4>3, AudioNames DEF Create, Dma
      <4> QED
        BY <2>2, <2>3, <4>1, <4>2, <4>3
    <3>3. \A m \in (n + 1)..5 : m \in n..5 /\ m # n /\ m \in 1..5
      BY <2>2
    <3>4. \A m \in 1..5 : CreateAudio[m][1] = "create" => CreateAudio[m] = Create(CreateAudio[m][2])
      BY AudioNames DEF Create, Dma
    <3>5. \A m, k \in 1..5 : CreateAudio[m] = CreateAudio[k] => m = k
      BY AudioNames, Names, OpNames
    <3>6. ASSUME NEW m \in (n + 1)..5, CreateAudio[m][1] = "create"
          PROVE  CreateAudio[m][2] \notin field'
      <4>1. CreateAudio[m][2] \notin field
        BY <2>1, <3>3, <3>6 DEF AudioAt, Probed
      <4>2. CreateAudio[m] # Create(q)
        BY <2>2, <3>3, <3>5
      <4>3. CreateAudio[m][2] # q
        BY <3>3, <3>4, <3>6, <4>2
      <4> QED
        BY <4>1, <4>3
    <3> QED
      BY <1>1, <1>2, <3>1, <3>2, <3>6 DEF Probed
  <2>6. todo'["audio"] = SubSeq(CreateAudio, n + 1, 5)
    BY <1>5, <1>10, <2>1 DEF AudioAt
  <2>7. Probing'
    BY <2>4, <2>5, <2>6 DEF Probing
  <2> QED
    BY <1>2, <1>8, <1>10, <2>7 DEF HostInv, AudioInv
<1>11. LifeInv'
  BY <1>1, <1>2, <1>3 DEF HostInv, LifeInv
<1> QED
  BY <1>4, <1>6, <1>7, <1>9, <1>10, <1>11, Alone

(* Thread t is done with the first thing on its list, and nothing else     *)
(* changes but, for the driver, how far the life is.                       *)
LEMMA PopThread ==
    ASSUME HostInv, IInv, NEW t \in Threads, pc[t] = "idle", todo[t] # << >>,
           UNCHANGED <<regVars, field>>, Become(t, Tail(todo[t]))
    PROVE  /\ todo'[t] = Tail(todo[t]) /\ todo' = [u \in Threads |-> todo'[u]]
           /\ mem' = mem /\ pc' = pc /\ cur' = cur
           /\ \A u \in Threads \ {t} : Frame(u)
           /\ ThreadInv(t)'
<1>1. todo' = [todo EXCEPT ![t] = Tail(todo[t])] /\ todo = [u \in Threads |-> todo[u]]
  BY DEF Become, HostInv, LifeInv
<1>2. mem' = mem /\ pc' = pc /\ cur' = cur
  BY DEF regVars, driverVars, threadVars
<1>3. \A u \in Threads \ {t} : Frame(u)
  BY <1>1, <1>2 DEF Frame
<1>4. todo'[t] = Tail(todo[t])
  BY <1>1
<1>5. ThreadInv(t)'
  <2>1. ThreadInv(t)
    BY DEF HostInv
  <2>2. Tail(todo[t]) \in Seq(Ops(t))
    BY <2>1 DEF ThreadInv
  <2>3. Ops(t)' = Ops(t) /\ Own(t)' = Own(t)
    BY DEF Ops, Own, Kinds, Add, Hcd
  <2> QED
    BY <1>2, <1>4, <2>1, <2>2, <2>3 DEF ThreadInv
<1> QED
  BY <1>1, <1>2, <1>3, <1>4, <1>5

(* The elements of a submission queue get their memory.                    *)
LEMMA DmaKeeps ==
    ASSUME HostInv, IInv, NEW t \in Threads, DmaStep(t)
    PROVE  HostInv'
<1>1. /\ pc[t] = "idle" /\ cur[t] = None /\ todo[t] # << >> /\ Op(t)[2] \in Own(t)
      /\ Op(t) = Head(todo[t]) /\ Op(t)[1] = "dma"
  BY Starts DEF DmaStep
<1>2. /\ Become(t, Tail(todo[t]))
      /\ UNCHANGED <<regVars, life, field, timer, mapped, started>>
  BY DEF DmaStep
<1>3. /\ todo'[t] = Tail(todo[t]) /\ todo' = [u \in Threads |-> todo'[u]]
      /\ mem' = mem /\ pc' = pc /\ cur' = cur
      /\ \A u \in Threads \ {t} : Frame(u)
      /\ ThreadInv(t)'
  BY <1>1, <1>2, PopThread
<1>4. ASSUME t = "driver"
      PROVE  DriverInv'
  <2>1. life = "creating" /\ \E n : At(n)
    BY <1>1, <1>4, DriverCreates
  <2>2. PICK n : At(n)
    BY <2>1
  <2>3. /\ n \in 1..Len(CreateVhci) /\ Len(CreateVhci) \in Nat
        /\ CreateVhci[n][1] = "dma"
    BY <1>1, <1>4, <2>2, CreateFacts DEF At
  <2>4. n # Len(CreateVhci)
    BY <2>3, CreateFacts DEF Add
  <2>5. n + 1 \in 1..Len(CreateVhci) /\ n \in Nat
    BY <2>3, <2>4
  <2>6. ASSUME NEW q \in Own("driver")
        PROVE  /\ (q \in field') <=> (\E m \in 1..n : CreateVhci[m] = Create(q))
               /\ (mem'[q] = "live") <=> (q \in field' \/ cur'["driver"] = q)
    <3>1. q \in field <=> \E m \in 1..(n - 1) : CreateVhci[m] = Create(q)
      BY <2>2 DEF At, Created
    <3>2. CreateVhci[n] # Create(q)
      BY <2>3 DEF Create
    <3>3. \A m \in 1..n : m \in 1..(n - 1) \/ m = n
      BY <2>3
    <3>4. \A m \in 1..(n - 1) : m \in 1..n
      BY <2>3
    <3>5. (mem[q] = "live") <=> (q \in field \/ cur["driver"] = q)
      BY <2>2 DEF At, Created
    <3> QED
      BY <1>2, <1>3, <3>1, <3>2, <3>3, <3>4, <3>5
  <2>7. Created(n + 1)'
    BY <2>5, <2>6, CreatedNext
  <2>8. todo'["driver"] = SubSeq(CreateVhci, n + 1, Len(CreateVhci))
    BY <1>3, <1>4, <2>2 DEF At
  <2>9. Creating'
    BY <2>5, <2>7, <2>8 DEF Creating
  <2> QED
    BY <1>2, <2>1, <2>9 DEF DriverInv
<1>5. t # "hub"
  <2>1. SUFFICES ASSUME t = "hub" PROVE FALSE
    OBVIOUS
  <2>2. Head(todo["hub"]) \in {"create"} \X Own("hub")
    BY <1>1, <2>1 DEF HostInv, HubInv
  <2> QED
    BY <1>1, <2>1, <2>2
<1>6. ASSUME t = "audio"
      PROVE  AudioInv'
  <2>1. PICK n : AudioAt(n)
    BY <1>1, <1>6, AudioCreates
  <2>2. n \in 1..5 /\ CreateAudio[n][1] = "dma"
    BY <1>1, <1>6, <2>1 DEF AudioAt
  <2>3. n \in {3, 5}
    BY <2>2, AudioNames DEF Create
  <2>4. n = 3 => Probing'
    <3>1. SUFFICES ASSUME n = 3 PROVE Probing'
      OBVIOUS
    <3>2. Audio("cq") \in field
      BY <2>1, <3>1 DEF AudioAt, Probed
    <3>3. \A m \in 4..5 : m \in 3..5
      OBVIOUS
    <3>4. \A m \in 4..5 : CreateAudio[m][1] = "create" => CreateAudio[m][2] \notin field
      BY <2>1, <3>1, <3>3 DEF AudioAt, Probed
    <3>5. CreateAudio[4][1] = "create"
      BY AudioNames DEF Create
    <3>6. Probed(4)'
      BY <1>2, <3>2, <3>4, <3>5 DEF Probed
    <3>7. todo'["audio"] = SubSeq(CreateAudio, 4, 5)
      <4>1. n + 1 = 4
        BY <3>1
      <4> QED
        BY <1>3, <1>6, <2>1, <4>1 DEF AudioAt
    <3> QED
      BY <3>6, <3>7 DEF Probing
  <2>5. n = 5 => todo'["audio"] = << >>
    BY <1>3, <1>6, <2>1 DEF AudioAt
  <2>6. CqStays("audio")'
    BY <1>2, <1>3 DEF HostInv, AudioInv, CqStays
  <2>7. "audio" \in started'
    BY <1>1, <1>2, <1>6 DEF HostInv, AudioInv
  <2> QED
    BY <2>3, <2>4, <2>5, <2>6, <2>7 DEF AudioInv
<1>7. LifeInv'
  BY <1>2, <1>3 DEF HostInv, LifeInv
<1> QED
  BY <1>2, <1>3, <1>4, <1>5, <1>6, <1>7, Alone

(* The host controller is there.                                           *)
LEMMA AddKeeps ==
    ASSUME HostInv, IInv, NEW t \in Threads, AddStep(t)
    PROVE  HostInv'
<1>1. /\ pc[t] = "idle" /\ cur[t] = None /\ todo[t] # << >> /\ t = "driver"
      /\ Op(t) = Head(todo[t]) /\ Op(t) = Add
  BY Starts DEF AddStep
<1>2. /\ Become(t, Tail(todo[t])) /\ life' = "bound"
      /\ UNCHANGED <<regVars, field, timer, mapped, started>>
  BY DEF AddStep
<1>3. /\ todo'[t] = Tail(todo[t]) /\ todo' = [u \in Threads |-> todo'[u]]
      /\ mem' = mem /\ pc' = pc /\ cur' = cur
      /\ \A u \in Threads \ {t} : Frame(u)
      /\ ThreadInv(t)'
  BY <1>1, <1>2, PopThread
<1>4. life = "creating" /\ \E n : At(n)
  BY <1>1, DriverCreates DEF Add
<1>5. PICK n : At(n)
  BY <1>4
<1>6. n \in 1..Len(CreateVhci) /\ CreateVhci[n] = Add
  BY <1>1, <1>5 DEF At
<1>7. n = Len(CreateVhci)
  BY <1>6, CreateFacts
<1>8. todo'["driver"] = << >> /\ pc'["driver"] = "idle"
  BY <1>1, <1>3, <1>5, <1>7, Starts DEF At, Add
<1>9. \A q \in Own("driver") : (mem[q] = "live") <=> (q \in field)
  BY <1>1, <1>5, Kinds3 DEF At, Created
<1>10. Live("driver")' = field \cap Own("driver") /\ (field \cap Own("driver"))' = field \cap Own("driver")
  BY <1>2, <1>3, <1>9 DEF Live, Own, Kinds
<1>11. WithCqs(field \cap Own("driver"))
  BY <1>5, CreatedCqs
<1>12. WithCqs(Live("driver"))'
  BY <1>10, <1>11 DEF WithCqs
<1>13. DriverInv'
  BY <1>2, <1>8, <1>10, <1>12 DEF DriverInv
<1>14. LifeInv'
  BY <1>2, <1>3, <1>4 DEF HostInv, LifeInv
<1> QED
  BY <1>1, <1>2, <1>3, <1>13, <1>14, Alone

(* A destruction begins.                                                   *)
LEMMA UnregisterKeeps ==
    ASSUME HostInv, IInv, NEW t \in Threads, NEW q, Op(t)[1] = "destroy", q = Op(t)[2],
           Unregister(t, q), UNCHANGED hostVars
    PROVE  HostInv'
<1> USE DEF hostVars
<1>1. /\ pc[t] = "idle" /\ todo[t] # << >> /\ Head(todo[t]) = Destroy(q)
  BY Starts DEF Destroy
<1>2. /\ pc' = [pc EXCEPT ![t] = "release"] /\ cur' = [cur EXCEPT ![t] = q] /\ mem' = mem
  BY DEF Unregister, Goto, driverVars
<1>3. /\ pc \in [Threads -> {"idle", "register", "store", "release", "free"}]
      /\ cur \in [Threads -> Queues \cup {None}]
  BY DEF IInv, TypeOK
<1>4. \A u \in Threads \ {t} : Frame(u)
  BY <1>2, <1>3 DEF Frame
<1>5. ThreadInv(t)'
  BY <1>1, <1>2, <1>3 DEF HostInv, ThreadInv
<1>6. ASSUME t = "driver"
      PROVE  DriverInv'
  <2>1. life \in {"failed", "destroying"}
    BY <1>1, <1>6, DriverDestroys DEF Destroy
  <2>2. Live("driver")' = Live("driver")
    BY <1>2 DEF Live
  <2> QED
    BY <2>1, <2>2 DEF HostInv, DriverInv, Destroys, CqsLast, WithCqs
<1>7. HubInv'
  BY <1>1, <1>2, <1>3 DEF HostInv, HubInv, CqStays
<1>8. AudioInv'
  BY <1>1, <1>2, <1>3 DEF HostInv, AudioInv, CqStays, Probing, Probed
<1>9. LifeInv'
  BY DEF HostInv, LifeInv
<1> QED
  BY <1>4, <1>5, <1>6, <1>7, <1>8, <1>9, Alone

(* What is left to destroy when the first queue of the list is gone.       *)
LEMMA DestroysTail ==
    ASSUME NEW there, NEW list, Destroys(list, there), list # << >>,
           NEW q, Head(list) = Destroy(q)
    PROVE  /\ q \in there
           /\ Destroys(Tail(list), there \ {q})
           /\ \A r \in there \ {q} : Cq(r) # q
<1>1. PICK S : S = {"destroy"} \X there
  OBVIOUS
<1>2. list \in Seq(S)
  BY <1>1 DEF Destroys
<1>3. PICK r : r = Tail(list)
  OBVIOUS
<1>4. PICK k \in Nat : k = Len(r)
  BY <1>2, <1>3, HeadTailProperties
<1>5. /\ Head(list) \in S /\ r \in Seq(S) /\ Len(list) = k + 1
      /\ \A i \in 1..k : r[i] = list[i + 1]
  BY <1>2, <1>3, <1>4, HeadTailProperties
<1>6. list[1] = Destroy(q) /\ DOMAIN list = 1..(k + 1) /\ DOMAIN r = 1..k
  <2>1. Head(list) = list[1]
    BY <1>2
  <2> QED
    BY <1>2, <1>4, <1>5, <2>1
<1>7. q \in there
  BY <1>1, <1>5 DEF Destroy
<1>8. \A i \in 1..k : i + 1 \in 1..(k + 1) /\ i + 1 # 1 /\ 1 \in 1..(k + 1)
  OBVIOUS
<1>9. \A i \in 1..k : r[i] \in {"destroy"} \X (there \ {q})
  <2>1. SUFFICES ASSUME NEW i \in 1..k PROVE r[i] \in {"destroy"} \X (there \ {q})
    OBVIOUS
  <2>2. r[i] \in S
    BY <1>4, <1>5
  <2>3. list[i + 1] # list[1]
    BY <1>6, <1>8 DEF Destroys
  <2>4. r[i] # Destroy(q)
    BY <1>5, <1>6, <2>3
  <2> QED
    BY <1>1, <2>2, <2>4 DEF Destroy
<1>10. r \in Seq({"destroy"} \X (there \ {q}))
  BY <1>4, <1>5, <1>9
<1>11. \A i, j \in 1..k : r[i] = r[j] => i = j
  <2>1. SUFFICES ASSUME NEW i \in 1..k, NEW j \in 1..k, r[i] = r[j] PROVE i = j
    OBVIOUS
  <2>2. list[i + 1] = list[j + 1]
    BY <1>5, <2>1
  <2>3. i + 1 = j + 1
    BY <1>6, <1>8, <2>2 DEF Destroys
  <2> QED
    BY <2>3
<1>12. ASSUME NEW p \in there \ {q}
       PROVE  \E i \in 1..k : r[i] = Destroy(p)
  <2>1. PICK i \in 1..(k + 1) : list[i] = Destroy(p)
    BY <1>6 DEF Destroys
  <2>2. i # 1
    BY <1>6, <2>1, Names
  <2>3. PICK j \in 1..k : i = j + 1
    <3>1. i - 1 \in 1..k /\ i = i - 1 + 1
      BY <2>2
    <3> QED
      BY <3>1
  <2> QED
    BY <1>5, <2>1, <2>3
<1>13. ASSUME NEW i \in 1..(k + 1), NEW p \in there, list[i] = Destroy(Cq(p)), p # Cq(p)
       PROVE  \E j \in 1..(i - 1) : list[j] = Destroy(p)
  BY <1>6, <1>13 DEF Destroys, CqsLast
<1>14. ASSUME NEW p \in there \ {q}, Cq(p) = q
       PROVE  FALSE
  <2>1. 1 \in 1..(k + 1)
    BY <1>4
  <2>2. \E j \in 1..(1 - 1) : list[j] = Destroy(p)
    BY <1>6, <1>13, <1>14, <2>1
  <2> QED
    BY <2>2
<1>15. ASSUME NEW i \in 1..k, NEW p \in there \ {q}, r[i] = Destroy(Cq(p)), p # Cq(p)
       PROVE  \E j \in 1..(i - 1) : r[j] = Destroy(p)
  <2>1. list[i + 1] = Destroy(Cq(p))
    BY <1>5, <1>15
  <2>2. PICK j \in 1..(i + 1 - 1) : list[j] = Destroy(p)
    BY <1>8, <1>13, <1>15, <2>1
  <2>3. j # 1
    BY <1>6, <2>2, Names
  <2>4. PICK m \in 1..(i - 1) : j = m + 1 /\ m \in 1..k
    <3>1. j - 1 \in 1..(i - 1) /\ j = j - 1 + 1 /\ j - 1 \in 1..k
      BY <1>4, <2>3
    <3> QED
      BY <3>1
  <2> QED
    BY <1>5, <2>2, <2>4
<1>16. Destroys(r, there \ {q})
  BY <1>6, <1>10, <1>11, <1>12, <1>15 DEF Destroys, CqsLast
<1> QED
  BY <1>3, <1>7, <1>14, <1>16

(* A destruction is as good as over.                                       *)
LEMMA ReleaseKeeps ==
    ASSUME HostInv, IInv, NEW t \in Threads, Release(t), Become(t, Tail(todo[t])),
           UNCHANGED <<life, field, timer, mapped, started>>
    PROVE  HostInv'
<1>1. PICK q : q = cur[t]
  OBVIOUS
<1>2. /\ pc[t] = "release" /\ pc' = [pc EXCEPT ![t] = "free"] /\ cur' = [cur EXCEPT ![t] = q]
      /\ mem' = [mem EXCEPT ![q] = "released"] /\ todo' = [todo EXCEPT ![t] = Tail(todo[t])]
  BY <1>1 DEF Release, Goto, Become
<1>3. /\ q \in Own(t) /\ q \in Queues /\ todo[t] # << >> /\ mem[q] = "live"
      /\ Head(todo[t]) = Destroy(q)
  BY <1>1, <1>2, HoldsOwn, Kinds3
<1>4. /\ pc \in [Threads -> {"idle", "register", "store", "release", "free"}]
      /\ cur \in [Threads -> Queues \cup {None}] /\ todo = [u \in Threads |-> todo[u]]
      /\ mem \in [Queues -> {"none", "live", "released", "freed"}]
  BY DEF IInv, TypeOK, HostInv, LifeInv
<1>5. \A u \in Threads \ {t} : Frame(u)
  BY <1>2, <1>3, <1>4, OthersOwn, Kinds3 DEF Frame
<1>6. todo'[t] = Tail(todo[t]) /\ pc'[t] = "free" /\ cur'[t] = q
  BY <1>2, <1>4
<1>7. ThreadInv(t)'
  <2>1. ThreadInv(t)
    BY DEF HostInv
  <2>2. Tail(todo[t]) \in Seq(Ops(t))
    BY <1>3, <2>1 DEF ThreadInv
  <2>3. Ops(t)' = Ops(t) /\ Own(t)' = Own(t)
    BY DEF Ops, Own, Kinds, Add, Hcd
  <2>4. \A r \in field \cap Own(t) : mem'[r] # "none"
    BY <1>2, <1>4, <2>1, Kinds3 DEF ThreadInv
  <2> QED
    BY <1>3, <1>6, <2>2, <2>3, <2>4 DEF ThreadInv
<1>8. \A r \in Queues : (mem'[r] = "live") <=> (mem[r] = "live" /\ r # q)
  BY <1>2, <1>3, <1>4
<1>9. ASSUME t = "driver"
      PROVE  DriverInv'
  <2>1. life \in {"failed", "destroying"}
    BY <1>3, <1>9, DriverDestroys DEF Destroy
  <2>2. PICK D : D = Live("driver")
    OBVIOUS
  <2>3. Destroys(todo["driver"], D) /\ WithCqs(D)
    BY <2>1, <2>2 DEF HostInv, DriverInv
  <2>4. Destroys(Tail(todo["driver"]), D \ {q}) /\ \A r \in D \ {q} : Cq(r) # q
    BY <1>3, <1>9, <2>3, DestroysTail
  <2>5. Live("driver")' = D \ {q}
    BY <1>8, <2>2, Kinds3 DEF Live, Own, Kinds
  <2>6. WithCqs(D \ {q})
    BY <2>3, <2>4 DEF WithCqs
  <2>7. Destroys(todo["driver"], Live("driver"))'
    BY <1>6, <1>9, <2>4, <2>5, DestroysNext
  <2>8. WithCqs(Live("driver"))'
    BY <2>5, <2>6 DEF WithCqs
  <2> QED
    BY <2>1, <2>7, <2>8 DEF DriverInv
<1>10. t # "hub"
  <2>1. SUFFICES ASSUME t = "hub" PROVE FALSE
    OBVIOUS
  <2>2. Head(todo["hub"]) \in {"create"} \X Own("hub")
    BY <1>3, <2>1 DEF HostInv, HubInv
  <2> QED
    BY <1>3, <2>1, <2>2 DEF Destroy
<1>11. ASSUME t = "audio"
       PROVE  AudioInv'
  <2>1. PICK r \in {Audio("in"), Audio("out")} : todo["audio"] = <<Destroy(r)>>
    BY <1>3, <1>11, AudioDestroys DEF Destroy
  <2>2. r = q /\ Tail(todo["audio"]) = << >>
    BY <1>3, <1>11, <2>1, Names
  <2>3. q # Cq(q)
    BY <2>1, <2>2, AudioNames
  <2>4. CqStays("audio")'
    BY <1>8, <2>3, Kinds3 DEF HostInv, AudioInv, CqStays
  <2>5. "audio" \in started'
    BY <1>3, <1>11 DEF HostInv, AudioInv
  <2> QED
    BY <1>6, <1>11, <2>2, <2>4, <2>5 DEF AudioInv
<1>12. LifeInv'
  BY <1>2, <1>4 DEF HostInv, LifeInv
<1> QED
  BY <1>5, <1>7, <1>9, <1>10, <1>11, <1>12, Alone

(* The memory of a queue is freed: nothing that lives changes.             *)
LEMMA FreeKeeps ==
    ASSUME HostInv, IInv, NEW t \in Threads, Free(t), UNCHANGED hostVars
    PROVE  HostInv'
<1> USE DEF hostVars
<1>1. PICK q : q = cur[t]
  OBVIOUS
<1>2. /\ pc[t] = "free" /\ pc' = [pc EXCEPT ![t] = "idle"] /\ cur' = [cur EXCEPT ![t] = None]
      /\ mem' = [mem EXCEPT ![q] = "freed"]
  BY <1>1 DEF Free, Done, Goto
<1>3. /\ pc \in [Threads -> {"idle", "register", "store", "release", "free"}]
      /\ cur \in [Threads -> Queues \cup {None}]
      /\ mem \in [Queues -> {"none", "live", "released", "freed"}]
  BY DEF IInv, TypeOK
<1>4. q \in Own(t) /\ q \in Queues /\ mem[q] = "released"
  BY <1>1, <1>2, Kinds3 DEF IInv, HandInv, HostInv, ThreadInv
<1>5. \A u \in Threads \ {t} : Frame(u)
  BY <1>2, <1>3, <1>4, OthersOwn, Kinds3 DEF Frame
<1>6. pc'[t] = "idle" /\ cur'[t] = None
  BY <1>2, <1>3
<1>7. \A r \in Queues : /\ mem'[r] = "live" <=> mem[r] = "live"
                        /\ mem'[r] = "none" <=> mem[r] = "none"
  BY <1>2, <1>3, <1>4
<1>8. ThreadInv(t)'
  <2>1. Ops(t)' = Ops(t) /\ Own(t)' = Own(t)
    BY DEF Ops, Own, Kinds, Add, Hcd
  <2> QED
    BY <1>6, <1>7, <2>1, Kinds3 DEF HostInv, ThreadInv
<1>9. \A u \in Threads : Live(u)' = Live(u)
  BY <1>7, Kinds3 DEF Live, Own, Kinds
<1>10. ASSUME t = "driver"
       PROVE  DriverInv'
  <2>1. life # "creating"
    <3>1. ASSUME Creating PROVE FALSE
      <4>1. PICK n : Created(n)
        BY <3>1 DEF Creating
      <4>2. mem[q] = "live"
        BY <1>1, <1>4, <1>10, <4>1 DEF Created
      <4> QED
        BY <1>4, <4>2
    <3> QED
      BY <3>1 DEF HostInv, DriverInv
  <2> QED
    BY <1>6, <1>9, <1>10, <2>1 DEF HostInv, DriverInv, Destroys, CqsLast, WithCqs
<1>11. \A u \in Threads : CqStays(u) => CqStays(u)'
  BY <1>7, Kinds3 DEF CqStays, Own, Kinds
<1>12. HubInv'
  BY <1>2, <1>3, <1>11 DEF HostInv, HubInv, Own, Kinds
<1>13. AudioInv'
  <2>1. ASSUME NEW n \in 1..5, Probed(n)
        PROVE  Probed(n)'
    <3>1. \A m \in 1..5 : CreateAudio[m][2] \in Queues
      BY AudioNames, Kinds3 DEF Create, Dma
    <3> QED
      BY <1>7, <2>1, <3>1 DEF Probed
  <2>2. Probing => Probing'
    BY <2>1 DEF Probing
  <2>3. \A r \in {Audio("in"), Audio("out")} : mem'[r] = "live" <=> mem[r] = "live"
    BY <1>7, AudioNames, Kinds3
  <2> QED
    BY <1>2, <1>3, <1>11, <2>2, <2>3 DEF HostInv, AudioInv, Own, Kinds
<1>14. LifeInv'
  BY DEF HostInv, LifeInv
<1> QED
  BY <1>5, <1>8, <1>10, <1>12, <1>13, <1>14, Alone

(* Which queues share a structure.                                         *)
LEMMA Groups ==
    /\ \A i, x : Group(Msg(i, x)) = <<"msg", i>>
    /\ \A i : Group(Ev(i)) = <<"ev", i>>
    /\ Group(EvCq) = <<"ev", 0>> /\ Group(Hcd) = <<"hcd", 0>>
    /\ \A q \in Queues : Group(q)[1] = q[1]
    /\ \A q \in Queues : q[1] # "hcd"
BY DEF Group, Msg, Ev, EvCq, Hcd, AllQueues, Tq, Audio

(* The driver's error path destroys everything there is: the structure that *)
(* failed first, and no completion queue before its submission queues.     *)
LEMMA UnwindDestroys ==
    ASSUME HostInv, IInv, NEW n, At(n), NEW q,
           \/ q \in Own("driver") /\ CreateVhci[n] = Create(q)
           \/ q \in Own("driver") /\ CreateVhci[n] = Dma(q)
           \/ q = Hcd
    PROVE  /\ Destroys(Teardown(OwnGroup(q)) \o Teardown(field \ OwnGroup(q)),
                       field \cap Own("driver"))
           /\ WithCqs(field \cap Own("driver"))
           /\ OwnGroup(q) \subseteq Own("driver")
<1>1. field \subseteq Queues
  BY DEF HostInv, LifeInv
<1>2. WithCqs(field \cap Own("driver"))
  BY CreatedCqs
<1>3. OwnGroup(q) \subseteq Own("driver")
  <2>1. SUFFICES ASSUME NEW p \in field, Group(p) = Group(q) PROVE p \in Own("driver")
    BY DEF OwnGroup
  <2>2. q # Hcd
    BY <1>1, <2>1, Groups
  <2>3. q \in Own("driver") /\ q \in Queues
    BY <2>2, Kinds3
  <2>4. p[1] = q[1]
    BY <1>1, <2>1, <2>3, Groups
  <2> QED
    BY <1>1, <2>3, <2>4 DEF Own
<1>4. ASSUME NEW r \in (field \ OwnGroup(q)) \cap Own("driver"), Cq(r) \in OwnGroup(q)
      PROVE  FALSE
  <2>1. /\ r \in Own("driver") /\ Group(r) # Group(q)
        /\ Group(Cq(r)) = Group(q) /\ Cq(r) \in field /\ Cq(r) \in Own("driver")
    BY <1>3, <1>4 DEF OwnGroup
  <2>2. q # Hcd
    BY <1>1, <2>1, Groups
  <2>3. q \in Own("driver")
    BY <2>2
  <2>4. \/ \E i \in 1..MsgQueues : Cq(r) = Msg(i, "cq") /\ Group(r) = <<"msg", i>>
        \/ Cq(r) = EvCq
    BY <2>1, Kinds3, Groups
  <2>5. Cq(r) = EvCq
    BY <2>1, <2>4, Groups
  <2>6. Group(q) = <<"ev", 0>>
    BY <2>1, <2>5, Groups
  <2>7. q = EvCq
    BY <2>3, <2>6, Kinds3, Groups
  <2>8. CreateVhci[n] = Create(EvCq)
    <3>1. n \in 1..Len(CreateVhci)
      BY DEF At
    <3>2. CreateVhci[n] # Dma(EvCq)
      <4>1. CreateVhci[n] = Add \/ \E p \in Own("driver") :
               CreateVhci[n] = Create(p) \/ (CreateVhci[n] = Dma(p) /\ p # EvCq)
        BY <3>1, CreateFacts
      <4> QED
        BY <4>1, OpNames
    <3> QED
      BY <2>2, <2>7, <3>2
  <2>9. EvCq \notin field
    BY <2>8, CreatedCqs, Kinds3
  <2> QED
    BY <2>1, <2>5, <2>9
<1>5. OwnGroup(q) \subseteq field
  BY DEF OwnGroup
<1> QED
  BY <1>2, <1>3, <1>4, <1>5, TwoTeardowns

(* A step that fails, before anything is in hand or when the command to    *)
(* register the queue fails.                                               *)
Failing(t, q) ==
    /\ pc' = [pc EXCEPT ![t] = "idle"] /\ cur' = [cur EXCEPT ![t] = None]
    /\ \/ pc[t] = "idle" /\ cur[t] = None /\ mem' = mem
       \/ pc[t] = "register" /\ cur[t] = q /\ mem' = [mem EXCEPT ![q] = "freed"]
    /\ todo[t] # << >>
    /\ \/ q \in Own(t) /\ Head(todo[t]) = Create(q)
       \/ q \in Own(t) /\ Head(todo[t]) = Dma(q)
       \/ q = Hcd /\ Head(todo[t]) = Add
    /\ UNCHANGED <<timer, mapped, started>>

(* After it nothing is in hand, and nothing of the others has changed.     *)
LEMMA FailingFacts ==
    ASSUME HostInv, IInv, NEW t \in Threads, NEW q, Failing(t, q)
    PROVE  /\ pc'[t] = "idle" /\ cur'[t] = None
           /\ \A u \in Threads \ {t} : /\ pc'[u] = pc[u] /\ cur'[u] = cur[u]
                                       /\ \A r \in Own(u) : mem'[r] = mem[r]
           /\ \A r \in field : mem'[r] = mem[r]
           /\ \A r \in Queues : mem'[r] = "live" <=> (mem[r] = "live" /\ r # cur[t])
           /\ \A r \in Queues : mem[r] # "none" => mem'[r] # "none"
<1>1. /\ pc \in [Threads -> {"idle", "register", "store", "release", "free"}]
      /\ cur \in [Threads -> Queues \cup {None}]
      /\ mem \in [Queues -> {"none", "live", "released", "freed"}] /\ field \subseteq Queues
  BY DEF IInv, TypeOK, HostInv, LifeInv
<1>2. pc'[t] = "idle" /\ cur'[t] = None
      /\ \A u \in Threads \ {t} : pc'[u] = pc[u] /\ cur'[u] = cur[u]
  BY <1>1 DEF Failing
<1>3. CASE pc[t] = "idle" /\ cur[t] = None /\ mem' = mem
  BY <1>1, <1>2, <1>3
<1>4. CASE pc[t] = "register" /\ cur[t] = q /\ mem' = [mem EXCEPT ![q] = "freed"]
  <2>1. q \in Own(t) /\ q \in Queues /\ q \notin field
    BY <1>4, HoldsOwn, Kinds3
  <2>2. \A u \in Threads \ {t} : \A r \in Own(u) : r # q /\ r \in Queues
    BY <2>1, OthersOwn, Kinds3
  <2> QED
    BY <1>1, <1>2, <1>4, <2>1, <2>2
<1> QED
  BY <1>3, <1>4 DEF Failing

(* The creation of the host controller fails and its error path is taken.  *)
LEMMA DriverFails ==
    ASSUME HostInv, IInv, NEW q, Failing("driver", q), Unwind(q)
    PROVE  HostInv'
<1> DEFINE part == OwnGroup(q)
           list == Teardown(part) \o Teardown(field \ part)
<1>1. /\ todo' = [todo EXCEPT !["driver"] = list] /\ field' = field \ part /\ life' = "failed"
      /\ todo = [u \in Threads |-> todo[u]] /\ field \subseteq Queues
      /\ UNCHANGED <<timer, mapped, started>>
  BY DEF Unwind, Become, HostInv, LifeInv, Failing
<1>2. /\ pc'["driver"] = "idle" /\ cur'["driver"] = None
      /\ \A u \in Threads \ {"driver"} : /\ pc'[u] = pc[u] /\ cur'[u] = cur[u]
                                         /\ \A r \in Own(u) : mem'[r] = mem[r]
      /\ \A r \in field : mem'[r] = mem[r]
      /\ \A r \in Queues : mem'[r] = "live" <=> (mem[r] = "live" /\ r # cur["driver"])
      /\ \A r \in Queues : mem[r] # "none" => mem'[r] # "none"
  <2>1. "driver" \in Threads
    OBVIOUS
  <2> QED
    BY <2>1, FailingFacts
<1>3. life = "creating" /\ \E n : At(n)
  BY DriverCreates DEF Failing, Create, Dma, Add
<1>4. PICK n : At(n)
  BY <1>3
<1>5. \/ q \in Own("driver") /\ CreateVhci[n] = Create(q)
      \/ q \in Own("driver") /\ CreateVhci[n] = Dma(q)
      \/ q = Hcd
  BY <1>4 DEF At, Failing
<1>6. /\ Destroys(list, field \cap Own("driver"))
      /\ WithCqs(field \cap Own("driver"))
      /\ part \subseteq Own("driver")
  BY <1>4, <1>5, UnwindDestroys
<1>7. PICK l : l = list
  OBVIOUS
<1>8. todo'["driver"] = l /\ \A u \in Threads \ {"driver"} : todo'[u] = todo[u]
  <2> HIDE DEF list
  <2> QED
    BY <1>1, <1>7
<1>9. \A u \in Threads \ {"driver"} : Frame(u)
  <2>1. SUFFICES ASSUME NEW u \in Threads \ {"driver"} PROVE Frame(u)
    OBVIOUS
  <2>2. \A r \in Own(u) : r \notin part
    BY <1>6, OthersOwn
  <2> QED
    BY <1>1, <1>2, <1>8, <2>2 DEF Frame
<1>10. Destroys(l, field \cap Own("driver"))
  BY <1>6, <1>7
<1>11. l \in Seq(Ops("driver"))
  <2>1. l \in Seq({"destroy"} \X (field \cap Own("driver")))
    BY <1>10 DEF Destroys
  <2>2. {"destroy"} \X (field \cap Own("driver")) \subseteq Ops("driver")
    BY DEF Ops
  <2> QED
    BY <2>1, <2>2
<1>12. ThreadInv("driver")'
  <2>1. \A r \in field' \cap Own("driver") : mem'[r] # "none"
    BY <1>1, <1>2 DEF HostInv, ThreadInv
  <2>2. Ops("driver")' = Ops("driver") /\ Own("driver")' = Own("driver")
    BY DEF Ops, Own, Kinds, Add, Hcd
  <2> QED
    BY <1>2, <1>8, <1>11, <2>1, <2>2 DEF ThreadInv
<1>13. \A r \in Own("driver") : (mem'[r] = "live") <=> (r \in field)
  <2>1. SUFFICES ASSUME NEW r \in Own("driver") PROVE (mem'[r] = "live") <=> (r \in field)
    OBVIOUS
  <2>2. mem[r] = "live" <=> (r \in field \/ cur["driver"] = r)
    BY <1>4 DEF At, Created
  <2>3. r \in field => cur["driver"] # r
    <3>1. CASE pc["driver"] = "idle" /\ cur["driver"] = None
      BY <3>1, Kinds3
    <3>2. CASE pc["driver"] = "register"
      BY <3>2, HoldsOwn
    <3> QED
      BY <3>1, <3>2 DEF Failing
  <2> QED
    BY <1>2, <2>2, <2>3, Kinds3
<1>14. PICK D : D = field \cap Own("driver")
  OBVIOUS
<1>15. Live("driver")' = D
  BY <1>13, <1>14 DEF Live, Own, Kinds
<1>16. Destroys(todo["driver"], Live("driver"))'
  BY <1>8, <1>10, <1>14, <1>15, DestroysNext
<1>17. WithCqs(Live("driver"))'
  BY <1>6, <1>14, <1>15 DEF WithCqs
<1>18. DriverInv'
  BY <1>1, <1>16, <1>17 DEF DriverInv
<1>19. LifeInv'
  <2> HIDE DEF list, part
  <2>1. todo' = [u \in Threads |-> todo'[u]]
    BY <1>1
  <2> QED
    BY <1>1, <1>3, <2>1 DEF HostInv, LifeInv
<1> QED
  BY <1>1, <1>9, <1>12, <1>18, <1>19, Alone

(* The hub thread goes on, without the queue.                              *)
LEMMA HubFails ==
    ASSUME HostInv, IInv, NEW q, Failing("hub", q), Become("hub", Tail(todo["hub"])),
           UNCHANGED <<field, life>>
    PROVE  HostInv'
<1>1. /\ todo' = [todo EXCEPT !["hub"] = Tail(todo["hub"])]
      /\ todo = [u \in Threads |-> todo[u]] /\ field \subseteq Queues
      /\ todo["hub"] # << >> /\ UNCHANGED <<timer, mapped, started>>
  BY DEF Become, HostInv, LifeInv, Failing
<1>2. /\ pc'["hub"] = "idle" /\ cur'["hub"] = None
      /\ \A u \in Threads \ {"hub"} : /\ pc'[u] = pc[u] /\ cur'[u] = cur[u]
                                      /\ \A r \in Own(u) : mem'[r] = mem[r]
      /\ \A r \in field : mem'[r] = mem[r]
      /\ \A r \in Queues : mem'[r] = "live" <=> (mem[r] = "live" /\ r # cur["hub"])
      /\ \A r \in Queues : mem[r] # "none" => mem'[r] # "none"
  <2>1. "hub" \in Threads
    OBVIOUS
  <2> QED
    BY <2>1, FailingFacts
<1>3. todo'["hub"] = Tail(todo["hub"]) /\ \A u \in Threads \ {"hub"} : todo'[u] = todo[u]
  BY <1>1
<1>4. \A u \in Threads \ {"hub"} : Frame(u)
  BY <1>2, <1>3 DEF Frame
<1>5. ThreadInv("hub")'
  <2>1. ThreadInv("hub")
    BY DEF HostInv
  <2>2. Tail(todo["hub"]) \in Seq(Ops("hub"))
    BY <1>1, <2>1 DEF ThreadInv
  <2>3. Ops("hub")' = Ops("hub") /\ Own("hub")' = Own("hub")
    BY DEF Ops, Own, Kinds, Add, Hcd
  <2> QED
    BY <1>2, <1>3, <2>1, <2>2, <2>3 DEF ThreadInv
<1>6. HubInv'
  <2>1. Tail(todo["hub"]) \in Seq({"create"} \X Own("hub"))
    BY <1>1 DEF HostInv, HubInv
  <2>2. CqStays("hub")'
    BY <1>2, Kinds3 DEF HostInv, HubInv, CqStays
  <2> QED
    BY <1>1, <1>3, <2>1, <2>2 DEF HostInv, HubInv
<1>7. LifeInv'
  BY <1>1 DEF HostInv, LifeInv
<1> QED
  BY <1>1, <1>4, <1>5, <1>6, <1>7, Alone

(* The probe of the audio device gives up.                                 *)
LEMMA AudioFails ==
    ASSUME HostInv, IInv, NEW q, Failing("audio", q),
           Become("audio", IF q \in field THEN <<Destroy(q)>> ELSE << >>),
           UNCHANGED <<field, life>>
    PROVE  HostInv'
<1> DEFINE list == IF q \in field THEN <<Destroy(q)>> ELSE << >>
<1>1. /\ todo' = [todo EXCEPT !["audio"] = list]
      /\ todo = [u \in Threads |-> todo[u]] /\ field \subseteq Queues
      /\ todo["audio"] # << >> /\ UNCHANGED <<timer, mapped, started>>
  BY DEF Become, HostInv, LifeInv, Failing
<1>2. /\ pc'["audio"] = "idle" /\ cur'["audio"] = None
      /\ \A u \in Threads \ {"audio"} : /\ pc'[u] = pc[u] /\ cur'[u] = cur[u]
                                        /\ \A r \in Own(u) : mem'[r] = mem[r]
      /\ \A r \in field : mem'[r] = mem[r]
      /\ \A r \in Queues : mem'[r] = "live" <=> (mem[r] = "live" /\ r # cur["audio"])
      /\ \A r \in Queues : mem[r] # "none" => mem'[r] # "none"
  <2>1. "audio" \in Threads
    OBVIOUS
  <2> QED
    BY <2>1, FailingFacts
<1>3. todo'["audio"] = list /\ \A u \in Threads \ {"audio"} : todo'[u] = todo[u]
  <2> HIDE DEF list
  <2> QED
    BY <1>1
<1>4. \A u \in Threads \ {"audio"} : Frame(u)
  BY <1>2, <1>3 DEF Frame
<1>5. PICK n : AudioAt(n)
  BY <1>1, AudioCreates DEF Failing, Create, Dma, Add
<1>6. q \in field => /\ q \in {Audio("in"), Audio("out")} /\ mem'[q] = "live"
  <2>1. SUFFICES ASSUME q \in field
                 PROVE  q \in {Audio("in"), Audio("out")} /\ mem'[q] = "live"
    OBVIOUS
  <2>2. n \in 1..5 /\ Head(todo["audio"]) = CreateAudio[n] /\ n \in n..5
    BY <1>5 DEF AudioAt
  <2>3. q # Hcd
    BY <1>1, <2>1, Groups
  <2>4. Head(todo["audio"]) # Create(q)
    <3>1. SUFFICES ASSUME CreateAudio[n] = Create(q) PROVE FALSE
      BY <2>2
    <3>2. CreateAudio[n][1] = "create" /\ CreateAudio[n][2] = q
      BY <3>1 DEF Create
    <3> QED
      BY <1>5, <2>1, <2>2, <3>2 DEF AudioAt, Probed
  <2>5. CreateAudio[n] = Dma(q)
    BY <2>2, <2>3, <2>4 DEF Failing
  <2>6. CreateAudio[n][1] = "dma" /\ CreateAudio[n][2] = q
    BY <2>5 DEF Dma
  <2>7. mem[q] = "live"
    BY <1>5, <2>6 DEF AudioAt, Probed
  <2>8. q \in {Audio("in"), Audio("out")}
    BY <2>2, <2>5, AudioNames, OpNames
  <2> QED
    BY <1>2, <2>1, <2>7, <2>8
<1>7. list \in Seq(Ops("audio"))
  <2>1. q \in field => Destroy(q) \in Ops("audio")
    BY <1>6, AudioNames DEF Ops, Destroy
  <2> QED
    BY <2>1
<1>8. ThreadInv("audio")'
  <2>1. ThreadInv("audio")
    BY DEF HostInv
  <2>2. Ops("audio")' = Ops("audio") /\ Own("audio")' = Own("audio")
    BY DEF Ops, Own, Kinds, Add, Hcd
  <2> HIDE DEF list
  <2> QED
    BY <1>2, <1>3, <1>7, <2>1, <2>2 DEF ThreadInv
<1>9. AudioInv'
  <2>1. CqStays("audio")'
    BY <1>2, Kinds3 DEF HostInv, AudioInv, CqStays
  <2>2. "audio" \in started'
    BY <1>1 DEF HostInv, AudioInv
  <2>3. \/ todo'["audio"] = << >>
        \/ \E r \in {Audio("in"), Audio("out")} :
              todo'["audio"] = <<Destroy(r)>> /\ mem'[r] = "live"
    BY <1>3, <1>6
  <2> QED
    BY <2>1, <2>2, <2>3 DEF AudioInv
<1>10. LifeInv'
  <2> HIDE DEF list
  <2>1. todo' = [u \in Threads |-> todo'[u]]
    BY <1>1
  <2> QED
    BY <1>1, <2>1 DEF HostInv, LifeInv
<1> QED
  BY <1>1, <1>4, <1>8, <1>9, <1>10, Alone

(* So a failure keeps the invariant, of whichever thread and step.         *)
LEMMA FailKeeps ==
    ASSUME HostInv, IInv, NEW t \in Threads, NEW q, Failing(t, q), Fail(t, q)
    PROVE  HostInv'
BY DriverFails, HubFails, AudioFails DEF Fail

LEMMA CreateFailsKeeps ==
    ASSUME HostInv, IInv, NEW t \in Threads, CreateFails(t)
    PROVE  HostInv'
<1>1. /\ pc \in [Threads -> {"idle", "register", "store", "release", "free"}]
      /\ cur \in [Threads -> Queues \cup {None}]
  BY DEF IInv, TypeOK
<1>2. UNCHANGED <<timer, mapped, started>>
  BY DEF CreateFails
<1>3. ASSUME Op(t)[1] = "create", Fail(t, Op(t)[2]), UNCHANGED <<pc, cur, mem>>
      PROVE  HostInv'
  <2>1. PICK q : q = Op(t)[2]
    OBVIOUS
  <2>2. /\ pc[t] = "idle" /\ cur[t] = None /\ todo[t] # << >> /\ q \in Own(t)
        /\ Head(todo[t]) = Create(q)
    BY <1>3, <2>1, Starts DEF Create
  <2>3. pc' = [pc EXCEPT ![t] = "idle"] /\ cur' = [cur EXCEPT ![t] = None]
    BY <1>1, <1>3, <2>2
  <2>4. Failing(t, q)
    BY <1>2, <1>3, <2>2, <2>3 DEF Failing
  <2> QED
    BY <1>3, <2>1, <2>4, FailKeeps
<1>4. ASSUME RegisterFails(t), Fail(t, cur[t])
      PROVE  HostInv'
  <2>1. PICK q : q = cur[t]
    OBVIOUS
  <2>2. pc[t] = "register" /\ Done(t) /\ mem' = [mem EXCEPT ![q] = "freed"]
    BY <1>4, <2>1 DEF RegisterFails
  <2>3. q \in Own(t) /\ todo[t] # << >> /\ Head(todo[t]) = Create(q)
    BY <2>1, <2>2, HoldsOwn
  <2>4. Failing(t, q)
    BY <1>2, <2>1, <2>2, <2>3 DEF Failing, Done, Goto
  <2> QED
    BY <1>4, <2>1, <2>4, FailKeeps
<1>5. regVars' = regVars => UNCHANGED <<pc, cur, mem>>
  BY DEF regVars, driverVars, threadVars
<1> QED
  BY <1>3, <1>4, <1>5 DEF CreateFails, NoId, AllocFails, threadVars

LEMMA OtherFailsKeeps ==
    ASSUME HostInv, IInv, NEW t \in Threads, OtherFails(t)
    PROVE  HostInv'
<1>1. /\ pc \in [Threads -> {"idle", "register", "store", "release", "free"}]
      /\ cur \in [Threads -> Queues \cup {None}]
  BY DEF IInv, TypeOK
<1>2. PICK q : q = Op(t)[2]
  OBVIOUS
<1>3. /\ Op(t)[1] \in {"dma", "add"} /\ Fail(t, q)
      /\ UNCHANGED <<regVars, timer, mapped, started>>
  BY <1>2 DEF OtherFails
<1>4. /\ pc[t] = "idle" /\ cur[t] = None /\ todo[t] # << >>
      /\ \/ q \in Own(t) /\ Head(todo[t]) = Dma(q)
         \/ q = Hcd /\ Head(todo[t]) = Add
  BY <1>2, <1>3, Starts DEF Dma, Add
<1>5. pc' = pc /\ cur' = cur /\ mem' = mem
  BY <1>3 DEF regVars, driverVars, threadVars
<1>6. pc' = [pc EXCEPT ![t] = "idle"] /\ cur' = [cur EXCEPT ![t] = None]
  BY <1>1, <1>4, <1>5
<1>7. Failing(t, q)
  BY <1>3, <1>4, <1>5, <1>6 DEF Failing
<1> QED
  BY <1>3, <1>7, FailKeeps

-----------------------------------------------------------------------------
(* The steps of probe and remove, and of the timer: of what the threads    *)
(* have, at most the list of one that has nothing to do changes.           *)
Quiet(t) ==
    /\ todo' = [todo EXCEPT ![t] = todo'[t]] /\ Finished(t)
    /\ todo'[t] \in Seq(Ops(t))
    /\ UNCHANGED <<mem, pc, cur, field>>

(* What that leaves as it is.                                              *)
LEMMA QuietThreads ==
    ASSUME HostInv, IInv, NEW t \in Threads, Quiet(t)
    PROVE  /\ \A u \in Threads : ThreadInv(u)'
           /\ \A u \in Threads \ {t} : Frame(u)
           /\ pc[t] = "idle" /\ cur[t] = None
           /\ todo' = [u \in Threads |-> todo'[u]]
<1>1. todo = [u \in Threads |-> todo[u]]
  BY DEF HostInv, LifeInv
<1>2. \A u \in Threads \ {t} : Frame(u)
  BY <1>1 DEF Quiet, Frame
<1>3. pc[t] = "idle" /\ cur[t] = None
  BY DEF IInv, HandInv, Quiet, Finished
<1>4. ThreadInv(t)'
  <2>1. Ops(t)' = Ops(t) /\ Own(t)' = Own(t)
    BY DEF Ops, Own, Kinds, Add, Hcd
  <2> QED
    BY <1>3, <2>1 DEF HostInv, ThreadInv, Quiet
<1> QED
  BY <1>1, <1>2, <1>3, <1>4, ThreadFrame DEF Quiet

(* One lemma per step of probe and removal.                                *)
LEMMA HandshakeKeeps ==
    ASSUME HostInv, IInv, Handshake
    PROVE  HostInv'
<1>1. /\ life = "probing" /\ Finished("driver")
      /\ field \cap Own("driver") = {} /\ Live("driver") = {}
      /\ UNCHANGED <<mem, pc, cur, field, timer, mapped, started>>
      /\ todo = [u \in Threads |-> todo[u]]
  BY DEF Handshake, HostInv, DriverInv, LifeInv, regVars, driverVars, threadVars
<1>2. CASE life' = "creating" /\ Become("driver", CreateVhci)
  <2>1. /\ todo'["driver"] = CreateVhci
        /\ todo' = [todo EXCEPT !["driver"] = CreateVhci]
    BY <1>1, <1>2 DEF Become
  <2>2. Quiet("driver")
    BY <1>1, <2>1, CreateFacts DEF Quiet
  <2>3. /\ \A u \in Threads : ThreadInv(u)'
        /\ \A u \in Threads \ {"driver"} : Frame(u)
        /\ cur["driver"] = None
        /\ todo' = [u \in Threads |-> todo'[u]]
    <3>1. "driver" \in Threads
      OBVIOUS
    <3> QED
      BY <2>2, <3>1, QuietThreads
  <2>4. ASSUME NEW q \in Own("driver")
        PROVE  /\ (q \in field') <=> (\E m \in 1..0 : CreateVhci[m] = Create(q))
               /\ (mem'[q] = "live") <=> (q \in field' \/ cur'["driver"] = q)
    BY <1>1, <2>3, Kinds3 DEF Live
  <2>5. Created(0 + 1)'
    BY <2>4, CreatedNext
  <2>6. Created(1)'
    BY <2>5
  <2>7. 1 \in 1..Len(CreateVhci) /\ SubSeq(CreateVhci, 1, Len(CreateVhci)) = CreateVhci
    BY CreateFacts, Whole
  <2>8. Creating'
    BY <2>1, <2>6, <2>7 DEF Creating
  <2>9. DriverInv'
    BY <1>2, <2>8 DEF DriverInv
  <2>10. LifeInv'
    BY <1>1, <1>2, <2>3 DEF HostInv, LifeInv
  <2> QED
    BY <1>1, <2>3, <2>9, <2>10, Alone
<1>3. CASE life' = "closing" /\ UNCHANGED todo
  <2>1. \A u \in Threads : Frame(u)
    BY <1>1, <1>3 DEF Frame
  <2>2. Live("driver")' = {}
    BY <1>1, <2>1, LiveFrame
  <2>3. DriverInv'
    BY <1>1, <1>3, <2>2 DEF DriverInv
  <2>4. LifeInv'
    BY <1>1, <1>3 DEF HostInv, LifeInv
  <2> QED
    BY <1>1, <2>1, <2>3, <2>4, Alone, ThreadFrame
<1> QED
  BY <1>2, <1>3 DEF Handshake

LEMMA AudioProbeKeeps ==
    ASSUME HostInv, IInv, AudioProbe
    PROVE  HostInv'
<1>1. /\ Finished("audio") /\ field \cap Own("audio") = {}
      /\ UNCHANGED <<mem, pc, cur, field, life, timer, mapped>>
      /\ started' = started \cup {"audio"}
      /\ todo = [u \in Threads |-> todo[u]] /\ Become("audio", CreateAudio)
  BY DEF AudioProbe, HostInv, AudioInv, LifeInv, regVars, driverVars, threadVars
<1>2. CreateAudio \in Seq({"create", "dma"} \X Own("audio")) /\ Len(CreateAudio) = 5
  BY AudioNames DEF Create, Dma
<1>3. todo'["audio"] = CreateAudio /\ todo' = [todo EXCEPT !["audio"] = CreateAudio]
  BY <1>1 DEF Become
<1>4. CreateAudio \in Seq(Ops("audio"))
  <2>1. {"create", "dma"} \X Own("audio") \subseteq Ops("audio")
    BY DEF Ops
  <2> QED
    BY <1>2, <2>1
<1>5. Quiet("audio")
  BY <1>1, <1>3, <1>4 DEF Quiet
<1>6. /\ \A u \in Threads : ThreadInv(u)'
      /\ \A u \in Threads \ {"audio"} : Frame(u)
      /\ todo' = [u \in Threads |-> todo'[u]]
  <2>1. "audio" \in Threads
    OBVIOUS
  <2> QED
    BY <1>5, <2>1, QuietThreads
<1>7. DriverInv'
  BY <1>1, <1>6, DriverFrame DEF HostInv
<1>8. HubInv'
  BY <1>1, <1>6, HubFrame DEF HostInv
<1>9. AudioInv'
  <2>1. CreateAudio[1][1] = "create"
    BY AudioNames DEF Create
  <2>2. \A m \in 1..5 : CreateAudio[m][2] \in Own("audio")
    BY AudioNames DEF Create, Dma
  <2>3. Probed(1)'
    BY <1>1, <2>1, <2>2 DEF Probed
  <2>4. todo'["audio"] = SubSeq(CreateAudio, 1, 5)
    BY <1>2, <1>3, Whole
  <2>5. Probing'
    BY <2>3, <2>4 DEF Probing
  <2>6. CqStays("audio")'
    BY <1>1 DEF HostInv, AudioInv, CqStays
  <2> QED
    BY <1>1, <2>5, <2>6 DEF AudioInv
<1>10. LifeInv'
  BY <1>1, <1>6 DEF HostInv, LifeInv
<1> QED
  BY <1>6, <1>7, <1>8, <1>9, <1>10 DEF HostInv

LEMMA EnableDeviceKeeps ==
    ASSUME HostInv, IInv, EnableDevice
    PROVE  HostInv'
<1>1. /\ Finished("hub")
      /\ UNCHANGED <<mem, pc, cur, field, life, timer, mapped>>
      /\ started' = started \cup {"hub"}
      /\ todo = [u \in Threads |-> todo[u]] /\ Become("hub", CreateTransferQueue)
  BY DEF EnableDevice, HostInv, HubInv, LifeInv, regVars, driverVars, threadVars
<1>2. CreateTransferQueue \in Seq({"create"} \X Own("hub"))
  BY AudioNames DEF CreateTransferQueue, Create
<1>3. todo'["hub"] = CreateTransferQueue /\ todo' = [todo EXCEPT !["hub"] = CreateTransferQueue]
  BY <1>1 DEF Become
<1>4. CreateTransferQueue \in Seq(Ops("hub"))
  <2>1. {"create"} \X Own("hub") \subseteq Ops("hub")
    BY DEF Ops
  <2> QED
    BY <1>2, <2>1
<1>5. Quiet("hub")
  BY <1>1, <1>3, <1>4 DEF Quiet
<1>6. /\ \A u \in Threads : ThreadInv(u)'
      /\ \A u \in Threads \ {"hub"} : Frame(u)
      /\ todo' = [u \in Threads |-> todo'[u]]
  <2>1. "hub" \in Threads
    OBVIOUS
  <2> QED
    BY <1>5, <2>1, QuietThreads
<1>7. DriverInv'
  BY <1>1, <1>6, DriverFrame DEF HostInv
<1>8. AudioInv'
  BY <1>1, <1>6, AudioFrame DEF HostInv
<1>9. HubInv'
  BY <1>1, <1>2, <1>3 DEF HostInv, HubInv, CqStays
<1>10. LifeInv'
  BY <1>1, <1>6 DEF HostInv, LifeInv
<1> QED
  BY <1>6, <1>7, <1>8, <1>9, <1>10 DEF HostInv

LEMMA RemoveHcdKeeps ==
    ASSUME HostInv, IInv, RemoveHcd
    PROVE  HostInv'
<1>1. PICK list : list = Teardown(field)
  OBVIOUS
<1>2. PICK D : D = Live("driver")
  OBVIOUS
<1>3. /\ life = "removing" /\ life' = "destroying" /\ Finished("driver")
      /\ D = field \cap Own("driver") /\ WithCqs(D)
      /\ UNCHANGED <<mem, pc, cur, field, timer, mapped, started>>
      /\ todo = [u \in Threads |-> todo[u]] /\ todo' = [todo EXCEPT !["driver"] = list]
  BY <1>1, <1>2 DEF RemoveHcd, HostInv, DriverInv, LifeInv, Become, regVars, driverVars, threadVars
<1>4. Destroys(list, D)
  BY <1>1, <1>3, TeardownFacts
<1>5. todo'["driver"] = list
  BY <1>3
<1>6. list \in Seq(Ops("driver"))
  <2>1. list \in Seq({"destroy"} \X D)
    BY <1>4 DEF Destroys
  <2>2. {"destroy"} \X D \subseteq Ops("driver")
    BY <1>3 DEF Ops
  <2> QED
    BY <2>1, <2>2
<1>7. Quiet("driver")
  BY <1>3, <1>5, <1>6 DEF Quiet
<1>8. /\ \A u \in Threads : ThreadInv(u)'
      /\ \A u \in Threads \ {"driver"} : Frame(u)
      /\ todo' = [u \in Threads |-> todo'[u]]
  <2>1. "driver" \in Threads
    OBVIOUS
  <2> QED
    BY <1>7, <2>1, QuietThreads
<1>9. Live("driver")' = D
  BY <1>2, <1>3 DEF Live
<1>10. Destroys(todo["driver"], Live("driver"))' /\ WithCqs(Live("driver"))'
  BY <1>3, <1>4, <1>5, <1>9, DestroysNext DEF WithCqs
<1>11. DriverInv'
  BY <1>3, <1>10 DEF DriverInv
<1>12. LifeInv'
  BY <1>3, <1>8 DEF HostInv, LifeInv
<1> QED
  BY <1>3, <1>8, <1>11, <1>12, Alone

(* The steps that change no list.                                          *)
LEMMA LifeKeeps ==
    ASSUME HostInv, IInv,
           \/ AppleBceRemove \/ QueuesGone \/ TimestampStop \/ Unmap \/ SendTimestamp
    PROVE  HostInv'
<1>1. UNCHANGED <<mem, pc, cur, todo, field, started>>
  BY DEF AppleBceRemove, StartRemoval, QueuesGone, TimestampStop, Unmap, SendTimestamp, regVars,
         driverVars, threadVars
<1>2. \A u \in Threads : Frame(u) /\ ThreadInv(u)'
  BY <1>1, ThreadFrame DEF Frame
<1>3. HubInv' /\ AudioInv'
  BY <1>1, <1>2, HubFrame, AudioFrame DEF HostInv
<1>4. Live("driver")' = Live("driver") /\ (field \cap Own("driver"))' = field \cap Own("driver")
  BY <1>2, LiveFrame
<1>5. DriverInv' /\ LifeInv'
  <2>1. CASE AppleBceRemove
    <3>1. life = "bound" /\ life' = "removing" /\ UNCHANGED <<timer, mapped>>
      BY <2>1 DEF AppleBceRemove
    <3> QED
      BY <1>1, <1>4, <3>1 DEF HostInv, DriverInv, LifeInv, WithCqs
  <2>2. CASE QueuesGone
    <3>1. /\ life = "destroying" /\ life' = "closing" /\ todo["driver"] = << >>
          /\ UNCHANGED <<timer, mapped>>
      BY <2>2 DEF QueuesGone, Finished
    <3>2. Destroys(<< >>, Live("driver"))
      BY <3>1 DEF HostInv, DriverInv
    <3>3. Live("driver") = {}
      BY <3>2 DEF Destroys
    <3> QED
      BY <1>1, <1>4, <3>1, <3>3 DEF HostInv, DriverInv, LifeInv
  <2>3. CASE TimestampStop
    <3>1. life = "closing" /\ life' = "stopped" /\ timer' = "off" /\ UNCHANGED mapped
      BY <2>3 DEF TimestampStop
    <3> QED
      BY <1>1, <1>4, <3>1 DEF HostInv, DriverInv, LifeInv
  <2>4. CASE Unmap
    <3>1. life = "stopped" /\ life' = "gone" /\ mapped' = FALSE /\ UNCHANGED timer
      BY <2>4 DEF Unmap
    <3> QED
      BY <1>1, <1>4, <3>1 DEF HostInv, DriverInv, LifeInv
  <2>5. CASE SendTimestamp
    <3>1. /\ timer \in {"armed", "running"} /\ timer' \in {"armed", "running"}
          /\ UNCHANGED <<life, mapped>>
      BY <2>5 DEF SendTimestamp
    <3>2. DriverInv'
      BY <1>2, <3>1, DriverFrame DEF HostInv
    <3> QED
      BY <1>1, <3>1, <3>2 DEF HostInv, LifeInv
  <2> QED
    BY <2>1, <2>2, <2>3, <2>4, <2>5
<1> QED
  BY <1>2, <1>3, <1>5 DEF HostInv

(* The invariant holds at first and is kept by every step.                 *)
LEMMA InitHostInv == HostInit => HostInv
<1> SUFFICES ASSUME HostInit PROVE HostInv
  OBVIOUS
<1>1. /\ life = "probing" /\ todo = [t \in Threads |-> << >>] /\ field = {} /\ timer = "armed"
      /\ mapped = TRUE /\ started = {} /\ mem = [q \in Queues |-> "none"]
      /\ pc = [t \in Threads |-> "idle"]
  BY DEF HostInit, Init
<1>2. \A t \in Threads : ThreadInv(t)
  BY <1>1 DEF ThreadInv
<1>3. \A t \in Threads : CqStays(t) /\ Live(t) = {}
  BY <1>1, Kinds3 DEF CqStays, Live
<1>4. DriverInv
  BY <1>1, <1>3 DEF DriverInv
<1>5. HubInv
  BY <1>1, <1>3 DEF HubInv
<1>6. AudioInv
  BY <1>1, <1>3 DEF AudioInv
<1>7. LifeInv
  BY <1>1 DEF LifeInv
<1> QED
  BY <1>2, <1>4, <1>5, <1>6, <1>7 DEF HostInv

LEMMA SameHostInv ==
    ASSUME HostInv, IInv, UNCHANGED vars
    PROVE  HostInv'
<1> USE DEF vars, hostVars, regVars, driverVars, threadVars
<1>1. \A t \in Threads : Frame(t)
  BY DEF Frame
<1>2. \A t \in Threads : ThreadInv(t)'
  BY <1>1, ThreadFrame
<1>3. DriverInv' /\ HubInv' /\ AudioInv'
  BY <1>1, DriverFrame, HubFrame, AudioFrame DEF HostInv
<1>4. LifeInv'
  BY DEF HostInv, LifeInv
<1> QED
  BY <1>2, <1>3, <1>4 DEF HostInv

LEMMA StepHostInv ==
    ASSUME IInv, HostInv, [HostNext]_vars
    PROVE  HostInv'
<1>1. CASE UNCHANGED vars
  BY <1>1, SameHostInv
<1>2. ASSUME NEW t \in Threads, CreateStep(t)
      PROVE  HostInv'
  <2>1. CASE /\ Op(t)[1] = "create" /\ ~CqMissing(Op(t)[2])
             /\ \E i \in Qids : LowestFree(i) /\ Get(t, Op(t)[2], i)
             /\ UNCHANGED hostVars
    BY <2>1, GetKeeps
  <2>2. CASE Register(t) /\ UNCHANGED hostVars
    BY <2>2, RegisterKeeps
  <2>3. CASE /\ Store(t)
             /\ field' = field \cup {cur[t]}
             /\ Become(t, Tail(todo[t]))
             /\ UNCHANGED <<life, timer, mapped, started>>
    BY <2>3, StoreKeeps
  <2> QED
    BY <1>2, <2>1, <2>2, <2>3 DEF CreateStep
<1>3. ASSUME NEW t \in Threads, DestroyStep(t)
      PROVE  HostInv'
  <2>1. CASE Op(t)[1] = "destroy" /\ Unregister(t, Op(t)[2]) /\ UNCHANGED hostVars
    BY <2>1, UnregisterKeeps
  <2>2. CASE /\ Release(t)
             /\ Become(t, Tail(todo[t]))
             /\ UNCHANGED <<life, field, timer, mapped, started>>
    BY <2>2, ReleaseKeeps
  <2>3. CASE Free(t) /\ UNCHANGED hostVars
    BY <2>3, FreeKeeps
  <2> QED
    BY <1>3, <2>1, <2>2, <2>3 DEF DestroyStep
<1>4. ASSUME NEW t \in Threads,
             DmaStep(t) \/ AddStep(t) \/ CreateFails(t) \/ OtherFails(t)
      PROVE  HostInv'
  BY <1>4, DmaKeeps, AddKeeps, CreateFailsKeeps, OtherFailsKeeps
<1>5. CASE Handshake \/ AudioProbe \/ EnableDevice \/ RemoveHcd
  BY <1>5, HandshakeKeeps, AudioProbeKeeps, EnableDeviceKeeps, RemoveHcdKeeps
<1>6. CASE AppleBceRemove \/ QueuesGone \/ TimestampStop \/ Unmap \/ SendTimestamp
  BY <1>6, LifeKeeps
<1> QED
  BY <1>1, <1>2, <1>3, <1>4, <1>5, <1>6 DEF HostNext

(* While bce_vhci_create, the probe of the audio device and the hub thread *)
(* create, fail and destroy side by side, each one's list agrees with the  *)
(* queues there are.                                                       *)
THEOREM HostInvariant == Spec => [](IInv /\ HostInv)
<1>1. HostInit => IInv /\ HostInv
  BY InitIInv, InitHostInv DEF HostInit
<1>2. IInv /\ HostInv /\ [HostNext]_vars => (IInv /\ HostInv)'
  BY StepImplements, StepIInv, StepHostInv
<1> QED
  BY <1>1, <1>2, PTL DEF Spec

(* Probe, error paths and removal are clients of the registry that keep to *)
(* its rules: no thread destroys a queue that another has in hand.         *)
THEOREM HostImplementsRegistry == Spec => ImplementsRegistry
<1>1. HostInit => Init
  BY DEF HostInit
<1>2. IInv /\ HostInv /\ [HostNext]_vars => [RegNext]_regVars
  BY StepImplements
<1> QED
  BY <1>1, <1>2, HostInvariant, PTL DEF Spec, RegSpec, ImplementsRegistry

(* The types: a thread destroys, and gets buffers for, only queues.        *)
THEOREM HostTypes == Spec => []HostTypeOK
<1>1. IInv /\ HostInv => HostTypeOK
  <2> SUFFICES ASSUME IInv, HostInv PROVE HostTypeOK
    OBVIOUS
  <2>1. PICK S : S = {"create", "dma", "add", "destroy"} \X (Queues \cup {Hcd})
    OBVIOUS
  <2>2. \A t \in Threads : Ops(t) \subseteq S
    BY <2>1, Kinds3 DEF Ops, Add
  <2>3. \A t \in Threads : todo[t] \in Seq(S)
    BY <2>2 DEF HostInv, ThreadInv
  <2>4. todo \in [Threads -> Seq(S)]
    BY <2>3 DEF HostInv, LifeInv
  <2> QED
    BY <2>1, <2>4 DEF HostTypeOK, IInv, HostInv, LifeInv
<1> QED
  BY <1>1, HostInvariant, PTL

(* bce_vhci_destroy_event_queues, bce_vhci_destroy_message_queues and the  *)
(* error paths before them never come across a queue that is gone already. *)
THEOREM QueuesDestroyedOnce == Spec => []DestroyedOnce
<1>1. IInv /\ HostInv => DestroyedOnce
  <2> SUFFICES ASSUME IInv, HostInv, NEW t \in Threads, Op(t)[1] = "destroy"
               PROVE  mem[Op(t)[2]] = "live"
    BY DEF DestroyedOnce
  <2>1. todo[t] # << >> /\ Op(t) = Head(todo[t])
    BY Starts
  <2>2. CASE t = "driver"
    <3>1. life \in {"failed", "destroying"}
      BY <2>1, <2>2, DriverDestroys
    <3>2. todo["driver"] \in Seq({"destroy"} \X Live("driver"))
      BY <3>1 DEF HostInv, DriverInv, Destroys
    <3>3. Head(todo["driver"]) \in {"destroy"} \X Live("driver")
      BY <2>1, <2>2, <3>2
    <3> QED
      BY <2>1, <2>2, <3>3 DEF Live
  <2>3. CASE t = "hub"
    <3>1. Head(todo["hub"]) \in {"create"} \X Own("hub")
      BY <2>1, <2>3 DEF HostInv, HubInv
    <3> QED
      BY <2>1, <2>3, <3>1
  <2>4. CASE t = "audio"
    <3>1. PICK q \in {Audio("in"), Audio("out")} : /\ todo["audio"] = <<Destroy(q)>>
                                                   /\ mem[q] = "live"
      BY <2>1, <2>4, AudioDestroys
    <3>2. Head(todo["audio"]) = Destroy(q)
      BY <3>1
    <3> QED
      BY <2>1, <2>4, <3>1, <3>2 DEF Destroy
  <2> QED
    BY <2>2, <2>3, <2>4
<1> QED
  BY <1>1, HostInvariant, PTL

(* A queue that exists has its completion queue.                           *)
LEMMA CqThere ==
    ASSUME IInv, HostInv, NEW q \in Queues, mem[q] = "live"
    PROVE  mem[Cq(q)] = "live"
<1>1. PICK t \in Threads : q \in Own(t)
  BY Kinds3
<1>2. CASE t = "driver"
  <2>1. q \in Live("driver")
    BY <1>1, <1>2 DEF Live
  <2>2. CASE life = "creating"
    <3>1. PICK n : At(n)
      BY <2>2, CreatingAt DEF HostInv, DriverInv
    <3>2. Created(n)
      BY <3>1 DEF At
    <3>3. CASE q \in field
      <4>1. Cq(q) \in field /\ Cq(q) \in Own("driver")
        BY <1>1, <1>2, <3>1, <3>3, CreatedCqs DEF WithCqs
      <4> QED
        BY <3>2, <4>1 DEF Created
    <3>4. CASE q \notin field
      <4>1. cur["driver"] = q
        BY <1>1, <1>2, <3>2, <3>4 DEF Created
      <4>2. pc["driver"] \notin {"idle", "free"}
        BY <4>1 DEF IInv, HandInv
      <4>3. Head(todo["driver"]) = Create(q) \/ Head(todo["driver"]) = Destroy(q)
        <5>1. "driver" \in Threads
          OBVIOUS
        <5> QED
          BY <4>1, <4>2, <5>1, HoldsOwn
      <4>4. Head(todo["driver"]) # Destroy(q)
        <5>1. \A a \in 1..Len(CreateVhci) : CreateVhci[a] # Destroy(q)
          <6>1. SUFFICES ASSUME NEW a \in 1..Len(CreateVhci) PROVE CreateVhci[a] # Destroy(q)
            OBVIOUS
          <6>2. CreateVhci[a] = Add \/ \E p \in Own("driver") :
                   CreateVhci[a] = Create(p) \/ CreateVhci[a] = Dma(p)
            BY CreateFacts
          <6> QED
            BY <6>2, OpNames
        <5> QED
          BY <3>1, <5>1 DEF At
      <4>5. CreateVhci[n] = Create(q)
        BY <3>1, <4>3, <4>4 DEF At
      <4>6. q # Cq(q) => Cq(q) \in field /\ Cq(q) \in Own("driver")
        BY <1>1, <1>2, <3>1, <4>5, CreatedCqs, Kinds3
      <4> QED
        BY <3>2, <4>6 DEF Created
    <3> QED
      BY <3>3, <3>4
  <2>3. CASE life # "creating"
    <3>1. WithCqs(Live("driver"))
      BY <2>1, <2>3 DEF HostInv, DriverInv, LifeInv
    <3> QED
      BY <2>1, <3>1 DEF WithCqs, Live
  <2> QED
    BY <2>2, <2>3
<1>3. CASE t \in {"hub", "audio"}
  <2>1. CqStays(t)
    BY <1>3 DEF HostInv, HubInv, AudioInv
  <2>2. Cq(q) \in Own(t) /\ Cq(Cq(q)) = Cq(q)
    BY <1>1, Kinds3
  <2> QED
    BY <1>1, <2>1, <2>2 DEF CqStays
<1> QED
  BY <1>2, <1>3

(* On every path a completion queue is created before, and destroyed       *)
(* after, the submission queues whose completions go there.                *)
THEOREM CompletionsHaveAPlace == Spec => []CqOutlivesSq
<1>1. IInv /\ HostInv => CqOutlivesSq
  <2> SUFFICES ASSUME IInv, HostInv, NEW q \in Queues, NEW i \in Qids, registered[i] = q,
                      q \notin kept
               PROVE  mem[Cq(q)] = "live"
    BY DEF CqOutlivesSq
  <2>1. mem[q] = "live"
    BY DEF IInv, DeviceInv, RegisteredIsLive
  <2> QED
    BY <2>1, CqThere
<1> QED
  BY <1>1, HostInvariant, PTL

(* When bce_vhci_create has failed, at whichever queue and step, none of   *)
(* its queues is left.                                                     *)
THEOREM FailureIsClean == Spec => []CleanFailure
<1>1. IInv /\ HostInv => CleanFailure
  <2> SUFFICES ASSUME IInv, HostInv, life = "failed", Finished("driver"),
                      NEW q \in Queues, q[1] \in {"msg", "ev"}
               PROVE  /\ mem[q] \in {"none", "freed"}
                      /\ (\E i \in Qids : registered[i] = q) => q \in kept
    BY DEF CleanFailure
  <2>0. "driver" \in Threads /\ q \in Own("driver") /\ pc["driver"] = "idle"
        /\ todo["driver"] = << >>
    BY DEF Own, Kinds, Finished
  <2>1. Destroys(<< >>, Live("driver"))
    BY <2>0 DEF HostInv, DriverInv
  <2>2. Live("driver") = {}
    BY <2>1 DEF Destroys
  <2>3. mem[q] # "live"
    BY <2>2 DEF Live, Own, Kinds
  <2>4. mem[q] # "released"
    <3>1. ASSUME NEW t \in Threads, cur[t] = q
          PROVE  FALSE
      <4>1. ~Busy(q)
        BY <2>0, NotBusy
      <4> QED
        BY <3>1, <4>1 DEF Busy
    <3> QED
      BY <3>1 DEF IInv, HandInv
  <2>5. mem[q] \in {"none", "freed"}
    BY <2>3, <2>4 DEF IInv, TypeOK
  <2> QED
    BY <2>3, <2>5 DEF IInv, DeviceInv, RegisteredIsLive
<1> QED
  BY <1>1, HostInvariant, PTL

(* bc_send_timestamp runs only before pci_iounmap: bce_timestamp_stop has  *)
(* waited for it.                                                          *)
THEOREM TimerRegistersMapped == Spec => []RegistersMapped
<1>1. HostInv => RegistersMapped
  BY DEF HostInv, LifeInv, RegistersMapped
<1> QED
  BY <1>1, HostInvariant, PTL

(* By the refinement, the theorems of the registry hold of the driver.     *)
THEOREM HostQueuesAreFound == Spec => [](LiveIsRegistered /\ RegisteredIsLive /\ IdsAccounted)
BY HostImplementsRegistry, LiveQueuesAreFound, NoFreedQueueInUse, NoIdLost, PTL
   DEF ImplementsRegistry
=============================================================================
